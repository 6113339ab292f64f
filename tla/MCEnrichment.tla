------------------------------ MODULE MCEnrichment -----------------------------
(* Instances of Enrichment for TLC. *)
EXTENDS Enrichment

CONSTANTS p1, p2, s1, s2
===============================================================================
