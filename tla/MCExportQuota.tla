----------------------------- MODULE MCExportQuota ----------------------------
(* An instance of ExportQuota for TLC. *)
EXTENDS ExportQuota, TLC

CONSTANTS r1, r2, r3, e1, e2, e3

QuotaSymmetry == Permutations({r1, r2, r3}) \cup Permutations({e1, e2, e3})
===============================================================================
