------------------------------- MODULE MCPool2 -------------------------------
(* Instances of WorkerPool with two jobs, plan p and market analysis m of equal
   priority, with two subscribers and a scheduler. *)
EXTENDS WorkerPool, TLC

CONSTANTS p, m, none, ch1, ch2

MCPriority2 == (p :> 0) @@ (m :> 0)
MCCreatedAt2 == (p :> 1) @@ (m :> 2)
===============================================================================
