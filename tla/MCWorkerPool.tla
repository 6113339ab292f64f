----------------------------- MODULE MCWorkerPool -----------------------------
(* Instances of WorkerPool for TLC: four jobs, of which plan p is the most
   urgent, market analyses m and d and chat c tie in priority. *)
EXTENDS WorkerPool, TLC

CONSTANTS p, m, c, d, none

MCPriority == (p :> 1) @@ [j \in {m, c, d} |-> 0]
MCCreatedAt == (p :> 3) @@ (m :> 1) @@ (c :> 2) @@ (d :> 4)
===============================================================================
