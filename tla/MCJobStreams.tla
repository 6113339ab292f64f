----------------------------- MODULE MCJobStreams -----------------------------
(* Instances of JobStreams for TLC: a plan p and a memo or market analysis m.  In
   stream_watch each is watched by a request; in stream_chat two chat requests are
   opened with the id of m, and p is left to its worker. *)
EXTENDS JobStreams, TLC

CONSTANTS p, m, none, s1, s2

MCChat == [s \in Streams |-> "chat"]
MCChatted == [s \in Streams |-> m]
MCMixed == (s1 :> "plan") @@ (s2 :> "memo")
MCWatched == (s1 :> p) @@ (s2 :> m)
MCPriority == [j \in Jobs |-> 0]
MCCreatedAt == (p :> 1) @@ (m :> 2)
MCAlike == Permutations(Streams)
===============================================================================
