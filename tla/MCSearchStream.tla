---------------------------- MODULE MCSearchStream ----------------------------
(* Instances of SearchStream for TLC.  MCListing: two cities that share an Id, one of     *)
(* which has two entries without one.  RadiusListing: all that the search of the city     *)
(* asked for sends fits into the channel to the handler, and so do the properties of the  *)
(* other city, but not those of both.                                                     *)
EXTENDS SearchStream

CONSTANTS p1, p2, p3, q1, q2, q3, peoria, pekin

MCListing == peoria :> <<p1, p2, p3>> @@ pekin :> <<q1>>
MCId      == p1 :> 1 @@ p2 :> 0 @@ p3 :> 0 @@ q1 :> 1

RadiusListing == peoria :> <<p1>> @@ pekin :> <<q1, q2, q3>>
RadiusId      == p1 :> 1 @@ q1 :> 2 @@ q2 :> 3 @@ q3 :> 4
===============================================================================
