--------------------------- MODULE MCWatchManager ---------------------------
(* Instances of WatchManager for TLC.                                      *)
EXTENDS WatchManager, TLC

CONSTANTS s1, s2, u1, u2, x1, x2, x3, instances, inbound, outbound

(* The policy of a service has its instances and the rules of one source   *)
(* name each way, of which the inbound ones are no longer in the answer    *)
(* from revision 1 on.                                                     *)
MCTable == instances :> "instances" @@ inbound :> "inbounds"
             @@ outbound :> "outbounds"

MCListed == [r \in Revisions |-> IF r = 0 THEN {inbound, outbound}
                                          ELSE {outbound}]

(* Services, users and series are interchangeable.                         *)
Symmetry == Permutations(Services) \cup Permutations(Users)
              \cup Permutations(Series)
=============================================================================
