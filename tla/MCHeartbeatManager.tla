------------------------- MODULE MCHeartbeatManager -------------------------
(* Instances of HeartbeatManager for TLC.                                  *)
EXTENDS HeartbeatManager, TLC

CONSTANTS s1, s2, i1, i2, u1, u2, x1, x2, x3

Provide(s, i, interval) ==
  [service |-> s, instance |-> i, interval |-> interval]

(* Every instance is registered for one service, with heartbeats.          *)
AllChecked == {Provide(s1, i, 1) : i \in Instances}

(* One host and port is registered for two services with heartbeats, and   *)
(* for one of them without.                                                *)
Mixed == {Provide(s1, i1, 1), Provide(s2, i1, 1), Provide(s1, i1, 0)}

(* Two services at one host and port.                                      *)
Shared == {Provide(s1, i1, 1), Provide(s2, i1, 1)}

(* Users and series are interchangeable; services and instances are not,   *)
(* for they are not all registered in the same ways.                       *)
Symmetry == Permutations(Users) \cup Permutations(Series)
=============================================================================
