---------------------------- MODULE MCPolarisTask ----------------------------
(* Instances of PolarisTask for TLC.                                       *)
EXTENDS PolarisTask

CONSTANTS t1, t2, a, b

One == {[namespace |-> <<a>>, name |-> <<b>>]}
=============================================================================
