------------------------------ MODULE MCStore ------------------------------
(* Store with two machines, one label and one reading of the clock.   *)
EXTENDS Store

CONSTANTS m1, m2, label, t1
=============================================================================
