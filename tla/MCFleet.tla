------------------------------ MODULE MCFleet ------------------------------
(* Fleet on a few machines, sockets, tabs and keys.                          *)
EXTENDS FleetLife, TLC

CONSTANTS m1, m2, a1, a2, t1, t2, s1, s2, c1, c2

\* For runs without liveness only.
Interchangeable ==
    Permutations(Agents) \cup Permutations(Tabs) \cup Permutations(Sids) \cup Permutations(Calls)
=============================================================================
