------------------------------ MODULE MCBroker ------------------------------
(* Broker on a few machines, sockets, tabs and keys.                         *)
EXTENDS BrokerLife, TLC

CONSTANTS m1, m2, a1, a2, t1, t2, s1, s2

\* Tabs and sids are interchangeable, and so are agent conns.  For the runs
\* without liveness only.
Interchangeable ==
    Permutations(AgentConns) \cup Permutations(Tabs) \cup Permutations(Sids)

\* The session of t has been claimed, and its agent a waits for frames.
Claimed(t, a) ==
    /\ tpc[t] = "claimed" /\ tac[t] = a /\ agents[tmid[t]] = a
    /\ Serving(a) /\ out[a] = <<>>

\* A bound for the run with liveness: a2 connects only to replace an agent
\* that serves and whose session is about to be registered, and from then on
\* only the replaced agent sends: the tab and a2 do not, and nobody DELETEs.
\* No step with a fairness condition is held back.
SuccessorIsLate ==
    /\ apc[a2] = "new" /\ apc'[a2] # "new"
          => apc'[a2] = "known" /\ Claimed(t1, a1) /\ dpc[m1] = "idle"
    /\ apc[a2] # "new"
          => /\ UNCHANGED dpc
             /\ ~ \E t \in Tabs : Input(t)
             /\ ~ \E sid \in Sids :
                     AgentOut(a2, sid) \/ \E kind \in {"exit", "err"} : AgentEnd(a2, sid, kind)
=============================================================================
