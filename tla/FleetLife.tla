----------------------------- MODULE FleetLife -----------------------------
(* Fleet implements SessionLife, the specification the Go broker implements *)
(* too (BrokerLife): how far a session has come is read off its pend row    *)
(* and the upgrade that holds its sid.                                      *)
EXTENDS Fleet

Holder(sid) == {t \in Tabs : tsid[t] = sid /\ tmid[t] # nil}

\* Some call stored a key for sid.
Stored(sid) == \E c \in Calls : csid[c] = sid /\ cpc[c] \in {"stored", "done", "unanswered"}

Stage(sid) ==
    CASE \E t \in Holder(sid) : tpc[t] = "claimed" -> "claimed"
      [] \E t \in Holder(sid) : tlink[t] = "open" -> "attached"
      [] Holder(sid) # {} /\ (\A t \in Holder(sid) : tpc[t] = "done" /\ tlink[t] # "open") -> "ended"
      [] Holder(sid) = {} /\ pend[sid] # nil -> IF pend[sid].key \in expired THEN "void" ELSE "pending"
      [] Holder(sid) = {} /\ pend[sid] = nil -> IF Stored(sid) THEN "void" ELSE "unminted"

Life == INSTANCE SessionLife
        WITH stage <- [sid \in Sids |-> Stage(sid)],
             holder <- [sid \in Sids |-> Holder(sid)]

(* Every step of the Worker's relay is a step of the session's life or none *)
(* at all: repeated minting, upgrades, sweeps, agent losses and restarts    *)
(* never claim a sid twice, revive a session or a void key, or attach one   *)
(* that was not claimed.  (fleet.js:141-175, 201-229, 363-384.)             *)
ImplementsLife == Life!LifeSpec
=============================================================================
