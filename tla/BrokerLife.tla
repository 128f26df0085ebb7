----------------------------- MODULE BrokerLife -----------------------------
(* Broker implements SessionLife: how far a session has come is read off    *)
(* b.pend, b.sess and the state of the wsTerm handler that holds its sid.    *)
EXTENDS Broker

Holder(sid) == {t \in Tabs : tsid[t] = sid}

Stage(sid) ==
    CASE kpc[sid] # "minted" -> "unminted"
      [] kpc[sid] = "minted" /\ pend[sid] # nil
            -> IF pend[sid].expired THEN "void" ELSE "pending"
      [] kpc[sid] = "minted" /\ pend[sid] = nil /\ Holder(sid) = {} -> "void"
      [] kpc[sid] = "minted" /\ pend[sid] = nil /\ Holder(sid) # {}
            -> IF sess[sid] # nil THEN "attached"
               ELSE IF \E t \in Holder(sid) : tpc[t] = "claimed" THEN "claimed"
               ELSE "ended"

Life == INSTANCE SessionLife
        WITH stage <- [sid \in Sids |-> Stage(sid)],
             holder <- [sid \in Sids |-> Holder(sid)]

(* Every step of the relay is a step of the session's life or none at all:  *)
(* no interleaving of upgrades, sweeps, agent losses, exits and revocations *)
(* claims a key twice, revives an ended session or attaches an expired key; *)
(* and keys and claims do not hang.                                         *)
(* (wsTerm, apiTerm, sweep, dropAgent, endSession of broker.go.)            *)
ImplementsFairLife == Life!FairLifeSpec
=============================================================================
