---------------------------- MODULE SessionLife ----------------------------
(***************************************************************************)
(* What a relay promises about one terminal session, without sockets,       *)
(* agents or locks: a key is minted, then it is claimed by exactly one tab  *)
(* or becomes void; the tab's session is attached at most once, and once it *)
(* has ended it stays ended, whatever ended it.  The Go broker (BrokerLife) *)
(* and the Worker (FleetLife) implement this specification.                 *)
(***************************************************************************)
CONSTANTS Sids, Tabs

VARIABLES stage,    \* how far the session of each sid has come
          holder    \* the tabs that have claimed each sid

lifeVars == <<stage, holder>>

LifeInit ==
    /\ stage = [sid \in Sids |-> "unminted"]
    /\ holder = [sid \in Sids |-> {}]

Move(sid, from, to) == stage[sid] = from /\ stage' = [stage EXCEPT ![sid] = to]

MintKey(sid) == Move(sid, "unminted", "pending") /\ UNCHANGED holder

VoidKey(sid) == Move(sid, "pending", "void") /\ UNCHANGED holder

Claim(sid, t) ==
    /\ Move(sid, "pending", "claimed")
    /\ holder[sid] = {} /\ \A other \in Sids : t \notin holder[other]
    /\ holder' = [holder EXCEPT ![sid] = {t}]

Attach(sid) == Move(sid, "claimed", "attached") /\ UNCHANGED holder

\* The handshake failed after the key was spent.
Burn(sid) == Move(sid, "claimed", "ended") /\ UNCHANGED holder

\* One event may end several sessions: the loss of the agent they share, or a
\* crash, which takes a claimed one with it.
End(S) ==
    /\ S # {} /\ \A sid \in S : stage[sid] \in {"claimed", "attached"}
    /\ stage' = [sid \in Sids |-> IF sid \in S THEN "ended" ELSE stage[sid]]
    /\ UNCHANGED holder

LifeNext ==
    \/ \E sid \in Sids :
          \/ MintKey(sid) \/ VoidKey(sid) \/ Attach(sid) \/ Burn(sid)
          \/ \E t \in Tabs : Claim(sid, t)
    \/ \E S \in SUBSET Sids : End(S)

LifeSpec == LifeInit /\ [][LifeNext]_lifeVars

\* A key does not stay pending, and a claimed session does not stay claimed.
LifeFairness ==
    \A sid \in Sids : WF_lifeVars(VoidKey(sid)) /\ WF_lifeVars(Attach(sid) \/ Burn(sid))

FairLifeSpec == LifeSpec /\ LifeFairness
=============================================================================
