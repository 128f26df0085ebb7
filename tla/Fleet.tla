------------------------------- MODULE Fleet -------------------------------
(***************************************************************************)
(* The relay of worker/src/fleet.js, a Durable Object: one object handles   *)
(* every event, its code runs without interruption between two awaits, and  *)
(* what it must remember is in storage rows and in socket attachments.      *)
(*                                                                          *)
(* The platform (external) is modelled by what it promises.  While a        *)
(* storage operation is outstanding no new event is delivered (the input    *)
(* gate, Gate); a storage operation takes effect when it is issued; other   *)
(* awaits let events in, request.json() always, crypto.subtle.digest only   *)
(* when DigestYields.  A socket the object closed stays listed, and may     *)
(* still deliver a frame, until its peer is gone.  The object may be        *)
(* restarted at any time: its sockets and the handlers under way are lost,  *)
(* its rows and its alarm are not.                                          *)
(*                                                                          *)
(* Terminal data and the rows' text fields are left out: relaying "in",     *)
(* "out" and "resize" changes nothing the object keeps.                     *)
(***************************************************************************)
EXTENDS Naturals, FiniteSets

CONSTANTS Machines,     \* ids and tokens that POST /api/tokens makes
          Agents,       \* agent sockets, one per connection
          Tabs,         \* browser upgrade requests, one socket each
          Sids,         \* session ids
          Calls,        \* POST .../term requests; each makes one key, named after it
          Revocable,    \* the machines the operator may DELETE, a bound for TLC
          MaxRestarts,  \* a bound for TLC
          DigestYields, \* whether events are delivered during a digest
          nil

ASSUME FleetAssumption ==
    /\ MaxRestarts \in Nat /\ DigestYields \in BOOLEAN /\ Revocable \subseteq Machines
    /\ nil \notin Machines \cup Agents \cup Tabs \cup Sids \cup Calls

ASSUME RowsAssumption == nil \notin [key : Calls, mid : Machines]

VARIABLES
    born, machineRow, tokRow,   \* POST /api/tokens answered; rows "machine:", "tok:"
    pend,                       \* rows "pend:", nil where there is none
    expired,                    \* keys whose exp has passed
    alarm,                      \* whether the alarm is set
    alink, akind, amid,         \* agent sockets: link, attachment, machine of the token
    apc, agot,                  \* hello and reap: where they are, the machine row they got
    overdue,                    \* agent sockets past HELLO_MS or DEAD_MS
    runs,                       \* the sids an agent was told to open and not to close
    tlink, tpc, tsid, tmid,     \* browser sockets and upgradeTerm
    tkey, tgot,                 \* the key in the URL, the pend row that was read
    cpc, cmid, csid,            \* POST .../term
    dpc,                        \* DELETE, per machine
    lpc, lgot, llive,           \* alarm(): where it is, the row it got, live
    restarts, cut               \* restarts so far; one hit a call between put and armAlarm

rowVars == <<born, machineRow, tokRow>>
keyVars == <<pend, expired>>
agentVars == <<alink, akind, amid, apc, agot, overdue, runs>>
tabVars == <<tlink, tpc, tsid, tmid, tkey, tgot>>
callVars == <<cpc, cmid, csid>>
alarmVars == <<alarm, lpc, lgot, llive>>
restartVars == <<restarts, cut>>
vars == <<rowVars, keyVars, agentVars, tabVars, callVars, dpc, alarmVars, restartVars>>

Listed(link) == link \in {"open", "shut"}
Shut(link) == IF link = "open" THEN "shut" ELSE link

---------------------------------------------------------------------------
(* The input gate.                                                          *)

\* Handlers with a storage operation outstanding.
Storing ==
    {a \in Agents : apc[a] \in {"known", "entered", "reaping"}}
    \cup {t \in Tabs : tpc[t] = "claimed"}
    \cup {c \in Calls : cpc[c] = "stored"}
    \cup {m \in Machines : dpc[m] = "deleted"}
    \cup (IF lpc = "idle" THEN {} ELSE {"alarm"})

\* Handlers that wait for a digest.
Digesting ==
    {a \in Agents : apc[a] = "digest"} \cup {t \in Tabs : tpc[t] = "digest"}
    \cup {c \in Calls : cpc[c] = "digest"}

\* Mutant of Gate: reads with {allowConcurrency: true}.
GateOpen == TRUE

\* A new event may be delivered, the clock move.
Gate == Storing = {} /\ (DigestYields \/ Digesting = {})

\* The digest handler h waits for may come back.
Digested(h) == h \in Digesting /\ Storing = {} /\ (DigestYields \/ Digesting = {h})

---------------------------------------------------------------------------
(* Socket lookups.                                                          *)

\* Whether agentSocket(m) finds a.
Registered(a, m) == Listed(alink[a]) /\ akind[a] = "agent" /\ amid[a] = m

Offline(m) == \A a \in Agents : ~Registered(a, m)

\* termSockets(m) told that their session is over, and closed.
EndTabs(m) == [t \in Tabs |-> IF tmid[t] = m THEN Shut(tlink[t]) ELSE tlink[t]]

\* Mutant of DropAgent: its sessions are forgotten.
DropAgentForgetsTabs(a) ==
    /\ tlink' = tlink
    /\ akind' = [akind EXCEPT ![a] = "replaced"]
    /\ alink' = [alink EXCEPT ![a] = Shut(@)]

DropAgent(a) ==
    /\ tlink' = EndTabs(amid[a])
    /\ akind' = [akind EXCEPT ![a] = "replaced"]
    /\ alink' = [alink EXCEPT ![a] = Shut(@)]

\* The storage.get and storage.put of a machine row that keep lastSeen.
Got(m) == IF m \in machineRow THEN m ELSE nil
Put(got) == machineRow' = IF got = nil THEN machineRow ELSE machineRow \cup {got}

---------------------------------------------------------------------------
(* Admin calls.                                                             *)

\* POST /api/tokens: both rows in one put.
Mint(m) ==
    /\ Gate /\ m \notin born
    /\ born' = born \cup {m}
    /\ machineRow' = machineRow \cup {m}
    /\ tokRow' = tokRow \cup {m}
    /\ UNCHANGED <<keyVars, agentVars, tabVars, callVars, dpc, alarmVars, restartVars>>

\* POST .../term: the machine is there; the handler waits for the body.
TermLookup(c, m) ==
    /\ Gate /\ cpc[c] = "new" /\ m \in machineRow
    /\ cpc' = [cpc EXCEPT ![c] = "body"]
    /\ cmid' = [cmid EXCEPT ![c] = m]
    /\ UNCHANGED <<rowVars, keyVars, agentVars, tabVars, csid, dpc, alarmVars, restartVars>>

\* Mutant of MayRepeat: any row for the sid will do.
MayRepeatAny(c, sid) == \E d \in Calls : csid[d] = sid /\ cpc[d] = "done"

\* The pending session that a body with {"sid"} names.
MayRepeat(c, sid) == pend[sid] # nil /\ pend[sid].mid = cmid[c] /\ pend[sid].key \notin expired

\* The body: a new sid, or one to retire the key of.
TermBody(c, sid) ==
    /\ Gate /\ cpc[c] = "body"
    /\ (\A d \in Calls : csid[d] # sid) \/ MayRepeat(c, sid)
    /\ cpc' = [cpc EXCEPT ![c] = "digest"]
    /\ csid' = [csid EXCEPT ![c] = sid]
    /\ UNCHANGED <<rowVars, keyVars, agentVars, tabVars, cmid, dpc, alarmVars, restartVars>>

TermPut(c) ==
    /\ cpc[c] = "digest" /\ Digested(c)
    /\ pend' = [pend EXCEPT ![csid[c]] = [key |-> c, mid |-> cmid[c]]]
    /\ cpc' = [cpc EXCEPT ![c] = "stored"]
    /\ UNCHANGED <<rowVars, expired, agentVars, tabVars, cmid, csid, dpc, alarmVars, restartVars>>

TermArm(c) ==
    /\ cpc[c] = "stored"
    /\ alarm' = TRUE
    /\ cpc' = [cpc EXCEPT ![c] = "done"]
    /\ UNCHANGED <<rowVars, keyVars, agentVars, tabVars, cmid, csid, dpc, lpc, lgot, llive, restartVars>>

\* DELETE: the rows, then the live socket.
Delete(m) ==
    /\ Gate /\ m \in Revocable \cap machineRow
    /\ machineRow' = machineRow \ {m}
    /\ tokRow' = tokRow \ {m}
    /\ dpc' = [dpc EXCEPT ![m] = "deleted"]
    /\ UNCHANGED <<born, keyVars, agentVars, tabVars, callVars, alarmVars, restartVars>>

\* Mutant of DeleteDrop: the rows are thought to be enough.
DeleteDropNothing(m) ==
    /\ dpc[m] = "deleted"
    /\ dpc' = [dpc EXCEPT ![m] = "done"]
    /\ UNCHANGED <<rowVars, keyVars, agentVars, tabVars, callVars, alarmVars, restartVars>>

DeleteDrop(m) ==
    /\ dpc[m] = "deleted"
    /\ dpc' = [dpc EXCEPT ![m] = "done"]
    /\ \/ Offline(m) /\ UNCHANGED <<alink, akind, tlink>>
       \/ \E a \in Agents : Registered(a, m) /\ DropAgent(a)
    /\ UNCHANGED <<rowVars, keyVars, amid, apc, agot, overdue, runs, tpc, tsid, tmid, tkey, tgot,
                   callVars, alarmVars, restartVars>>

---------------------------------------------------------------------------
(* Agent sockets.                                                           *)

\* upgradeAgent; its armAlarm is not awaited but holds the gate.
AgentConnects(a) ==
    /\ Gate /\ alink[a] = "none"
    /\ alink' = [alink EXCEPT ![a] = "open"]
    /\ akind' = [akind EXCEPT ![a] = "pending"]
    /\ apc' = [apc EXCEPT ![a] = "connected"]
    /\ alarm' = TRUE
    /\ UNCHANGED <<rowVars, keyVars, amid, agot, overdue, runs, tabVars, callVars, dpc,
                   lpc, lgot, llive, restartVars>>

\* A first frame that is a hello with the token of m; it may come late, on a
\* socket the alarm has closed.
Hello(a, m) ==
    /\ Gate /\ apc[a] = "connected" /\ Listed(alink[a])
    /\ m \in born
    /\ apc' = [apc EXCEPT ![a] = "digest"]
    /\ amid' = [amid EXCEPT ![a] = m]
    /\ UNCHANGED <<rowVars, keyVars, alink, akind, agot, overdue, runs, tabVars, callVars, dpc,
                   alarmVars, restartVars>>

\* The first frame is no hello, the token is not stored, or e2e is not set.  The
\* attachment stays pending: a frame that is under way may still be a hello.
HelloRefused(a) ==
    /\ \/ Gate /\ apc[a] = "connected" /\ alink[a] = "open"
       \/ apc[a] = "digest" /\ Digested(a)
    /\ apc' = [apc EXCEPT ![a] = "connected"]
    /\ alink' = [alink EXCEPT ![a] = Shut(@)]
    /\ amid' = [amid EXCEPT ![a] = nil]
    /\ UNCHANGED <<rowVars, keyVars, akind, agot, overdue, runs, tabVars, callVars, dpc,
                   alarmVars, restartVars>>

HelloLookup(a) ==
    /\ apc[a] = "digest" /\ Digested(a) /\ amid[a] \in tokRow
    /\ apc' = [apc EXCEPT ![a] = "known"]
    /\ UNCHANGED <<rowVars, keyVars, alink, akind, amid, agot, overdue, runs, tabVars, callVars, dpc,
                   alarmVars, restartVars>>

\* Mutant of HelloEnter: the zombie keeps its attachment.
HelloEnterKeepsOld(a) ==
    /\ apc[a] = "known"
    /\ tlink' = IF Offline(amid[a]) THEN tlink ELSE EndTabs(amid[a])
    /\ akind' = [akind EXCEPT ![a] = "agent"]
    /\ alink' = [b \in Agents |-> IF Registered(b, amid[a]) THEN "shut" ELSE alink[b]]
    /\ overdue' = overdue \ {a}
    /\ agot' = [agot EXCEPT ![a] = Got(amid[a])]
    /\ apc' = [apc EXCEPT ![a] = "entered"]
    /\ UNCHANGED <<rowVars, keyVars, amid, runs, tpc, tsid, tmid, tkey, tgot, callVars, dpc,
                   alarmVars, restartVars>>

\* The zombie is replaced and the new socket tagged without an await.
HelloEnter(a) ==
    /\ apc[a] = "known"
    /\ tlink' = IF Offline(amid[a]) THEN tlink ELSE EndTabs(amid[a])
    /\ akind' = [b \in Agents |-> IF b = a THEN "agent"
                                  ELSE IF Registered(b, amid[a]) THEN "replaced" ELSE akind[b]]
    /\ alink' = [b \in Agents |-> IF Registered(b, amid[a]) THEN "shut" ELSE alink[b]]
    /\ overdue' = overdue \ {a}
    /\ agot' = [agot EXCEPT ![a] = Got(amid[a])]
    /\ apc' = [apc EXCEPT ![a] = "entered"]
    /\ UNCHANGED <<rowVars, keyVars, amid, runs, tpc, tsid, tmid, tkey, tgot, callVars, dpc,
                   alarmVars, restartVars>>

\* The row is put back with name, version and lastSeen; armAlarm.
HelloGreet(a) ==
    /\ apc[a] = "entered"
    /\ Put(agot[a])
    /\ alarm' = TRUE
    /\ apc' = [apc EXCEPT ![a] = "done"]
    /\ agot' = [agot EXCEPT ![a] = nil]
    /\ UNCHANGED <<born, tokRow, keyVars, alink, akind, amid, overdue, runs, tabVars, callVars, dpc,
                   lpc, lgot, llive, restartVars>>

\* Mutant of OwnTab: the mid check is missing.
OwnTabAny(a, t, sid) == Listed(tlink[t]) /\ tsid[t] = sid

\* Whether t is the socket of sid and a session of a's machine.
OwnTab(a, t, sid) == Listed(tlink[t]) /\ tsid[t] = sid /\ tmid[t] = amid[a]

\* "exit" or "err" from an enrolled agent, for whatever sid it names.
AgentEnds(a, sid) ==
    /\ Gate /\ akind[a] = "agent" /\ alink[a] = "open"
    /\ sid \in runs[a] \/ \E t \in Tabs : Listed(tlink[t]) /\ tsid[t] = sid
    /\ tlink' = [t \in Tabs |-> IF OwnTab(a, t, sid) THEN Shut(tlink[t]) ELSE tlink[t]]
    /\ runs' = [runs EXCEPT ![a] = @ \ {sid}]
    /\ UNCHANGED <<rowVars, keyVars, alink, akind, amid, apc, agot, overdue, tpc, tsid, tmid, tkey,
                   tgot, callVars, dpc, alarmVars, restartVars>>

\* The socket is gone: reap.
AgentGone(a) ==
    /\ Gate /\ Listed(alink[a])
    /\ IF akind[a] = "agent"
       THEN /\ tlink' = EndTabs(amid[a])
            /\ agot' = [agot EXCEPT ![a] = Got(amid[a])]
            /\ apc' = [apc EXCEPT ![a] = "reaping"]
       ELSE UNCHANGED <<tlink, agot, apc>>
    /\ alink' = [alink EXCEPT ![a] = "gone"]
    /\ akind' = [akind EXCEPT ![a] = "replaced"]
    /\ amid' = [amid EXCEPT ![a] = IF apc[a] = "digest" THEN @ ELSE nil]
    /\ overdue' = overdue \ {a}
    /\ runs' = [runs EXCEPT ![a] = {}]
    /\ UNCHANGED <<rowVars, keyVars, tpc, tsid, tmid, tkey, tgot, callVars, dpc, alarmVars,
                   restartVars>>

ReapPut(a) ==
    /\ apc[a] = "reaping"
    /\ Put(agot[a])
    /\ apc' = [apc EXCEPT ![a] = "done"]
    /\ agot' = [agot EXCEPT ![a] = nil]
    /\ UNCHANGED <<born, tokRow, keyVars, alink, akind, amid, overdue, runs, tabVars, callVars, dpc,
                   alarmVars, restartVars>>

---------------------------------------------------------------------------
(* Browser sockets.                                                         *)

\* upgradeTerm with the key of call c, or a wrong key (nil), up to the digest.
TermUpgrade(t, sid, key) ==
    /\ Gate /\ tpc[t] = "new"
    /\ key # nil => csid[key] = sid /\ cpc[key] = "done"
    /\ tpc' = [tpc EXCEPT ![t] = "digest"]
    /\ tsid' = [tsid EXCEPT ![t] = sid]
    /\ tkey' = [tkey EXCEPT ![t] = key]
    /\ tgot' = [tgot EXCEPT ![t] = pend[sid]]
    /\ UNCHANGED <<rowVars, keyVars, agentVars, tlink, tmid, callVars, dpc, alarmVars, restartVars>>

\* The row that was read is unexpired and for this key.
Valid(t) == tgot[t] # nil /\ tgot[t].key = tkey[t] /\ tkey[t] \notin expired

TermRefused(t) ==
    /\ tpc[t] = "digest" /\ Digested(t) /\ ~Valid(t)
    /\ tpc' = [tpc EXCEPT ![t] = "refused"]
    /\ tgot' = [tgot EXCEPT ![t] = nil]
    /\ tsid' = [tsid EXCEPT ![t] = nil]
    /\ tkey' = [tkey EXCEPT ![t] = nil]
    /\ UNCHANGED <<rowVars, keyVars, agentVars, tlink, tmid, callVars, dpc, alarmVars, restartVars>>

TermClaim(t) ==
    /\ tpc[t] = "digest" /\ Digested(t) /\ Valid(t)
    /\ pend' = [pend EXCEPT ![tsid[t]] = nil]
    /\ tpc' = [tpc EXCEPT ![t] = "claimed"]
    /\ tmid' = [tmid EXCEPT ![t] = tgot[t].mid]
    /\ tgot' = [tgot EXCEPT ![t] = nil]
    /\ UNCHANGED <<rowVars, expired, agentVars, tlink, tsid, tkey, callVars, dpc, alarmVars,
                   restartVars>>

\* The socket is accepted and the agent told, or the browser that there is
\* none; a send to a socket that was closed is lost.
TermAttach(t) ==
    /\ tpc[t] = "claimed"
    /\ tpc' = [tpc EXCEPT ![t] = "done"]
    /\ \/ /\ Offline(tmid[t])
          /\ tlink' = [tlink EXCEPT ![t] = "shut"]
          /\ UNCHANGED runs
       \/ \E a \in Agents :
             /\ Registered(a, tmid[t])
             /\ tlink' = [tlink EXCEPT ![t] = "open"]
             /\ runs' = IF alink[a] = "open" THEN [runs EXCEPT ![a] = @ \cup {tsid[t]}] ELSE runs
    /\ UNCHANGED <<rowVars, keyVars, alink, akind, amid, apc, agot, overdue, tsid, tmid, tkey, tgot,
                   callVars, dpc, alarmVars, restartVars>>

\* The browser is gone: reap tells the agent of its machine to close.
TabGone(t) ==
    /\ Gate /\ Listed(tlink[t])
    /\ tlink' = [tlink EXCEPT ![t] = "gone"]
    /\ runs' = [a \in Agents |-> IF Registered(a, tmid[t]) THEN runs[a] \ {tsid[t]} ELSE runs[a]]
    /\ UNCHANGED <<rowVars, keyVars, alink, akind, amid, apc, agot, overdue, tpc, tsid, tmid, tkey,
                   tgot, callVars, dpc, alarmVars, restartVars>>

---------------------------------------------------------------------------
(* The clock.                                                               *)

\* KEY_TTL_MS passes for a key that is stored or was read.
Expire(key) ==
    /\ Gate /\ key \notin expired
    /\ \/ \E sid \in Sids : pend[sid] # nil /\ pend[sid].key = key
       \/ \E t \in Tabs : tgot[t] # nil /\ tgot[t].key = key
    /\ expired' = expired \cup {key}
    /\ UNCHANGED <<rowVars, pend, agentVars, tabVars, callVars, dpc, alarmVars, restartVars>>

\* HELLO_MS passes without a hello, DEAD_MS without a heartbeat.
Silent(a) ==
    /\ Gate /\ Listed(alink[a]) /\ akind[a] # "replaced" /\ a \notin overdue
    /\ overdue' = overdue \cup {a}
    /\ UNCHANGED <<rowVars, keyVars, alink, akind, amid, apc, agot, runs, tabVars, callVars, dpc,
                   alarmVars, restartVars>>

\* A heartbeat, absorbed by the auto-response or handled.
Heartbeat(a) ==
    /\ Gate /\ alink[a] = "open" /\ akind[a] = "agent" /\ a \in overdue
    /\ overdue' = overdue \ {a}
    /\ UNCHANGED <<rowVars, keyVars, alink, akind, amid, apc, agot, runs, tabVars, callVars, dpc,
                   alarmVars, restartVars>>

---------------------------------------------------------------------------
(* alarm().  It awaits storage only, so nothing is delivered before it ends. *)

\* Mutant of Sweeps: the comparison with exp the wrong way round.
SweepsFresh(sid) == pend[sid] # nil /\ pend[sid].key \notin expired

Sweeps(sid) == pend[sid] # nil /\ pend[sid].key \in expired

\* The rows are listed and the expired ones deleted.
AlarmFires ==
    /\ Gate /\ alarm
    /\ alarm' = FALSE
    /\ pend' = [sid \in Sids |-> IF Sweeps(sid) THEN nil ELSE pend[sid]]
    /\ llive' = \E sid \in Sids : pend[sid] # nil
    /\ lpc' = "visiting"
    /\ UNCHANGED <<rowVars, expired, agentVars, tabVars, callVars, dpc, lgot, restartVars>>

\* An enrolled socket that has been silent for DEAD_MS.
Dead(a) == Listed(alink[a]) /\ akind[a] = "agent" /\ a \in overdue

AlarmReaps(a) ==
    /\ lpc = "visiting" /\ Dead(a)
    /\ DropAgent(a)
    /\ lgot' = Got(amid[a])
    /\ lpc' = "touching"
    /\ UNCHANGED <<rowVars, keyVars, amid, apc, agot, overdue, runs, tpc, tsid, tmid, tkey, tgot,
                   callVars, dpc, alarm, llive, restartVars>>

AlarmTouches ==
    /\ lpc = "touching"
    /\ Put(lgot)
    /\ lgot' = nil
    /\ lpc' = "visiting"
    /\ UNCHANGED <<born, tokRow, keyVars, agentVars, tabVars, callVars, dpc, alarm, llive, restartVars>>

\* A socket that has not said hello in HELLO_MS.
HelloLate(a) == Listed(alink[a]) /\ akind[a] = "pending" /\ a \in overdue

\* Mutant of Alive: only keys count.
AliveKeysOnly == llive

\* What the alarm found that needs another.
Alive ==
    \/ llive
    \/ \E t \in Tabs : Listed(tlink[t])
    \/ \E a \in Agents : /\ Listed(alink[a])
                         /\ akind[a] = "agent" \/ (akind[a] = "pending" /\ a \notin overdue)

AlarmEnds ==
    /\ lpc = "visiting" /\ \A a \in Agents : ~Dead(a)
    /\ alink' = [a \in Agents |-> IF HelloLate(a) THEN "shut" ELSE alink[a]]
    /\ alarm' = Alive
    /\ llive' = FALSE
    /\ lpc' = "idle"
    /\ UNCHANGED <<rowVars, keyVars, akind, amid, apc, agot, overdue, runs, tabVars, callVars, dpc,
                   lgot, restartVars>>

---------------------------------------------------------------------------
(* The object is restarted: a deploy, a crash.  An alarm that was running   *)
(* is run again.                                                            *)
Restart ==
    /\ restarts < MaxRestarts
    /\ restarts' = restarts + 1
    /\ cut' = (cut \/ \E c \in Calls : cpc[c] = "stored")
    /\ alink' = [a \in Agents |-> IF Listed(alink[a]) THEN "gone" ELSE alink[a]]
    /\ apc' = [a \in Agents |-> IF apc[a] = "new" THEN "new" ELSE "done"]
    /\ akind' = [a \in Agents |-> IF alink[a] = "none" THEN akind[a] ELSE "replaced"]
    /\ amid' = [a \in Agents |-> nil]
    /\ agot' = [a \in Agents |-> nil]
    /\ overdue' = {}
    /\ runs' = [a \in Agents |-> {}]
    /\ tlink' = [t \in Tabs |-> IF Listed(tlink[t]) THEN "gone" ELSE tlink[t]]
    /\ tpc' = [t \in Tabs |-> CASE tpc[t] = "digest" -> "refused"
                                [] tpc[t] = "claimed" -> "done"
                                [] OTHER -> tpc[t]]
    /\ tgot' = [t \in Tabs |-> nil]
    /\ tsid' = [t \in Tabs |-> IF tpc[t] = "digest" THEN nil ELSE tsid[t]]
    /\ tkey' = [t \in Tabs |-> IF tpc[t] = "digest" THEN nil ELSE tkey[t]]
    /\ cpc' = [c \in Calls |-> CASE cpc[c] \in {"body", "digest"} -> "aborted"
                                 [] cpc[c] = "stored" -> "unanswered"
                                 [] OTHER -> cpc[c]]
    /\ dpc' = [m \in Machines |-> IF dpc[m] = "deleted" THEN "done" ELSE dpc[m]]
    /\ alarm' = (alarm \/ lpc # "idle")
    /\ lpc' = "idle" /\ lgot' = nil /\ llive' = FALSE
    /\ UNCHANGED <<rowVars, keyVars, tmid, cmid, csid>>

Init ==
    /\ born = {} /\ machineRow = {} /\ tokRow = {}
    /\ pend = [sid \in Sids |-> nil] /\ expired = {}
    /\ alarm = FALSE
    /\ alink = [a \in Agents |-> "none"] /\ akind = [a \in Agents |-> "none"]
    /\ amid = [a \in Agents |-> nil] /\ apc = [a \in Agents |-> "new"]
    /\ agot = [a \in Agents |-> nil] /\ overdue = {} /\ runs = [a \in Agents |-> {}]
    /\ tlink = [t \in Tabs |-> "none"] /\ tpc = [t \in Tabs |-> "new"]
    /\ tsid = [t \in Tabs |-> nil] /\ tmid = [t \in Tabs |-> nil]
    /\ tkey = [t \in Tabs |-> nil] /\ tgot = [t \in Tabs |-> nil]
    /\ cpc = [c \in Calls |-> "new"] /\ cmid = [c \in Calls |-> nil]
    /\ csid = [c \in Calls |-> nil]
    /\ dpc = [m \in Machines |-> "idle"]
    /\ lpc = "idle" /\ lgot = nil /\ llive = FALSE
    /\ restarts = 0 /\ cut = FALSE

AgentStep(a) ==
    \/ HelloRefused(a) \/ HelloLookup(a) \/ HelloEnter(a) \/ HelloGreet(a) \/ ReapPut(a)

TabStep(t) == TermRefused(t) \/ TermClaim(t) \/ TermAttach(t)

CallStep(c) == TermPut(c) \/ TermArm(c)

AlarmStep == (\E a \in Agents : AlarmReaps(a)) \/ AlarmTouches \/ AlarmEnds

Next ==
    \/ \E m \in Machines : Mint(m) \/ Delete(m) \/ DeleteDrop(m)
    \/ \E c \in Calls : CallStep(c) \/ Expire(c)
    \/ \E c \in Calls, m \in Machines : TermLookup(c, m)
    \/ \E c \in Calls, sid \in Sids : TermBody(c, sid)
    \/ \E a \in Agents : \/ AgentConnects(a) \/ AgentStep(a) \/ AgentGone(a)
                         \/ Silent(a) \/ Heartbeat(a)
                         \/ \E m \in Machines : Hello(a, m)
                         \/ \E sid \in Sids : AgentEnds(a, sid)
    \/ \E t \in Tabs : \/ TabStep(t) \/ TabGone(t)
                       \/ \E sid \in Sids, key \in Calls \cup {nil} : TermUpgrade(t, sid, key)
    \/ AlarmFires \/ AlarmStep
    \/ Restart

Spec == Init /\ [][Next]_vars

\* Handlers run to their end, and the alarm is delivered once it may be.
Fairness ==
    /\ \A a \in Agents : WF_vars(AgentStep(a) /\ apc[a] # "connected")
    /\ \A t \in Tabs : WF_vars(TabStep(t))
    /\ \A c \in Calls : WF_vars(CallStep(c))
    /\ \A m \in Machines : WF_vars(DeleteDrop(m))
    /\ SF_vars(AlarmFires) /\ WF_vars(AlarmStep)

FairSpec == Spec /\ Fairness

---------------------------------------------------------------------------
PendRows == [key : Calls, mid : Machines] \cup {nil}

RowsOK == machineRow \subseteq born /\ tokRow \subseteq born /\ born \subseteq Machines

KeysOK == pend \in [Sids -> PendRows] /\ expired \subseteq Calls

AgentsOK ==
    /\ alink \in [Agents -> {"none", "open", "shut", "gone"}]
    /\ akind \in [Agents -> {"none", "pending", "agent", "replaced"}]
    /\ amid \in [Agents -> Machines \cup {nil}] /\ agot \in [Agents -> Machines \cup {nil}]
    /\ apc \in [Agents -> {"new", "connected", "digest", "known", "entered", "reaping", "done"}]
    /\ overdue \subseteq Agents /\ runs \in [Agents -> SUBSET Sids]

TabsOK ==
    /\ tlink \in [Tabs -> {"none", "open", "shut", "gone"}]
    /\ tpc \in [Tabs -> {"new", "digest", "claimed", "refused", "done"}]
    /\ tsid \in [Tabs -> Sids \cup {nil}] /\ tmid \in [Tabs -> Machines \cup {nil}]
    /\ tkey \in [Tabs -> Calls \cup {nil}] /\ tgot \in [Tabs -> PendRows]

CallsOK ==
    /\ cpc \in [Calls -> {"new", "body", "digest", "stored", "done", "unanswered", "aborted"}]
    /\ cmid \in [Calls -> Machines \cup {nil}] /\ csid \in [Calls -> Sids \cup {nil}]
    /\ dpc \in [Machines -> {"idle", "deleted", "done"}]

AlarmOK ==
    /\ alarm \in BOOLEAN /\ llive \in BOOLEAN /\ cut \in BOOLEAN
    /\ lpc \in {"idle", "visiting", "touching"} /\ lgot \in Machines \cup {nil}
    /\ restarts \in 0..MaxRestarts

TypeOK == RowsOK /\ KeysOK /\ AgentsOK /\ TabsOK /\ CallsOK /\ AlarmOK

(* One socket per machine: "duplicate token connect replaces the zombie"    *)
(* (fleet.js:311), however two hellos, a reap and an alarm interleave, so   *)
(* agentSocket never has a choice.                                          *)
OneAgentPerMachine ==
    \A a, b \in Agents : \A m \in Machines : Registered(a, m) /\ Registered(b, m) => a = b

(* No dead black box: an open browser socket has an agent of its machine    *)
(* that was told to open its session and has not ended it, or whose socket  *)
(* is closing, in which case its close event will end the session.          *)
NoBlackBox ==
    \A t \in Tabs : tlink[t] = "open" =>
        \E a \in Agents : Registered(a, tmid[t]) /\ (tsid[t] \in runs[a] \/ alink[a] = "shut")

(* No orphan shell: what an enrolled agent was told to open and not to      *)
(* close has its browser, still open; nobody else's exit, err, late close   *)
(* event or replaced predecessor ends it (the mid checks, fleet.js:257-271, *)
(* and the "replaced" attachment, 315).                                     *)
NoOrphanShell ==
    \A a \in Agents : \A sid \in runs[a] :
        akind[a] = "agent" => \E t \in Tabs : tsid[t] = sid /\ tmid[t] = amid[a] /\ tlink[t] = "open"

(* A revoked machine has no socket once DELETE has answered, although a     *)
(* hello with its token may be anywhere in its lookups (fleet.js:177-186    *)
(* against 289-333), and after a restart in between as well.                *)
RevokedIsOffline ==
    \A m \in born \ machineRow : dpc[m] = "done" => Offline(m)

(* A deleted row is not written back by a hello, a close event or an alarm  *)
(* that read it before (fleet.js:324-329, 355-358, 397-400).                *)
RevokedStaysGone == [][machineRow' \cap born \subseteq machineRow]_vars

(* The alarm is set whenever it has something to look after: an agent       *)
(* socket, one that owes a hello, or a key.  Only a restart that falls      *)
(* between the put of a key and its armAlarm leaves a key without one.      *)
AlarmIsArmed ==
    ~alarm /\ lpc = "idle" =>
        /\ \A a \in Agents : /\ alink[a] = "open" => akind[a] = "replaced" \/ apc[a] = "entered"
                             /\ Listed(alink[a]) => akind[a] # "agent" \/ apc[a] = "entered"
        /\ \A sid \in Sids : pend[sid] # nil => cut \/ \E c \in Calls : cpc[c] = "stored"

(* "Expired never-used session keys must not leak" (fleet.js:380).          *)
KeysAreSwept ==
    \A key \in Calls :
        (\E sid \in Sids : pend[sid] # nil /\ pend[sid].key = key /\ key \in expired)
            ~> (cut \/ \A sid \in Sids : pend[sid] # nil => pend[sid].key # key)

(* A silent agent is reaped, unless it is heard of again                    *)
(* (fleet.js:393-396).                                                      *)
SilentIsReaped == \A a \in Agents : Dead(a) ~> ~Dead(a)

=============================================================================
