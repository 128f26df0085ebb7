------------------------------ MODULE Broker ------------------------------
(***************************************************************************)
(* The relay of internal/broker/broker.go: agents on /ws/agent, browsers on *)
(* /ws/term/{sid}, and the admin calls that mint session keys and revoke    *)
(* machines.  Handlers are goroutines that share b.agents, b.pend and       *)
(* b.sess under b.mu; what they do to sockets (conn.send, conn.close) they  *)
(* do after unlocking, so another handler's critical section may run in     *)
(* between.  Each critical section, each call on a conn and each read of a  *)
(* socket is one step.                                                      *)
(*                                                                          *)
(* A frame carries what the properties tell apart: its kind, the session,   *)
(* the agent conn it came from and the banner's text; never terminal data.  *)
(***************************************************************************)
EXTENDS Naturals, Sequences

CONSTANTS Machines,     \* enrolled identities: id and token of one machine
          AgentConns,   \* agentConn objects, one per accepted agent socket
          Tabs,         \* upgrade requests of browsers, one session object each
          Sids,         \* session ids; randHex(8) never repeats one
          Revocable,    \* the machines the operator may DELETE, a bound for TLC
          QueueLen,
          nil

Banners == {"agent reconnected", "agent went offline", "machine revoked",
            "agent is offline", "session dropped: browser too slow"}

\* The banners of a session that ended because its agent was lost.
LossBanners == {"agent reconnected", "agent went offline", "machine revoked"}

ASSUME BrokerAssumption ==
    /\ QueueLen \in Nat \ {0}
    /\ Revocable \subseteq Machines
    /\ nil \notin Machines \cup AgentConns \cup Tabs \cup Sids \cup Banners
    /\ AgentConns \cap Tabs = {}
    /\ AgentConns \cap Machines = {}
    /\ Tabs \cap Machines = {}

Conns == AgentConns \cup Tabs

\* The goroutines that close and send on behalf of others once b.mu is
\* released: one per agent socket, one per browser, one per DELETE request.
Handlers == AgentConns \cup Tabs \cup Machines

AgentFrames == [t : {"hello_ok"}, sid : {nil}]
               \cup [t : {"open", "in", "close"}, sid : Sids]

BrowserFrames == [t : {"out", "exit", "err"}, by : AgentConns, msg : {nil}]
                 \cup [t : {"err"}, by : {nil}, msg : Banners]

Frames == AgentFrames \cup BrowserFrames

ASSUME FramesAssumption == nil \notin Frames

\* A *pending that is there is not nil.
ASSUME KeysAssumption == nil \notin [mid : Machines, expired : BOOLEAN]

ToAgent(t, sid) == [t |-> t, sid |-> sid]
FromAgent(t, a) == [t |-> t, by |-> a, msg |-> nil]
Banner(why) == [t |-> "err", by |-> nil, msg |-> why]

VARIABLES
    store,            \* internal/store: "unborn", "enrolled" or "revoked"
    agents,           \* b.agents, nil where the map has no entry
    pend,             \* b.pend, nil or the machine and whether exp has passed
    sess,             \* b.sess, nil or the tab whose session object is there
    out, closed, ws,  \* the conns of agents and browsers
    apc, amid, acur,  \* wsAgent: where it is, ac.mid, the session toBrowser found
    tpc, tsid, tmid, tac, \* wsTerm: where it is, sid, p.mid and the ac it captured
    kpc, kmid,        \* apiTerm, per sid it mints: where it is and which machine
    dpc, dac,         \* apiDelete, per machine: where it is and the ac it found
    todo,             \* per handler, the calls on conns it makes after unlocking
    bound             \* history: tabs that registered while tac was registered

INSTANCE Conn WITH Conns <- Conns, Frames <- Frames

sockVars == <<out, closed, ws>>
agentVars == <<apc, amid, acur>>
tabVars == <<tpc, tsid, tmid, tac, bound>>
keyVars == <<kpc, kmid>>
deleteVars == <<dpc, dac>>
vars == <<store, agents, pend, sess, sockVars, agentVars, tabVars, keyVars,
          deleteVars, todo>>

---------------------------------------------------------------------------
(* What a handler still has to do outside the lock, in the order the code   *)
(* does it: shut an agent conn, close the victims' conns with a final frame *)
(* (in any order: victims come from a map iteration), tell an agent to kill *)
(* the PTY of a session.                                                    *)

Work == [shut : AgentConns \cup {nil}, ends : SUBSET Tabs,
         fin : BrowserFrames \cup {nil}, tell : AgentConns \cup {nil},
         sid : Sids \cup {nil}]

Job(shut, ends, fin, tell, sid) ==
    [shut |-> shut, ends |-> ends, fin |-> fin, tell |-> tell, sid |-> sid]

NoWork == Job(nil, {}, nil, nil, nil)

\* The same work, or NoWork when no call is left in it.
Left(w) == IF w.shut = nil /\ w.ends = {} /\ w.tell = nil THEN NoWork ELSE w

Free(h) == todo[h] = NoWork

Assign(h, w) == todo' = [todo EXCEPT ![h] = Left(w)]

\* ac.close(nil) and old.close(nil).
CloseAgent(h) ==
    /\ todo[h].shut # nil
    /\ close(todo[h].shut, nil)
    /\ Assign(h, Job(nil, todo[h].ends, todo[h].fin, todo[h].tell, todo[h].sid))
    /\ UNCHANGED <<store, agents, pend, sess, agentVars, tabVars, keyVars, deleteVars>>

\* Mutant of CloseTab: the session is unmapped, its conn left alone.
CloseTabForgotten(h, t) ==
    /\ todo[h].shut = nil /\ t \in todo[h].ends
    /\ Assign(h, Job(nil, todo[h].ends \ {t}, todo[h].fin, todo[h].tell, todo[h].sid))
    /\ UNCHANGED <<store, agents, pend, sess, sockVars, agentVars, tabVars, keyVars, deleteVars>>

\* s.close(final) for one of the sessions the handler removed from b.sess.
CloseTab(h, t) ==
    /\ todo[h].shut = nil /\ t \in todo[h].ends
    /\ close(t, todo[h].fin)
    /\ Assign(h, Job(nil, todo[h].ends \ {t}, todo[h].fin, todo[h].tell, todo[h].sid))
    /\ UNCHANGED <<store, agents, pend, sess, agentVars, tabVars, keyVars, deleteVars>>

\* endSession's ac.send(close), dropped without notice when it is refused.
TellAgent(h) ==
    /\ todo[h].shut = nil /\ todo[h].ends = {} /\ todo[h].tell # nil
    /\ send(todo[h].tell, ToAgent("close", todo[h].sid))
    /\ Assign(h, Job(nil, {}, todo[h].fin, nil, nil))
    /\ UNCHANGED <<store, agents, pend, sess, agentVars, tabVars, keyVars, deleteVars>>

DoWork(h) == CloseAgent(h) \/ (\E t \in Tabs : CloseTab(h, t)) \/ TellAgent(h)

\* The sessions of machine m that are in b.sess.
SessionsOf(m) == {t \in Tabs : tmid[t] = m /\ \E sid \in Sids : sess[sid] = t}

\* b.sess without the sessions of the tabs in T.
Without(T) == [sid \in Sids |-> IF sess[sid] \in T THEN nil ELSE sess[sid]]

\* Mutant of EndSession: the entry stays in b.sess.
EndSessionKeepsEntry(h, t, final, notify) ==
    /\ sess' = sess
    /\ Assign(h, Job(nil, {t}, final, IF notify THEN agents[tmid[t]] ELSE nil, tsid[t]))

(* endSession's critical section, run by handler h for the session of t; the*)
(* agent it will tell is the one registered now, not the one t captured.    *)
EndSession(h, t, final, notify) ==
    /\ sess' = Without({t})
    /\ Assign(h, Job(nil, {t}, final, IF notify THEN agents[tmid[t]] ELSE nil, tsid[t]))

\* Mutants of DropAgent: the entry stays in b.agents; the victims are taken
\* without looking who is registered.
DropAgentKeepsEntry(h, a, why) ==
    LET victims == IF agents[amid[a]] = a THEN SessionsOf(amid[a]) ELSE {}
    IN  /\ agents' = agents
        /\ sess' = Without(victims)
        /\ Assign(h, Job(a, victims, Banner(why), nil, nil))

DropAgentUnchecked(h, a, why) ==
    LET victims == SessionsOf(amid[a])
    IN  /\ agents' = IF agents[amid[a]] = a THEN [agents EXCEPT ![amid[a]] = nil] ELSE agents
        /\ sess' = Without(victims)
        /\ Assign(h, Job(a, victims, Banner(why), nil, nil))

(* dropAgent's critical section: a conn that has been replaced, or dropped  *)
(* by another handler, takes no session with it.                            *)
DropAgent(h, a, why) ==
    LET registered == agents[amid[a]] = a
        victims == IF registered THEN SessionsOf(amid[a]) ELSE {}
    IN  /\ agents' = IF registered THEN [agents EXCEPT ![amid[a]] = nil] ELSE agents
        /\ sess' = Without(victims)
        /\ Assign(h, Job(a, victims, Banner(why), nil, nil))

---------------------------------------------------------------------------
(* Admin calls.  auth and the JSON bodies change no state.                   *)

\* apiMint: a machine record with a new id and token.
Mint(m) ==
    /\ store[m] = "unborn"
    /\ store' = [store EXCEPT ![m] = "enrolled"]
    /\ UNCHANGED <<agents, pend, sess, sockVars, agentVars, tabVars, keyVars, deleteVars, todo>>

\* apiTerm looks the machine up, then inserts the key in a later step: the
\* store has its own mutex.
TermLookup(sid, m) ==
    /\ kpc[sid] = "unused" /\ store[m] = "enrolled"
    /\ kpc' = [kpc EXCEPT ![sid] = "found"]
    /\ kmid' = [kmid EXCEPT ![sid] = m]
    /\ UNCHANGED <<store, agents, pend, sess, sockVars, agentVars, tabVars, deleteVars, todo>>

TermInsert(sid) ==
    /\ kpc[sid] = "found"
    /\ kpc' = [kpc EXCEPT ![sid] = "minted"]
    /\ pend' = [pend EXCEPT ![sid] = [mid |-> kmid[sid], expired |-> FALSE]]
    /\ UNCHANGED <<store, agents, sess, sockVars, agentVars, tabVars, kmid, deleteVars, todo>>

\* keyTTL passes.
Expire(sid) ==
    /\ pend[sid] # nil /\ ~pend[sid].expired
    /\ pend' = [pend EXCEPT ![sid].expired = TRUE]
    /\ UNCHANGED <<store, agents, sess, sockVars, agentVars, tabVars, keyVars, deleteVars, todo>>

\* One pass of sweep over b.pend.
Sweep ==
    /\ \E sid \in Sids : pend[sid] # nil /\ pend[sid].expired
    /\ pend' = [sid \in Sids |->
                  IF pend[sid] # nil /\ pend[sid].expired THEN nil ELSE pend[sid]]
    /\ UNCHANGED <<store, agents, sess, sockVars, agentVars, tabVars, keyVars, deleteVars, todo>>

\* apiDelete: the store first, then the live socket.
DeleteStore(m) ==
    /\ m \in Revocable /\ store[m] = "enrolled"
    /\ store' = [store EXCEPT ![m] = "revoked"]
    /\ dpc' = [dpc EXCEPT ![m] = "deleted"]
    /\ UNCHANGED <<agents, pend, sess, sockVars, agentVars, tabVars, keyVars, dac, todo>>

DeleteLookup(m) ==
    /\ dpc[m] = "deleted"
    /\ dac' = [dac EXCEPT ![m] = agents[m]]
    /\ dpc' = [dpc EXCEPT ![m] = IF agents[m] = nil THEN "done" ELSE "found"]
    /\ UNCHANGED <<store, agents, pend, sess, sockVars, agentVars, tabVars, keyVars, todo>>

DeleteDrop(m) ==
    /\ dpc[m] = "found"
    /\ DropAgent(m, dac[m], "machine revoked")
    /\ dpc' = [dpc EXCEPT ![m] = "done"]
    /\ UNCHANGED <<store, pend, sockVars, agentVars, tabVars, keyVars, dac>>

---------------------------------------------------------------------------
(* wsAgent.                                                                 *)

\* The upgrade fails, or the first frame is late, no hello, or of no machine.
AgentRefused(a) ==
    /\ apc[a] = "new"
    /\ apc' = [apc EXCEPT ![a] = "done"]
    /\ UNCHANGED <<store, agents, pend, sess, sockVars, amid, acur, tabVars, keyVars, deleteVars, todo>>

\* hello with the token of machine m, which ByToken finds.
AgentHello(a, m) ==
    /\ apc[a] = "new" /\ store[m] = "enrolled"
    /\ apc' = [apc EXCEPT ![a] = "known"]
    /\ amid' = [amid EXCEPT ![a] = m]
    /\ UNCHANGED <<store, agents, pend, sess, sockVars, acur, tabVars, keyVars, deleteVars, todo>>

\* Mutants of AgentRegister: the replaced socket, or its sessions, forgotten.
AgentRegisterForgetsOld(a) ==
    LET victims == IF agents[amid[a]] # nil THEN SessionsOf(amid[a]) ELSE {}
    IN  /\ apc[a] = "known"
        /\ newConn(a)
        /\ agents' = [agents EXCEPT ![amid[a]] = a]
        /\ sess' = Without(victims)
        /\ Assign(a, Job(nil, victims, Banner("agent reconnected"), nil, nil))
        /\ apc' = [apc EXCEPT ![a] = "greeting"]
        /\ UNCHANGED <<store, pend, amid, acur, tabVars, keyVars, deleteVars>>

AgentRegisterKeepsSessions(a) ==
    /\ apc[a] = "known"
    /\ newConn(a)
    /\ agents' = [agents EXCEPT ![amid[a]] = a]
    /\ Assign(a, Job(agents[amid[a]], {}, nil, nil, nil))
    /\ apc' = [apc EXCEPT ![a] = "greeting"]
    /\ UNCHANGED <<store, pend, sess, amid, acur, tabVars, keyVars, deleteVars>>

\* Register, replacing the socket the machine had.
AgentRegister(a) ==
    LET old == agents[amid[a]]
        victims == IF old # nil THEN SessionsOf(amid[a]) ELSE {}
    IN  /\ apc[a] = "known"
        /\ newConn(a)
        /\ agents' = [agents EXCEPT ![amid[a]] = a]
        /\ sess' = Without(victims)
        /\ Assign(a, Job(old, victims, Banner("agent reconnected"), nil, nil))
        /\ apc' = [apc EXCEPT ![a] = "greeting"]
        /\ UNCHANGED <<store, pend, amid, acur, tabVars, keyVars, deleteVars>>

AgentGreet(a) ==
    /\ apc[a] = "greeting" /\ Free(a)
    /\ send(a, ToAgent("hello_ok", nil))
    /\ apc' = [apc EXCEPT ![a] = "serving"]
    /\ UNCHANGED <<store, agents, pend, sess, amid, acur, tabVars, keyVars, deleteVars, todo>>

\* The read loop is between two frames.
Serving(a) == apc[a] = "serving" /\ Free(a)

\* Mutant of Owns: whose session it is is not looked at.
OwnsAny(a, sid) == sess[sid] # nil

\* The session of sid is in b.sess and belongs to the machine of a.
Owns(a, sid) == sess[sid] # nil /\ tmid[sess[sid]] = amid[a]

\* An out frame: toBrowser finds the session, unlocks, then sends.  A frame
\* for a session that is gone or another machine's changes nothing.
AgentOut(a, sid) ==
    /\ Serving(a) /\ Owns(a, sid)
    /\ apc' = [apc EXCEPT ![a] = "routing"]
    /\ acur' = [acur EXCEPT ![a] = sess[sid]]
    /\ UNCHANGED <<store, agents, pend, sess, sockVars, amid, tabVars, keyVars, deleteVars, todo>>

RouteOut(a) ==
    /\ apc[a] = "routing"
    /\ send(acur[a], FromAgent("out", a))
    /\ apc' = [apc EXCEPT ![a] = IF Accepts(acur[a]) THEN "serving" ELSE "slow"]
    /\ acur' = [acur EXCEPT ![a] = IF Accepts(acur[a]) THEN nil ELSE @]
    /\ UNCHANGED <<store, agents, pend, sess, amid, tabVars, keyVars, deleteVars, todo>>

\* The browser's queue was full, or another handler closed it meanwhile.
DropSlow(a) ==
    /\ apc[a] = "slow"
    /\ EndSession(a, acur[a], Banner("session dropped: browser too slow"), TRUE)
    /\ apc' = [apc EXCEPT ![a] = "serving"]
    /\ acur' = [acur EXCEPT ![a] = nil]
    /\ UNCHANGED <<store, agents, pend, sockVars, amid, tabVars, keyVars, deleteVars>>

\* An exit or err frame for a session of this machine.
AgentEnd(a, sid, kind) ==
    /\ Serving(a) /\ Owns(a, sid)
    /\ sess' = [sess EXCEPT ![sid] = nil]
    /\ Assign(a, Job(nil, {sess[sid]}, FromAgent(kind, a), nil, nil))
    /\ UNCHANGED <<store, agents, pend, sockVars, agentVars, tabVars, keyVars, deleteVars>>

\* The read fails: the peer left, was silent for 35 s, or the writer shut
\* the socket.
AgentLost(a) ==
    /\ Serving(a)
    /\ DropAgent(a, a, "agent went offline")
    /\ apc' = [apc EXCEPT ![a] = "done"]
    /\ UNCHANGED <<store, pend, sockVars, amid, acur, tabVars, keyVars, deleteVars>>

---------------------------------------------------------------------------
(* wsTerm.                                                                  *)

\* Mutants of ClaimKey: the key stays usable; an expired key is accepted.
ClaimKeepsKey(t, sid) ==
    /\ tpc[t] = "new" /\ pend[sid] # nil /\ ~pend[sid].expired
    /\ tpc' = [tpc EXCEPT ![t] = "claimed"]
    /\ tsid' = [tsid EXCEPT ![t] = sid]
    /\ tmid' = [tmid EXCEPT ![t] = pend[sid].mid]
    /\ tac' = [tac EXCEPT ![t] = agents[pend[sid].mid]]
    /\ UNCHANGED <<store, agents, pend, sess, sockVars, agentVars, keyVars, deleteVars, todo, bound>>

ClaimExpiredKey(t, sid) ==
    /\ tpc[t] = "new" /\ pend[sid] # nil
    /\ pend' = [pend EXCEPT ![sid] = nil]
    /\ tpc' = [tpc EXCEPT ![t] = "claimed"]
    /\ tsid' = [tsid EXCEPT ![t] = sid]
    /\ tmid' = [tmid EXCEPT ![t] = pend[sid].mid]
    /\ tac' = [tac EXCEPT ![t] = agents[pend[sid].mid]]
    /\ UNCHANGED <<store, agents, sess, sockVars, agentVars, keyVars, deleteVars, todo, bound>>

\* The upgrade with a valid key consumes it and captures the agent.
ClaimKey(t, sid) ==
    /\ tpc[t] = "new" /\ pend[sid] # nil /\ ~pend[sid].expired
    /\ pend' = [pend EXCEPT ![sid] = nil]
    /\ tpc' = [tpc EXCEPT ![t] = "claimed"]
    /\ tsid' = [tsid EXCEPT ![t] = sid]
    /\ tmid' = [tmid EXCEPT ![t] = pend[sid].mid]
    /\ tac' = [tac EXCEPT ![t] = agents[pend[sid].mid]]
    /\ UNCHANGED <<store, agents, sess, sockVars, agentVars, keyVars, deleteVars, todo, bound>>

\* Mutant of RefuseKey: a request with a wrong key uses the right one up.
RefuseBurnsKey(t, sid) ==
    /\ tpc[t] = "new"
    /\ tpc' = [tpc EXCEPT ![t] = "refused"]
    /\ pend' = [pend EXCEPT ![sid] = nil]
    /\ UNCHANGED <<store, agents, sess, sockVars, agentVars, tsid, tmid, tac, bound,
                   keyVars, deleteVars, todo>>

\* 403: the key is wrong, expired or used.
RefuseKey(t, sid) ==
    /\ tpc[t] = "new"
    /\ tpc' = [tpc EXCEPT ![t] = "refused"]
    /\ UNCHANGED <<store, agents, pend, sess, sockVars, agentVars, tsid, tmid, tac, bound,
                   keyVars, deleteVars, todo>>

\* The key is spent, and the websocket handshake fails.
UpgradeFails(t) ==
    /\ tpc[t] = "claimed"
    /\ tpc' = [tpc EXCEPT ![t] = "done"]
    /\ UNCHANGED <<store, agents, pend, sess, sockVars, agentVars, tsid, tmid, tac, bound,
                   keyVars, deleteVars, todo>>

\* Register before sending open; the agent is the one captured with the key.
RegisterTab(t) ==
    /\ tpc[t] = "claimed"
    /\ newConn(t)
    /\ sess' = [sess EXCEPT ![tsid[t]] = t]
    /\ tpc' = [tpc EXCEPT ![t] = "registered"]
    /\ bound' = IF tac[t] # nil /\ agents[tmid[t]] = tac[t] THEN bound \cup {t} ELSE bound
    /\ UNCHANGED <<store, agents, pend, agentVars, tsid, tmid, tac, keyVars, deleteVars, todo>>

OpenSent(t) ==
    /\ tpc[t] = "registered" /\ tac[t] # nil /\ Accepts(tac[t])
    /\ send(tac[t], ToAgent("open", tsid[t]))
    /\ tpc' = [tpc EXCEPT ![t] = "reading"]
    /\ UNCHANGED <<store, agents, pend, sess, agentVars, tsid, tmid, tac, bound,
                   keyVars, deleteVars, todo>>

\* No agent when the key was claimed, or its queue is full or closed.
OpenFails(t) ==
    /\ tpc[t] = "registered" /\ (tac[t] # nil => ~Accepts(tac[t]))
    /\ tpc' = [tpc EXCEPT ![t] = "offline"]
    /\ UNCHANGED <<store, agents, pend, sess, sockVars, agentVars, tsid, tmid, tac, bound,
                   keyVars, deleteVars, todo>>

EndOffline(t) ==
    /\ tpc[t] = "offline"
    /\ EndSession(t, t, Banner("agent is offline"), FALSE)
    /\ tpc' = [tpc EXCEPT ![t] = "done"]
    /\ UNCHANGED <<store, agents, pend, sockVars, agentVars, tsid, tmid, tac, bound,
                   keyVars, deleteVars>>

\* An in or resize frame; nobody looks at what send returns.
Input(t) ==
    /\ tpc[t] = "reading"
    /\ send(tac[t], ToAgent("in", tsid[t]))
    /\ UNCHANGED <<store, agents, pend, sess, agentVars, tabVars, keyVars, deleteVars, todo>>

\* The read fails: the browser left, or the writer shut the socket.
TabLost(t) ==
    /\ tpc[t] = "reading"
    /\ EndSession(t, t, nil, TRUE)
    /\ tpc' = [tpc EXCEPT ![t] = "done"]
    /\ UNCHANGED <<store, agents, pend, sockVars, agentVars, tsid, tmid, tac, bound,
                   keyVars, deleteVars>>

---------------------------------------------------------------------------
WriterStep(c) ==
    /\ Writer(c)
    /\ UNCHANGED <<store, agents, pend, sess, agentVars, tabVars, keyVars, deleteVars, todo>>

\* No handler is in the middle of a request: the broker waits for frames,
\* connections and admin calls.
Quiet ==
    /\ \A h \in Handlers : Free(h)
    /\ \A a \in AgentConns : apc[a] \in {"new", "serving", "done"}
    /\ \A t \in Tabs : tpc[t] \in {"new", "refused", "reading", "done"}
    /\ \A sid \in Sids : kpc[sid] # "found"
    /\ \A m \in Machines : dpc[m] \in {"idle", "done"}
    /\ UNCHANGED vars

Init ==
    /\ store = [m \in Machines |-> "unborn"]
    /\ agents = [m \in Machines |-> nil]
    /\ pend = [sid \in Sids |-> nil]
    /\ sess = [sid \in Sids |-> nil]
    /\ ConnInit
    /\ apc = [a \in AgentConns |-> "new"]
    /\ amid = [a \in AgentConns |-> nil]
    /\ acur = [a \in AgentConns |-> nil]
    /\ tpc = [t \in Tabs |-> "new"]
    /\ tsid = [t \in Tabs |-> nil]
    /\ tmid = [t \in Tabs |-> nil]
    /\ tac = [t \in Tabs |-> nil]
    /\ bound = {}
    /\ kpc = [sid \in Sids |-> "unused"]
    /\ kmid = [sid \in Sids |-> nil]
    /\ dpc = [m \in Machines |-> "idle"]
    /\ dac = [m \in Machines |-> nil]
    /\ todo = [h \in Handlers |-> NoWork]

AdminStep ==
    \/ \E m \in Machines : Mint(m) \/ DeleteStore(m) \/ DeleteLookup(m) \/ DeleteDrop(m)
    \/ \E sid \in Sids : (\E m \in Machines : TermLookup(sid, m)) \/ TermInsert(sid) \/ Expire(sid)
    \/ Sweep

AgentStep(a) ==
    \/ AgentRefused(a)
    \/ \E m \in Machines : AgentHello(a, m)
    \/ AgentRegister(a)
    \/ AgentGreet(a)
    \/ \E sid \in Sids : AgentOut(a, sid) \/ (\E kind \in {"exit", "err"} : AgentEnd(a, sid, kind))
    \/ RouteOut(a)
    \/ DropSlow(a)
    \/ AgentLost(a)

TabStep(t) ==
    \/ \E sid \in Sids : ClaimKey(t, sid) \/ RefuseKey(t, sid)
    \/ UpgradeFails(t)
    \/ RegisterTab(t)
    \/ OpenSent(t)
    \/ OpenFails(t)
    \/ EndOffline(t)
    \/ Input(t)
    \/ TabLost(t)

Next ==
    \/ AdminStep
    \/ \E a \in AgentConns : AgentStep(a)
    \/ \E t \in Tabs : TabStep(t)
    \/ \E h \in Handlers : DoWork(h)
    \/ \E c \in Conns : WriterStep(c)
    \/ Quiet

Spec == Init /\ [][Next]_vars

---------------------------------------------------------------------------
(* Fairness: a goroutine that is not waiting for its peer goes on; a write  *)
(* ends within its 10 s deadline; a read on a socket that was shut returns  *)
(* an error once the frames already buffered are used up, hence strong      *)
(* fairness for the agent's loop, which those frames lead away from the     *)
(* read; the clock passes keyTTL and sweep ticks.  Nothing makes a peer     *)
(* connect, send or leave.                                                  *)
Fairness ==
    /\ \A h \in Handlers : WF_vars(DoWork(h))
    /\ \A c \in Conns : WF_vars(WriterStep(c))
    /\ \A a \in AgentConns :
          /\ WF_vars(AgentRegister(a) \/ AgentGreet(a) \/ RouteOut(a) \/ DropSlow(a))
          /\ SF_vars(AgentLost(a) /\ ws[a] = "shut")
    /\ \A t \in Tabs :
          /\ WF_vars(UpgradeFails(t) \/ RegisterTab(t) \/ OpenSent(t) \/ OpenFails(t) \/ EndOffline(t))
          /\ WF_vars(TabLost(t) /\ ws[t] = "shut")
    /\ \A m \in Machines : WF_vars(DeleteLookup(m) \/ DeleteDrop(m))
    /\ \A sid \in Sids : WF_vars(TermInsert(sid)) /\ WF_vars(Expire(sid))
    /\ WF_vars(Sweep)

FairSpec == Spec /\ Fairness

---------------------------------------------------------------------------
(* Properties.                                                              *)

SockTypeOK ==
    /\ ConnTypeOK
    /\ \A a \in AgentConns : out[a] \in Seq(AgentFrames)
    /\ \A t \in Tabs : out[t] \in Seq(BrowserFrames)

MapTypeOK ==
    /\ store \in [Machines -> {"unborn", "enrolled", "revoked"}]
    /\ agents \in [Machines -> AgentConns \cup {nil}]
    /\ pend \in [Sids -> [mid : Machines, expired : BOOLEAN] \cup {nil}]
    /\ sess \in [Sids -> Tabs \cup {nil}]

HandlerTypeOK ==
    /\ apc \in [AgentConns -> {"new", "known", "greeting", "serving", "routing", "slow", "done"}]
    /\ amid \in [AgentConns -> Machines \cup {nil}]
    /\ acur \in [AgentConns -> Tabs \cup {nil}]
    /\ tpc \in [Tabs -> {"new", "refused", "claimed", "registered", "offline", "reading", "done"}]
    /\ tsid \in [Tabs -> Sids \cup {nil}]
    /\ tmid \in [Tabs -> Machines \cup {nil}]
    /\ tac \in [Tabs -> AgentConns \cup {nil}]
    /\ bound \subseteq Tabs
    /\ kpc \in [Sids -> {"unused", "found", "minted"}]
    /\ kmid \in [Sids -> Machines \cup {nil}]
    /\ dpc \in [Machines -> {"idle", "deleted", "found", "done"}]
    /\ dac \in [Machines -> AgentConns \cup {nil}]
    /\ todo \in [Handlers -> Work]

TypeOK == SockTypeOK /\ MapTypeOK /\ HandlerTypeOK

(* A key opens one session, whatever the order of concurrent upgrades: no   *)
(* two tabs hold the same sid, and a key some tab holds is not in b.pend    *)
(* any more.  So RegisterTab never overwrites another tab's b.sess entry.   *)
(* (wsTerm, broker.go:443-456; apiTerm, 200-203.)                           *)
OneTabPerKey ==
    \A t, u \in Tabs :
        tsid[t] # nil => (tsid[t] = tsid[u] => t = u) /\ pend[tsid[t]] = nil

(* Machines do not leak into each other: what a browser is sent by an agent *)
(* comes from its own machine, and an agent is only told of sessions minted *)
(* for its machine, although handlers act on sockets they looked up before. *)
(* (toBrowser's and wsAgent's mid checks, broker.go:365 and 394.)           *)
Isolation ==
    /\ \A t \in Tabs : \A i \in DOMAIN out[t] :
          out[t][i].by # nil => amid[out[t][i].by] = tmid[t]
    /\ \A a \in AgentConns : \A i \in DOMAIN out[a] :
          out[a][i].sid # nil => kmid[out[a][i].sid] = amid[a]

(* What the maps lead to is usable: a session in b.sess and an agent in     *)
(* b.agents has not been closed, because every handler removes the entry    *)
(* before it closes the conn.  (dropAgent, endSession, wsAgent.)            *)
MappedIsOpen ==
    /\ \A sid \in Sids : sess[sid] # nil => ~closed[sess[sid]]
    /\ \A m \in Machines : agents[m] # nil => ~closed[agents[m]]

(* Nothing that left a map is forgotten: a browser conn that is no longer   *)
(* in b.sess, and an agent conn that is no longer in b.agents, is closed or *)
(* is still on the list of a handler that will close it.  Were one missed,  *)
(* its reader would wait for ever and its page would be a black box.        *)
NothingForgotten ==
    /\ \A t \in Tabs :
          ws[t] # "none" /\ sess[tsid[t]] # t /\ ~closed[t]
             => \E h \in Handlers : t \in todo[h].ends
    /\ \A a \in AgentConns :
          ws[a] # "none" /\ agents[amid[a]] # a /\ ~closed[a]
             => \E h \in Handlers : todo[h].shut = a

\* The session of t is still served by the agent conn it was claimed with.
Attached(t) == tac[t] # nil /\ agents[tmid[t]] = tac[t]

(* A banner about the agent is true when the page shows it: a session is    *)
(* only told that its agent is gone, was replaced or was revoked when the   *)
(* conn it was opened on is no longer the registered one, so a replaced     *)
(* zombie that dies late takes no session of its successor with it          *)
(* (broker.go:407, implementation-notes.md:17).                             *)
LossBannerIsTrue ==
    /\ \A t \in Tabs : \A i \in DOMAIN out[t] :
          out[t][i].msg \in LossBanners => ~Attached(t)
    /\ \A h \in Handlers : \A t \in todo[h].ends :
          todo[h].fin # nil /\ todo[h].fin.msg \in LossBanners => ~Attached(t)

(* The agent is told to kill a PTY only when its session is over: a close   *)
(* frame for a sid is queued or due only once b.sess has no entry for it.   *)
(* (endSession removes before it tells, broker.go:424-434.)                 *)
CloseMeansEnded ==
    /\ \A a \in AgentConns : \A i \in DOMAIN out[a] :
          out[a][i].t = "close" => sess[out[a][i].sid] = nil
    /\ \A h \in Handlers : todo[h].tell # nil => sess[todo[h].sid] = nil

(* A session follows its agent: one that entered b.sess while the agent it  *)
(* captured was registered stays in b.sess only as long as that agent does. *)
(* Losing the agent in the window between claiming the key and registering  *)
(* is the one way out of this (see NoDeadBlackBox).                         *)
SessionFollowsAgent ==
    \A t \in bound : sess[tsid[t]] = t => Attached(t)

(* A browser sees at most one end, and nothing after it, even when the      *)
(* agent's exit, a slow queue and the loss of the agent race to end the     *)
(* session.  (conn.close and conn.send, broker.go:262-292.)                 *)
OneEndAndLast ==
    \A t \in Tabs : \A i \in DOMAIN out[t] :
        out[t][i].t # "out" => i = Len(out[t]) /\ closed[t]

(* A key leaves b.pend only because a tab claimed it or its time was up: a  *)
(* request with a wrong key does not use it up.  (broker.go:444-450.)       *)
KeyLostForAReason ==
    [][\A sid \in Sids :
         pend[sid] # nil /\ pend'[sid] = nil
            => pend[sid].expired \/ \E t \in Tabs : tsid[t] = nil /\ tsid'[t] = sid]_vars

(* Whoever lost its place is let go: a browser whose session ended, by      *)
(* whatever handler, and an agent conn that was replaced, revoked or lost,  *)
(* even while it goes on sending frames; its conn is closed, its read fails *)
(* and its handler returns.                                                 *)
EndedIsReleased ==
    /\ \A t \in Tabs : (ws[t] # "none" /\ sess[tsid[t]] # t) ~> tpc[t] = "done"
    /\ \A a \in AgentConns : (ws[a] # "none" /\ agents[amid[a]] # a) ~> apc[a] = "done"

---------------------------------------------------------------------------
(* What the documentation says and the code does not do.                    *)

(* "requirement: losing the agent socket must never leave a dead black box" *)
(* (implementation-notes.md:13): no session waits in b.sess, its page open, *)
(* when its machine has no agent and nothing is left that would end it.     *)
NoDeadBlackBox ==
    \A t \in Tabs :
        ~ /\ tpc[t] = "reading" /\ sess[tsid[t]] = t /\ ~closed[t]
          /\ agents[tmid[t]] = nil
          /\ tac[t] # nil /\ apc[tac[t]] = "done"
          /\ \A h \in Handlers : Free(h)

(* "204 revokes the token and drops the live agent" (docs/PROTOCOL.md:95):  *)
(* once DELETE has returned, no agent of the machine is served.             *)
RevokedIsOffline ==
    \A m \in Machines :
        dpc[m] = "done" /\ Free(m) => agents[m] = nil
=============================================================================
