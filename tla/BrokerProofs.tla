---------------------------- MODULE BrokerProofs ----------------------------
(***************************************************************************)
(* The safety of Broker for any machines, sockets, tabs, keys and queue     *)
(* length.  The inductive invariant is a conjunction of named parts; each   *)
(* part has a lemma that the step preserves it, with one step per action.   *)
(***************************************************************************)
EXTENDS Broker, TLAPS

\* Which variables a handler has set by the time it has come so far.
AgentRoles ==
    \A a \in AgentConns :
        /\ apc[a] \notin {"new", "done"} => amid[a] \in Machines
        /\ apc[a] \in {"routing", "slow"}
              => acur[a] \in Tabs /\ tmid[acur[a]] \in Machines /\ tsid[acur[a]] \in Sids

TabRoles ==
    \A t \in Tabs :
        IF tpc[t] \in {"new", "refused"}
        THEN tsid[t] = nil /\ tmid[t] = nil /\ tac[t] = nil
        ELSE /\ tsid[t] \in Sids /\ tmid[t] \in Machines
             /\ tpc[t] = "reading" => tac[t] # nil

SessRoles == \A sid \in Sids : sess[sid] # nil => tsid[sess[sid]] = sid

AdminRoles ==
    /\ \A sid \in Sids : kpc[sid] # "unused" => kmid[sid] \in Machines
    /\ \A m \in Machines : /\ dpc[m] = "found" => dac[m] \in AgentConns
                           /\ dpc[m] # "idle" => store[m] = "revoked"

TodoRoles == \A h \in Handlers : todo[h].tell # nil => todo[h].sid \in Sids

RolesOK == AgentRoles /\ TabRoles /\ SessRoles /\ AdminRoles /\ TodoRoles

TypeInv == TypeOK /\ RolesOK

---------------------------------------------------------------------------
(* The parts of the inductive invariant beyond the types.                   *)

\* A conn that was not created yet is empty, open and known to nobody.
FreshConns ==
    /\ \A c \in Conns : ws[c] = "none" => ~closed[c] /\ out[c] = <<>>
    /\ \A a \in AgentConns : apc[a] \in {"new", "known"} => ws[a] = "none"
    /\ \A t \in Tabs : tpc[t] \in {"new", "refused", "claimed"} => ws[t] = "none"

CreatedByHandlers ==
    /\ \A a \in AgentConns : apc[a] \in {"greeting", "serving", "routing", "slow"} => ws[a] # "none"
    /\ \A a \in AgentConns : apc[a] \in {"routing", "slow"} => ws[acur[a]] # "none"
    /\ \A a \in AgentConns : ws[a] # "none" => amid[a] \in Machines
    /\ \A t \in Tabs : tpc[t] \in {"registered", "offline", "reading"} => ws[t] # "none"
    /\ \A t \in Tabs : tac[t] # nil => ws[tac[t]] # "none"
    /\ \A t \in bound : ws[t] # "none"
    /\ \A m \in Machines : dac[m] # nil => ws[dac[m]] # "none"

CreatedInMaps ==
    /\ \A m \in Machines : agents[m] # nil => ws[agents[m]] # "none" /\ amid[agents[m]] = m
    /\ \A sid \in Sids : sess[sid] # nil => ws[sess[sid]] # "none"

CreatedInTodo ==
    \A h \in Handlers :
        /\ todo[h].shut # nil => ws[todo[h].shut] # "none"
        /\ todo[h].tell # nil => ws[todo[h].tell] # "none"
        /\ \A t \in todo[h].ends : ws[t] # "none"

ConnRoles == FreshConns /\ CreatedByHandlers /\ CreatedInMaps /\ CreatedInTodo

\* A sid that is pending or claimed was minted, and for the machine noted.
KeyRoles ==
    /\ \A sid \in Sids : pend[sid] # nil => kpc[sid] = "minted" /\ pend[sid].mid = kmid[sid]
    /\ \A t \in Tabs : tsid[t] # nil => kpc[tsid[t]] = "minted" /\ tmid[t] = kmid[tsid[t]]

\* A handler that may yet be given work has none.
FreeHandlers ==
    /\ \A a \in AgentConns : apc[a] \in {"new", "known", "routing", "slow"} => Free(a)
    /\ \A t \in Tabs : tpc[t] # "done" => Free(t)
    /\ \A m \in Machines : dpc[m] # "done" => Free(m)

\* What is going to be closed has left its map.
OutOfMaps ==
    \A h \in Handlers :
        /\ \A t \in todo[h].ends : sess[tsid[t]] # t
        /\ todo[h].shut # nil => agents[amid[todo[h].shut]] # todo[h].shut

BrokerInv ==
    /\ TypeInv
    /\ ConnRoles
    /\ KeyRoles
    /\ OneTabPerKey
    /\ FreeHandlers
    /\ OutOfMaps
    /\ MappedIsOpen
    /\ NothingForgotten
    /\ LossBannerIsTrue
    /\ SessionFollowsAgent

---------------------------------------------------------------------------
(* The conns.                                                               *)

(* A send keeps the types of sockets. *)
LEMMA SendTypes ==
    ASSUME SockTypeOK, NEW c, NEW f, send(c, f),
           c \in AgentConns => f \in AgentFrames, c \in Tabs => f \in BrowserFrames
    PROVE  SockTypeOK'
<1>1. c \in AgentConns => c \notin Tabs BY BrokerAssumption
<1>2. c \in Conns => f \in Frames BY DEF Conns, Frames
<1>3. CASE c \in Conns /\ Accepts(c)
  <2>1. out' = [out EXCEPT ![c] = Append(out[c], f)] BY <1>3 DEF send
  <2>2. Append(out[c], f) \in Seq(Frames) /\ Len(Append(out[c], f)) <= QueueLen
    BY <1>2, <1>3, BrokerAssumption DEF SockTypeOK, ConnTypeOK, Accepts, HasRoom
  <2> QED BY <1>1, <1>3, <2>1, <2>2 DEF SockTypeOK, ConnTypeOK, send, Conns
<1>4. CASE ~(c \in Conns /\ Accepts(c))
  <2>1. out' = out BY <1>4 DEF send, SockTypeOK, ConnTypeOK
  <2> QED BY <2>1 DEF SockTypeOK, ConnTypeOK, send
<1> QED BY <1>3, <1>4

(* A close keeps the types of sockets. *)
LEMMA CloseTypes ==
    ASSUME SockTypeOK, NEW c \in Conns, NEW f, close(c, f),
           f # nil => (c \in AgentConns => f \in AgentFrames) /\ (c \in Tabs => f \in BrowserFrames)
    PROVE  SockTypeOK'
<1>1. c \in AgentConns => c \notin Tabs BY BrokerAssumption
<1>2. f # nil => f \in Frames BY DEF Conns, Frames
<1>3. CASE ws[c] = "shut"
  <2>1. out' = [out EXCEPT ![c] = <<>>] BY <1>3 DEF close
  <2> QED BY <2>1, BrokerAssumption DEF SockTypeOK, ConnTypeOK, close, Conns
<1>4. CASE ws[c] # "shut" /\ f # nil /\ Accepts(c)
  <2>1. out' = [out EXCEPT ![c] = Append(out[c], f)] BY <1>4 DEF close
  <2>2. Append(out[c], f) \in Seq(Frames) /\ Len(Append(out[c], f)) <= QueueLen
    BY <1>2, <1>4, BrokerAssumption DEF SockTypeOK, ConnTypeOK, Accepts, HasRoom
  <2> QED BY <1>1, <1>4, <2>1, <2>2 DEF SockTypeOK, ConnTypeOK, close, Conns
<1>5. CASE ws[c] # "shut" /\ ~(f # nil /\ Accepts(c))
  <2>1. out' = out BY <1>5 DEF close
  <2> QED BY <2>1 DEF SockTypeOK, ConnTypeOK, close
<1> QED BY <1>3, <1>4, <1>5

(* A new conn keeps the types of sockets. *)
LEMMA NewConnTypes == ASSUME SockTypeOK, NEW c \in Conns, newConn(c) PROVE SockTypeOK'
BY DEF SockTypeOK, ConnTypeOK, newConn, Conns

(* What a send changes: at most its own queue. *)
LEMMA SendEffect ==
    ASSUME SockTypeOK, NEW c \in Conns, NEW f, send(c, f)
    PROVE  /\ closed' = closed /\ ws' = ws
           /\ \A d \in Conns : d # c => out'[d] = out[d]
           /\ out'[c] = out[c] \/ (Accepts(c) /\ out'[c] = Append(out[c], f))
BY DEF SockTypeOK, ConnTypeOK, send

(* What a close changes: its own conn. *)
LEMMA CloseEffect ==
    ASSUME SockTypeOK, NEW c \in Conns, NEW f, close(c, f)
    PROVE  /\ closed' = [closed EXCEPT ![c] = TRUE] /\ ws' = ws
           /\ \A d \in Conns : d # c => out'[d] = out[d]
           /\ \/ out'[c] = out[c] \/ out'[c] = <<>>
              \/ f # nil /\ Accepts(c) /\ out'[c] = Append(out[c], f)
BY DEF SockTypeOK, ConnTypeOK, close

(* What a writer changes: its own queue and socket. *)
LEMMA WriterEffect ==
    ASSUME SockTypeOK, NEW c \in Conns, Writer(c)
    PROVE  /\ closed' = closed
           /\ ws[c] = "open" /\ ws'[c] \in {"open", "shut"}
           /\ \A d \in Conns : d # c => ws'[d] = ws[d] /\ out'[d] = out[d]
           /\ out'[c] = <<>> \/ out'[c] = out[c] \/ (out[c] # <<>> /\ out'[c] = Tail(out[c]))
BY DEF SockTypeOK, ConnTypeOK, Writer, WriteFrame, WriteError, Drained

(* A writer keeps the types of sockets. *)
LEMMA WriterTypes == ASSUME SockTypeOK, NEW c \in Conns, Writer(c) PROVE SockTypeOK'
<1>1. ASSUME NEW S, out[c] \in Seq(S), out[c] # <<>>
      PROVE  Tail(out[c]) \in Seq(S) /\ Len(Tail(out[c])) = Len(out[c]) - 1
  BY <1>1
<1>2. out[c] # <<>> => /\ Tail(out[c]) \in Seq(Frames)
                       /\ Len(Tail(out[c])) <= QueueLen
                       /\ c \in AgentConns => Tail(out[c]) \in Seq(AgentFrames)
                       /\ c \in Tabs => Tail(out[c]) \in Seq(BrowserFrames)
  BY <1>1, BrokerAssumption DEF SockTypeOK, ConnTypeOK, Conns
<1>3. <<>> \in Seq(Frames) /\ <<>> \in Seq(AgentFrames) /\ <<>> \in Seq(BrowserFrames) /\ Len(<<>>) = 0
  OBVIOUS
<1>4. CASE WriteFrame(c) BY <1>2, <1>4 DEF WriteFrame, SockTypeOK, ConnTypeOK, Conns
<1>5. CASE WriteError(c) BY <1>2, <1>3, <1>5, BrokerAssumption DEF WriteError, SockTypeOK, ConnTypeOK, Conns
<1>6. CASE Drained(c) BY <1>6 DEF Drained, SockTypeOK, ConnTypeOK, Conns
<1> QED BY <1>4, <1>5, <1>6 DEF Writer
---------------------------------------------------------------------------
(* Types.                                                                   *)

(* A handler may have nothing to do. *)
LEMMA NoWorkType == NoWork \in Work
BY DEF NoWork, Job, Work

\* What handler h has to do after the step, told from what it is given.
JobEffect(h, shut, ends, fin, tell, sid) ==
    /\ todo' \in [Handlers -> Work]
    /\ \A g \in Handlers : g # h => todo'[g] = todo[g]
    /\ todo'[h].shut = shut
    /\ todo'[h].ends = ends
    /\ todo'[h].tell = tell
    /\ ends # {} => todo'[h].fin = fin
    /\ tell # nil => todo'[h].sid = sid

(* A handler that is given a job has that job. *)
LEMMA AssignJob ==
    ASSUME HandlerTypeOK, NEW h \in Handlers,
           NEW shut \in AgentConns \cup {nil}, NEW ends \in SUBSET Tabs,
           NEW fin \in BrowserFrames \cup {nil}, NEW tell \in AgentConns \cup {nil},
           NEW sid \in Sids \cup {nil}, Assign(h, Job(shut, ends, fin, tell, sid))
    PROVE  JobEffect(h, shut, ends, fin, tell, sid)
<1>1. Left(Job(shut, ends, fin, tell, sid)) \in Work BY NoWorkType DEF Left, Job, Work
<1>2. /\ todo \in [Handlers -> Work]
      /\ todo' = [todo EXCEPT ![h] = Left(Job(shut, ends, fin, tell, sid))]
  BY DEF HandlerTypeOK, Assign
<1>3. todo'[h] = Left(Job(shut, ends, fin, tell, sid)) BY <1>2
<1>4. todo' \in [Handlers -> Work] /\ \A g \in Handlers : g # h => todo'[g] = todo[g]
  BY <1>1, <1>2
<1> QED BY <1>3, <1>4 DEF JobEffect, Left, Job, NoWork

(* The frames the relay makes are frames. *)
LEMMA FrameTypes ==
    /\ \A why \in Banners : Banner(why) \in BrowserFrames
    /\ \A a \in AgentConns : \A kind \in {"out", "exit", "err"} : FromAgent(kind, a) \in BrowserFrames
    /\ ToAgent("hello_ok", nil) \in AgentFrames
    /\ \A sid \in Sids : \A kind \in {"open", "in", "close"} : ToAgent(kind, sid) \in AgentFrames
BY DEF Banner, FromAgent, ToAgent, BrowserFrames, AgentFrames

(* Every step keeps the types of sockets. *)
LEMMA SockTypesPreserved == ASSUME TypeInv, [Next]_vars PROVE SockTypeOK'
<1>1. ASSUME NEW m \in Machines, Mint(m) PROVE SockTypeOK'
  BY <1>1 DEF TypeInv, TypeOK, SockTypeOK, ConnTypeOK, sockVars, Mint
<1>2. ASSUME NEW m \in Machines, DeleteStore(m) PROVE SockTypeOK'
  BY <1>2 DEF TypeInv, TypeOK, SockTypeOK, ConnTypeOK, sockVars, DeleteStore
<1>3. ASSUME NEW m \in Machines, DeleteLookup(m) PROVE SockTypeOK'
  BY <1>3 DEF TypeInv, TypeOK, SockTypeOK, ConnTypeOK, sockVars, DeleteLookup
<1>4. ASSUME NEW m \in Machines, DeleteDrop(m) PROVE SockTypeOK'
  BY <1>4 DEF TypeInv, TypeOK, SockTypeOK, ConnTypeOK, sockVars, DeleteDrop, DropAgent
<1>5. ASSUME NEW sid \in Sids, NEW m \in Machines, TermLookup(sid, m) PROVE SockTypeOK'
  BY <1>5 DEF TypeInv, TypeOK, SockTypeOK, ConnTypeOK, sockVars, TermLookup
<1>6. ASSUME NEW sid \in Sids, TermInsert(sid) PROVE SockTypeOK'
  BY <1>6 DEF TypeInv, TypeOK, SockTypeOK, ConnTypeOK, sockVars, TermInsert
<1>7. ASSUME NEW sid \in Sids, Expire(sid) PROVE SockTypeOK'
  BY <1>7 DEF TypeInv, TypeOK, SockTypeOK, ConnTypeOK, sockVars, Expire
<1>8. CASE Sweep
  BY <1>8 DEF TypeInv, TypeOK, SockTypeOK, ConnTypeOK, sockVars, Sweep
<1>9. ASSUME NEW a \in AgentConns, AgentRefused(a) PROVE SockTypeOK'
  BY <1>9 DEF TypeInv, TypeOK, SockTypeOK, ConnTypeOK, sockVars, AgentRefused
<1>10. ASSUME NEW a \in AgentConns, NEW m \in Machines, AgentHello(a, m) PROVE SockTypeOK'
  BY <1>10 DEF TypeInv, TypeOK, SockTypeOK, ConnTypeOK, sockVars, AgentHello
<1>11. ASSUME NEW a \in AgentConns, AgentRegister(a) PROVE SockTypeOK'
  BY <1>11, NewConnTypes, FrameTypes, BrokerAssumption DEF AgentRegister, Conns, Handlers, TypeInv, TypeOK
<1>12. ASSUME NEW a \in AgentConns, AgentGreet(a) PROVE SockTypeOK'
  BY <1>12, SendTypes, FrameTypes, BrokerAssumption DEF AgentGreet, Conns, Handlers, TypeInv, TypeOK
<1>13. ASSUME NEW a \in AgentConns, NEW sid \in Sids, AgentOut(a, sid) PROVE SockTypeOK'
  BY <1>13 DEF TypeInv, TypeOK, SockTypeOK, ConnTypeOK, sockVars, AgentOut, Serving, Owns
<1>14. ASSUME NEW a \in AgentConns, RouteOut(a) PROVE SockTypeOK'
  BY <1>14, SendTypes, FrameTypes, BrokerAssumption DEF RouteOut, Conns, Handlers, TypeInv, TypeOK, RolesOK, AgentRoles, TabRoles, SessRoles, TodoRoles
<1>15. ASSUME NEW a \in AgentConns, DropSlow(a) PROVE SockTypeOK'
  BY <1>15 DEF TypeInv, TypeOK, SockTypeOK, ConnTypeOK, sockVars, DropSlow, EndSession
<1>16. ASSUME NEW a \in AgentConns, NEW sid \in Sids, NEW kind \in {"exit", "err"}, AgentEnd(a, sid, kind) PROVE SockTypeOK'
  BY <1>16 DEF TypeInv, TypeOK, SockTypeOK, ConnTypeOK, sockVars, AgentEnd, Serving, Owns
<1>17. ASSUME NEW a \in AgentConns, AgentLost(a) PROVE SockTypeOK'
  BY <1>17 DEF TypeInv, TypeOK, SockTypeOK, ConnTypeOK, sockVars, AgentLost, Serving, DropAgent
<1>18. ASSUME NEW t \in Tabs, NEW sid \in Sids, ClaimKey(t, sid) PROVE SockTypeOK'
  BY <1>18 DEF TypeInv, TypeOK, SockTypeOK, ConnTypeOK, sockVars, ClaimKey
<1>19. ASSUME NEW t \in Tabs, NEW sid \in Sids, RefuseKey(t, sid) PROVE SockTypeOK'
  BY <1>19 DEF TypeInv, TypeOK, SockTypeOK, ConnTypeOK, sockVars, RefuseKey
<1>20. ASSUME NEW t \in Tabs, UpgradeFails(t) PROVE SockTypeOK'
  BY <1>20 DEF TypeInv, TypeOK, SockTypeOK, ConnTypeOK, sockVars, UpgradeFails
<1>21. ASSUME NEW t \in Tabs, RegisterTab(t) PROVE SockTypeOK'
  BY <1>21, NewConnTypes, FrameTypes, BrokerAssumption DEF RegisterTab, Conns, Handlers, TypeInv, TypeOK
<1>22. ASSUME NEW t \in Tabs, OpenSent(t) PROVE SockTypeOK'
  BY <1>22, SendTypes, FrameTypes, BrokerAssumption DEF OpenSent, Conns, Handlers, TypeInv, TypeOK, RolesOK, AgentRoles, TabRoles, SessRoles, TodoRoles, HandlerTypeOK
<1>23. ASSUME NEW t \in Tabs, OpenFails(t) PROVE SockTypeOK'
  BY <1>23 DEF TypeInv, TypeOK, SockTypeOK, ConnTypeOK, sockVars, OpenFails
<1>24. ASSUME NEW t \in Tabs, EndOffline(t) PROVE SockTypeOK'
  BY <1>24 DEF TypeInv, TypeOK, SockTypeOK, ConnTypeOK, sockVars, EndOffline, EndSession
<1>25. ASSUME NEW t \in Tabs, Input(t) PROVE SockTypeOK'
  BY <1>25, SendTypes, FrameTypes, BrokerAssumption DEF Input, Conns, Handlers, TypeInv, TypeOK, RolesOK, AgentRoles, TabRoles, SessRoles, TodoRoles, HandlerTypeOK
<1>26. ASSUME NEW t \in Tabs, TabLost(t) PROVE SockTypeOK'
  BY <1>26 DEF TypeInv, TypeOK, SockTypeOK, ConnTypeOK, sockVars, TabLost, EndSession
<1>27. ASSUME NEW h \in Handlers, CloseAgent(h) PROVE SockTypeOK'
  BY <1>27, CloseTypes, FrameTypes, BrokerAssumption DEF CloseAgent, Conns, Handlers, TypeInv, TypeOK, HandlerTypeOK, Work
<1>28. ASSUME NEW h \in Handlers, NEW t \in Tabs, CloseTab(h, t) PROVE SockTypeOK'
  BY <1>28, CloseTypes, FrameTypes, BrokerAssumption DEF CloseTab, Conns, Handlers, TypeInv, TypeOK, HandlerTypeOK, Work
<1>29. ASSUME NEW h \in Handlers, TellAgent(h) PROVE SockTypeOK'
  BY <1>29, SendTypes, FrameTypes, BrokerAssumption DEF TellAgent, Conns, Handlers, TypeInv, TypeOK, RolesOK, AgentRoles, TabRoles, SessRoles, TodoRoles, HandlerTypeOK, Work
<1>30. ASSUME NEW c \in Conns, WriterStep(c) PROVE SockTypeOK'
  BY <1>30, WriterTypes, FrameTypes, BrokerAssumption DEF WriterStep, Conns, Handlers, TypeInv, TypeOK
<1>31. CASE UNCHANGED vars
  BY <1>31 DEF TypeInv, TypeOK, SockTypeOK, ConnTypeOK, sockVars, vars
<1> QED
  BY <1>1, <1>2, <1>3, <1>4, <1>5, <1>6, <1>7, <1>8, <1>9, <1>10, <1>11, <1>12, <1>13, <1>14, <1>15, <1>16, <1>17, <1>18, <1>19, <1>20, <1>21, <1>22, <1>23, <1>24, <1>25, <1>26, <1>27, <1>28, <1>29, <1>30, <1>31
  DEF Next, AdminStep, AgentStep, TabStep, DoWork, Quiet
---------------------------------------------------------------------------
(* What the handlers are given to do.                                       *)

(* The job endSession leaves: close the tab, tell the agent. *)
LEMMA EndSessionJob ==
    ASSUME TypeInv, NEW h \in Handlers, NEW t \in Tabs, NEW final \in BrowserFrames \cup {nil},
           NEW notify \in BOOLEAN, tsid[t] \in Sids, tmid[t] \in Machines,
           EndSession(h, t, final, notify)
    PROVE  JobEffect(h, nil, {t}, final, IF notify THEN agents[tmid[t]] ELSE nil, tsid[t])
<1>1. HandlerTypeOK BY DEF TypeInv, TypeOK
<1>2. agents[tmid[t]] \in AgentConns \cup {nil} BY DEF TypeInv, TypeOK, MapTypeOK
<1>3. (IF notify THEN agents[tmid[t]] ELSE nil) \in AgentConns \cup {nil} BY <1>2
<1>4. Assign(h, Job(nil, {t}, final, IF notify THEN agents[tmid[t]] ELSE nil, tsid[t]))
  BY DEF EndSession
<1> QED BY <1>1, <1>3, <1>4, AssignJob

(* The job dropAgent leaves: close the agent and its tabs. *)
LEMMA DropAgentJob ==
    ASSUME TypeInv, NEW h \in Handlers, NEW a \in AgentConns, NEW why \in Banners,
           DropAgent(h, a, why)
    PROVE  JobEffect(h, a, IF agents[amid[a]] = a THEN SessionsOf(amid[a]) ELSE {},
                     Banner(why), nil, nil)
<1>1. HandlerTypeOK BY DEF TypeInv, TypeOK
<1>2. (IF agents[amid[a]] = a THEN SessionsOf(amid[a]) ELSE {}) \in SUBSET Tabs BY DEF SessionsOf
<1>3. Assign(h, Job(a, IF agents[amid[a]] = a THEN SessionsOf(amid[a]) ELSE {}, Banner(why), nil, nil))
  BY DEF DropAgent
<1>4. Banner(why) \in BrowserFrames BY FrameTypes
<1> QED BY <1>1, <1>2, <1>3, <1>4, AssignJob

(* The job a registration leaves: close the zombie and its tabs. *)
LEMMA RegisterJob ==
    ASSUME TypeInv, NEW a \in AgentConns, AgentRegister(a)
    PROVE  JobEffect(a, agents[amid[a]], IF agents[amid[a]] # nil THEN SessionsOf(amid[a]) ELSE {},
                     Banner("agent reconnected"), nil, nil)
<1>1. HandlerTypeOK BY DEF TypeInv, TypeOK
<1>2. agents[amid[a]] \in AgentConns \cup {nil}
  BY DEF TypeInv, TypeOK, MapTypeOK, RolesOK, AgentRoles, AgentRegister
<1>3. (IF agents[amid[a]] # nil THEN SessionsOf(amid[a]) ELSE {}) \in SUBSET Tabs BY DEF SessionsOf
<1>4. Banner("agent reconnected") \in BrowserFrames BY FrameTypes DEF Banners
<1>5. Assign(a, Job(agents[amid[a]], IF agents[amid[a]] # nil THEN SessionsOf(amid[a]) ELSE {},
                    Banner("agent reconnected"), nil, nil))
  BY DEF AgentRegister
<1>6. a \in Handlers BY DEF Handlers
<1> QED BY <1>1, <1>2, <1>3, <1>4, <1>5, <1>6, AssignJob

(* The job an exit or err leaves: close the tab. *)
LEMMA AgentEndJob ==
    ASSUME TypeInv, NEW a \in AgentConns, NEW sid \in Sids, NEW kind \in {"exit", "err"},
           AgentEnd(a, sid, kind)
    PROVE  sess[sid] \in Tabs /\ JobEffect(a, nil, {sess[sid]}, FromAgent(kind, a), nil, nil)
<1>1. HandlerTypeOK BY DEF TypeInv, TypeOK
<1>2. sess[sid] \in Tabs BY DEF TypeInv, TypeOK, MapTypeOK, AgentEnd, Owns
<1>3. Assign(a, Job(nil, {sess[sid]}, FromAgent(kind, a), nil, nil)) BY DEF AgentEnd
<1>4. FromAgent(kind, a) \in BrowserFrames BY FrameTypes
<1>5. a \in Handlers BY DEF Handlers
<1> QED BY <1>1, <1>2, <1>3, <1>4, <1>5, AssignJob

(* What dropAgent does to the maps. *)
LEMMA DropAgentMaps ==
    ASSUME NEW h, NEW a, NEW why, DropAgent(h, a, why)
    PROVE  /\ agents[amid[a]] = a => /\ agents' = [agents EXCEPT ![amid[a]] = nil]
                                     /\ sess' = Without(SessionsOf(amid[a]))
           /\ agents[amid[a]] # a => agents' = agents /\ sess' = Without({})
BY DEF DropAgent

(* The job of DELETE. *)
LEMMA DeleteDropJob ==
    ASSUME TypeInv, NEW m \in Machines, DeleteDrop(m)
    PROVE  JobEffect(m, dac[m], IF agents[amid[dac[m]]] = dac[m] THEN SessionsOf(amid[dac[m]]) ELSE {},
                     Banner("machine revoked"), nil, nil)
<1>1. dac[m] \in AgentConns BY DEF DeleteDrop, TypeInv, RolesOK, AgentRoles, TabRoles, SessRoles, AdminRoles, TodoRoles
<1> QED BY <1>1, DropAgentJob DEF DeleteDrop, Banners, Handlers

(* The job of a lost agent. *)
LEMMA AgentLostJob ==
    ASSUME TypeInv, NEW a \in AgentConns, AgentLost(a)
    PROVE  JobEffect(a, a, IF agents[amid[a]] = a THEN SessionsOf(amid[a]) ELSE {},
                     Banner("agent went offline"), nil, nil)
BY DropAgentJob DEF AgentLost, Banners, Handlers

(* The job of a browser that is too slow. *)
LEMMA DropSlowJob ==
    ASSUME TypeInv, NEW a \in AgentConns, DropSlow(a)
    PROVE  /\ acur[a] \in Tabs /\ tsid[acur[a]] \in Sids /\ tmid[acur[a]] \in Machines
           /\ JobEffect(a, nil, {acur[a]}, Banner("session dropped: browser too slow"),
                        agents[tmid[acur[a]]], tsid[acur[a]])
<1>1. acur[a] \in Tabs /\ tsid[acur[a]] \in Sids /\ tmid[acur[a]] \in Machines
  BY DEF DropSlow, TypeInv, RolesOK, AgentRoles, TabRoles, SessRoles, AdminRoles, TodoRoles
<1>2. Banner("session dropped: browser too slow") \in BrowserFrames BY FrameTypes DEF Banners
<1> QED BY <1>1, <1>2, EndSessionJob DEF DropSlow, Handlers

(* The job of an upgrade that finds its agent offline. *)
LEMMA EndOfflineJob ==
    ASSUME TypeInv, NEW t \in Tabs, EndOffline(t)
    PROVE  /\ tsid[t] \in Sids /\ tmid[t] \in Machines
           /\ JobEffect(t, nil, {t}, Banner("agent is offline"), nil, tsid[t])
<1>1. tsid[t] \in Sids /\ tmid[t] \in Machines BY DEF EndOffline, TypeInv, RolesOK, AgentRoles, TabRoles, SessRoles, AdminRoles, TodoRoles
<1>2. Banner("agent is offline") \in BrowserFrames BY FrameTypes DEF Banners
<1> QED BY <1>1, <1>2, EndSessionJob DEF EndOffline, Handlers

(* The job of a lost tab. *)
LEMMA TabLostJob ==
    ASSUME TypeInv, NEW t \in Tabs, TabLost(t)
    PROVE  /\ tsid[t] \in Sids /\ tmid[t] \in Machines
           /\ JobEffect(t, nil, {t}, nil, agents[tmid[t]], tsid[t])
<1>1. tsid[t] \in Sids /\ tmid[t] \in Machines BY DEF TabLost, TypeInv, RolesOK, AgentRoles, TabRoles, SessRoles, AdminRoles, TodoRoles
<1> QED BY <1>1, EndSessionJob DEF TabLost, Handlers

(* What is left of a job after each of its calls. *)
LEMMA WorkJobs ==
    ASSUME TypeInv, NEW h \in Handlers
    PROVE  /\ CloseAgent(h) => JobEffect(h, nil, todo[h].ends, todo[h].fin, todo[h].tell, todo[h].sid)
           /\ \A t \in Tabs :
                 CloseTab(h, t) => JobEffect(h, nil, todo[h].ends \ {t}, todo[h].fin, todo[h].tell, todo[h].sid)
           /\ TellAgent(h) => JobEffect(h, nil, {}, todo[h].fin, nil, nil)
<1>1. HandlerTypeOK BY DEF TypeInv, TypeOK
<1>2. /\ todo[h].ends \in SUBSET Tabs /\ todo[h].fin \in BrowserFrames \cup {nil}
      /\ todo[h].tell \in AgentConns \cup {nil} /\ todo[h].sid \in Sids \cup {nil}
  BY <1>1 DEF HandlerTypeOK, Work
<1>3. CloseAgent(h) => JobEffect(h, nil, todo[h].ends, todo[h].fin, todo[h].tell, todo[h].sid)
  BY <1>1, <1>2, AssignJob DEF CloseAgent
<1>4. ASSUME NEW t \in Tabs, CloseTab(h, t)
      PROVE  JobEffect(h, nil, todo[h].ends \ {t}, todo[h].fin, todo[h].tell, todo[h].sid)
  <2>1. todo[h].ends \ {t} \in SUBSET Tabs BY <1>2
  <2> QED BY <1>1, <1>2, <1>4, <2>1, AssignJob DEF CloseTab
<1>5. TellAgent(h) => JobEffect(h, nil, {}, todo[h].fin, nil, nil)
  BY <1>1, <1>2, AssignJob DEF TellAgent
<1> QED BY <1>3, <1>4, <1>5

(* Every step keeps the types of maps and handlers. *)
LEMMA StateTypesPreserved == ASSUME TypeInv, [Next]_vars PROVE MapTypeOK' /\ HandlerTypeOK'
<1> USE BrokerAssumption DEF agentVars, tabVars, keyVars, deleteVars, TypeInv, TypeOK, MapTypeOK,
          HandlerTypeOK, RolesOK, AgentRoles, TabRoles, SessRoles, AdminRoles, TodoRoles
<1>1. ASSUME NEW m \in Machines, Mint(m) PROVE MapTypeOK' /\ HandlerTypeOK'
  BY <1>1 DEF Mint
<1>2. ASSUME NEW m \in Machines, DeleteStore(m) PROVE MapTypeOK' /\ HandlerTypeOK'
  BY <1>2 DEF DeleteStore
<1>3. ASSUME NEW m \in Machines, DeleteLookup(m) PROVE MapTypeOK' /\ HandlerTypeOK'
  BY <1>3 DEF DeleteLookup
<1>4. ASSUME NEW m \in Machines, DeleteDrop(m) PROVE MapTypeOK' /\ HandlerTypeOK'
  BY <1>4, DeleteDropJob DEF DeleteDrop, DropAgent, JobEffect, Without, SessionsOf, Handlers
<1>5. ASSUME NEW sid \in Sids, NEW m \in Machines, TermLookup(sid, m) PROVE MapTypeOK' /\ HandlerTypeOK'
  BY <1>5 DEF TermLookup
<1>6. ASSUME NEW sid \in Sids, TermInsert(sid) PROVE MapTypeOK' /\ HandlerTypeOK'
  BY <1>6 DEF TermInsert
<1>7. ASSUME NEW sid \in Sids, Expire(sid) PROVE MapTypeOK' /\ HandlerTypeOK'
  <2>1. [pend[sid] EXCEPT !.expired = TRUE] \in [mid : Machines, expired : BOOLEAN]
    <3> HIDE BrokerAssumption DEF HandlerTypeOK, RolesOK, agentVars, tabVars, keyVars, deleteVars
    <3> QED BY <1>7 DEF Expire
  <2> QED BY <1>7, <2>1 DEF Expire
<1>8. CASE Sweep
  BY <1>8 DEF Sweep
<1>9. ASSUME NEW a \in AgentConns, AgentRefused(a) PROVE MapTypeOK' /\ HandlerTypeOK'
  BY <1>9 DEF AgentRefused
<1>10. ASSUME NEW a \in AgentConns, NEW m \in Machines, AgentHello(a, m) PROVE MapTypeOK' /\ HandlerTypeOK'
  BY <1>10 DEF AgentHello
<1>11. ASSUME NEW a \in AgentConns, AgentRegister(a) PROVE MapTypeOK' /\ HandlerTypeOK'
  BY <1>11, RegisterJob DEF AgentRegister, JobEffect, Without, SessionsOf, Handlers
<1>12. ASSUME NEW a \in AgentConns, AgentGreet(a) PROVE MapTypeOK' /\ HandlerTypeOK'
  BY <1>12 DEF AgentGreet
<1>13. ASSUME NEW a \in AgentConns, NEW sid \in Sids, AgentOut(a, sid) PROVE MapTypeOK' /\ HandlerTypeOK'
  BY <1>13 DEF AgentOut, Serving, Owns
<1>14. ASSUME NEW a \in AgentConns, RouteOut(a) PROVE MapTypeOK' /\ HandlerTypeOK'
  BY <1>14 DEF RouteOut
<1>15. ASSUME NEW a \in AgentConns, DropSlow(a) PROVE MapTypeOK' /\ HandlerTypeOK'
  BY <1>15, DropSlowJob DEF DropSlow, EndSession, JobEffect, Without, SessionsOf, Handlers
<1>16. ASSUME NEW a \in AgentConns, NEW sid \in Sids, NEW kind \in {"exit", "err"}, AgentEnd(a, sid, kind) PROVE MapTypeOK' /\ HandlerTypeOK'
  BY <1>16, AgentEndJob DEF AgentEnd, Serving, Owns, JobEffect, Without, SessionsOf, Handlers
<1>17. ASSUME NEW a \in AgentConns, AgentLost(a) PROVE MapTypeOK' /\ HandlerTypeOK'
  BY <1>17, AgentLostJob DEF AgentLost, Serving, DropAgent, JobEffect, Without, SessionsOf, Handlers
<1>18. ASSUME NEW t \in Tabs, NEW sid \in Sids, ClaimKey(t, sid) PROVE MapTypeOK' /\ HandlerTypeOK'
  BY <1>18 DEF ClaimKey
<1>19. ASSUME NEW t \in Tabs, NEW sid \in Sids, RefuseKey(t, sid) PROVE MapTypeOK' /\ HandlerTypeOK'
  BY <1>19 DEF RefuseKey
<1>20. ASSUME NEW t \in Tabs, UpgradeFails(t) PROVE MapTypeOK' /\ HandlerTypeOK'
  BY <1>20 DEF UpgradeFails
<1>21. ASSUME NEW t \in Tabs, RegisterTab(t) PROVE MapTypeOK' /\ HandlerTypeOK'
  BY <1>21 DEF RegisterTab
<1>22. ASSUME NEW t \in Tabs, OpenSent(t) PROVE MapTypeOK' /\ HandlerTypeOK'
  BY <1>22 DEF OpenSent
<1>23. ASSUME NEW t \in Tabs, OpenFails(t) PROVE MapTypeOK' /\ HandlerTypeOK'
  BY <1>23 DEF OpenFails
<1>24. ASSUME NEW t \in Tabs, EndOffline(t) PROVE MapTypeOK' /\ HandlerTypeOK'
  BY <1>24, EndOfflineJob DEF EndOffline, EndSession, JobEffect, Without, SessionsOf, Handlers
<1>25. ASSUME NEW t \in Tabs, Input(t) PROVE MapTypeOK' /\ HandlerTypeOK'
  BY <1>25 DEF Input
<1>26. ASSUME NEW t \in Tabs, TabLost(t) PROVE MapTypeOK' /\ HandlerTypeOK'
  BY <1>26, TabLostJob DEF TabLost, EndSession, JobEffect, Without, SessionsOf, Handlers
<1>27. ASSUME NEW h \in Handlers, CloseAgent(h) PROVE MapTypeOK' /\ HandlerTypeOK'
  BY <1>27, WorkJobs DEF CloseAgent, JobEffect, Without, SessionsOf, Handlers
<1>28. ASSUME NEW h \in Handlers, NEW t \in Tabs, CloseTab(h, t) PROVE MapTypeOK' /\ HandlerTypeOK'
  BY <1>28, WorkJobs DEF CloseTab, JobEffect, Without, SessionsOf, Handlers
<1>29. ASSUME NEW h \in Handlers, TellAgent(h) PROVE MapTypeOK' /\ HandlerTypeOK'
  BY <1>29, WorkJobs DEF TellAgent, JobEffect, Without, SessionsOf, Handlers
<1>30. ASSUME NEW c \in Conns, WriterStep(c) PROVE MapTypeOK' /\ HandlerTypeOK'
  BY <1>30 DEF WriterStep
<1>31. CASE UNCHANGED vars
  BY <1>31 DEF vars, sockVars
<1> HIDE BrokerAssumption DEF agentVars, tabVars, keyVars, deleteVars, TypeInv, TypeOK, MapTypeOK,
          HandlerTypeOK, RolesOK, AgentRoles, TabRoles, SessRoles, AdminRoles, TodoRoles
<1>32. ASSUME AdminStep PROVE MapTypeOK' /\ HandlerTypeOK'
  BY <1>1, <1>2, <1>3, <1>4, <1>5, <1>6, <1>7, <1>8, <1>32 DEF AdminStep
<1>33. ASSUME NEW a \in AgentConns, AgentStep(a) PROVE MapTypeOK' /\ HandlerTypeOK'
  BY <1>9, <1>10, <1>11, <1>12, <1>13, <1>14, <1>15, <1>16, <1>17, <1>33 DEF AgentStep
<1>34. ASSUME NEW t \in Tabs, TabStep(t) PROVE MapTypeOK' /\ HandlerTypeOK'
  BY <1>18, <1>19, <1>20, <1>21, <1>22, <1>23, <1>24, <1>25, <1>26, <1>34 DEF TabStep
<1>35. ASSUME NEW h \in Handlers, DoWork(h) PROVE MapTypeOK' /\ HandlerTypeOK'
  BY <1>27, <1>28, <1>29, <1>35 DEF DoWork
<1> QED BY <1>30, <1>31, <1>32, <1>33, <1>34, <1>35 DEF Next, Quiet

(* A tab keeps the sid and machine of its claim. *)
LEMMA TabRolesPreserved ==
    ASSUME TypeInv, [Next]_vars
    PROVE  TabRoles'
<1>a. UNCHANGED <<tpc, tsid, tmid, tac>> => TabRoles'
  BY DEF TypeInv, RolesOK, TabRoles
<1>1. ASSUME AdminStep PROVE TabRoles'
  <2>1. UNCHANGED tabVars
    BY <1>1 DEF AdminStep, Mint, DeleteStore, DeleteLookup, DeleteDrop, TermLookup, TermInsert,
        Expire, Sweep
  <2> QED BY <1>a, <2>1 DEF tabVars
<1>2. ASSUME NEW a \in AgentConns, AgentStep(a) PROVE TabRoles'
  <2>1. UNCHANGED tabVars
    BY <1>2 DEF AgentStep, AgentRefused, AgentHello, AgentRegister, AgentGreet, AgentOut,
        RouteOut, DropSlow, AgentEnd, AgentLost
  <2> QED BY <1>a, <2>1 DEF tabVars
<1>4. ASSUME NEW h \in Handlers, DoWork(h) PROVE TabRoles'
  <2>1. UNCHANGED tabVars BY <1>4 DEF DoWork, CloseAgent, CloseTab, TellAgent
  <2> QED BY <1>a, <2>1 DEF tabVars
<1>5. ASSUME NEW c \in Conns, WriterStep(c) PROVE TabRoles'
  BY <1>a, <1>5 DEF WriterStep, tabVars
<1>6. CASE UNCHANGED vars BY <1>a, <1>6 DEF vars, tabVars
<1> USE BrokerAssumption DEF agentVars, tabVars, keyVars, deleteVars,
          TypeInv, TypeOK, MapTypeOK, HandlerTypeOK, RolesOK, TabRoles
<1>3. ASSUME NEW t \in Tabs, TabStep(t) PROVE TabRoles'
  <2>1. ASSUME NEW sid \in Sids, ClaimKey(t, sid) PROVE TabRoles'
    BY <2>1 DEF ClaimKey
  <2>2. ASSUME NEW sid \in Sids, RefuseKey(t, sid) PROVE TabRoles'
    BY <2>2 DEF RefuseKey
  <2>3. CASE UpgradeFails(t) BY <2>3 DEF UpgradeFails
  <2>4. CASE RegisterTab(t) BY <2>4 DEF RegisterTab
  <2>5. CASE OpenSent(t) BY <2>5 DEF OpenSent
  <2>6. CASE OpenFails(t) BY <2>6 DEF OpenFails
  <2>7. CASE EndOffline(t) BY <2>7 DEF EndOffline
  <2>8. CASE Input(t) BY <2>8 DEF Input
  <2>9. CASE TabLost(t) BY <2>9 DEF TabLost
  <2> QED BY <1>3, <2>1, <2>2, <2>3, <2>4, <2>5, <2>6, <2>7, <2>8, <2>9 DEF TabStep
<1> QED BY <1>1, <1>2, <1>3, <1>4, <1>5, <1>6 DEF Next, Quiet

(* An agent conn keeps the machine of its hello. *)
LEMMA AgentRolesPreserved ==
    ASSUME TypeInv, [Next]_vars
    PROVE  AgentRoles'
<1> USE BrokerAssumption DEF agentVars, tabVars, keyVars, deleteVars,
          TypeInv, TypeOK, MapTypeOK, HandlerTypeOK, RolesOK, AgentRoles, TabRoles, SessRoles
<1>1. CASE AdminStep
  BY <1>1 DEF AdminStep, Mint, DeleteStore, DeleteLookup, DeleteDrop, TermLookup, TermInsert,
      Expire, Sweep
<1>2. ASSUME NEW a \in AgentConns, AgentStep(a) PROVE AgentRoles'
  <2>1. CASE AgentRefused(a) BY <2>1 DEF AgentRefused
  <2>2. ASSUME NEW m \in Machines, AgentHello(a, m) PROVE AgentRoles'
    BY <2>2 DEF AgentHello
  <2>3. CASE AgentRegister(a) BY <2>3 DEF AgentRegister
  <2>4. CASE AgentGreet(a) BY <2>4 DEF AgentGreet
  <2>5. ASSUME NEW sid \in Sids, AgentOut(a, sid) PROVE AgentRoles'
    BY <2>5 DEF AgentOut, Serving, Owns
  <2>6. CASE RouteOut(a) BY <2>6 DEF RouteOut
  <2>7. CASE DropSlow(a)
    <3>1. /\ UNCHANGED <<amid, tmid, tsid>> /\ apc[a] = "slow"
          /\ apc' = [apc EXCEPT ![a] = "serving"] /\ acur' = [acur EXCEPT ![a] = nil]
      BY <2>7 DEF DropSlow
    <3> QED BY <3>1
  <2>8. ASSUME NEW sid \in Sids, NEW kind \in {"exit", "err"}, AgentEnd(a, sid, kind)
        PROVE  AgentRoles'
    BY <2>8 DEF AgentEnd, Serving
  <2>9. CASE AgentLost(a) BY <2>9 DEF AgentLost
  <2> QED BY <1>2, <2>1, <2>2, <2>3, <2>4, <2>5, <2>6, <2>7, <2>8, <2>9 DEF AgentStep
<1>3. ASSUME NEW t \in Tabs, TabStep(t) PROVE AgentRoles'
  <2>1. ASSUME NEW sid \in Sids, ClaimKey(t, sid) PROVE AgentRoles'
    BY <2>1 DEF ClaimKey
  <2>2. ASSUME NEW sid \in Sids, RefuseKey(t, sid) PROVE AgentRoles'
    BY <2>2 DEF RefuseKey
  <2>3. CASE UpgradeFails(t) BY <2>3 DEF UpgradeFails
  <2>4. CASE RegisterTab(t) BY <2>4 DEF RegisterTab
  <2>5. CASE OpenSent(t) BY <2>5 DEF OpenSent
  <2>6. CASE OpenFails(t) BY <2>6 DEF OpenFails
  <2>7. CASE EndOffline(t) BY <2>7 DEF EndOffline
  <2>8. CASE Input(t) BY <2>8 DEF Input
  <2>9. CASE TabLost(t) BY <2>9 DEF TabLost
  <2> QED BY <1>3, <2>1, <2>2, <2>3, <2>4, <2>5, <2>6, <2>7, <2>8, <2>9 DEF TabStep
<1>4. ASSUME NEW h \in Handlers, DoWork(h) PROVE AgentRoles'
  BY <1>4 DEF DoWork, CloseAgent, CloseTab, TellAgent
<1>5. ASSUME NEW c \in Conns, WriterStep(c) PROVE AgentRoles'
  BY <1>5 DEF WriterStep
<1>6. CASE UNCHANGED vars BY <1>6 DEF vars
<1> QED BY <1>1, <1>2, <1>3, <1>4, <1>5, <1>6 DEF Next, Quiet

(* A session enters the map by its tab's registration only. *)
LEMMA SessShrinks ==
    ASSUME TypeInv, [Next]_vars
    PROVE  \A s \in Sids : sess'[s] = sess[s] \/ sess'[s] = nil \/ RegisterTab(sess'[s])
<1> SUFFICES ASSUME NEW s \in Sids PROVE sess'[s] = sess[s] \/ sess'[s] = nil \/ RegisterTab(sess'[s])
  OBVIOUS
<1> USE DEF TypeInv, TypeOK, MapTypeOK, HandlerTypeOK, TabRoles, RolesOK
<1>1. CASE AdminStep
  <2>1. ASSUME NEW m \in Machines, DeleteDrop(m)
        PROVE  sess'[s] = sess[s] \/ sess'[s] = nil \/ RegisterTab(sess'[s])
    BY <2>1 DEF DeleteDrop, DropAgent, Without
  <2> QED BY <1>1, <2>1 DEF AdminStep, Mint, DeleteStore, DeleteLookup, TermLookup, TermInsert,
      Expire, Sweep
<1>2. ASSUME NEW a \in AgentConns, AgentStep(a)
      PROVE  sess'[s] = sess[s] \/ sess'[s] = nil \/ RegisterTab(sess'[s])
  <2>1. CASE AgentRegister(a) BY <2>1 DEF AgentRegister, Without
  <2>2. CASE DropSlow(a) BY <2>2 DEF DropSlow, EndSession, Without
  <2>3. ASSUME NEW sid \in Sids, NEW kind \in {"exit", "err"}, AgentEnd(a, sid, kind)
        PROVE  sess'[s] = sess[s] \/ sess'[s] = nil \/ RegisterTab(sess'[s])
    BY <2>3 DEF AgentEnd, Without
  <2>4. CASE AgentLost(a) BY <2>4 DEF AgentLost, DropAgent, Without
  <2> QED BY <1>2, <2>1, <2>2, <2>3, <2>4 DEF AgentStep, AgentRefused, AgentHello, AgentGreet,
      AgentOut, RouteOut
<1>3. ASSUME NEW t \in Tabs, TabStep(t)
      PROVE  sess'[s] = sess[s] \/ sess'[s] = nil \/ RegisterTab(sess'[s])
  <2>1. CASE RegisterTab(t) BY <2>1 DEF RegisterTab
  <2>2. CASE EndOffline(t) BY <2>2 DEF EndOffline, EndSession, Without
  <2>3. CASE TabLost(t) BY <2>3 DEF TabLost, EndSession, Without
  <2> QED BY <1>3, <2>1, <2>2, <2>3 DEF TabStep, ClaimKey, RefuseKey, UpgradeFails, OpenSent,
      OpenFails, Input
<1>4. ASSUME NEW h \in Handlers, DoWork(h)
      PROVE  sess'[s] = sess[s] \/ sess'[s] = nil \/ RegisterTab(sess'[s])
  BY <1>4 DEF DoWork, CloseAgent, CloseTab, TellAgent
<1>5. ASSUME NEW c \in Conns, WriterStep(c)
      PROVE  sess'[s] = sess[s] \/ sess'[s] = nil \/ RegisterTab(sess'[s])
  BY <1>5 DEF WriterStep
<1>6. CASE UNCHANGED vars BY <1>6 DEF vars
<1> QED BY <1>1, <1>2, <1>3, <1>4, <1>5, <1>6 DEF Next, Quiet

\* What a tab has learnt from its key never changes.
TabKeeps(u) == tsid'[u] = tsid[u] /\ tmid'[u] = tmid[u] /\ tac'[u] = tac[u]

(* A tab that has started keeps what it claimed. *)
LEMMA TabsKeep ==
    ASSUME TypeInv, [Next]_vars
    PROVE  \A u \in Tabs : tpc[u] # "new" => TabKeeps(u)
<1> USE DEF tabVars, TypeInv, TypeOK, HandlerTypeOK, TabKeeps
<1>1. CASE AdminStep
  BY <1>1 DEF AdminStep, Mint, DeleteStore, DeleteLookup, DeleteDrop, TermLookup, TermInsert,
      Expire, Sweep
<1>2. ASSUME NEW a \in AgentConns, AgentStep(a) PROVE \A u \in Tabs : tpc[u] # "new" => TabKeeps(u)
  BY <1>2 DEF AgentStep, AgentRefused, AgentHello, AgentRegister, AgentGreet, AgentOut,
      RouteOut, DropSlow, AgentEnd, AgentLost
<1>3. ASSUME NEW t \in Tabs, TabStep(t) PROVE \A u \in Tabs : tpc[u] # "new" => TabKeeps(u)
  <2>1. ASSUME NEW sid \in Sids, ClaimKey(t, sid)
        PROVE  \A u \in Tabs : tpc[u] # "new" => TabKeeps(u)
    BY <2>1 DEF ClaimKey
  <2> QED BY <1>3, <2>1 DEF TabStep, RefuseKey, UpgradeFails, RegisterTab, OpenSent, OpenFails,
      EndOffline, Input, TabLost
<1>4. ASSUME NEW h \in Handlers, DoWork(h) PROVE \A u \in Tabs : tpc[u] # "new" => TabKeeps(u)
  BY <1>4 DEF DoWork, CloseAgent, CloseTab, TellAgent
<1>5. ASSUME NEW c \in Conns, WriterStep(c) PROVE \A u \in Tabs : tpc[u] # "new" => TabKeeps(u)
  BY <1>5 DEF WriterStep
<1>6. CASE UNCHANGED vars BY <1>6 DEF vars
<1> QED BY <1>1, <1>2, <1>3, <1>4, <1>5, <1>6 DEF Next, Quiet

(* The map holds tabs under their own sid. *)
LEMMA SessRolesPreserved == ASSUME TypeInv, MapTypeOK', [Next]_vars PROVE SessRoles'
<1> SUFFICES ASSUME NEW s \in Sids, sess'[s] # nil PROVE tsid'[sess'[s]] = s BY DEF SessRoles
<1>1. sess'[s] \in Tabs BY DEF MapTypeOK
<1>2. CASE sess'[s] = sess[s]
  <2>1. tsid[sess[s]] = s BY <1>2 DEF TypeInv, RolesOK, SessRoles
  <2>2. tpc[sess[s]] # "new" BY <1>1, <1>2, <2>1, BrokerAssumption DEF TypeInv, RolesOK, TabRoles
  <2> QED BY <1>1, <1>2, <2>1, <2>2, TabsKeep DEF TabKeeps
<1>3. CASE sess'[s] # sess[s] /\ RegisterTab(sess'[s])
  BY <1>1, <1>3, BrokerAssumption DEF RegisterTab, TypeInv, TypeOK, MapTypeOK, RolesOK, TabRoles
<1> QED BY <1>2, <1>3, SessShrinks

(* Admin calls keep their machine. *)
LEMMA AdminRolesPreserved ==
    ASSUME TypeInv, [Next]_vars
    PROVE  AdminRoles'
<1> USE BrokerAssumption DEF keyVars, deleteVars, TypeInv, TypeOK, MapTypeOK, HandlerTypeOK, RolesOK, AdminRoles
<1>1. CASE AdminStep
  <2>1. ASSUME NEW m \in Machines, DeleteStore(m) PROVE AdminRoles'
    BY <2>1 DEF DeleteStore
  <2>2. ASSUME NEW m \in Machines, DeleteLookup(m) PROVE AdminRoles'
    BY <2>2 DEF DeleteLookup
  <2>3. ASSUME NEW m \in Machines, DeleteDrop(m) PROVE AdminRoles'
    <3>1. UNCHANGED <<store, kmid, kpc, dac>> /\ dpc[m] = "found" /\ dpc' = [dpc EXCEPT ![m] = "done"]
      BY <2>3 DEF DeleteDrop, agentVars
    <3> QED BY <3>1
  <2>4. ASSUME NEW sid \in Sids, NEW m \in Machines, TermLookup(sid, m) PROVE AdminRoles'
    BY <2>4 DEF TermLookup
  <2>5. ASSUME NEW sid \in Sids, TermInsert(sid) PROVE AdminRoles'
    BY <2>5 DEF TermInsert
  <2> QED BY <1>1, <2>1, <2>2, <2>3, <2>4, <2>5 DEF AdminStep, Mint, Expire, Sweep
<1>2. ASSUME NEW a \in AgentConns, AgentStep(a) PROVE AdminRoles'
  BY <1>2 DEF AgentStep, AgentRefused, AgentHello, AgentRegister, AgentGreet, AgentOut,
      RouteOut, DropSlow, AgentEnd, AgentLost
<1>3. ASSUME NEW t \in Tabs, TabStep(t) PROVE AdminRoles'
  BY <1>3 DEF TabStep, ClaimKey, RefuseKey, UpgradeFails, RegisterTab, OpenSent, OpenFails,
      EndOffline, Input, TabLost
<1>4. ASSUME NEW h \in Handlers, DoWork(h) PROVE AdminRoles'
  BY <1>4 DEF DoWork, CloseAgent, CloseTab, TellAgent
<1>5. ASSUME NEW c \in Conns, WriterStep(c) PROVE AdminRoles'
  BY <1>5 DEF WriterStep
<1>6. CASE UNCHANGED vars BY <1>6 DEF vars
<1> QED BY <1>1, <1>2, <1>3, <1>4, <1>5, <1>6 DEF Next, Quiet

(* The steps that change what a handler has left to do. *)
LEMMA TodoSteps ==
    ASSUME [Next]_vars
    PROVE  \/ \E m \in Machines : DeleteDrop(m)
           \/ \E a \in AgentConns : AgentRegister(a) \/ DropSlow(a) \/ AgentLost(a)
           \/ \E a \in AgentConns, sid \in Sids, kind \in {"exit", "err"} : AgentEnd(a, sid, kind)
           \/ \E t \in Tabs : EndOffline(t) \/ TabLost(t)
           \/ \E h \in Handlers : DoWork(h)
           \/ UNCHANGED todo
<1>1. CASE AdminStep
  BY <1>1 DEF AdminStep, Mint, DeleteStore, DeleteLookup, TermLookup, TermInsert, Expire, Sweep
<1>2. ASSUME NEW a \in AgentConns, AgentStep(a)
      PROVE  \/ AgentRegister(a) \/ DropSlow(a) \/ AgentLost(a)
             \/ \E sid \in Sids, kind \in {"exit", "err"} : AgentEnd(a, sid, kind)
             \/ UNCHANGED todo
  BY <1>2 DEF AgentStep, AgentRefused, AgentHello, AgentGreet, AgentOut, RouteOut
<1>3. ASSUME NEW t \in Tabs, TabStep(t) PROVE EndOffline(t) \/ TabLost(t) \/ UNCHANGED todo
  BY <1>3 DEF TabStep, ClaimKey, RefuseKey, UpgradeFails, RegisterTab, OpenSent, OpenFails, Input
<1>4. ASSUME NEW c \in Conns, WriterStep(c) PROVE UNCHANGED todo BY <1>4 DEF WriterStep
<1>5. CASE UNCHANGED vars BY <1>5 DEF vars
<1> QED BY <1>1, <1>2, <1>3, <1>4, <1>5 DEF Next, Quiet

(* Jobs name tabs and agents that are known. *)
LEMMA TodoRolesPreserved == ASSUME TypeInv, [Next]_vars PROVE TodoRoles'
<1>1. ASSUME NEW h \in Handlers, NEW shut, NEW ends, NEW fin, NEW tell, NEW sid,
             JobEffect(h, shut, ends, fin, tell, sid), tell # nil => sid \in Sids
      PROVE  TodoRoles'
  BY <1>1 DEF JobEffect, TodoRoles, TypeInv, RolesOK
<1>2. ASSUME NEW m \in Machines, DeleteDrop(m) PROVE TodoRoles'
  BY <1>1, <1>2, DeleteDropJob DEF Handlers
<1>3. ASSUME NEW a \in AgentConns, AgentRegister(a) PROVE TodoRoles'
  BY <1>1, <1>3, RegisterJob DEF Handlers
<1>4. ASSUME NEW a \in AgentConns, DropSlow(a) PROVE TodoRoles'
  BY <1>1, <1>4, DropSlowJob DEF Handlers
<1>5. ASSUME NEW a \in AgentConns, AgentLost(a) PROVE TodoRoles'
  BY <1>1, <1>5, AgentLostJob DEF Handlers
<1>6. ASSUME NEW a \in AgentConns, NEW sid \in Sids, NEW kind \in {"exit", "err"}, AgentEnd(a, sid, kind)
      PROVE  TodoRoles'
  <2>1. JobEffect(a, nil, {sess[sid]}, FromAgent(kind, a), nil, nil) BY <1>6, AgentEndJob
  <2> QED BY <1>1, <2>1 DEF Handlers
<1>7. ASSUME NEW t \in Tabs, EndOffline(t) PROVE TodoRoles'
  BY <1>1, <1>7, EndOfflineJob DEF Handlers
<1>8. ASSUME NEW t \in Tabs, TabLost(t) PROVE TodoRoles'
  BY <1>1, <1>8, TabLostJob DEF Handlers
<1>9. ASSUME NEW h \in Handlers, DoWork(h) PROVE TodoRoles'
  BY <1>1, <1>9, WorkJobs DEF DoWork, TypeInv, RolesOK, TodoRoles
<1>10. CASE UNCHANGED todo BY <1>10 DEF TodoRoles, TypeInv, RolesOK
<1> QED BY <1>2, <1>3, <1>4, <1>5, <1>6, <1>7, <1>8, <1>9, <1>10, TodoSteps

(* Every step keeps the roles. *)
LEMMA RolesPreserved == ASSUME TypeInv, MapTypeOK', [Next]_vars PROVE RolesOK'
BY TabRolesPreserved, AgentRolesPreserved, SessRolesPreserved, AdminRolesPreserved, TodoRolesPreserved
   DEF RolesOK
---------------------------------------------------------------------------
(* The relay starts well typed. *)
LEMMA InitTypes == ASSUME Init PROVE TypeInv
<1>1. SockTypeOK
  <2>1. \A S : <<>> \in Seq(S) OBVIOUS
  <2>2. Len(<<>>) = 0 OBVIOUS
  <2> QED BY <2>1, <2>2, BrokerAssumption DEF Init, ConnInit, SockTypeOK, ConnTypeOK, Conns
<1>2. MapTypeOK /\ HandlerTypeOK
  BY NoWorkType DEF Init, MapTypeOK, HandlerTypeOK
<1>3. RolesOK
  BY BrokerAssumption DEF Init, RolesOK, AgentRoles, TabRoles, SessRoles, AdminRoles, TodoRoles, NoWork, Job
<1> QED BY <1>1, <1>2, <1>3 DEF TypeInv, TypeOK

(* Every step keeps types and roles. *)
LEMMA TypesPreserved == ASSUME TypeInv, [Next]_vars PROVE TypeInv'
BY SockTypesPreserved, StateTypesPreserved, RolesPreserved DEF TypeInv, TypeOK

(* Type correctness of the relay: b.agents, b.pend and b.sess only ever     *)
(* hold what their Go types allow, no queue outgrows its channel, and the   *)
(* frames queued for agents and for browsers do not get mixed up.           *)
THEOREM BrokerTypeTheorem == Spec => []TypeOK
<1>1. TypeInv => TypeOK BY DEF TypeInv
<1> QED BY <1>1, InitTypes, TypesPreserved, PTL DEF Spec
---------------------------------------------------------------------------
(* Keys.                                                                    *)

(* The steps that touch keys and claims. *)
LEMMA KeySteps ==
    ASSUME [Next]_vars
    PROVE  \/ \E sid \in Sids, m \in Machines : TermLookup(sid, m)
           \/ \E sid \in Sids : TermInsert(sid) \/ Expire(sid)
           \/ Sweep
           \/ \E t \in Tabs, sid \in Sids : ClaimKey(t, sid)
           \/ UNCHANGED <<pend, kpc, kmid, tsid, tmid>>
<1>1. CASE AdminStep
  BY <1>1 DEF AdminStep, Mint, DeleteStore, DeleteLookup, DeleteDrop, tabVars, keyVars
<1>2. ASSUME NEW a \in AgentConns, AgentStep(a) PROVE UNCHANGED <<pend, kpc, kmid, tsid, tmid>>
  BY <1>2 DEF AgentStep, AgentRefused, AgentHello, AgentRegister, AgentGreet, AgentOut, RouteOut,
              DropSlow, AgentEnd, AgentLost, tabVars, keyVars
<1>3. ASSUME NEW t \in Tabs, TabStep(t)
      PROVE  (\E sid \in Sids : ClaimKey(t, sid)) \/ UNCHANGED <<pend, kpc, kmid, tsid, tmid>>
  BY <1>3 DEF TabStep, RefuseKey, UpgradeFails, RegisterTab, OpenSent, OpenFails, EndOffline,
              Input, TabLost, tabVars, keyVars
<1>4. ASSUME NEW h \in Handlers, DoWork(h) PROVE UNCHANGED <<pend, kpc, kmid, tsid, tmid>>
  BY <1>4 DEF DoWork, CloseAgent, CloseTab, TellAgent, tabVars, keyVars
<1>5. ASSUME NEW c \in Conns, WriterStep(c) PROVE UNCHANGED <<pend, kpc, kmid, tsid, tmid>>
  BY <1>5 DEF WriterStep, tabVars, keyVars
<1>6. CASE UNCHANGED vars BY <1>6 DEF vars, tabVars, keyVars
<1> QED BY <1>1, <1>2, <1>3, <1>4, <1>5, <1>6 DEF Next, Quiet

(* A key is claimed by one tab, and then gone. *)
LEMMA KeysPreserved ==
    ASSUME TypeInv, KeyRoles, OneTabPerKey, [Next]_vars
    PROVE  KeyRoles' /\ OneTabPerKey'
<1> USE DEF TypeInv, TypeOK, MapTypeOK, HandlerTypeOK, RolesOK, TabRoles, KeyRoles, OneTabPerKey
<1>1. ASSUME NEW sid \in Sids, NEW m \in Machines, TermLookup(sid, m)
      PROVE  KeyRoles' /\ OneTabPerKey'
  BY <1>1 DEF TermLookup, tabVars
<1>2. ASSUME NEW sid \in Sids, TermInsert(sid) PROVE KeyRoles' /\ OneTabPerKey'
  BY <1>2, BrokerAssumption DEF TermInsert, tabVars
<1>3. ASSUME NEW sid \in Sids, Expire(sid) PROVE KeyRoles' /\ OneTabPerKey'
  BY <1>3 DEF Expire, tabVars, keyVars
<1>4. CASE Sweep BY <1>4 DEF Sweep, tabVars, keyVars
<1>5. ASSUME NEW t \in Tabs, NEW sid \in Sids, ClaimKey(t, sid) PROVE KeyRoles' /\ OneTabPerKey'
  BY <1>5, BrokerAssumption DEF ClaimKey, keyVars
<1>6. CASE UNCHANGED <<pend, kpc, kmid, tsid, tmid>> BY <1>6
<1> QED BY <1>1, <1>2, <1>3, <1>4, <1>5, <1>6, KeySteps
---------------------------------------------------------------------------
(* Conns exist before anything refers to them.                              *)

\* A conn is created by the handler it belongs to, and shut by its writer.
WsStep(c) ==
    \/ ws'[c] = ws[c]
    \/ ws[c] = "open" /\ ws'[c] = "shut"
    \/ /\ ws[c] = "none" /\ ws'[c] = "open"
       /\ (c \in AgentConns /\ AgentRegister(c)) \/ (c \in Tabs /\ RegisterTab(c))

(* A socket opens once and shuts once. *)
LEMMA WsSteps ==
    ASSUME TypeInv, [Next]_vars
    PROVE  \A c \in Conns : WsStep(c)
<1> SUFFICES ASSUME NEW d \in Conns PROVE WsStep(d)
  OBVIOUS
<1> USE DEF sockVars, WsStep, TypeInv, TypeOK, SockTypeOK, ConnTypeOK
<1>1. CASE AdminStep
  BY <1>1 DEF AdminStep, Mint, DeleteStore, DeleteLookup, DeleteDrop, TermLookup, TermInsert,
      Expire, Sweep
<1>2. ASSUME NEW a \in AgentConns, AgentStep(a) PROVE WsStep(d)
  <2>1. CASE AgentRegister(a) BY <2>1 DEF AgentRegister, newConn
  <2>2. CASE AgentGreet(a) BY <2>2 DEF AgentGreet, send
  <2>3. CASE RouteOut(a) BY <2>3 DEF RouteOut, send
  <2> QED BY <1>2, <2>1, <2>2, <2>3 DEF AgentStep, AgentRefused, AgentHello, AgentOut,
      DropSlow, AgentEnd, AgentLost
<1>3. ASSUME NEW t \in Tabs, TabStep(t) PROVE WsStep(d)
  <2>1. CASE RegisterTab(t) BY <2>1 DEF RegisterTab, newConn
  <2>2. CASE OpenSent(t) BY <2>2 DEF OpenSent, send
  <2>3. CASE Input(t) BY <2>3 DEF Input, send
  <2> QED BY <1>3, <2>1, <2>2, <2>3 DEF TabStep, ClaimKey, RefuseKey, UpgradeFails, OpenFails,
      EndOffline, TabLost
<1>4. ASSUME NEW h \in Handlers, DoWork(h) PROVE WsStep(d)
  <2>1. CASE CloseAgent(h) BY <2>1 DEF CloseAgent, close
  <2>2. ASSUME NEW t \in Tabs, CloseTab(h, t) PROVE WsStep(d)
    BY <2>2 DEF CloseTab, close
  <2>3. CASE TellAgent(h) BY <2>3 DEF TellAgent, send
  <2> QED BY <1>4, <2>1, <2>2, <2>3 DEF DoWork
<1>5. ASSUME NEW c \in Conns, WriterStep(c) PROVE WsStep(d)
  BY <1>5, WriterEffect DEF WriterStep
<1>6. CASE UNCHANGED vars BY <1>6 DEF vars
<1> QED BY <1>1, <1>2, <1>3, <1>4, <1>5, <1>6 DEF Next, Quiet

\* Nobody sends to or closes a conn that was not created.
Untouched(c) == closed'[c] = closed[c] /\ out'[c] = out[c]

(* A send leaves conns alone that are not there yet. *)
LEMMA SendUntouched ==
    ASSUME TypeInv, NEW c \in Conns, ws[c] # "none", NEW f, send(c, f),
           NEW d \in Conns, ws[d] = "none"
    PROVE  Untouched(d)
BY SendEffect DEF Untouched, TypeInv, TypeOK

(* And so does a close. *)
LEMMA CloseUntouched ==
    ASSUME TypeInv, NEW c \in Conns, ws[c] # "none", NEW f, close(c, f),
           NEW d \in Conns, ws[d] = "none"
    PROVE  Untouched(d)
BY CloseEffect DEF Untouched, TypeInv, TypeOK, SockTypeOK, ConnTypeOK

\* The conns that handlers act on.
LEMMA Targets ==
    ASSUME TypeInv, ConnRoles
    PROVE  /\ \A a \in AgentConns : apc[a] = "greeting" => a \in Conns /\ ws[a] # "none"
           /\ \A a \in AgentConns : apc[a] = "routing" => acur[a] \in Conns /\ ws[acur[a]] # "none"
           /\ \A t \in Tabs : tac[t] # nil => tac[t] \in Conns /\ ws[tac[t]] # "none"
           /\ \A h \in Handlers :
                 /\ todo[h].shut # nil => todo[h].shut \in Conns /\ ws[todo[h].shut] # "none"
                 /\ todo[h].tell # nil => todo[h].tell \in Conns /\ ws[todo[h].tell] # "none"
                 /\ \A t \in todo[h].ends : t \in Conns /\ ws[t] # "none"
BY DEF TypeInv, TypeOK, HandlerTypeOK, Work, RolesOK, AgentRoles, ConnRoles, CreatedByHandlers,
       CreatedInTodo, Conns

(* Nothing reaches a conn that is not there yet. *)
LEMMA FreshUntouched ==
    ASSUME TypeInv, ConnRoles, [Next]_vars
    PROVE  \A c \in Conns : ws[c] = "none" => Untouched(c)
<1> SUFFICES ASSUME NEW d \in Conns, ws[d] = "none" PROVE Untouched(d)
  OBVIOUS
<1>1. CASE AdminStep
  BY <1>1 DEF AdminStep, Mint, DeleteStore, DeleteLookup, DeleteDrop, TermLookup, TermInsert,
      Expire, Sweep, sockVars, Untouched
<1>2. ASSUME NEW a \in AgentConns, AgentStep(a) PROVE Untouched(d)
  <2>1. CASE AgentRegister(a) BY <2>1 DEF AgentRegister, newConn, Untouched
  <2>2. CASE AgentGreet(a) BY <2>2, SendUntouched, Targets DEF AgentGreet
  <2>3. CASE RouteOut(a) BY <2>3, SendUntouched, Targets DEF RouteOut
  <2> QED BY <1>2, <2>1, <2>2, <2>3 DEF AgentStep, AgentRefused, AgentHello, AgentOut,
      DropSlow, AgentEnd, AgentLost, sockVars, Untouched
<1>3. ASSUME NEW t \in Tabs, TabStep(t) PROVE Untouched(d)
  <2>1. CASE RegisterTab(t) BY <2>1 DEF RegisterTab, newConn, Untouched
  <2>2. CASE OpenSent(t) BY <2>2, SendUntouched, Targets DEF OpenSent
  <2>3. CASE Input(t) BY <2>3, SendUntouched, Targets DEF Input, TypeInv, RolesOK, TabRoles
  <2> QED BY <1>3, <2>1, <2>2, <2>3 DEF TabStep, ClaimKey, RefuseKey, UpgradeFails, OpenFails,
      EndOffline, TabLost, sockVars, Untouched
<1>4. ASSUME NEW h \in Handlers, DoWork(h) PROVE Untouched(d)
  <2>1. CASE CloseAgent(h) BY <2>1, CloseUntouched, Targets DEF CloseAgent
  <2>2. ASSUME NEW t \in Tabs, CloseTab(h, t) PROVE Untouched(d)
    BY <2>2, CloseUntouched, Targets DEF CloseTab
  <2>3. CASE TellAgent(h) BY <2>3, SendUntouched, Targets DEF TellAgent
  <2> QED BY <1>4, <2>1, <2>2, <2>3 DEF DoWork, sockVars, Untouched
<1>5. ASSUME NEW c \in Conns, WriterStep(c) PROVE Untouched(d)
  BY <1>5, WriterEffect DEF WriterStep, Untouched, TypeInv, TypeOK
<1>6. CASE UNCHANGED vars BY <1>6 DEF vars, sockVars, Untouched
<1> QED BY <1>1, <1>2, <1>3, <1>4, <1>5, <1>6 DEF Next, Quiet

\* Where an agent's handler can have come from, and what it keeps on the way.
AgentPath(b) ==
    /\ apc'[b] \in {"new", "known"} => apc[b] \in {"new", "known"}
    /\ apc'[b] \in {"greeting", "serving", "routing", "slow"}
          => apc[b] \in {"greeting", "serving", "routing", "slow"} \/ AgentRegister(b)
    /\ apc[b] # "new" => amid'[b] = amid[b]
    /\ apc'[b] \in {"routing", "slow"}
          => \/ apc[b] \in {"routing", "slow"} /\ acur'[b] = acur[b]
             \/ Free(b) /\ \E sid \in Sids : sess[sid] # nil /\ acur'[b] = sess[sid]

(* How an agent conn's handler moves on. *)
LEMMA AgentPaths ==
    ASSUME TypeInv, [Next]_vars
    PROVE  \A b \in AgentConns : AgentPath(b)
<1> SUFFICES ASSUME NEW b \in AgentConns PROVE AgentPath(b)
  OBVIOUS
<1> USE DEF AgentPath, TypeInv, TypeOK, HandlerTypeOK
<1>1. CASE AdminStep
  BY <1>1 DEF AdminStep, Mint, DeleteStore, DeleteLookup, DeleteDrop, TermLookup, TermInsert,
      Expire, Sweep, agentVars
<1>2. ASSUME NEW a \in AgentConns, AgentStep(a) PROVE AgentPath(b)
  <2>1. CASE AgentRefused(a) BY <2>1 DEF AgentRefused
  <2>2. ASSUME NEW m \in Machines, AgentHello(a, m) PROVE AgentPath(b)
    BY <2>2 DEF AgentHello
  <2>3. CASE AgentRegister(a) BY <2>3 DEF AgentRegister
  <2>4. CASE AgentGreet(a) BY <2>4 DEF AgentGreet
  <2>5. ASSUME NEW sid \in Sids, AgentOut(a, sid) PROVE AgentPath(b)
    BY <2>5 DEF AgentOut, Serving, Owns
  <2>6. CASE RouteOut(a) BY <2>6 DEF RouteOut
  <2>7. CASE DropSlow(a) BY <2>7 DEF DropSlow
  <2>8. ASSUME NEW sid \in Sids, NEW kind \in {"exit", "err"}, AgentEnd(a, sid, kind)
        PROVE  AgentPath(b)
    BY <2>8 DEF AgentEnd, Serving, agentVars
  <2>9. CASE AgentLost(a) BY <2>9 DEF AgentLost
  <2> QED BY <1>2, <2>1, <2>2, <2>3, <2>4, <2>5, <2>6, <2>7, <2>8, <2>9 DEF AgentStep
<1>3. ASSUME NEW t \in Tabs, TabStep(t) PROVE AgentPath(b)
  BY <1>3 DEF TabStep, ClaimKey, RefuseKey, UpgradeFails, RegisterTab, OpenSent, OpenFails,
      EndOffline, Input, TabLost, agentVars
<1>4. ASSUME NEW h \in Handlers, DoWork(h) PROVE AgentPath(b)
  BY <1>4 DEF DoWork, CloseAgent, CloseTab, TellAgent, agentVars
<1>5. ASSUME NEW c \in Conns, WriterStep(c) PROVE AgentPath(b)
  BY <1>5 DEF WriterStep, agentVars
<1>6. CASE UNCHANGED vars BY <1>6 DEF vars, agentVars
<1> QED BY <1>1, <1>2, <1>3, <1>4, <1>5, <1>6 DEF Next, Quiet

\* The same for a browser's handler.
TabPath(u) ==
    /\ tpc'[u] \in {"new", "refused", "claimed"} => tpc[u] \in {"new", "refused", "claimed"}
    /\ tpc'[u] \in {"registered", "offline", "reading"}
          => tpc[u] \in {"registered", "offline", "reading"} \/ RegisterTab(u)
    /\ tpc'[u] # "done" => tpc[u] # "done"
    /\ tac'[u] # nil => tac'[u] = tac[u] \/ \E m \in Machines : tac'[u] = agents[m]
    /\ u \in bound' => u \in bound \/ RegisterTab(u)

(* How a tab's handler moves on. *)
LEMMA TabPaths ==
    ASSUME TypeInv, [Next]_vars
    PROVE  \A u \in Tabs : TabPath(u)
<1> SUFFICES ASSUME NEW u \in Tabs PROVE TabPath(u)
  OBVIOUS
<1> USE DEF TabPath, TypeInv, TypeOK, MapTypeOK, HandlerTypeOK
<1>1. CASE AdminStep
  BY <1>1 DEF AdminStep, Mint, DeleteStore, DeleteLookup, DeleteDrop, TermLookup, TermInsert,
      Expire, Sweep, tabVars
<1>2. ASSUME NEW a \in AgentConns, AgentStep(a) PROVE TabPath(u)
  BY <1>2 DEF AgentStep, AgentRefused, AgentHello, AgentRegister, AgentGreet, AgentOut,
      RouteOut, DropSlow, AgentEnd, AgentLost, tabVars
<1>3. ASSUME NEW t \in Tabs, TabStep(t) PROVE TabPath(u)
  <2>1. ASSUME NEW sid \in Sids, ClaimKey(t, sid) PROVE TabPath(u)
    BY <2>1 DEF ClaimKey
  <2>2. ASSUME NEW sid \in Sids, RefuseKey(t, sid) PROVE TabPath(u)
    BY <2>2 DEF RefuseKey
  <2>3. CASE UpgradeFails(t) BY <2>3 DEF UpgradeFails
  <2>4. CASE RegisterTab(t) BY <2>4 DEF RegisterTab
  <2>5. CASE OpenSent(t) BY <2>5 DEF OpenSent
  <2>6. CASE OpenFails(t) BY <2>6 DEF OpenFails
  <2>7. CASE EndOffline(t) BY <2>7 DEF EndOffline
  <2>8. CASE Input(t) BY <2>8 DEF Input, tabVars
  <2>9. CASE TabLost(t) BY <2>9 DEF TabLost
  <2> QED BY <1>3, <2>1, <2>2, <2>3, <2>4, <2>5, <2>6, <2>7, <2>8, <2>9 DEF TabStep
<1>4. ASSUME NEW h \in Handlers, DoWork(h) PROVE TabPath(u)
  BY <1>4 DEF DoWork, CloseAgent, CloseTab, TellAgent, tabVars
<1>5. ASSUME NEW c \in Conns, WriterStep(c) PROVE TabPath(u)
  BY <1>5 DEF WriterStep, tabVars
<1>6. CASE UNCHANGED vars BY <1>6 DEF vars, tabVars
<1> QED BY <1>1, <1>2, <1>3, <1>4, <1>5, <1>6 DEF Next, Quiet

\* And for a DELETE request.
DeletePath(n) ==
    /\ dac'[n] = dac[n] \/ dac'[n] = agents[n]
    /\ dpc'[n] # "done" => dpc[n] # "done"

(* How a DELETE moves on. *)
LEMMA DeletePaths ==
    ASSUME TypeInv, [Next]_vars
    PROVE  \A n \in Machines : DeletePath(n)
<1> SUFFICES ASSUME NEW n \in Machines PROVE DeletePath(n)
  OBVIOUS
<1> USE DEF DeletePath, deleteVars, TypeInv, TypeOK, MapTypeOK, HandlerTypeOK,
          RolesOK, AdminRoles
<1>1. CASE AdminStep
  <2>1. ASSUME NEW m \in Machines, DeleteStore(m) PROVE DeletePath(n)
    BY <2>1 DEF DeleteStore
  <2>2. ASSUME NEW m \in Machines, DeleteLookup(m) PROVE DeletePath(n)
    BY <2>2 DEF DeleteLookup
  <2>3. ASSUME NEW m \in Machines, DeleteDrop(m) PROVE DeletePath(n)
    BY <2>3 DEF DeleteDrop
  <2> QED BY <1>1, <2>1, <2>2, <2>3 DEF AdminStep, Mint, TermLookup, TermInsert, Expire, Sweep
<1>2. ASSUME NEW a \in AgentConns, AgentStep(a) PROVE DeletePath(n)
  BY <1>2 DEF AgentStep, AgentRefused, AgentHello, AgentRegister, AgentGreet, AgentOut,
      RouteOut, DropSlow, AgentEnd, AgentLost
<1>3. ASSUME NEW t \in Tabs, TabStep(t) PROVE DeletePath(n)
  BY <1>3 DEF TabStep, ClaimKey, RefuseKey, UpgradeFails, RegisterTab, OpenSent, OpenFails,
      EndOffline, Input, TabLost
<1>4. ASSUME NEW h \in Handlers, DoWork(h) PROVE DeletePath(n)
  BY <1>4 DEF DoWork, CloseAgent, CloseTab, TellAgent
<1>5. ASSUME NEW c \in Conns, WriterStep(c) PROVE DeletePath(n)
  BY <1>5 DEF WriterStep
<1>6. CASE UNCHANGED vars BY <1>6 DEF vars
<1> QED BY <1>1, <1>2, <1>3, <1>4, <1>5, <1>6 DEF Next, Quiet

(* An agent enters the map by its registration only. *)
LEMMA AgentsStep ==
    ASSUME TypeInv, [Next]_vars
    PROVE  \A n \in Machines : \/ agents'[n] = agents[n] \/ agents'[n] = nil
                               \/ AgentRegister(agents'[n]) /\ amid[agents'[n]] = n
<1> SUFFICES ASSUME NEW n \in Machines PROVE agents'[n] \in {agents[n], nil} \/ (AgentRegister(agents'[n]) /\ amid[agents'[n]] = n)
  OBVIOUS
<1> USE DEF TypeInv, TypeOK, MapTypeOK, HandlerTypeOK, RolesOK, AgentRoles
<1>1. CASE AdminStep
  <2>1. ASSUME NEW m \in Machines, DeleteDrop(m)
        PROVE  agents'[n] \in {agents[n], nil} \/ (AgentRegister(agents'[n]) /\ amid[agents'[n]] = n)
    BY <2>1 DEF DeleteDrop, DropAgent
  <2> QED BY <1>1, <2>1 DEF AdminStep, Mint, DeleteStore, DeleteLookup, TermLookup, TermInsert,
      Expire, Sweep
<1>2. ASSUME NEW a \in AgentConns, AgentStep(a)
      PROVE  agents'[n] \in {agents[n], nil} \/ (AgentRegister(agents'[n]) /\ amid[agents'[n]] = n)
  <2>1. CASE AgentRegister(a) BY <2>1 DEF AgentRegister
  <2>2. CASE AgentLost(a) BY <2>2 DEF AgentLost, DropAgent
  <2> QED BY <1>2, <2>1, <2>2 DEF AgentStep, AgentRefused, AgentHello, AgentGreet, AgentOut,
      RouteOut, DropSlow, AgentEnd
<1>3. ASSUME NEW t \in Tabs, TabStep(t)
      PROVE  agents'[n] \in {agents[n], nil} \/ (AgentRegister(agents'[n]) /\ amid[agents'[n]] = n)
  BY <1>3 DEF TabStep, ClaimKey, RefuseKey, UpgradeFails, RegisterTab, OpenSent, OpenFails,
      EndOffline, Input, TabLost
<1>4. ASSUME NEW h \in Handlers, DoWork(h)
      PROVE  agents'[n] \in {agents[n], nil} \/ (AgentRegister(agents'[n]) /\ amid[agents'[n]] = n)
  BY <1>4 DEF DoWork, CloseAgent, CloseTab, TellAgent
<1>5. ASSUME NEW c \in Conns, WriterStep(c)
      PROVE  agents'[n] \in {agents[n], nil} \/ (AgentRegister(agents'[n]) /\ amid[agents'[n]] = n)
  BY <1>5 DEF WriterStep
<1>6. CASE UNCHANGED vars BY <1>6 DEF vars
<1> QED BY <1>1, <1>2, <1>3, <1>4, <1>5, <1>6 DEF Next, Quiet

(* A conn that is not there yet is empty. *)
LEMMA FreshPreserved ==
    ASSUME TypeInv, ConnRoles, TypeInv', [Next]_vars
    PROVE  FreshConns'
<1>1. \A c \in Conns : WsStep(c) BY WsSteps
<1>2. ASSUME NEW c \in Conns, ws'[c] = "none" PROVE ~closed'[c] /\ out'[c] = <<>>
  BY <1>1, <1>2, FreshUntouched DEF WsStep, Untouched, ConnRoles, FreshConns
<1>3. ASSUME NEW a \in AgentConns, apc'[a] \in {"new", "known"} PROVE ws'[a] = "none"
  <2>1. a \in Conns /\ a \notin Tabs BY BrokerAssumption DEF Conns
  <2>2. ws[a] = "none" BY <1>3, AgentPaths DEF AgentPath, ConnRoles, FreshConns
  <2>3. ~AgentRegister(a)
    <3>1. apc \in [AgentConns -> {"new", "known", "greeting", "serving", "routing", "slow", "done"}]
      BY DEF TypeInv, TypeOK, HandlerTypeOK
    <3>2. AgentRegister(a) => apc' = [apc EXCEPT ![a] = "greeting"] BY DEF AgentRegister
    <3> QED BY <1>3, <3>1, <3>2
  <2> QED BY <1>1, <2>1, <2>2, <2>3 DEF WsStep
<1>4. ASSUME NEW t \in Tabs, tpc'[t] \in {"new", "refused", "claimed"} PROVE ws'[t] = "none"
  <2>1. t \in Conns /\ t \notin AgentConns BY BrokerAssumption DEF Conns
  <2>2. ws[t] = "none" BY <1>4, TabPaths DEF TabPath, ConnRoles, FreshConns
  <2>3. ~RegisterTab(t) BY <1>4 DEF RegisterTab, TypeInv, TypeOK, HandlerTypeOK
  <2> QED BY <1>1, <2>1, <2>2, <2>3 DEF WsStep
<1> QED BY <1>2, <1>3, <1>4 DEF FreshConns

(* Handlers and maps name conns that are there. *)
LEMMA CreatedPreserved ==
    ASSUME TypeInv, ConnRoles, TypeInv', [Next]_vars
    PROVE  CreatedByHandlers' /\ CreatedInMaps'
<1>1. \A c \in Conns : ws[c] # "none" => ws'[c] # "none"
  BY WsSteps DEF WsStep
<1>2. ASSUME NEW a \in AgentConns, AgentRegister(a) PROVE ws'[a] # "none" /\ amid[a] \in Machines
  BY <1>2 DEF AgentRegister, newConn, TypeInv, TypeOK, SockTypeOK, ConnTypeOK, Conns, RolesOK, AgentRoles
<1>3. ASSUME NEW t \in Tabs, RegisterTab(t) PROVE ws'[t] # "none"
  BY <1>3 DEF RegisterTab, newConn, TypeInv, TypeOK, SockTypeOK, ConnTypeOK, Conns
<1>4. ASSUME NEW sid \in Sids, sess[sid] # nil PROVE ws'[sess[sid]] # "none"
  BY <1>1, <1>4 DEF ConnRoles, CreatedInMaps, TypeInv, TypeOK, MapTypeOK, Conns
<1>5. ASSUME NEW m \in Machines, agents[m] # nil PROVE ws'[agents[m]] # "none"
  BY <1>1, <1>5 DEF ConnRoles, CreatedInMaps, TypeInv, TypeOK, MapTypeOK, Conns
<1>6. ASSUME NEW a \in AgentConns, ws[a] # "none" PROVE amid'[a] = amid[a]
  BY <1>6, AgentPaths DEF AgentPath, ConnRoles, FreshConns
<1>7. ASSUME NEW a \in AgentConns
      PROVE  /\ apc'[a] \in {"greeting", "serving", "routing", "slow"} => ws'[a] # "none"
             /\ apc'[a] \in {"routing", "slow"} => ws'[acur'[a]] # "none"
             /\ ws'[a] # "none" => amid'[a] \in Machines
  <2>1. AgentPath(a) BY AgentPaths
  <2>2. apc'[a] \in {"greeting", "serving", "routing", "slow"} => ws'[a] # "none"
    BY <1>1, <1>2, <2>1 DEF AgentPath, ConnRoles, CreatedByHandlers, Conns
  <2>3. apc'[a] \in {"routing", "slow"} => ws'[acur'[a]] # "none"
    BY <1>1, <1>4, <2>1 DEF AgentPath, ConnRoles, CreatedByHandlers, Conns, TypeInv, RolesOK, AgentRoles
  <2>4. CASE ws[a] # "none" BY <1>6, <2>2, <2>3, <2>4 DEF ConnRoles, CreatedByHandlers
  <2>5. CASE ws[a] = "none" /\ AgentRegister(a)
    BY <1>2, <2>1, <2>2, <2>3, <2>5 DEF AgentRegister, agentVars
  <2>6. CASE ws'[a] = "none" BY <2>2, <2>3, <2>6
  <2>7. WsStep(a) /\ a \notin Tabs BY WsSteps, BrokerAssumption DEF Conns
  <2> QED BY <2>4, <2>5, <2>6, <2>7 DEF WsStep
<1>8. ASSUME NEW t \in Tabs
      PROVE  /\ tpc'[t] \in {"registered", "offline", "reading"} => ws'[t] # "none"
             /\ tac'[t] # nil => ws'[tac'[t]] # "none"
             /\ t \in bound' => ws'[t] # "none"
  <2>1. TabPath(t) /\ t \in Conns BY TabPaths DEF Conns
  <2>2. tac'[t] # nil => ws'[tac'[t]] # "none"
    BY <1>1, <1>5, <2>1 DEF TabPath, ConnRoles, CreatedByHandlers, TypeInv, TypeOK, HandlerTypeOK, Conns
  <2> QED BY <1>1, <1>3, <2>1, <2>2 DEF TabPath, ConnRoles, CreatedByHandlers
<1>9. ASSUME NEW m \in Machines, dac'[m] # nil PROVE ws'[dac'[m]] # "none"
  BY <1>1, <1>5, <1>9, DeletePaths DEF DeletePath, ConnRoles, CreatedByHandlers, TypeInv, TypeOK, HandlerTypeOK, Conns
<1>10. ASSUME NEW m \in Machines, agents'[m] # nil
       PROVE  ws'[agents'[m]] # "none" /\ amid'[agents'[m]] = m
  <2>1. agents'[m] \in AgentConns BY <1>10 DEF TypeInv, TypeOK, MapTypeOK
  <2>2. CASE agents'[m] = agents[m]
    BY <1>5, <1>6, <1>10, <2>1, <2>2 DEF ConnRoles, CreatedInMaps
  <2>3. CASE AgentRegister(agents'[m]) /\ amid[agents'[m]] = m
    BY <1>2, <2>1, <2>3 DEF AgentRegister
  <2> QED BY <1>10, <2>2, <2>3, AgentsStep
<1>11. ASSUME NEW sid \in Sids, sess'[sid] # nil PROVE ws'[sess'[sid]] # "none"
  <2>1. sess'[sid] \in Tabs BY <1>11 DEF TypeInv, TypeOK, MapTypeOK
  <2> QED BY <1>3, <1>4, <1>11, <2>1, SessShrinks
<1>12. bound' \subseteq Tabs BY DEF TypeInv, TypeOK, HandlerTypeOK
<1>13. CreatedByHandlers' BY <1>7, <1>8, <1>9, <1>12 DEF CreatedByHandlers
<1> QED BY <1>10, <1>11, <1>13 DEF CreatedInMaps

---------------------------------------------------------------------------
(* What handlers have to do.                                                *)

\* Handler g has the same work, or less.
Shrinks(g) ==
    /\ todo'[g].shut \in {todo[g].shut, nil}
    /\ todo'[g].ends \subseteq todo[g].ends
    /\ todo'[g].tell \in {todo[g].tell, nil}
    /\ todo'[g].ends # {} => todo'[g].fin = todo[g].fin
    /\ todo'[g].tell # nil => todo'[g].sid = todo[g].sid
    /\ Free(g) => todo'[g] = NoWork

\* Handler g was given work, after it had finished what it had.
Given(g) ==
    \/ g \in Machines /\ DeleteDrop(g)
    \/ g \in AgentConns /\ (AgentRegister(g) \/ DropSlow(g) \/ AgentLost(g))
    \/ g \in AgentConns /\ \E sid \in Sids, kind \in {"exit", "err"} : AgentEnd(g, sid, kind)
    \/ g \in Tabs /\ (EndOffline(g) \/ TabLost(g))

(* A job shrinks, or is given whole. *)
LEMMA TodoShape == ASSUME TypeInv, [Next]_vars PROVE \A g \in Handlers : Shrinks(g) \/ Given(g)
<1> SUFFICES ASSUME NEW g \in Handlers, ~Given(g) PROVE Shrinks(g)
  OBVIOUS
<1>1. ASSUME NEW h \in Handlers, NEW shut, NEW ends, NEW fin, NEW tell, NEW sid,
             JobEffect(h, shut, ends, fin, tell, sid), g # h
      PROVE  Shrinks(g)
  BY <1>1 DEF JobEffect, Shrinks, Free
<1>2. ASSUME NEW m \in Machines, DeleteDrop(m) PROVE Shrinks(g)
  BY <1>1, <1>2, DeleteDropJob DEF Handlers, Given
<1>3. ASSUME NEW a \in AgentConns, AgentRegister(a) PROVE Shrinks(g)
  BY <1>1, <1>3, RegisterJob DEF Handlers, Given
<1>4. ASSUME NEW a \in AgentConns, DropSlow(a) PROVE Shrinks(g)
  BY <1>1, <1>4, DropSlowJob DEF Handlers, Given
<1>5. ASSUME NEW a \in AgentConns, AgentLost(a) PROVE Shrinks(g)
  BY <1>1, <1>5, AgentLostJob DEF Handlers, Given
<1>6. ASSUME NEW a \in AgentConns, NEW sid \in Sids, NEW kind \in {"exit", "err"}, AgentEnd(a, sid, kind)
      PROVE  Shrinks(g)
  <2>1. JobEffect(a, nil, {sess[sid]}, FromAgent(kind, a), nil, nil) BY <1>6, AgentEndJob
  <2> QED BY <1>1, <1>6, <2>1 DEF Handlers, Given
<1>7. ASSUME NEW t \in Tabs, EndOffline(t) PROVE Shrinks(g)
  BY <1>1, <1>7, EndOfflineJob DEF Handlers, Given
<1>8. ASSUME NEW t \in Tabs, TabLost(t) PROVE Shrinks(g)
  BY <1>1, <1>8, TabLostJob DEF Handlers, Given
<1>9. ASSUME NEW h \in Handlers, DoWork(h) PROVE Shrinks(g)
  <2>1. CASE CloseAgent(h)
    BY <1>1, <2>1, WorkJobs DEF JobEffect, Shrinks, Free, NoWork, Job, CloseAgent
  <2>2. ASSUME NEW t \in Tabs, CloseTab(h, t) PROVE Shrinks(g)
    BY <1>1, <2>2, WorkJobs DEF JobEffect, Shrinks, Free, NoWork, Job, CloseTab
  <2>3. CASE TellAgent(h)
    BY <1>1, <2>3, WorkJobs DEF JobEffect, Shrinks, Free, NoWork, Job, TellAgent
  <2> QED BY <1>9, <2>1, <2>2, <2>3 DEF DoWork
<1>10. CASE UNCHANGED todo BY <1>10 DEF Shrinks, Free
<1> QED BY <1>2, <1>3, <1>4, <1>5, <1>6, <1>7, <1>8, <1>9, <1>10, TodoSteps

\* What the work names exists.
JobCreated(h) ==
    /\ todo'[h].shut # nil => todo'[h].shut \in Conns /\ ws[todo'[h].shut] # "none"
    /\ todo'[h].tell # nil => todo'[h].tell \in Conns /\ ws[todo'[h].tell] # "none"
    /\ \A t \in todo'[h].ends : t \in Conns /\ ws[t] # "none"

(* A job names conns that are there. *)
LEMMA JobsCreated ==
    ASSUME TypeInv, ConnRoles, [Next]_vars
    PROVE  \A g \in Handlers : JobCreated(g)
<1> SUFFICES ASSUME NEW g \in Handlers PROVE JobCreated(g)
  OBVIOUS
<1>1. CASE Shrinks(g)
  <2>1. \A t \in todo[g].ends : t \in Conns /\ ws[t] # "none" BY Targets
  <2> QED BY <1>1, <2>1, Targets DEF Shrinks, JobCreated
<1>2. ASSUME NEW shut, NEW ends, NEW fin, NEW tell, NEW sid, JobEffect(g, shut, ends, fin, tell, sid),
             shut # nil => shut \in Conns /\ ws[shut] # "none",
             tell # nil => tell \in Conns /\ ws[tell] # "none",
             \A t \in ends : t \in Conns /\ ws[t] # "none"
      PROVE  JobCreated(g)
  BY <1>2 DEF JobEffect, JobCreated
<1>3. ASSUME NEW m \in Machines, agents[m] # nil PROVE agents[m] \in Conns /\ ws[agents[m]] # "none"
  BY <1>3 DEF ConnRoles, CreatedInMaps, TypeInv, TypeOK, MapTypeOK, Conns
<1>4. ASSUME NEW m, NEW t \in SessionsOf(m) PROVE t \in Conns /\ ws[t] # "none"
  BY <1>4, BrokerAssumption DEF SessionsOf, ConnRoles, CreatedInMaps, Conns
<1>5. ASSUME NEW m, NEW V, V \in {SessionsOf(m), {}} PROVE \A t \in V : t \in Conns /\ ws[t] # "none"
  BY <1>4, <1>5
<1>6. CASE g \in Machines /\ DeleteDrop(g)
  <2>1. dac[g] \in Conns /\ ws[dac[g]] # "none"
    BY <1>6, BrokerAssumption DEF DeleteDrop, TypeInv, RolesOK, AdminRoles, ConnRoles, CreatedByHandlers, Conns
  <2> DEFINE V == IF agents[amid[dac[g]]] = dac[g] THEN SessionsOf(amid[dac[g]]) ELSE {}
  <2>2. JobEffect(g, dac[g], V, Banner("machine revoked"), nil, nil) BY <1>6, DeleteDropJob
  <2>3. V \in {SessionsOf(amid[dac[g]]), {}} OBVIOUS
  <2>4. \A t \in V : t \in Conns /\ ws[t] # "none" BY <1>5, <2>3
  <2> HIDE DEF V
  <2> QED BY <1>2, <2>1, <2>2, <2>4
<1>7. CASE g \in AgentConns /\ AgentRegister(g)
  <2>1. amid[g] \in Machines BY <1>7 DEF AgentRegister, TypeInv, RolesOK, AgentRoles
  <2> DEFINE V == IF agents[amid[g]] # nil THEN SessionsOf(amid[g]) ELSE {}
  <2>2. JobEffect(g, agents[amid[g]], V, Banner("agent reconnected"), nil, nil) BY <1>7, RegisterJob
  <2>3. V \in {SessionsOf(amid[g]), {}} OBVIOUS
  <2>4. \A t \in V : t \in Conns /\ ws[t] # "none" BY <1>5, <2>3
  <2> HIDE DEF V
  <2> QED BY <1>2, <1>3, <2>1, <2>2, <2>4
<1>8. CASE g \in AgentConns /\ DropSlow(g)
  <2>1. acur[g] \in Conns /\ ws[acur[g]] # "none"
    BY <1>8, DropSlowJob DEF DropSlow, ConnRoles, CreatedByHandlers, Conns
  <2>2. JobEffect(g, nil, {acur[g]}, Banner("session dropped: browser too slow"),
                  agents[tmid[acur[g]]], tsid[acur[g]])
    BY <1>8, DropSlowJob
  <2>3. \A t \in {acur[g]} : t \in Conns /\ ws[t] # "none" BY <2>1
  <2>4. tmid[acur[g]] \in Machines BY <1>8, DropSlowJob
  <2>5. agents[tmid[acur[g]]] # nil
           => agents[tmid[acur[g]]] \in Conns /\ ws[agents[tmid[acur[g]]]] # "none"
    BY <1>3, <2>4
  <2> QED BY <2>2, <2>3, <2>5 DEF JobEffect, JobCreated
<1>9. CASE g \in AgentConns /\ AgentLost(g)
  <2>1. g \in Conns /\ ws[g] # "none"
    BY <1>9 DEF AgentLost, Serving, ConnRoles, CreatedByHandlers, Conns
  <2> DEFINE V == IF agents[amid[g]] = g THEN SessionsOf(amid[g]) ELSE {}
  <2>2. JobEffect(g, g, V, Banner("agent went offline"), nil, nil) BY <1>9, AgentLostJob
  <2>3. V \in {SessionsOf(amid[g]), {}} OBVIOUS
  <2>4. \A t \in V : t \in Conns /\ ws[t] # "none" BY <1>5, <2>3
  <2> HIDE DEF V
  <2> QED BY <1>2, <2>1, <2>2, <2>4
<1>10. ASSUME NEW sid \in Sids, NEW kind \in {"exit", "err"}, g \in AgentConns, AgentEnd(g, sid, kind)
       PROVE  JobCreated(g)
  <2>1. sess[sid] \in Conns /\ ws[sess[sid]] # "none"
    BY <1>10, AgentEndJob DEF AgentEnd, Owns, ConnRoles, CreatedInMaps, Conns
  <2>2. JobEffect(g, nil, {sess[sid]}, FromAgent(kind, g), nil, nil) BY <1>10, AgentEndJob
  <2> QED BY <1>2, <2>1, <2>2
<1>11. CASE g \in Tabs /\ EndOffline(g)
  <2>1. g \in Conns /\ ws[g] # "none" BY <1>11 DEF EndOffline, ConnRoles, CreatedByHandlers, Conns
  <2>2. JobEffect(g, nil, {g}, Banner("agent is offline"), nil, tsid[g]) BY <1>11, EndOfflineJob
  <2>3. \A t \in {g} : t \in Conns /\ ws[t] # "none" BY <2>1
  <2> QED BY <2>2, <2>3 DEF JobEffect, JobCreated
<1>12. CASE g \in Tabs /\ TabLost(g)
  <2>1. g \in Conns /\ ws[g] # "none" BY <1>12 DEF TabLost, ConnRoles, CreatedByHandlers, Conns
  <2>2. tmid[g] \in Machines /\ JobEffect(g, nil, {g}, nil, agents[tmid[g]], tsid[g])
    BY <1>12, TabLostJob
  <2> QED BY <1>2, <1>3, <2>1, <2>2
<1> QED BY <1>1, <1>6, <1>7, <1>8, <1>9, <1>10, <1>11, <1>12, TodoShape DEF Given

(* Every step keeps that conns are there before they are named. *)
LEMMA ConnRolesPreserved == ASSUME TypeInv, ConnRoles, TypeInv', [Next]_vars PROVE ConnRoles'
<1>1. \A c \in Conns : ws[c] # "none" => ws'[c] # "none" BY WsSteps DEF WsStep
<1>2. CreatedInTodo' BY <1>1, JobsCreated DEF JobCreated, CreatedInTodo
<1> QED BY <1>2, FreshPreserved, CreatedPreserved DEF ConnRoles

---------------------------------------------------------------------------
(* A handler is given work only when it has none.                           *)

(* Where a handler is when it is given a job. *)
LEMMA GivenPlaces ==
    ASSUME TypeInv, NEW g \in Handlers, Given(g)
    PROVE  /\ g \in AgentConns => apc'[g] \in {"greeting", "serving", "done"}
           /\ g \in Tabs => tpc'[g] = "done"
           /\ g \in Machines => dpc'[g] = "done"
<1> USE BrokerAssumption DEF TypeInv, TypeOK, HandlerTypeOK
<1>1. CASE g \in Machines /\ DeleteDrop(g) BY <1>1 DEF DeleteDrop
<1>2. CASE g \in AgentConns /\ AgentRegister(g) BY <1>2 DEF AgentRegister
<1>3. CASE g \in AgentConns /\ DropSlow(g) BY <1>3 DEF DropSlow
<1>4. CASE g \in AgentConns /\ AgentLost(g) BY <1>4 DEF AgentLost
<1>5. ASSUME NEW sid \in Sids, NEW kind \in {"exit", "err"}, g \in AgentConns, AgentEnd(g, sid, kind)
      PROVE  apc'[g] = "serving"
  BY <1>5 DEF AgentEnd, Serving, agentVars
<1>6. CASE g \in Tabs /\ (EndOffline(g) \/ TabLost(g)) BY <1>6 DEF EndOffline, TabLost
<1> QED BY <1>1, <1>2, <1>3, <1>4, <1>5, <1>6 DEF Given

(* A handler that is given a job had none. *)
LEMMA GivenWasFree ==
    ASSUME TypeInv, FreeHandlers, NEW g \in Handlers, Given(g)
    PROVE  Free(g)
BY BrokerAssumption DEF Given, FreeHandlers, DeleteDrop, AgentRegister, DropSlow, AgentLost, AgentEnd,
       Serving, EndOffline, TabLost

(* A handler on its way has no job left. *)
LEMMA FreePreserved == ASSUME TypeInv, FreeHandlers, [Next]_vars PROVE FreeHandlers'
<1>1. ASSUME NEW g \in Handlers, Free(g), ~Given(g) PROVE Free(g)'
  BY <1>1, TodoShape DEF Shrinks, Free
<1>2. ASSUME NEW a \in AgentConns, apc'[a] \in {"new", "known", "routing", "slow"} PROVE Free(a)'
  <2>1. a \in Handlers BY DEF Handlers
  <2>2. ~Given(a) BY <1>2, <2>1, GivenPlaces
  <2>3. Free(a) BY <1>2, AgentPaths DEF AgentPath, FreeHandlers
  <2> QED BY <1>1, <2>1, <2>2, <2>3
<1>3. ASSUME NEW t \in Tabs, tpc'[t] # "done" PROVE Free(t)'
  <2>1. t \in Handlers BY DEF Handlers
  <2>2. ~Given(t) BY <1>3, <2>1, GivenPlaces
  <2>3. Free(t) BY <1>3, TabPaths DEF TabPath, FreeHandlers
  <2> QED BY <1>1, <2>1, <2>2, <2>3
<1>4. ASSUME NEW m \in Machines, dpc'[m] # "done" PROVE Free(m)'
  <2>1. m \in Handlers BY DEF Handlers
  <2>2. ~Given(m) BY <1>4, <2>1, GivenPlaces
  <2>3. Free(m) BY <1>4, DeletePaths DEF DeletePath, FreeHandlers
  <2> QED BY <1>1, <2>1, <2>2, <2>3
<1> QED BY <1>2, <1>3, <1>4 DEF FreeHandlers, Free

---------------------------------------------------------------------------
(* What is due to be closed has left its map, and does not come back.       *)

(* A conn that is there keeps its sid and machine and is not registered again. *)
LEMMA CreatedKeeps ==
    ASSUME TypeInv, ConnRoles, [Next]_vars
    PROVE  /\ \A a \in AgentConns : ws[a] # "none" => amid'[a] = amid[a] /\ ~AgentRegister(a)
           /\ \A t \in Tabs : ws[t] # "none" => TabKeeps(t) /\ ~RegisterTab(t) /\ tsid[t] \in Sids
<1>1. ASSUME NEW a \in AgentConns, ws[a] # "none" PROVE amid'[a] = amid[a] /\ ~AgentRegister(a)
  BY <1>1, AgentPaths DEF AgentPath, AgentRegister, ConnRoles, FreshConns
<1>2. ASSUME NEW t \in Tabs, ws[t] # "none"
      PROVE  TabKeeps(t) /\ ~RegisterTab(t) /\ tsid[t] \in Sids
  <2>1. tpc[t] \notin {"new", "refused", "claimed"} BY <1>2 DEF ConnRoles, FreshConns
  <2>2. tsid[t] \in Sids BY <2>1 DEF TypeInv, RolesOK, TabRoles
  <2> QED BY <2>1, <2>2, TabsKeep DEF RegisterTab
<1> QED BY <1>1, <1>2

(* What is out of a map does not come back. *)
LEMMA NeverBack ==
    ASSUME TypeInv, ConnRoles, TypeInv', [Next]_vars
    PROVE  /\ \A t \in Tabs : ws[t] # "none" /\ sess[tsid[t]] # t => sess'[tsid'[t]] # t
           /\ \A a \in AgentConns : ws[a] # "none" /\ agents[amid[a]] # a => agents'[amid'[a]] # a
<1>1. ASSUME NEW t \in Tabs, ws[t] # "none", sess[tsid[t]] # t PROVE sess'[tsid'[t]] # t
  BY <1>1, CreatedKeeps, SessShrinks, BrokerAssumption DEF TabKeeps
<1>2. ASSUME NEW a \in AgentConns, ws[a] # "none", agents[amid[a]] # a PROVE agents'[amid'[a]] # a
  <2>1. amid'[a] = amid[a] /\ amid[a] \in Machines /\ ~AgentRegister(a)
    BY <1>2, CreatedKeeps DEF ConnRoles, CreatedByHandlers
  <2> QED BY <1>2, <2>1, AgentsStep, BrokerAssumption
<1> QED BY <1>1, <1>2

\* What handler g is going to close has left its map.
JobOut(g) ==
    /\ \A t \in todo'[g].ends : sess'[tsid[t]] # t
    /\ todo'[g].shut # nil => agents'[amid[todo'[g].shut]] # todo'[g].shut

(* Without(T) has none of T. *)
LEMMA WithoutNone ==
    ASSUME NEW T \in SUBSET Tabs, NEW t \in T, NEW sid \in Sids
    PROVE  Without(T)[sid] # t
BY BrokerAssumption DEF Without

(* After dropAgent the agent and its tabs are out of the maps. *)
LEMMA DropAgentOut ==
    ASSUME TypeInv, NEW h \in Handlers, NEW a \in AgentConns, NEW why \in Banners,
           DropAgent(h, a, why), amid[a] \in Machines
    PROVE  /\ agents'[amid[a]] # a
           /\ \A t \in todo'[h].ends : tsid[t] \in Sids => sess'[tsid[t]] # t
<1> DEFINE V == IF agents[amid[a]] = a THEN SessionsOf(amid[a]) ELSE {}
<1>1. todo'[h].ends = V BY DropAgentJob DEF JobEffect
<1>2. sess' = Without(V) BY DropAgentMaps
<1>3. V \in SUBSET Tabs BY DEF SessionsOf
<1>4. agents'[amid[a]] # a BY DropAgentMaps, BrokerAssumption DEF TypeInv, TypeOK, MapTypeOK
<1> HIDE DEF V
<1> QED BY <1>1, <1>2, <1>3, <1>4, WithoutNone

(* What a job will close is out of the maps. *)
LEMMA JobsOut ==
    ASSUME TypeInv, ConnRoles, [Next]_vars, NEW g \in Handlers, Given(g)
    PROVE  JobOut(g)
<1>0. \A t \in todo'[g].ends : t \in Conns /\ ws[t] # "none" BY JobsCreated DEF JobCreated
<1>1. \A t \in todo'[g].ends : tsid[t] \in Sids
  <2>1. ASSUME NEW t \in todo'[g].ends PROVE tsid[t] \in Sids
    BY <1>0, CreatedKeeps, StateTypesPreserved DEF HandlerTypeOK, Work
  <2> QED BY <2>1
<1>2. CASE g \in Machines /\ DeleteDrop(g)
  <2>1. dac[g] \in AgentConns /\ amid[dac[g]] \in Machines
    BY <1>2, BrokerAssumption DEF DeleteDrop, TypeInv, RolesOK, AdminRoles, ConnRoles, CreatedByHandlers
  <2>2. DropAgent(g, dac[g], "machine revoked") /\ "machine revoked" \in Banners
    BY <1>2 DEF DeleteDrop, Banners
  <2>3. todo'[g].shut = dac[g] BY <1>2, DeleteDropJob DEF JobEffect
  <2> QED BY <1>1, <2>1, <2>2, <2>3, DropAgentOut DEF JobOut
<1>3. CASE g \in AgentConns /\ AgentLost(g)
  <2>1. amid[g] \in Machines BY <1>3 DEF AgentLost, Serving, TypeInv, RolesOK, AgentRoles
  <2>2. DropAgent(g, g, "agent went offline") /\ "agent went offline" \in Banners
    BY <1>3 DEF AgentLost, Banners
  <2>3. todo'[g].shut = g BY <1>3, AgentLostJob DEF JobEffect
  <2>4. /\ agents'[amid[g]] # g
        /\ \A t \in todo'[g].ends : tsid[t] \in Sids => sess'[tsid[t]] # t
    BY <1>3, <2>1, <2>2, DropAgentOut
  <2> QED BY <1>1, <2>3, <2>4 DEF JobOut
<1>4. CASE g \in AgentConns /\ AgentRegister(g)
  <2> DEFINE V == IF agents[amid[g]] # nil THEN SessionsOf(amid[g]) ELSE {}
  <2>1. amid[g] \in Machines BY <1>4 DEF AgentRegister, TypeInv, RolesOK, AgentRoles
  <2>2. JobEffect(g, agents[amid[g]], V, Banner("agent reconnected"), nil, nil) BY <1>4, RegisterJob
  <2>3. sess' = Without(V) /\ V \in SUBSET Tabs BY <1>4 DEF AgentRegister, SessionsOf
  <2>4. agents' = [agents EXCEPT ![amid[g]] = g] BY <1>4 DEF AgentRegister
  <2>5. agents[amid[g]] # nil => amid[agents[amid[g]]] = amid[g] /\ agents[amid[g]] # g
    BY <1>4, <2>1 DEF AgentRegister, newConn, ConnRoles, CreatedInMaps
  <2> HIDE DEF V
  <2>6. \A t \in todo'[g].ends : sess'[tsid[t]] # t BY <1>1, <2>2, <2>3, WithoutNone DEF JobEffect
  <2> QED BY <2>1, <2>2, <2>4, <2>5, <2>6 DEF JobOut, JobEffect, TypeInv, TypeOK, MapTypeOK
<1>5. ASSUME NEW t \in Tabs, todo'[g].ends = {t}, todo'[g].shut = nil, sess' = Without({t})
      PROVE  JobOut(g)
  BY <1>1, <1>5, WithoutNone DEF JobOut
<1>6. CASE g \in AgentConns /\ DropSlow(g)
  BY <1>5, <1>6, DropSlowJob DEF DropSlow, EndSession, JobEffect
<1>7. ASSUME NEW sid \in Sids, NEW kind \in {"exit", "err"}, g \in AgentConns, AgentEnd(g, sid, kind)
      PROVE  JobOut(g)
  <2>1. sess[sid] \in Tabs /\ todo'[g].ends = {sess[sid]} /\ todo'[g].shut = nil
    BY <1>7, AgentEndJob DEF JobEffect
  <2>2. tsid[sess[sid]] = sid BY <2>1, BrokerAssumption DEF TypeInv, RolesOK, SessRoles
  <2>3. sess'[sid] = nil BY <1>7 DEF AgentEnd, TypeInv, TypeOK, MapTypeOK
  <2> QED BY <2>1, <2>2, <2>3, BrokerAssumption DEF JobOut
<1>8. CASE g \in Tabs /\ EndOffline(g)
  BY <1>5, <1>8, EndOfflineJob DEF EndOffline, EndSession, JobEffect
<1>9. CASE g \in Tabs /\ TabLost(g)
  BY <1>5, <1>9, TabLostJob DEF TabLost, EndSession, JobEffect
<1> QED BY <1>2, <1>3, <1>4, <1>6, <1>7, <1>8, <1>9 DEF Given

(* What is closed or to be closed stays out of the maps. *)
LEMMA OutPreserved ==
    ASSUME TypeInv, ConnRoles, OutOfMaps, TypeInv', [Next]_vars
    PROVE  OutOfMaps'
<1> SUFFICES ASSUME NEW h \in Handlers
             PROVE  /\ \A t \in todo'[h].ends : sess'[tsid'[t]] # t
                    /\ todo'[h].shut # nil => agents'[amid'[todo'[h].shut]] # todo'[h].shut
  BY DEF OutOfMaps
<1>1. todo'[h].ends \subseteq Tabs /\ todo'[h].shut \in AgentConns \cup {nil}
  BY DEF TypeInv, TypeOK, HandlerTypeOK, Work
<1>2. JobCreated(h) BY JobsCreated
<1>3. CASE Given(h)
  BY <1>1, <1>2, <1>3, JobsOut, CreatedKeeps DEF JobOut, JobCreated, TabKeeps
<1>4. CASE Shrinks(h)
  <2>1. \A t \in todo'[h].ends : sess[tsid[t]] # t BY <1>4 DEF Shrinks, OutOfMaps
  <2>2. todo'[h].shut # nil => agents[amid[todo'[h].shut]] # todo'[h].shut
    BY <1>4 DEF Shrinks, OutOfMaps
  <2> QED BY <1>1, <1>2, <2>1, <2>2, NeverBack DEF JobCreated
<1> QED BY <1>3, <1>4, TodoShape

---------------------------------------------------------------------------
(* Closing.                                                                 *)

\* A conn is closed by a handler that had it on its list.
ClosedStep(c) ==
    \/ closed'[c] = closed[c]
    \/ closed'[c] /\ \E h \in Handlers : todo[h].shut = c \/ c \in todo[h].ends

(* A conn is closed by the handler whose job it is. *)
LEMMA ClosedSteps ==
    ASSUME TypeInv, ConnRoles, [Next]_vars
    PROVE  \A c \in Conns : ClosedStep(c)
<1> SUFFICES ASSUME NEW d \in Conns PROVE ClosedStep(d)
  OBVIOUS
<1> USE DEF sockVars, ClosedStep, TypeInv, TypeOK, SockTypeOK, ConnTypeOK
<1>1. CASE AdminStep
  BY <1>1 DEF AdminStep, Mint, DeleteStore, DeleteLookup, DeleteDrop, TermLookup, TermInsert,
      Expire, Sweep
<1>2. ASSUME NEW a \in AgentConns, AgentStep(a) PROVE ClosedStep(d)
  <2>1. CASE AgentRegister(a) BY <2>1 DEF AgentRegister, newConn
  <2>2. CASE AgentGreet(a) BY <2>2 DEF AgentGreet, send
  <2>3. CASE RouteOut(a) BY <2>3 DEF RouteOut, send
  <2> QED BY <1>2, <2>1, <2>2, <2>3 DEF AgentStep, AgentRefused, AgentHello, AgentOut,
      DropSlow, AgentEnd, AgentLost
<1>3. ASSUME NEW t \in Tabs, TabStep(t) PROVE ClosedStep(d)
  <2>1. CASE RegisterTab(t) BY <2>1 DEF RegisterTab, newConn
  <2>2. CASE OpenSent(t) BY <2>2 DEF OpenSent, send
  <2>3. CASE Input(t) BY <2>3 DEF Input, send
  <2> QED BY <1>3, <2>1, <2>2, <2>3 DEF TabStep, ClaimKey, RefuseKey, UpgradeFails, OpenFails,
      EndOffline, TabLost
<1>4. ASSUME NEW h \in Handlers, DoWork(h) PROVE ClosedStep(d)
  <2>1. CASE CloseAgent(h) BY <2>1, Targets DEF CloseAgent, close
  <2>2. ASSUME NEW t \in Tabs, CloseTab(h, t) PROVE ClosedStep(d)
    BY <2>2, Targets DEF CloseTab, close
  <2>3. CASE TellAgent(h) BY <2>3 DEF TellAgent, send
  <2> QED BY <1>4, <2>1, <2>2, <2>3 DEF DoWork
<1>5. ASSUME NEW c \in Conns, WriterStep(c) PROVE ClosedStep(d)
  BY <1>5, WriterEffect DEF WriterStep
<1>6. CASE UNCHANGED vars BY <1>6 DEF vars
<1> QED BY <1>1, <1>2, <1>3, <1>4, <1>5, <1>6 DEF Next, Quiet

(* What is in a map is not closed. *)
LEMMA OpenPreserved ==
    ASSUME TypeInv, ConnRoles, OutOfMaps, MappedIsOpen, TypeInv', [Next]_vars
    PROVE  MappedIsOpen'
<1>1. ASSUME NEW sid \in Sids, sess'[sid] # nil PROVE ~closed'[sess'[sid]]
  <2> DEFINE t == sess'[sid]
  <2>1. t \in Tabs /\ t \in Conns /\ t \notin AgentConns
    BY <1>1, BrokerAssumption DEF TypeInv, TypeOK, MapTypeOK, Conns
  <2>2. CASE t = sess[sid]
    <3>1. tsid[t] = sid /\ ~closed[t] BY <1>1, <2>2 DEF TypeInv, RolesOK, SessRoles, MappedIsOpen
    <3>2. \A h \in Handlers : t \notin todo[h].ends BY <2>2, <3>1 DEF OutOfMaps
    <3>3. \A h \in Handlers : todo[h].shut # t
      BY <2>1, BrokerAssumption DEF TypeInv, TypeOK, HandlerTypeOK, Work
    <3> QED BY <2>1, <3>1, <3>2, <3>3, ClosedSteps DEF ClosedStep
  <2>3. CASE RegisterTab(t)
    BY <2>1, <2>3 DEF RegisterTab, newConn, ConnRoles, FreshConns
  <2> QED BY <1>1, <2>2, <2>3, SessShrinks
<1>2. ASSUME NEW m \in Machines, agents'[m] # nil PROVE ~closed'[agents'[m]]
  <2> DEFINE a == agents'[m]
  <2>1. a \in AgentConns /\ a \in Conns /\ a \notin Tabs
    BY <1>2, BrokerAssumption DEF TypeInv, TypeOK, MapTypeOK, Conns
  <2>2. CASE a = agents[m]
    <3>1. amid[a] = m /\ ~closed[a] BY <1>2, <2>2 DEF ConnRoles, CreatedInMaps, MappedIsOpen
    <3>2. \A h \in Handlers : todo[h].shut # a BY <1>2, <2>2, <3>1 DEF OutOfMaps
    <3>3. \A h \in Handlers : a \notin todo[h].ends
      BY <2>1 DEF TypeInv, TypeOK, HandlerTypeOK, Work
    <3> QED BY <2>1, <3>1, <3>2, <3>3, ClosedSteps DEF ClosedStep
  <2>3. CASE AgentRegister(a)
    BY <2>1, <2>3 DEF AgentRegister, newConn, ConnRoles, FreshConns
  <2> QED BY <1>2, <2>2, <2>3, AgentsStep
<1> QED BY <1>1, <1>2 DEF MappedIsOpen

\* What handler h has to close stays on its list until it is closed.
Kept(h) ==
    /\ \A t \in todo[h].ends : t \in todo'[h].ends \/ closed'[t]
    /\ todo[h].shut # nil => todo'[h].shut = todo[h].shut \/ closed'[todo[h].shut]

(* A job keeps a conn until it has closed it. *)
LEMMA KeptUntilClosed ==
    ASSUME TypeInv, FreeHandlers, [Next]_vars
    PROVE  \A h \in Handlers : Kept(h)
<1> SUFFICES ASSUME NEW g \in Handlers PROVE Kept(g)
  OBVIOUS
<1>1. CASE Given(g) BY <1>1, GivenWasFree DEF Free, Kept, NoWork, Job
<1>2. CASE todo'[g] = todo[g] BY <1>2 DEF Kept
<1>3. ASSUME NEW h \in Handlers, NEW shut, NEW ends, NEW fin, NEW tell, NEW sid,
             JobEffect(h, shut, ends, fin, tell, sid), g # h
      PROVE  Kept(g)
  BY <1>3 DEF JobEffect, Kept
<1>4. ASSUME NEW h \in Handlers, DoWork(h) PROVE Kept(g)
  <2>1. ASSUME CloseAgent(h), g = h PROVE Kept(g)
    <3>1. todo[h].shut \in Conns
      BY <2>1 DEF CloseAgent, TypeInv, TypeOK, HandlerTypeOK, Work, Conns
    <3>2. closed'[todo[h].shut]
      BY <2>1, <3>1 DEF CloseAgent, close, TypeInv, TypeOK, SockTypeOK, ConnTypeOK
    <3> QED BY <2>1, <3>2, WorkJobs DEF JobEffect, Kept
  <2>2. ASSUME NEW t \in Tabs, CloseTab(h, t), g = h PROVE Kept(g)
    <3>1. closed'[t]
      BY <2>2 DEF CloseTab, close, TypeInv, TypeOK, SockTypeOK, ConnTypeOK, Conns
    <3>2. todo[h].shut = nil BY <2>2 DEF CloseTab
    <3> QED BY <2>2, <3>1, <3>2, WorkJobs DEF JobEffect, Kept
  <2>3. ASSUME TellAgent(h), g = h PROVE Kept(g) BY <2>3 DEF TellAgent, Kept
  <2> QED BY <1>3, <1>4, <2>1, <2>2, <2>3, WorkJobs DEF DoWork
<1>5. ASSUME NEW h \in Handlers, Given(h), g # h PROVE todo'[g] = todo[g]
  <2>1. CASE h \in Machines /\ DeleteDrop(h)
    <3>1. JobEffect(h, dac[h], IF agents[amid[dac[h]]] = dac[h] THEN SessionsOf(amid[dac[h]]) ELSE {},
                    Banner("machine revoked"), nil, nil)
      BY <2>1, DeleteDropJob
    <3> QED BY <1>5, <3>1 DEF JobEffect
  <2>2. CASE h \in AgentConns /\ AgentRegister(h) BY <1>5, <2>2, RegisterJob DEF JobEffect
  <2>3. CASE h \in AgentConns /\ DropSlow(h) BY <1>5, <2>3, DropSlowJob DEF JobEffect
  <2>4. CASE h \in AgentConns /\ AgentLost(h) BY <1>5, <2>4, AgentLostJob DEF JobEffect
  <2>5. ASSUME NEW sid \in Sids, NEW kind \in {"exit", "err"}, h \in AgentConns, AgentEnd(h, sid, kind)
        PROVE  todo'[g] = todo[g]
    BY <1>5, <2>5, AgentEndJob DEF JobEffect
  <2>6. CASE h \in Tabs /\ EndOffline(h) BY <1>5, <2>6, EndOfflineJob DEF JobEffect
  <2>7. CASE h \in Tabs /\ TabLost(h) BY <1>5, <2>7, TabLostJob DEF JobEffect
  <2> QED BY <1>5, <2>1, <2>2, <2>3, <2>4, <2>5, <2>6, <2>7 DEF Given
<1>6. CASE UNCHANGED todo BY <1>6 DEF Kept
<1> QED BY <1>1, <1>2, <1>4, <1>5, <1>6, TodoSteps DEF Given, Handlers

(* A tab that leaves the map is some handler's job. *)
LEMMA SessLeft ==
    ASSUME TypeInv, OneTabPerKey, [Next]_vars
    PROVE  \A s \in Sids : sess[s] # nil /\ sess'[s] # sess[s] => \E h \in Handlers : sess[s] \in todo'[h].ends
<1> SUFFICES ASSUME NEW s \in Sids, sess[s] # nil, sess'[s] # sess[s] PROVE \E g \in Handlers : sess[s] \in todo'[g].ends
  OBVIOUS
<1>1. CASE AdminStep
  <2>1. ASSUME NEW m \in Machines, DeleteDrop(m) PROVE \E g \in Handlers : sess[s] \in todo'[g].ends
    <3> DEFINE V == IF agents[amid[dac[m]]] = dac[m] THEN SessionsOf(amid[dac[m]]) ELSE {}
    <3>1. sess' = Without(V) /\ m \in Handlers BY <2>1 DEF DeleteDrop, DropAgent, Handlers
    <3>2. todo'[m].ends = V BY <2>1, DeleteDropJob DEF JobEffect
    <3> HIDE DEF V
    <3> QED BY <3>1, <3>2 DEF Without
  <2> QED BY <1>1, <2>1 DEF AdminStep, Mint, DeleteStore, DeleteLookup, TermLookup, TermInsert,
      Expire, Sweep
<1>2. ASSUME NEW a \in AgentConns, AgentStep(a) PROVE \E g \in Handlers : sess[s] \in todo'[g].ends
  <2>1. CASE AgentRegister(a)
    <3> DEFINE V == IF agents[amid[a]] # nil THEN SessionsOf(amid[a]) ELSE {}
    <3>1. sess' = Without(V) /\ a \in Handlers BY <2>1 DEF AgentRegister, Handlers
    <3>2. todo'[a].ends = V BY <2>1, RegisterJob DEF JobEffect
    <3> HIDE DEF V
    <3> QED BY <3>1, <3>2 DEF Without
  <2>2. CASE DropSlow(a) BY <2>2, DropSlowJob DEF DropSlow, EndSession, Without, JobEffect,
      Handlers
  <2>3. ASSUME NEW sid \in Sids, NEW kind \in {"exit", "err"}, AgentEnd(a, sid, kind)
        PROVE  \E g \in Handlers : sess[s] \in todo'[g].ends
    <3>1. todo'[a].ends = {sess[sid]} /\ a \in Handlers BY <2>3, AgentEndJob DEF JobEffect, Handlers
    <3>2. sess' = [sess EXCEPT ![sid] = nil] BY <2>3 DEF AgentEnd
    <3> QED BY <3>1, <3>2 DEF TypeInv, TypeOK, MapTypeOK
  <2>4. CASE AgentLost(a)
    <3> DEFINE V == IF agents[amid[a]] = a THEN SessionsOf(amid[a]) ELSE {}
    <3>1. sess' = Without(V) /\ a \in Handlers BY <2>4 DEF AgentLost, DropAgent, Handlers
    <3>2. todo'[a].ends = V BY <2>4, AgentLostJob DEF JobEffect
    <3> HIDE DEF V
    <3> QED BY <3>1, <3>2 DEF Without
  <2> QED BY <1>2, <2>1, <2>2, <2>3, <2>4 DEF AgentStep, AgentRefused, AgentHello, AgentGreet,
      AgentOut, RouteOut
<1>3. ASSUME NEW t \in Tabs, TabStep(t) PROVE \E g \in Handlers : sess[s] \in todo'[g].ends
  <2>1. CASE RegisterTab(t)
    <3>1. sess' = [sess EXCEPT ![tsid[t]] = t] /\ tsid[t] \in Sids
      BY <2>1 DEF RegisterTab, TypeInv, RolesOK, TabRoles
    <3>2. tsid[sess[s]] = s BY DEF TypeInv, RolesOK, SessRoles
    <3>3. s = tsid[t] => sess[s] = t
      BY <3>1, <3>2, BrokerAssumption DEF OneTabPerKey, TypeInv, TypeOK, MapTypeOK
    <3> QED BY <3>1, <3>3 DEF TypeInv, TypeOK, MapTypeOK
  <2>2. CASE EndOffline(t) BY <2>2, EndOfflineJob DEF EndOffline, EndSession, Without,
      JobEffect, Handlers
  <2>3. CASE TabLost(t) BY <2>3, TabLostJob DEF TabLost, EndSession, Without, JobEffect,
      Handlers
  <2> QED BY <1>3, <2>1, <2>2, <2>3 DEF TabStep, ClaimKey, RefuseKey, UpgradeFails, OpenSent,
      OpenFails, Input
<1>4. ASSUME NEW h \in Handlers, DoWork(h) PROVE \E g \in Handlers : sess[s] \in todo'[g].ends
  BY <1>4 DEF DoWork, CloseAgent, CloseTab, TellAgent
<1>5. ASSUME NEW c \in Conns, WriterStep(c) PROVE \E g \in Handlers : sess[s] \in todo'[g].ends
  BY <1>5 DEF WriterStep
<1>6. CASE UNCHANGED vars BY <1>6 DEF vars
<1> QED BY <1>1, <1>2, <1>3, <1>4, <1>5, <1>6 DEF Next, Quiet

(* An agent that leaves the map is some handler's job. *)
LEMMA AgentLeft ==
    ASSUME TypeInv, [Next]_vars
    PROVE  \A n \in Machines : agents[n] # nil /\ agents'[n] # agents[n] => \E h \in Handlers : todo'[h].shut = agents[n]
<1> SUFFICES ASSUME NEW n \in Machines, agents[n] # nil, agents'[n] # agents[n] PROVE \E g \in Handlers : todo'[g].shut = agents[n]
  OBVIOUS
<1>1. CASE AdminStep
  <2>1. ASSUME NEW m \in Machines, DeleteDrop(m) PROVE \E g \in Handlers : todo'[g].shut = agents[n]
    <3>1. dac[m] \in AgentConns /\ m \in Handlers
      BY <2>1 DEF DeleteDrop, TypeInv, RolesOK, AdminRoles, Handlers
    <3>2. todo'[m].shut = dac[m] BY <2>1, DeleteDropJob DEF JobEffect
    <3>3. agents[n] = dac[m] BY <2>1 DEF DeleteDrop, DropAgent, TypeInv, TypeOK, MapTypeOK
    <3> QED BY <3>1, <3>2, <3>3
  <2> QED BY <1>1, <2>1 DEF AdminStep, Mint, DeleteStore, DeleteLookup, TermLookup, TermInsert,
      Expire, Sweep
<1>2. ASSUME NEW a \in AgentConns, AgentStep(a) PROVE \E g \in Handlers : todo'[g].shut = agents[n]
  <2>1. CASE AgentRegister(a)
    <3>1. todo'[a].shut = agents[amid[a]] /\ a \in Handlers
      BY <2>1, RegisterJob DEF JobEffect, Handlers
    <3>2. n = amid[a] BY <2>1 DEF AgentRegister, TypeInv, TypeOK, MapTypeOK
    <3> QED BY <3>1, <3>2
  <2>2. CASE AgentLost(a)
    <3>1. todo'[a].shut = a /\ a \in Handlers BY <2>2, AgentLostJob DEF JobEffect, Handlers
    <3>2. agents[n] = a BY <2>2 DEF AgentLost, DropAgent, TypeInv, TypeOK, MapTypeOK
    <3> QED BY <3>1, <3>2
  <2> QED BY <1>2, <2>1, <2>2 DEF AgentStep, AgentRefused, AgentHello, AgentGreet, AgentOut,
      RouteOut, DropSlow, AgentEnd
<1>3. ASSUME NEW t \in Tabs, TabStep(t) PROVE \E g \in Handlers : todo'[g].shut = agents[n]
  BY <1>3 DEF TabStep, ClaimKey, RefuseKey, UpgradeFails, RegisterTab, OpenSent, OpenFails,
      EndOffline, Input, TabLost
<1>4. ASSUME NEW h \in Handlers, DoWork(h) PROVE \E g \in Handlers : todo'[g].shut = agents[n]
  BY <1>4 DEF DoWork, CloseAgent, CloseTab, TellAgent
<1>5. ASSUME NEW c \in Conns, WriterStep(c) PROVE \E g \in Handlers : todo'[g].shut = agents[n]
  BY <1>5 DEF WriterStep
<1>6. CASE UNCHANGED vars BY <1>6 DEF vars
<1> QED BY <1>1, <1>2, <1>3, <1>4, <1>5, <1>6 DEF Next, Quiet

(* What has left a map is closed, or some handler's job. *)
LEMMA ForgottenPreserved ==
    ASSUME TypeInv, ConnRoles, FreeHandlers, OneTabPerKey, NothingForgotten, TypeInv', [Next]_vars
    PROVE  NothingForgotten'
<1>0. \A c \in Conns : closed[c] => closed'[c] BY ClosedSteps DEF ClosedStep
<1>1. ASSUME NEW t \in Tabs, ws'[t] # "none", sess'[tsid'[t]] # t, ~closed'[t]
      PROVE  \E h \in Handlers : t \in todo'[h].ends
  <2>1. t \in Conns /\ t \notin AgentConns /\ t # nil BY BrokerAssumption DEF Conns
  <2>2. ws[t] # "none"
    <3>1. ~RegisterTab(t)
      BY <1>1 DEF RegisterTab, TypeInv, TypeOK, MapTypeOK, RolesOK, TabRoles
    <3> QED BY <1>1, <2>1, <3>1, WsSteps DEF WsStep
  <2>3. tsid'[t] = tsid[t] /\ tsid[t] \in Sids BY <2>2, CreatedKeeps DEF TabKeeps
  <2>4. CASE sess[tsid[t]] = t BY <1>1, <2>1, <2>3, <2>4, SessLeft
  <2>5. CASE sess[tsid[t]] # t
    <3>1. PICK h \in Handlers : t \in todo[h].ends BY <1>0, <1>1, <2>1, <2>2, <2>5 DEF NothingForgotten
    <3> QED BY <1>1, <3>1, KeptUntilClosed DEF Kept
  <2> QED BY <2>4, <2>5
<1>2. ASSUME NEW a \in AgentConns, ws'[a] # "none", agents'[amid'[a]] # a, ~closed'[a]
      PROVE  \E h \in Handlers : todo'[h].shut = a
  <2>1. a \in Conns /\ a \notin Tabs /\ a # nil BY BrokerAssumption DEF Conns
  <2>2. ws[a] # "none"
    <3>1. ~AgentRegister(a)
      BY <1>2 DEF AgentRegister, agentVars, TypeInv, TypeOK, MapTypeOK, RolesOK, AgentRoles
    <3> QED BY <1>2, <2>1, <3>1, WsSteps DEF WsStep
  <2>3. amid'[a] = amid[a] /\ amid[a] \in Machines
    BY <2>2, CreatedKeeps DEF ConnRoles, CreatedByHandlers
  <2>4. CASE agents[amid[a]] = a BY <1>2, <2>1, <2>3, <2>4, AgentLeft
  <2>5. CASE agents[amid[a]] # a
    <3>1. PICK h \in Handlers : todo[h].shut = a BY <1>0, <1>2, <2>1, <2>2, <2>5 DEF NothingForgotten
    <3> QED BY <1>2, <2>1, <3>1, KeptUntilClosed DEF Kept
  <2> QED BY <2>4, <2>5
<1> QED BY <1>1, <1>2 DEF NothingForgotten

---------------------------------------------------------------------------
(* Sessions and the agents they were claimed with.                          *)

(* A tab that is out of the map is not attached again. *)
LEMMA AttachedOnlyByClaim ==
    ASSUME TypeInv, ConnRoles, [Next]_vars
    PROVE  \A t \in Tabs : ws[t] # "none" /\ Attached(t)' => Attached(t)
<1> SUFFICES ASSUME NEW t \in Tabs, ws[t] # "none", Attached(t)' PROVE Attached(t)
  OBVIOUS
<1>1. tac'[t] = tac[t] /\ tmid'[t] = tmid[t] /\ tac[t] # nil /\ agents'[tmid[t]] = tac[t]
  BY CreatedKeeps DEF TabKeeps, Attached
<1>2. tmid[t] \in Machines /\ tac[t] \in AgentConns
  BY <1>1 DEF TypeInv, TypeOK, HandlerTypeOK, RolesOK, TabRoles, ConnRoles, FreshConns
<1>3. ~AgentRegister(tac[t]) BY <1>1, <1>2, CreatedKeeps DEF ConnRoles, CreatedByHandlers
<1> QED BY <1>1, <1>2, <1>3, AgentsStep DEF Attached

\* A machine that changes its agent loses the sessions it had in b.sess.
LEMMA AgentChangeEnds ==
    ASSUME TypeInv, ConnRoles, OneTabPerKey, [Next]_vars, NEW n \in Machines, agents[n] # nil, agents'[n] # agents[n]
    PROVE  \A s \in Sids : sess[s] # nil /\ tmid[sess[s]] = n => sess'[s] # sess[s]
<1> SUFFICES ASSUME NEW s \in Sids, sess[s] # nil, tmid[sess[s]] = n PROVE sess'[s] # sess[s]
  OBVIOUS
<1>1. CASE AdminStep
  <2>1. ASSUME NEW m \in Machines, DeleteDrop(m) PROVE sess'[s] # sess[s]
    <3> DEFINE V == SessionsOf(n)
    <3>1. n = amid[dac[m]] /\ agents[amid[dac[m]]] = dac[m] BY <2>1 DEF DeleteDrop, DropAgent, TypeInv, TypeOK, MapTypeOK
    <3>2. sess' = Without(V) BY <2>1, <3>1 DEF DeleteDrop, DropAgent
    <3>3. sess[s] \in Tabs /\ sess[s] \in V BY BrokerAssumption DEF SessionsOf, TypeInv, TypeOK, MapTypeOK
    <3> HIDE DEF V
    <3> QED BY <3>2, <3>3 DEF Without
  <2> QED BY <1>1, <2>1 DEF AdminStep, Mint, DeleteStore, DeleteLookup, TermLookup, TermInsert,
      Expire, Sweep
<1>2. ASSUME NEW a \in AgentConns, AgentStep(a) PROVE sess'[s] # sess[s]
  <2>1. CASE AgentRegister(a)
    <3> DEFINE V == SessionsOf(n)
    <3>1. n = amid[a] BY <2>1 DEF AgentRegister, TypeInv, TypeOK, MapTypeOK
    <3>2. sess' = Without(V) BY <2>1, <3>1 DEF AgentRegister
    <3>3. sess[s] \in Tabs /\ sess[s] \in V BY BrokerAssumption DEF SessionsOf, TypeInv, TypeOK, MapTypeOK
    <3> HIDE DEF V
    <3> QED BY <3>2, <3>3 DEF Without
  <2>2. CASE AgentLost(a)
    <3> DEFINE V == SessionsOf(n)
    <3>1. n = amid[a] /\ agents[amid[a]] = a BY <2>2 DEF AgentLost, DropAgent, TypeInv, TypeOK, MapTypeOK
    <3>2. sess' = Without(V) BY <2>2, <3>1 DEF AgentLost, DropAgent
    <3>3. sess[s] \in Tabs /\ sess[s] \in V BY BrokerAssumption DEF SessionsOf, TypeInv, TypeOK, MapTypeOK
    <3> HIDE DEF V
    <3> QED BY <3>2, <3>3 DEF Without
  <2> QED BY <1>2, <2>1, <2>2 DEF AgentStep, AgentRefused, AgentHello, AgentGreet, AgentOut,
      RouteOut, DropSlow, AgentEnd
<1>3. ASSUME NEW t \in Tabs, TabStep(t) PROVE sess'[s] # sess[s]
  BY <1>3 DEF TabStep, ClaimKey, RefuseKey, UpgradeFails, RegisterTab, OpenSent, OpenFails,
      EndOffline, Input, TabLost
<1>4. ASSUME NEW h \in Handlers, DoWork(h) PROVE sess'[s] # sess[s]
  BY <1>4 DEF DoWork, CloseAgent, CloseTab, TellAgent
<1>5. ASSUME NEW c \in Conns, WriterStep(c) PROVE sess'[s] # sess[s]
  BY <1>5 DEF WriterStep
<1>6. CASE UNCHANGED vars BY <1>6 DEF vars
<1> QED BY <1>1, <1>2, <1>3, <1>4, <1>5, <1>6 DEF Next, Quiet

(* A session's agent is its machine's. *)
LEMMA FollowsPreserved ==
    ASSUME TypeInv, ConnRoles, OneTabPerKey, SessionFollowsAgent, TypeInv', [Next]_vars
    PROVE  SessionFollowsAgent'
<1> SUFFICES ASSUME NEW t \in Tabs, t \in bound', sess'[tsid'[t]] = t PROVE Attached(t)'
  BY DEF SessionFollowsAgent, TypeInv, TypeOK, HandlerTypeOK
<1>1. t # nil BY BrokerAssumption
<1>2. CASE RegisterTab(t)
  <2>1. tac[t] # nil /\ agents[tmid[t]] = tac[t]
    <3>1. t \notin bound BY <1>2 DEF RegisterTab, newConn, ConnRoles, CreatedByHandlers
    <3> QED BY <1>2, <3>1 DEF RegisterTab
  <2> QED BY <1>2, <2>1 DEF RegisterTab, Attached
<1>3. CASE ~RegisterTab(t)
  <2>1. t \in bound BY <1>3, TabPaths DEF TabPath
  <2>2. ws[t] # "none" BY <2>1 DEF ConnRoles, CreatedByHandlers
  <2>3. TabKeeps(t) /\ tsid[t] \in Sids BY <2>2, CreatedKeeps
  <2>4. sess[tsid[t]] = t BY <1>1, <1>3, <2>3, SessShrinks DEF TabKeeps
  <2>5. Attached(t) BY <2>1, <2>4 DEF SessionFollowsAgent
  <2>6. tmid[t] \in Machines
    BY <2>2 DEF ConnRoles, FreshConns, TypeInv, RolesOK, TabRoles
  <2>7. agents'[tmid[t]] = agents[tmid[t]]
    BY <1>1, <2>3, <2>4, <2>5, <2>6, AgentChangeEnds DEF Attached, TabKeeps
  <2> QED BY <2>3, <2>5, <2>7 DEF Attached, TabKeeps
<1> QED BY <1>2, <1>3

\* A frame in the queue of t after the step was there before, carries no loss
\* banner, or is the final frame of a handler that closes t.
FrameStep(t) ==
    \A i \in DOMAIN out'[t] :
        \/ \E j \in DOMAIN out[t] : out'[t][i] = out[t][j]
        \/ out'[t][i].msg \notin LossBanners
        \/ \E h \in Handlers : t \in todo[h].ends /\ todo[h].fin # nil /\ out'[t][i] = todo[h].fin

(* The frames of an appended queue. *)
LEMMA AppendFrames ==
    ASSUME NEW s \in Seq(Frames), NEW f, NEW i \in DOMAIN Append(s, f)
    PROVE  (i \in DOMAIN s /\ Append(s, f)[i] = s[i]) \/ Append(s, f)[i] = f
OBVIOUS

(* The frames of the rest of a queue. *)
LEMMA TailFrames ==
    ASSUME NEW s \in Seq(Frames), s # <<>>, NEW i \in DOMAIN Tail(s)
    PROVE  i + 1 \in DOMAIN s /\ Tail(s)[i] = s[i + 1]
OBVIOUS

(* A frame for an agent is not one for a browser. *)
LEMMA AgentSend ==
    ASSUME TypeInv, NEW c \in AgentConns, NEW f, send(c, f), NEW u \in Tabs
    PROVE  out'[u] = out[u]
BY SendEffect, BrokerAssumption DEF TypeInv, TypeOK, Conns

(* Nor is a closed agent a closed browser. *)
LEMMA AgentClose ==
    ASSUME TypeInv, NEW c \in AgentConns, close(c, nil), NEW u \in Tabs
    PROVE  out'[u] = out[u]
BY CloseEffect, BrokerAssumption DEF TypeInv, TypeOK, Conns

(* How a browser's queue changes. *)
LEMMA FrameSteps ==
    ASSUME TypeInv, [Next]_vars
    PROVE  \A t \in Tabs : FrameStep(t)
<1> SUFFICES ASSUME NEW u \in Tabs, NEW i \in DOMAIN out'[u]
             PROVE  \/ \E j \in DOMAIN out[u] : out'[u][i] = out[u][j]
                    \/ out'[u][i].msg \notin LossBanners
                    \/ \E g \in Handlers :
                          u \in todo[g].ends /\ todo[g].fin # nil /\ out'[u][i] = todo[g].fin
  BY DEF FrameStep
<1> DEFINE OK == \/ \E j \in DOMAIN out[u] : out'[u][i] = out[u][j]
                 \/ out'[u][i].msg \notin LossBanners
                 \/ \E g \in Handlers :
                       u \in todo[g].ends /\ todo[g].fin # nil /\ out'[u][i] = todo[g].fin
<1>0. out[u] \in Seq(Frames) /\ u \in Conns BY DEF TypeInv, TypeOK, SockTypeOK, ConnTypeOK, Conns
<1>1. CASE AdminStep
  BY <1>1 DEF AdminStep, Mint, DeleteStore, DeleteLookup, DeleteDrop, TermLookup, TermInsert,
      Expire, Sweep, sockVars
<1>2. ASSUME NEW a \in AgentConns, AgentStep(a) PROVE OK
  <2>1. CASE AgentRegister(a) BY <2>1 DEF AgentRegister, newConn
  <2>2. CASE AgentGreet(a)
    <3>1. out'[u] = out[u] BY <2>2, AgentSend DEF AgentGreet
    <3> QED BY <3>1
  <2>3. CASE RouteOut(a)
    <3>1. acur[a] \in Conns BY <2>3 DEF RouteOut, TypeInv, RolesOK, AgentRoles, Conns
    <3>2. FromAgent("out", a).msg = nil BY DEF FromAgent
    <3>3. nil \notin LossBanners BY BrokerAssumption DEF LossBanners, Banners
    <3>4. out'[u] = out[u] \/ out'[u] = Append(out[u], FromAgent("out", a))
      BY <2>3, <3>1, SendEffect DEF RouteOut, TypeInv, TypeOK, Conns
    <3> QED BY <1>0, <3>2, <3>3, <3>4, AppendFrames
  <2> QED BY <1>2, <2>1, <2>2, <2>3 DEF AgentStep, AgentRefused, AgentHello, AgentOut,
      DropSlow, AgentEnd, AgentLost, sockVars
<1>3. ASSUME NEW t \in Tabs, TabStep(t) PROVE OK
  <2>1. CASE RegisterTab(t) BY <2>1 DEF RegisterTab, newConn
  <2>2. CASE OpenSent(t)
    <3>1. tac[t] \in AgentConns BY <2>2 DEF OpenSent, TypeInv, TypeOK, HandlerTypeOK
    <3>2. out'[u] = out[u] BY <2>2, <3>1, AgentSend DEF OpenSent
    <3> QED BY <3>2
  <2>3. CASE Input(t)
    <3>1. tac[t] \in AgentConns
      BY <2>3 DEF Input, TypeInv, TypeOK, HandlerTypeOK, RolesOK, TabRoles
    <3>2. out'[u] = out[u] BY <2>3, <3>1, AgentSend DEF Input
    <3> QED BY <3>2
  <2> QED BY <1>3, <2>1, <2>2, <2>3 DEF TabStep, ClaimKey, RefuseKey, UpgradeFails, OpenFails,
      EndOffline, TabLost, sockVars
<1>4. ASSUME NEW h \in Handlers, DoWork(h) PROVE OK
  <2>1. CASE CloseAgent(h)
    <3>1. todo[h].shut \in AgentConns
      BY <2>1 DEF CloseAgent, TypeInv, TypeOK, HandlerTypeOK, Work
    <3>2. out'[u] = out[u] BY <2>1, <3>1, AgentClose DEF CloseAgent
    <3> QED BY <3>2
  <2>2. ASSUME NEW t \in Tabs, CloseTab(h, t) PROVE OK
    <3>1. t \in Conns /\ t \in todo[h].ends BY <2>2 DEF CloseTab, Conns
    <3>2. \/ out'[u] = out[u] \/ out'[u] = <<>>
          \/ u = t /\ todo[h].fin # nil /\ out'[u] = Append(out[u], todo[h].fin)
      BY <2>2, <3>1, CloseEffect DEF CloseTab, TypeInv, TypeOK, Conns
    <3> QED BY <1>0, <3>1, <3>2, AppendFrames
  <2>3. CASE TellAgent(h)
    <3>1. todo[h].tell \in AgentConns
      BY <2>3 DEF TellAgent, TypeInv, TypeOK, HandlerTypeOK, Work
    <3>2. out'[u] = out[u] BY <2>3, <3>1, AgentSend DEF TellAgent
    <3> QED BY <3>2
  <2> QED BY <1>4, <2>1, <2>2, <2>3 DEF DoWork, sockVars
<1>5. ASSUME NEW c \in Conns, WriterStep(c) PROVE OK
  <2>1. Writer(c) BY <1>5 DEF WriterStep
  <2>2. out'[u] = <<>> \/ out'[u] = out[u] \/ (out[u] # <<>> /\ out'[u] = Tail(out[u]))
    BY <1>0, <2>1, WriterEffect DEF TypeInv, TypeOK
  <2>3. CASE out[u] # <<>> /\ out'[u] = Tail(out[u])
    <3>1. i + 1 \in DOMAIN out[u] /\ out'[u][i] = out[u][i + 1] BY <1>0, <2>3, TailFrames
    <3> QED BY <3>1
  <2>4. out'[u] # <<>> OBVIOUS
  <2> QED BY <2>2, <2>3, <2>4
<1>6. CASE UNCHANGED vars BY <1>6 DEF vars, sockVars
<1> QED BY <1>1, <1>2, <1>3, <1>4, <1>5, <1>6 DEF Next, Quiet

(* A browser that reads of a loss has lost its agent. *)
LEMMA LossPreserved ==
    ASSUME TypeInv, ConnRoles, LossBannerIsTrue, TypeInv', [Next]_vars
    PROVE  LossBannerIsTrue'
<1>1. ASSUME NEW t \in Tabs, NEW i \in DOMAIN out'[t], out'[t][i].msg \in LossBanners
      PROVE  ~Attached(t)'
  <2>1. ws[t] # "none"
    BY <1>1, FreshUntouched DEF Untouched, ConnRoles, FreshConns, Conns
  <2>2. ~Attached(t) BY <1>1, FrameSteps DEF FrameStep, LossBannerIsTrue
  <2> QED BY <2>1, <2>2, AttachedOnlyByClaim
<1>2. ASSUME NEW h \in Handlers, NEW t \in todo'[h].ends, todo'[h].fin # nil,
             todo'[h].fin.msg \in LossBanners
      PROVE  ~Attached(t)'
  <2>1. t \in Tabs BY DEF TypeInv, TypeOK, HandlerTypeOK, Work
  <2>2. ws[t] # "none" /\ TabKeeps(t) BY <2>1, JobsCreated, CreatedKeeps DEF JobCreated
  <2>3. tmid[t] \in Machines /\ (tac[t] # nil => ws[tac[t]] # "none")
    BY <2>1, <2>2 DEF ConnRoles, FreshConns, CreatedByHandlers, TypeInv, RolesOK, TabRoles
  <2>4. CASE Shrinks(h)
    <3>1. ~Attached(t) BY <1>2, <2>4 DEF Shrinks, LossBannerIsTrue
    <3> QED BY <2>1, <2>2, <3>1, AttachedOnlyByClaim
  <2>5. ASSUME NEW a \in AgentConns, NEW why \in Banners, DropAgent(h, a, why), t \in SessionsOf(amid[a]),
               agents[amid[a]] = a
        PROVE  ~Attached(t)'
    <3>1. agents'[tmid[t]] = nil
      BY <2>3, <2>5 DEF DropAgent, SessionsOf, TypeInv, TypeOK, MapTypeOK
    <3> QED BY <2>2, <3>1 DEF Attached, TabKeeps
  <2>6. CASE h \in Machines /\ DeleteDrop(h)
    <3>1. dac[h] \in AgentConns /\ DropAgent(h, dac[h], "machine revoked") /\ "machine revoked" \in Banners
      BY <2>6 DEF DeleteDrop, Banners, TypeInv, RolesOK, AdminRoles
    <3>2. t \in (IF agents[amid[dac[h]]] = dac[h] THEN SessionsOf(amid[dac[h]]) ELSE {})
      BY <2>6, DeleteDropJob DEF JobEffect
    <3> QED BY <2>5, <3>1, <3>2
  <2>7. CASE h \in AgentConns /\ AgentLost(h)
    <3>1. DropAgent(h, h, "agent went offline") /\ "agent went offline" \in Banners
      BY <2>7 DEF AgentLost, Banners
    <3>2. t \in (IF agents[amid[h]] = h THEN SessionsOf(amid[h]) ELSE {})
      BY <2>7, AgentLostJob DEF JobEffect
    <3> QED BY <2>5, <2>7, <3>1, <3>2
  <2>8. CASE h \in AgentConns /\ AgentRegister(h)
    <3>1. t \in (IF agents[amid[h]] # nil THEN SessionsOf(amid[h]) ELSE {})
      BY <2>8, RegisterJob DEF JobEffect
    <3>2. tmid[t] = amid[h] BY <3>1 DEF SessionsOf
    <3>3. agents'[tmid[t]] = h BY <2>3, <2>8, <3>2 DEF AgentRegister, TypeInv, TypeOK, MapTypeOK
    <3>4. tac[t] # h BY <2>3, <2>8, BrokerAssumption DEF AgentRegister, newConn
    <3> QED BY <2>2, <3>3, <3>4 DEF Attached, TabKeeps
  <2>9. ~(h \in AgentConns /\ DropSlow(h))
    <3>1. h \in AgentConns /\ DropSlow(h) => todo'[h].fin = Banner("session dropped: browser too slow")
      BY DropSlowJob DEF JobEffect
    <3>2. Banner("session dropped: browser too slow").msg = "session dropped: browser too slow"
      BY DEF Banner
    <3>3. "session dropped: browser too slow" \notin LossBanners BY DEF LossBanners
    <3> QED BY <1>2, <3>1, <3>2, <3>3
  <2>10. ~(h \in Tabs /\ EndOffline(h))
    <3>1. h \in Tabs /\ EndOffline(h) => todo'[h].fin = Banner("agent is offline")
      BY EndOfflineJob DEF JobEffect
    <3>2. Banner("agent is offline").msg = "agent is offline" BY DEF Banner
    <3>3. "agent is offline" \notin LossBanners BY DEF LossBanners
    <3> QED BY <1>2, <3>1, <3>2, <3>3
  <2>11. ~(h \in Tabs /\ TabLost(h)) BY <1>2, TabLostJob DEF JobEffect
  <2>12. ASSUME NEW sid \in Sids, NEW kind \in {"exit", "err"}, h \in AgentConns, AgentEnd(h, sid, kind)
         PROVE  FALSE
    <3>1. todo'[h].fin = FromAgent(kind, h) BY <1>2, <2>12, AgentEndJob DEF JobEffect
    <3>2. FromAgent(kind, h).msg = nil BY DEF FromAgent
    <3>3. nil \notin LossBanners BY BrokerAssumption DEF LossBanners, Banners
    <3> QED BY <1>2, <3>1, <3>2, <3>3
  <2> QED BY <2>4, <2>6, <2>7, <2>8, <2>9, <2>10, <2>11, <2>12, TodoShape DEF Given
<1> QED BY <1>1, <1>2 DEF LossBannerIsTrue, Attached

---------------------------------------------------------------------------
(* The theorems.                                                            *)

(* The relay starts in the invariant. *)
LEMMA InitInv == ASSUME Init PROVE BrokerInv
<1>1. TypeInv BY InitTypes
<1>2. ConnRoles
  BY BrokerAssumption
  DEF Init, ConnInit, ConnRoles, FreshConns, CreatedByHandlers, CreatedInMaps, CreatedInTodo, Conns,
      NoWork, Job
<1>3. KeyRoles /\ OneTabPerKey BY DEF Init, KeyRoles, OneTabPerKey
<1>4. FreeHandlers /\ OutOfMaps
  BY DEF Init, FreeHandlers, OutOfMaps, Free, Handlers, NoWork, Job
<1>5. MappedIsOpen BY DEF Init, MappedIsOpen
<1>6. NothingForgotten BY DEF Init, ConnInit, NothingForgotten, Conns
<1>7. LossBannerIsTrue BY DEF Init, ConnInit, LossBannerIsTrue, Conns, NoWork, Job
<1>8. SessionFollowsAgent BY DEF Init, SessionFollowsAgent
<1> QED BY <1>1, <1>2, <1>3, <1>4, <1>5, <1>6, <1>7, <1>8 DEF BrokerInv

(* Every step keeps the invariant. *)
LEMMA InvPreserved == ASSUME BrokerInv, [Next]_vars PROVE BrokerInv'
<1>1. TypeInv' BY TypesPreserved DEF BrokerInv
<1> QED
  BY <1>1, KeysPreserved, ConnRolesPreserved, FreePreserved, OutPreserved, OpenPreserved,
     ForgottenPreserved, LossPreserved, FollowsPreserved
  DEF BrokerInv

(* The invariant holds throughout. *)
LEMMA InvHolds == Spec => []BrokerInv
BY InitInv, InvPreserved, PTL DEF Spec

(* However the upgrades and the sweep interleave, a session key opens one   *)
(* session (wsTerm, broker.go:443-456).                                     *)
THEOREM OneTabPerKeyTheorem == Spec => []OneTabPerKey
<1>1. BrokerInv => OneTabPerKey BY DEF BrokerInv
<1> QED BY <1>1, InvHolds, PTL

(* No closed conn is reachable through b.sess or b.agents: every handler    *)
(* unmaps under the lock before it closes outside it (dropAgent, endSession,*)
(* wsAgent).                                                                *)
THEOREM MappedIsOpenTheorem == Spec => []MappedIsOpen
<1>1. BrokerInv => MappedIsOpen BY DEF BrokerInv
<1> QED BY <1>1, InvHolds, PTL

(* A conn that left its map is closed, or is on the list of the one handler *)
(* that will close it.                                                      *)
THEOREM NothingForgottenTheorem == Spec => []NothingForgotten
<1>1. BrokerInv => NothingForgotten BY DEF BrokerInv
<1> QED BY <1>1, InvHolds, PTL

(* A page told that its agent is gone, replaced or revoked has really lost  *)
(* the conn it was opened on: the ac-identity check of dropAgent            *)
(* (broker.go:407) protects the sessions of a successor.                    *)
THEOREM LossBannerIsTrueTheorem == Spec => []LossBannerIsTrue
<1>1. BrokerInv => LossBannerIsTrue BY DEF BrokerInv
<1> QED BY <1>1, InvHolds, PTL

(* A session that registered while its agent was there leaves b.sess with   *)
(* that agent (dropAgent, wsAgent's victims).                               *)
THEOREM SessionFollowsAgentTheorem == Spec => []SessionFollowsAgent
<1>1. BrokerInv => SessionFollowsAgent BY DEF BrokerInv
<1> QED BY <1>1, InvHolds, PTL
=============================================================================
