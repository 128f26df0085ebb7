------------------------- MODULE BrokerFrameProofs -------------------------
(***************************************************************************)
(* What reaches the peers of the relay, for any machines, sockets, tabs,    *)
(* keys and queue length: whose frames, in which order, and that nothing is *)
(* said of a session that is not so.  It rests on BrokerInv of BrokerProofs *)
(* and on one lemma, QueueSteps, that says how a step may change a queue.    *)
(***************************************************************************)
EXTENDS BrokerLife, BrokerProofs

---------------------------------------------------------------------------
(* The parts of the inductive invariant.                                    *)

\* What is not known yet is nil: the machine of a socket that has not said
\* hello, the machine of a key that was not asked for.
Unknown ==
    /\ \A a \in AgentConns : apc[a] = "new" => amid[a] = nil
    /\ \A sid \in Sids : kpc[sid] = "unused" => kmid[sid] = nil

\* A handler that holds on to a session or an agent it looked up earlier holds
\* one of its own machine.
HeldMids ==
    /\ \A a \in AgentConns : apc[a] = "routing" => tmid[acur[a]] = amid[a]
    /\ \A t \in Tabs : tac[t] # nil => amid[tac[t]] = tmid[t]

\* So do the frames that handlers are about to send.
DueMids ==
    \A h \in Handlers :
        /\ todo[h].fin # nil /\ todo[h].fin.by # nil
              => \A t \in todo[h].ends : amid[todo[h].fin.by] = tmid[t]
        /\ todo[h].tell # nil => kmid[todo[h].sid] = amid[todo[h].tell]

\* What a browser is told last is not terminal output.
FinIsAnEnd == \A h \in Handlers : todo[h].ends # {} /\ todo[h].fin # nil => todo[h].fin.t # "out"

\* The session of sid is over and cannot begin again: the one tab that may
\* claim the sid has already been in b.sess.
Over(sid) == sess[sid] = nil /\ \E t \in Tabs : tsid[t] = sid /\ ws[t] # "none"

KillIsLate ==
    /\ \A a \in AgentConns : \A i \in DOMAIN out[a] : out[a][i].t = "close" => Over(out[a][i].sid)
    /\ \A h \in Handlers : todo[h].tell # nil => Over(todo[h].sid)

FrameInv ==
    /\ Unknown
    /\ HeldMids
    /\ DueMids
    /\ FinIsAnEnd
    /\ KillIsLate
    /\ Isolation
    /\ OneEndAndLast

---------------------------------------------------------------------------
(* How a step may change a queue.                                           *)

\* The handlers' reasons to put frame f at the end of the queue of c.
Reason(c, f) ==
    \/ f = ToAgent("hello_ok", nil) /\ c \in AgentConns
    \/ /\ c \in Tabs
       /\ \E a \in AgentConns : apc[a] = "routing" /\ c = acur[a] /\ f = FromAgent("out", a)
    \/ \E t \in Tabs : tsid[t] \in Sids /\ c = tac[t] /\ f \in {ToAgent("open", tsid[t]), ToAgent("in", tsid[t])}
    \/ \E h \in Handlers :
          /\ c \in todo[h].ends /\ todo[h].fin # nil /\ f = todo[h].fin
          /\ closed'[c]
    \/ \E h \in Handlers : todo[h].tell # nil /\ c = todo[h].tell /\ f = ToAgent("close", todo[h].sid)

QueueStep(c) ==
    \/ out'[c] \in {out[c], <<>>}
    \/ out[c] # <<>> /\ out'[c] = Tail(out[c])
    \/ Accepts(c) /\ \E f : out'[c] = Append(out[c], f) /\ Reason(c, f)

(* A send adds a frame to its own conn's queue, for a reason. *)
LEMMA SendQueue ==
    ASSUME TypeInv, NEW c \in Conns, NEW f, send(c, f), Accepts(c) => Reason(c, f), NEW d \in Conns
    PROVE  QueueStep(d)
BY SendEffect DEF QueueStep, TypeInv, TypeOK

(* A close adds its final frame for a reason, or drops what waits. *)
LEMMA CloseQueue ==
    ASSUME TypeInv, NEW c \in Conns, NEW f, close(c, f), f # nil => Reason(c, f), NEW d \in Conns
    PROVE  QueueStep(d)
BY CloseEffect DEF QueueStep, TypeInv, TypeOK

(* No step does anything else to a queue than append one frame, take the first or drop all. *)
LEMMA QueueSteps ==
    ASSUME TypeInv, [Next]_vars
    PROVE  \A c \in Conns : QueueStep(c)
<1> SUFFICES ASSUME NEW d \in Conns PROVE QueueStep(d)
  OBVIOUS
<1>1. CASE AdminStep
  BY <1>1 DEF AdminStep, Mint, DeleteStore, DeleteLookup, DeleteDrop, TermLookup, TermInsert,
      Expire, Sweep, sockVars, QueueStep
<1>2. ASSUME NEW a \in AgentConns, AgentStep(a) PROVE QueueStep(d)
  <2>1. CASE AgentRegister(a) BY <2>1 DEF AgentRegister, newConn, QueueStep
  <2>2. CASE AgentGreet(a)
    <3>1. Reason(a, ToAgent("hello_ok", nil)) BY DEF Reason
    <3> QED BY <2>2, <3>1, SendQueue DEF AgentGreet, Conns
  <2>3. CASE RouteOut(a)
    <3>1. acur[a] \in Tabs BY <2>3 DEF RouteOut, TypeInv, RolesOK, AgentRoles
    <3>2. Reason(acur[a], FromAgent("out", a)) BY <2>3, <3>1 DEF RouteOut, Reason
    <3> QED BY <2>3, <3>1, <3>2, SendQueue DEF RouteOut, Conns
  <2> QED BY <1>2, <2>1, <2>2, <2>3 DEF AgentStep, AgentRefused, AgentHello, AgentOut,
      DropSlow, AgentEnd, AgentLost, sockVars, QueueStep
<1>3. ASSUME NEW t \in Tabs, TabStep(t) PROVE QueueStep(d)
  <2>1. CASE RegisterTab(t) BY <2>1 DEF RegisterTab, newConn, QueueStep
  <2>2. CASE OpenSent(t)
    <3>1. tac[t] \in Conns /\ tsid[t] \in Sids
      BY <2>2 DEF OpenSent, TypeInv, TypeOK, HandlerTypeOK, RolesOK, TabRoles, Conns
    <3>2. Reason(tac[t], ToAgent("open", tsid[t])) BY <3>1 DEF Reason
    <3> QED BY <2>2, <3>1, <3>2, SendQueue DEF OpenSent
  <2>3. CASE Input(t)
    <3>1. tac[t] \in Conns /\ tsid[t] \in Sids
      BY <2>3 DEF Input, TypeInv, TypeOK, HandlerTypeOK, RolesOK, TabRoles, Conns
    <3>2. Reason(tac[t], ToAgent("in", tsid[t])) BY <3>1 DEF Reason
    <3> QED BY <2>3, <3>1, <3>2, SendQueue DEF Input
  <2> QED BY <1>3, <2>1, <2>2, <2>3 DEF TabStep, ClaimKey, RefuseKey, UpgradeFails, OpenFails,
      EndOffline, TabLost, sockVars, QueueStep
<1>4. ASSUME NEW h \in Handlers, DoWork(h) PROVE QueueStep(d)
  <2>1. CASE CloseAgent(h)
    <3>1. todo[h].shut \in Conns
      BY <2>1 DEF CloseAgent, TypeInv, TypeOK, HandlerTypeOK, Work, Conns
    <3> QED BY <2>1, <3>1, CloseQueue DEF CloseAgent
  <2>2. ASSUME NEW t \in Tabs, CloseTab(h, t) PROVE QueueStep(d)
    <3>1. t \in Conns /\ close(t, todo[h].fin) /\ t \in todo[h].ends BY <2>2 DEF CloseTab, Conns
    <3>2. closed'[t] BY <3>1, CloseEffect DEF TypeInv, TypeOK, SockTypeOK, ConnTypeOK
    <3>3. todo[h].fin # nil => Reason(t, todo[h].fin) BY <3>1, <3>2 DEF Reason
    <3> QED BY <3>1, <3>3, CloseQueue
  <2>3. CASE TellAgent(h)
    <3>1. todo[h].tell \in Conns
      BY <2>3 DEF TellAgent, TypeInv, TypeOK, HandlerTypeOK, Work, Conns
    <3>2. Reason(todo[h].tell, ToAgent("close", todo[h].sid)) BY <2>3 DEF TellAgent, Reason
    <3> QED BY <2>3, <3>1, <3>2, SendQueue DEF TellAgent
  <2> QED BY <1>4, <2>1, <2>2, <2>3 DEF DoWork
<1>5. ASSUME NEW c \in Conns, WriterStep(c) PROVE QueueStep(d)
  BY <1>5, WriterEffect DEF WriterStep, QueueStep, TypeInv, TypeOK
<1>6. CASE UNCHANGED vars BY <1>6 DEF vars, sockVars, QueueStep
<1> QED BY <1>1, <1>2, <1>3, <1>4, <1>5, <1>6 DEF Next, Quiet

\* A frame that waits after the step waited before, or there is a reason for it.
LEMMA QueueFrames ==
    ASSUME TypeInv, NEW c \in Conns, QueueStep(c), NEW i \in DOMAIN out'[c]
    PROVE  \/ \E j \in DOMAIN out[c] : out'[c][i] = out[c][j]
           \/ Reason(c, out'[c][i])
<1>1. out[c] \in Seq(Frames) BY DEF TypeInv, TypeOK, SockTypeOK, ConnTypeOK
<1>2. CASE out'[c] = out[c] BY <1>2
<1>3. out'[c] # <<>> OBVIOUS
<1>4. CASE out[c] # <<>> /\ out'[c] = Tail(out[c])
  <2>1. i + 1 \in DOMAIN out[c] /\ out'[c][i] = out[c][i + 1] BY <1>1, <1>4, TailFrames
  <2> QED BY <2>1
<1>5. ASSUME NEW f, out'[c] = Append(out[c], f), Reason(c, f)
      PROVE  (\E j \in DOMAIN out[c] : out'[c][i] = out[c][j]) \/ Reason(c, out'[c][i])
  BY <1>1, <1>5, AppendFrames
<1> QED BY <1>2, <1>3, <1>4, <1>5 DEF QueueStep

---------------------------------------------------------------------------
(* Whose frames.                                                            *)

\* Only a hello makes a new socket a known one.
Newcomer(b) == apc'[b] = "new" => apc[b] = "new" /\ amid'[b] = amid[b]

(* An agent handler that has not started has no machine yet. *)
LEMMA Newcomers ==
    ASSUME TypeInv, [Next]_vars
    PROVE  \A b \in AgentConns : Newcomer(b)
<1> SUFFICES ASSUME NEW b \in AgentConns PROVE Newcomer(b)
  OBVIOUS
<1> USE DEF Newcomer, TypeInv, TypeOK, HandlerTypeOK
<1>1. CASE AdminStep
  BY <1>1 DEF AdminStep, Mint, DeleteStore, DeleteLookup, DeleteDrop, TermLookup, TermInsert,
      Expire, Sweep, agentVars
<1>2. ASSUME NEW a \in AgentConns, AgentStep(a) PROVE Newcomer(b)
  <2>1. ASSUME NEW m \in Machines, AgentHello(a, m) PROVE Newcomer(b) BY <2>1 DEF AgentHello
  <2>2. ASSUME ~(\E m \in Machines : AgentHello(a, m)) PROVE Newcomer(b)
    <3>1. amid' = amid
      BY <1>2, <2>2 DEF AgentStep, AgentRefused, AgentRegister, AgentGreet, AgentOut,
          RouteOut, DropSlow, AgentEnd, AgentLost, agentVars
    <3>2. apc'[b] = apc[b] \/ apc'[b] # "new"
      BY <1>2, <2>2 DEF AgentStep, AgentRefused, AgentRegister, AgentGreet, AgentOut,
          RouteOut, DropSlow, AgentEnd, AgentLost, agentVars
    <3> QED BY <3>1, <3>2
  <2> QED BY <2>1, <2>2
<1>3. ASSUME NEW t \in Tabs, TabStep(t) PROVE Newcomer(b)
  BY <1>3 DEF TabStep, ClaimKey, RefuseKey, UpgradeFails, RegisterTab, OpenSent, OpenFails,
      EndOffline, Input, TabLost, agentVars
<1>4. ASSUME NEW h \in Handlers, DoWork(h) PROVE Newcomer(b)
  BY <1>4 DEF DoWork, CloseAgent, CloseTab, TellAgent, agentVars
<1>5. ASSUME NEW c \in Conns, WriterStep(c) PROVE Newcomer(b)
  BY <1>5 DEF WriterStep, agentVars
<1>6. CASE UNCHANGED vars BY <1>6 DEF vars, agentVars
<1> QED BY <1>1, <1>2, <1>3, <1>4, <1>5, <1>6 DEF Next, Quiet

(* What has no machine yet goes on without one, or gets it from its own handler. *)
LEMMA UnknownPreserved == ASSUME TypeInv, Unknown, [Next]_vars PROVE Unknown'
<1>1. ASSUME NEW a \in AgentConns, apc'[a] = "new" PROVE amid'[a] = nil
  BY <1>1, Newcomers DEF Newcomer, Unknown
<1>2. ASSUME NEW s \in Sids, kpc'[s] = "unused" PROVE kmid'[s] = nil
  <2> USE DEF Unknown, TypeInv, TypeOK, HandlerTypeOK
  <2>1. ASSUME NEW sid \in Sids, NEW m \in Machines, TermLookup(sid, m) PROVE kmid'[s] = nil
    BY <1>2, <2>1 DEF TermLookup
  <2>2. ASSUME NEW sid \in Sids, TermInsert(sid) PROVE kmid'[s] = nil
    BY <1>2, <2>2 DEF TermInsert
  <2>3. ASSUME NEW sid \in Sids, Expire(sid) PROVE kmid'[s] = nil
    BY <1>2, <2>3 DEF Expire, keyVars
  <2>4. CASE Sweep BY <1>2, <2>4 DEF Sweep, keyVars
  <2>5. ASSUME NEW t \in Tabs, NEW sid \in Sids, ClaimKey(t, sid) PROVE kmid'[s] = nil
    BY <1>2, <2>5 DEF ClaimKey, keyVars
  <2>6. CASE UNCHANGED <<pend, kpc, kmid, tsid, tmid>> BY <1>2, <2>6
  <2> QED BY <2>1, <2>2, <2>3, <2>4, <2>5, <2>6, KeySteps
<1> QED BY <1>1, <1>2 DEF Unknown

\* A machine that is known stays the same: of a socket, of a key, of a tab.
LEMMA MidsKeep ==
    ASSUME TypeInv, Unknown, [Next]_vars
    PROVE  /\ \A a \in AgentConns : amid[a] \in Machines => amid'[a] = amid[a]
           /\ \A sid \in Sids : kmid[sid] \in Machines => kmid'[sid] = kmid[sid]
           /\ \A t \in Tabs : tmid[t] \in Machines => TabKeeps(t)
<1>1. ASSUME NEW a \in AgentConns, amid[a] \in Machines PROVE amid'[a] = amid[a]
  <2>1. apc[a] # "new" BY <1>1, BrokerAssumption DEF Unknown
  <2> QED BY <2>1, AgentPaths DEF AgentPath
<1>2. ASSUME NEW s \in Sids, kmid[s] \in Machines PROVE kmid'[s] = kmid[s]
  <2>1. kpc[s] # "unused" BY <1>2, BrokerAssumption DEF Unknown
  <2> USE DEF TypeInv, TypeOK, HandlerTypeOK
  <2>2. ASSUME NEW sid \in Sids, NEW m \in Machines, TermLookup(sid, m) PROVE kmid'[s] = kmid[s]
    BY <2>1, <2>2 DEF TermLookup
  <2>3. ASSUME NEW sid \in Sids, TermInsert(sid) PROVE kmid'[s] = kmid[s] BY <2>3 DEF TermInsert
  <2>4. ASSUME NEW sid \in Sids, Expire(sid) PROVE kmid'[s] = kmid[s] BY <2>4 DEF Expire, keyVars
  <2>5. CASE Sweep BY <2>5 DEF Sweep, keyVars
  <2>6. ASSUME NEW t \in Tabs, NEW sid \in Sids, ClaimKey(t, sid) PROVE kmid'[s] = kmid[s]
    BY <2>6 DEF ClaimKey, keyVars
  <2> QED BY <2>2, <2>3, <2>4, <2>5, <2>6, KeySteps
<1>3. ASSUME NEW t \in Tabs, tmid[t] \in Machines PROVE TabKeeps(t)
  <2>1. tpc[t] # "new" BY <1>3, BrokerAssumption DEF TypeInv, RolesOK, TabRoles
  <2> QED BY <2>1, TabsKeep
<1> QED BY <1>1, <1>2, <1>3

\* Which machine the session of a tab belongs to is noted with its sid too.
LEMMA TabMids ==
    ASSUME TypeInv, KeyRoles, NEW t \in Tabs, tsid[t] \in Sids
    PROVE  tmid[t] \in Machines /\ tmid[t] = kmid[tsid[t]]
BY BrokerAssumption DEF TypeInv, RolesOK, TabRoles, KeyRoles

\* The steps by which a handler takes hold of a session or of an agent.
LEMMA HoldSteps ==
    ASSUME TypeInv, [Next]_vars
    PROVE  /\ \A b \in AgentConns :
                 apc'[b] = "routing" => \/ apc[b] = "routing" /\ acur'[b] = acur[b]
                                       \/ \E sid \in Sids : AgentOut(b, sid)
           /\ \A u \in Tabs : TabKeeps(u) \/ \E sid \in Sids : ClaimKey(u, sid)
<1>1. ASSUME NEW b \in AgentConns, apc'[b] = "routing", \A sid \in Sids : ~AgentOut(b, sid)
      PROVE  apc[b] = "routing" /\ acur'[b] = acur[b]
  <2> USE <1>1 DEF TypeInv, TypeOK, HandlerTypeOK
  <2>1. CASE AdminStep
    BY <2>1 DEF AdminStep, Mint, DeleteStore, DeleteLookup, DeleteDrop, TermLookup, TermInsert,
        Expire, Sweep, agentVars
  <2>2. ASSUME NEW a \in AgentConns, AgentStep(a) PROVE apc[b] = "routing" /\ acur'[b] = acur[b]
    <3>1. ASSUME NEW sid \in Sids, AgentOut(a, sid) PROVE apc[b] = "routing" /\ acur'[b] = acur[b]
      BY <3>1 DEF AgentOut
    <3>2. CASE RouteOut(a) BY <3>2 DEF RouteOut
    <3>3. CASE AgentRefused(a) \/ AgentRegister(a) \/ AgentGreet(a)
      BY <3>3 DEF AgentRefused, AgentRegister, AgentGreet
    <3>4. ASSUME NEW m \in Machines, AgentHello(a, m) PROVE apc[b] = "routing" /\ acur'[b] = acur[b]
      BY <3>4 DEF AgentHello
    <3>5. ASSUME NEW sid \in Sids, NEW kind \in {"exit", "err"}, AgentEnd(a, sid, kind)
          PROVE  apc[b] = "routing" /\ acur'[b] = acur[b]
      BY <3>5 DEF AgentEnd, agentVars
    <3>6. CASE DropSlow(a) \/ AgentLost(a) BY <3>6 DEF DropSlow, AgentLost
    <3> QED BY <2>2, <3>1, <3>2, <3>3, <3>4, <3>5, <3>6 DEF AgentStep
  <2>3. ASSUME NEW t \in Tabs, TabStep(t) PROVE apc[b] = "routing" /\ acur'[b] = acur[b]
    BY <2>3 DEF TabStep, ClaimKey, RefuseKey, UpgradeFails, RegisterTab, OpenSent, OpenFails,
        EndOffline, Input, TabLost, agentVars
  <2>4. ASSUME NEW h \in Handlers, DoWork(h) PROVE apc[b] = "routing" /\ acur'[b] = acur[b]
    BY <2>4 DEF DoWork, CloseAgent, CloseTab, TellAgent, agentVars
  <2>5. ASSUME NEW c \in Conns, WriterStep(c) PROVE apc[b] = "routing" /\ acur'[b] = acur[b]
    BY <2>5 DEF WriterStep, agentVars
  <2>6. CASE UNCHANGED vars BY <2>6 DEF vars, agentVars
  <2> QED BY <2>1, <2>2, <2>3, <2>4, <2>5, <2>6 DEF Next, Quiet
<1>2. ASSUME NEW u \in Tabs, \A sid \in Sids : ~ClaimKey(u, sid) PROVE TabKeeps(u)
  <2> USE <1>2 DEF TabKeeps, tabVars, TypeInv, TypeOK, HandlerTypeOK
  <2>1. CASE AdminStep
    BY <2>1 DEF AdminStep, Mint, DeleteStore, DeleteLookup, DeleteDrop, TermLookup, TermInsert,
        Expire, Sweep
  <2>2. ASSUME NEW a \in AgentConns, AgentStep(a) PROVE TabKeeps(u)
    BY <2>2 DEF AgentStep, AgentRefused, AgentHello, AgentRegister, AgentGreet, AgentOut,
        RouteOut, DropSlow, AgentEnd, AgentLost
  <2>3. ASSUME NEW t \in Tabs, TabStep(t) PROVE TabKeeps(u)
    <3>1. ASSUME NEW sid \in Sids, ClaimKey(t, sid) PROVE TabKeeps(u)
      BY <3>1 DEF ClaimKey
    <3> QED BY <2>3, <3>1 DEF TabStep, RefuseKey, UpgradeFails, RegisterTab, OpenSent, OpenFails,
        EndOffline, Input, TabLost
  <2>4. ASSUME NEW h \in Handlers, DoWork(h) PROVE TabKeeps(u)
    BY <2>4 DEF DoWork, CloseAgent, CloseTab, TellAgent
  <2>5. ASSUME NEW c \in Conns, WriterStep(c) PROVE TabKeeps(u)
    BY <2>5 DEF WriterStep
  <2>6. CASE UNCHANGED vars BY <2>6 DEF vars
  <2> QED BY <2>1, <2>2, <2>3, <2>4, <2>5, <2>6 DEF Next, Quiet
<1> QED BY <1>1, <1>2

(* What a routing agent or a claimed tab holds stays of its own machine. *)
LEMMA HeldPreserved ==
    ASSUME TypeInv, ConnRoles, Unknown, HeldMids, [Next]_vars
    PROVE  HeldMids'
<1> USE DEF TypeInv, TypeOK, HandlerTypeOK, RolesOK, AgentRoles
<1>1. ASSUME NEW a \in AgentConns, apc'[a] = "routing" PROVE tmid'[acur'[a]] = amid'[a]
  <2>1. CASE apc[a] = "routing" /\ acur'[a] = acur[a]
    <3>1. tmid[acur[a]] = amid[a] /\ acur[a] \in Tabs /\ tmid[acur[a]] \in Machines
      BY <2>1 DEF HeldMids
    <3> QED BY <2>1, <3>1, MidsKeep DEF TabKeeps
  <2>2. ASSUME NEW sid \in Sids, AgentOut(a, sid) PROVE tmid'[acur'[a]] = amid'[a]
    BY <2>2 DEF AgentOut, Owns, tabVars
  <2> QED BY <1>1, <2>1, <2>2, HoldSteps
<1>2. ASSUME NEW t \in Tabs, tac'[t] # nil PROVE amid'[tac'[t]] = tmid'[t]
  <2>1. CASE TabKeeps(t)
    <3>1. amid[tac[t]] = tmid[t] /\ tac[t] \in AgentConns /\ amid[tac[t]] \in Machines
      BY <1>2, <2>1 DEF TabKeeps, HeldMids, ConnRoles, CreatedByHandlers
    <3> QED BY <2>1, <3>1, MidsKeep DEF TabKeeps
  <2>2. ASSUME NEW sid \in Sids, ClaimKey(t, sid) PROVE amid'[tac'[t]] = tmid'[t]
    <3>1. tmid'[t] = pend[sid].mid /\ tac'[t] = agents[pend[sid].mid] /\ amid' = amid
      BY <2>2 DEF ClaimKey, agentVars
    <3>2. pend[sid].mid \in Machines BY <2>2 DEF ClaimKey, MapTypeOK
    <3> QED BY <1>2, <3>1, <3>2 DEF ConnRoles, CreatedInMaps
  <2> QED BY <2>1, <2>2, HoldSteps
<1> QED BY <1>1, <1>2 DEF HeldMids

\* Handler h has unmapped the session of t and is to have its PTY killed.
Kills(h, t) ==
    /\ tsid[t] \in Sids /\ tmid[t] \in Machines
    /\ todo'[h].tell = agents[tmid[t]] /\ todo'[h].sid = tsid[t]
    /\ sess' = Without({t})
    /\ \/ tpc[t] = "reading"
       \/ h \in AgentConns /\ apc[h] = "slow" /\ t = acur[h]

\* What the handlers that are given work are to send.
LEMMA GivenFrames ==
    ASSUME TypeInv, NEW h \in Handlers, Given(h)
    PROVE  /\ todo'[h].ends # {} /\ todo'[h].fin # nil
                 => \/ todo'[h].fin.by = nil /\ todo'[h].fin.t = "err"
                    \/ /\ h \in AgentConns /\ todo'[h].fin.by = h
                       /\ todo'[h].fin.t \in {"exit", "err"}
                       /\ \E sid \in Sids : /\ Owns(h, sid) /\ todo'[h].ends = {sess[sid]}
           /\ todo'[h].tell # nil => \E t \in Tabs : Kills(h, t)
<1>1. \A why \in Banners : Banner(why).by = nil /\ Banner(why).t = "err" BY DEF Banner
<1>0. ASSUME NEW shut, NEW ends, NEW why \in Banners, JobEffect(h, shut, ends, Banner(why), nil, nil)
      PROVE  /\ todo'[h].tell = nil
             /\ todo'[h].ends # {} => todo'[h].fin.by = nil /\ todo'[h].fin.t = "err"
  BY <1>0, <1>1 DEF JobEffect
<1>2. CASE h \in Machines /\ DeleteDrop(h)
  <2>1. "machine revoked" \in Banners BY DEF Banners
  <2> QED BY <1>0, <1>2, <2>1, DeleteDropJob
<1>3. CASE h \in AgentConns /\ AgentRegister(h)
  <2>1. "agent reconnected" \in Banners BY DEF Banners
  <2> QED BY <1>0, <1>3, <2>1, RegisterJob
<1>4. CASE h \in AgentConns /\ AgentLost(h)
  <2>1. "agent went offline" \in Banners BY DEF Banners
  <2> QED BY <1>0, <1>4, <2>1, AgentLostJob
<1>5. CASE h \in AgentConns /\ DropSlow(h)
  BY <1>1, <1>5, DropSlowJob DEF JobEffect, Banners, DropSlow, EndSession, Kills
<1>6. ASSUME NEW sid \in Sids, NEW kind \in {"exit", "err"}, h \in AgentConns, AgentEnd(h, sid, kind)
      PROVE  /\ todo'[h].tell = nil /\ Owns(h, sid) /\ todo'[h].ends = {sess[sid]}
             /\ todo'[h].fin = FromAgent(kind, h)
  BY <1>6, AgentEndJob DEF JobEffect, AgentEnd
<1>7. \A kind \in {"exit", "err"} : FromAgent(kind, h).by = h /\ FromAgent(kind, h).t = kind BY DEF FromAgent
<1>8. CASE h \in Tabs /\ EndOffline(h)
  BY <1>1, <1>8, EndOfflineJob DEF JobEffect, Banners
<1>9. CASE h \in Tabs /\ TabLost(h)
  BY <1>9, TabLostJob DEF JobEffect, TabLost, EndSession, Kills
<1> QED BY <1>2, <1>3, <1>4, <1>5, <1>6, <1>7, <1>8, <1>9 DEF Given

(* A session in a handler's job has a tab, and the tab its machine. *)
LEMMA EndedTabs ==
    ASSUME TypeInv, ConnRoles, NEW h \in Handlers, NEW t \in todo[h].ends
    PROVE  t \in Tabs /\ tmid[t] \in Machines
<1>1. t \in Tabs BY DEF TypeInv, TypeOK, HandlerTypeOK, Work
<1>2. ws[t] # "none" BY DEF ConnRoles, CreatedInTodo
<1> QED BY <1>1, <1>2 DEF ConnRoles, FreshConns, TypeInv, RolesOK, TabRoles

(* The frames of a job stay frames of the machine they are about. *)
LEMMA DuePreserved ==
    ASSUME TypeInv, ConnRoles, KeyRoles, Unknown, DueMids, [Next]_vars
    PROVE  DueMids'
<1> SUFFICES ASSUME NEW h \in Handlers
             PROVE  /\ todo'[h].fin # nil /\ todo'[h].fin.by # nil
                          => \A t \in todo'[h].ends : amid'[todo'[h].fin.by] = tmid'[t]
                    /\ todo'[h].tell # nil => kmid'[todo'[h].sid] = amid'[todo'[h].tell]
  BY DEF DueMids
<1> USE DEF TypeInv, TypeOK, MapTypeOK, HandlerTypeOK
<1>0. \A m \in Machines : agents[m] # nil => agents[m] \in AgentConns /\ amid[agents[m]] = m
  BY DEF ConnRoles, CreatedInMaps
<1>1. CASE Shrinks(h)
  <2>1. ASSUME todo'[h].fin # nil, todo'[h].fin.by # nil, NEW t \in todo'[h].ends
        PROVE  amid'[todo'[h].fin.by] = tmid'[t]
    <3>1. t \in todo[h].ends /\ todo'[h].fin = todo[h].fin BY <1>1, <2>1 DEF Shrinks
    <3>2. todo[h].fin.by \in AgentConns
      BY <2>1, <3>1 DEF Work, BrowserFrames
    <3>3. amid[todo[h].fin.by] = tmid[t] BY <2>1, <3>1 DEF DueMids
    <3> QED BY <3>1, <3>2, <3>3, EndedTabs, MidsKeep DEF TabKeeps
  <2>2. ASSUME todo'[h].tell # nil PROVE kmid'[todo'[h].sid] = amid'[todo'[h].tell]
    <3>1. todo'[h].tell = todo[h].tell /\ todo'[h].sid = todo[h].sid /\ todo[h].tell # nil
      BY <1>1, <2>2 DEF Shrinks
    <3>2. todo[h].tell \in AgentConns /\ todo[h].sid \in Sids
      BY <3>1 DEF Work, RolesOK, TodoRoles
    <3>3. amid[todo[h].tell] \in Machines
      BY <3>1, <3>2 DEF ConnRoles, CreatedInTodo, CreatedByHandlers
    <3>4. kmid[todo[h].sid] = amid[todo[h].tell] BY <3>1 DEF DueMids
    <3> QED BY <3>1, <3>2, <3>3, <3>4, MidsKeep
  <2> QED BY <2>1, <2>2
<1>2. CASE Given(h)
  <2>1. ASSUME todo'[h].fin # nil, todo'[h].fin.by # nil, NEW t \in todo'[h].ends
        PROVE  amid'[todo'[h].fin.by] = tmid'[t]
    <3>1. PICK sid \in Sids : Owns(h, sid) /\ todo'[h].ends = {sess[sid]}
      BY <1>2, <2>1, GivenFrames
    <3>2. h \in AgentConns /\ todo'[h].fin.by = h BY <1>2, <2>1, GivenFrames
    <3>3. t = sess[sid] /\ t \in Tabs /\ tmid[t] = amid[h] BY <2>1, <3>1 DEF Owns
    <3>4. ws[t] # "none" BY <3>1, <3>3 DEF ConnRoles, CreatedInMaps, Owns
    <3>5. tmid[t] \in Machines BY <3>3, <3>4 DEF ConnRoles, FreshConns, RolesOK, TabRoles
    <3> QED BY <3>2, <3>3, <3>5, MidsKeep DEF TabKeeps
  <2>2. ASSUME todo'[h].tell # nil PROVE kmid'[todo'[h].sid] = amid'[todo'[h].tell]
    <3>1. PICK t \in Tabs : Kills(h, t) BY <1>2, <2>2, GivenFrames
    <3>2. kmid[tsid[t]] = tmid[t] BY <3>1, TabMids DEF Kills
    <3>3. agents[tmid[t]] \in AgentConns /\ amid[agents[tmid[t]]] = tmid[t]
      BY <1>0, <2>2, <3>1 DEF Kills
    <3> QED BY <3>1, <3>2, <3>3, MidsKeep DEF Kills
  <2> QED BY <2>1, <2>2
<1> QED BY <1>1, <1>2, TodoShape

(* The final frame of a job stays an exit or an err. *)
LEMMA FinPreserved == ASSUME TypeInv, FinIsAnEnd, [Next]_vars PROVE FinIsAnEnd'
<1> SUFFICES ASSUME NEW h \in Handlers, todo'[h].ends # {}, todo'[h].fin # nil
             PROVE  todo'[h].fin.t # "out"
  BY DEF FinIsAnEnd
<1>1. CASE Shrinks(h) BY <1>1 DEF Shrinks, FinIsAnEnd
<1>2. CASE Given(h) BY <1>2, GivenFrames
<1> QED BY <1>1, <1>2, TodoShape

(* A frame that is queued keeps its reason, and one that comes has one. *)
LEMMA IsolationPreserved ==
    ASSUME TypeInv, ConnRoles, KeyRoles, Unknown, HeldMids, DueMids, Isolation, TypeInv', ConnRoles', [Next]_vars
    PROVE  Isolation'
<1> USE DEF TypeInv, TypeOK, HandlerTypeOK
<1>1. ASSUME NEW t \in Tabs, NEW i \in DOMAIN out'[t], out'[t][i].by # nil
      PROVE  amid'[out'[t][i].by] = tmid'[t]
  <2> DEFINE f == out'[t][i]
  <2>1. t \in Conns /\ t \notin AgentConns BY BrokerAssumption DEF Conns
  <2>2. ws[t] # "none" BY <1>1, <2>1, FreshUntouched DEF Untouched, ConnRoles, FreshConns
  <2>3. tmid[t] \in Machines /\ TabKeeps(t)
    BY <2>2, CreatedKeeps DEF ConnRoles, FreshConns, RolesOK, TabRoles
  <2>4. ASSUME NEW b \in AgentConns, f.by = b, amid[b] = tmid[t] PROVE amid'[f.by] = tmid'[t]
    BY <2>3, <2>4, MidsKeep DEF TabKeeps
  <2>5. ASSUME NEW j \in DOMAIN out[t], f = out[t][j] PROVE amid'[f.by] = tmid'[t]
    <3>1. out[t][j] \in BrowserFrames BY <2>5 DEF SockTypeOK
    <3>2. f.by \in AgentConns BY <1>1, <2>5, <3>1 DEF BrowserFrames
    <3> QED BY <1>1, <2>4, <2>5, <3>2 DEF Isolation
  <2>6. ASSUME NEW a \in AgentConns, apc[a] = "routing", t = acur[a], f = FromAgent("out", a)
        PROVE  amid'[f.by] = tmid'[t]
    BY <2>4, <2>6 DEF FromAgent, HeldMids
  <2>7. ASSUME NEW h \in Handlers, t \in todo[h].ends, todo[h].fin # nil, f = todo[h].fin
        PROVE  amid'[f.by] = tmid'[t]
    <3>1. f.by \in AgentConns BY <1>1, <2>7 DEF Work, BrowserFrames
    <3> QED BY <1>1, <2>4, <2>7, <3>1 DEF DueMids
  <2>8. ASSUME NEW u \in Tabs, t = tac[u] PROVE FALSE BY <2>1, <2>8, BrokerAssumption
  <2>9. ASSUME NEW h \in Handlers, t = todo[h].tell PROVE FALSE
    BY <2>1, <2>9, BrokerAssumption DEF Work
  <2>10. (\E j \in DOMAIN out[t] : f = out[t][j]) \/ Reason(t, f)
    BY <1>1, <2>1, QueueSteps, QueueFrames
  <2> QED BY <2>1, <2>5, <2>6, <2>7, <2>8, <2>9, <2>10 DEF Reason
<1>2. ASSUME NEW a \in AgentConns, NEW i \in DOMAIN out'[a], out'[a][i].sid # nil
      PROVE  kmid'[out'[a][i].sid] = amid'[a]
  <2> DEFINE f == out'[a][i]
  <2>1. a \in Conns /\ a \notin Tabs BY BrokerAssumption DEF Conns
  <2>2. ws[a] # "none" BY <1>2, <2>1, FreshUntouched DEF Untouched, ConnRoles, FreshConns
  <2>3. amid[a] \in Machines BY <2>2 DEF ConnRoles, CreatedByHandlers
  <2>4. ASSUME NEW sid \in Sids, f.sid = sid, kmid[sid] = amid[a] PROVE kmid'[f.sid] = amid'[a]
    BY <2>3, <2>4, MidsKeep
  <2>5. ASSUME NEW j \in DOMAIN out[a], f = out[a][j] PROVE kmid'[f.sid] = amid'[a]
    <3>1. out[a][j] \in AgentFrames BY <2>5 DEF SockTypeOK
    <3>2. f.sid \in Sids BY <1>2, <2>5, <3>1 DEF AgentFrames
    <3> QED BY <1>2, <2>4, <2>5, <3>2 DEF Isolation
  <2>6. ASSUME NEW t \in Tabs, tsid[t] \in Sids, a = tac[t],
               f \in {ToAgent("open", tsid[t]), ToAgent("in", tsid[t])}
        PROVE  kmid'[f.sid] = amid'[a]
    <3>1. f.sid = tsid[t] BY <2>6 DEF ToAgent
    <3>2. kmid[tsid[t]] = amid[a] BY <2>6, TabMids, BrokerAssumption DEF HeldMids
    <3> QED BY <2>4, <2>6, <3>1, <3>2
  <2>7. ASSUME NEW h \in Handlers, todo[h].tell # nil, a = todo[h].tell, f = ToAgent("close", todo[h].sid)
        PROVE  kmid'[f.sid] = amid'[a]
    <3>1. f.sid = todo[h].sid /\ todo[h].sid \in Sids BY <2>7 DEF ToAgent, RolesOK, TodoRoles
    <3> QED BY <2>4, <2>7, <3>1 DEF DueMids
  <2>8. ASSUME NEW h \in Handlers, a \in todo[h].ends PROVE FALSE BY <2>1, <2>8 DEF Work
  <2>9. f # ToAgent("hello_ok", nil) BY <1>2 DEF ToAgent
  <2>10. (\E j \in DOMAIN out[a] : f = out[a][j]) \/ Reason(a, f)
    BY <1>2, <2>1, QueueSteps, QueueFrames
  <2> QED BY <2>1, <2>5, <2>6, <2>7, <2>8, <2>9, <2>10 DEF Reason
<1> QED BY <1>1, <1>2 DEF Isolation

---------------------------------------------------------------------------
(* In which order.                                                          *)

(* Nothing is queued behind an end, and ends come once. *)
LEMMA LastPreserved ==
    ASSUME TypeInv, ConnRoles, FinIsAnEnd, OneEndAndLast, [Next]_vars
    PROVE  OneEndAndLast'
<1> SUFFICES ASSUME NEW t \in Tabs, NEW i \in DOMAIN out'[t], out'[t][i].t # "out"
             PROVE  i = Len(out'[t]) /\ closed'[t]
  BY DEF OneEndAndLast
<1>1. t \in Conns /\ t \notin AgentConns /\ out[t] \in Seq(Frames)
  BY BrokerAssumption DEF Conns, TypeInv, TypeOK, SockTypeOK, ConnTypeOK
<1>2. closed[t] => closed'[t] BY <1>1, ClosedSteps DEF ClosedStep
<1>3. CASE out'[t] = out[t] BY <1>2, <1>3 DEF OneEndAndLast
<1>4. out'[t] # <<>> OBVIOUS
<1>5. CASE out[t] # <<>> /\ out'[t] = Tail(out[t])
  <2>1. i + 1 \in DOMAIN out[t] /\ out'[t][i] = out[t][i + 1] BY <1>1, <1>5, TailFrames
  <2>2. i + 1 = Len(out[t]) /\ closed[t] BY <2>1 DEF OneEndAndLast
  <2>3. i \in Nat /\ Len(out'[t]) = Len(out[t]) - 1 BY <1>1, <1>5
  <2> QED BY <1>1, <1>2, <2>2, <2>3
<1>6. ASSUME Accepts(t), NEW f, out'[t] = Append(out[t], f), Reason(t, f)
      PROVE  i = Len(out'[t]) /\ closed'[t]
  <2>1. i \notin DOMAIN out[t] \/ out'[t][i] # out[t][i] BY <1>6 DEF Accepts, OneEndAndLast
  <2>2. i = Len(out'[t]) /\ out'[t][i] = f
    <3>1. \A k \in DOMAIN Append(out[t], f) :
            \/ k \in DOMAIN out[t] /\ Append(out[t], f)[k] = out[t][k]
            \/ k = Len(Append(out[t], f)) /\ Append(out[t], f)[k] = f
      BY <1>1
    <3> QED BY <1>6, <2>1, <3>1
  <2>3. f.t # "out" BY <2>2
  <2>4. ~\E a \in AgentConns : f = FromAgent("out", a) BY <2>3 DEF FromAgent
  <2>5. \A u \in Tabs : t # tac[u] BY <1>1, BrokerAssumption DEF TypeInv, TypeOK, HandlerTypeOK
  <2>6. \A h \in Handlers : t # todo[h].tell
    BY <1>1, BrokerAssumption DEF TypeInv, TypeOK, HandlerTypeOK, Work
  <2> QED BY <1>1, <1>6, <2>2, <2>4, <2>5, <2>6 DEF Reason
<1> QED BY <1>1, <1>3, <1>4, <1>5, <1>6, QueueSteps DEF QueueStep

---------------------------------------------------------------------------
(* Kills.                                                                   *)

\* The session of sid is over after the step.
OverThen(sid) == sess'[sid] = nil /\ \E t \in Tabs : tsid'[t] = sid /\ ws'[t] # "none"

(* A key that is spent and out of the map stays so. *)
LEMMA OverStays ==
    ASSUME TypeInv, ConnRoles, OneTabPerKey, TypeInv', [Next]_vars, NEW sid \in Sids, Over(sid)
    PROVE  OverThen(sid)
<1>1. PICK t \in Tabs : tsid[t] = sid /\ ws[t] # "none" BY DEF Over
<1>2. tsid'[t] = sid /\ ws'[t] # "none"
  BY <1>1, CreatedKeeps, WsSteps DEF TabKeeps, WsStep, Conns
<1>3. ASSUME RegisterTab(sess'[sid]), sess'[sid] # nil PROVE FALSE
  <2>1. sess'[sid] \in Tabs /\ tsid'[sess'[sid]] = sid
    BY <1>3 DEF TypeInv, TypeOK, MapTypeOK, RolesOK, SessRoles
  <2>2. tsid[sess'[sid]] = sid /\ ws[sess'[sid]] = "none" BY <1>3, <2>1 DEF RegisterTab, newConn
  <2>3. t = sess'[sid] BY <1>1, <2>1, <2>2, BrokerAssumption DEF OneTabPerKey
  <2> QED BY <1>1, <2>2, <2>3
<1> QED BY <1>2, <1>3, SessShrinks DEF Over, OverThen

\* A handler that has just unmapped the session of t may have its PTY killed.
LEMMA UnmappedIsOver ==
    ASSUME TypeInv, ConnRoles, OneTabPerKey, TypeInv', [Next]_vars,
           NEW t \in Tabs, tsid[t] \in Sids, ws[t] # "none", sess' = Without({t})
    PROVE  OverThen(tsid[t])
<1>1. sess[tsid[t]] \in {t, nil}
  BY BrokerAssumption DEF TypeInv, TypeOK, MapTypeOK, RolesOK, SessRoles, OneTabPerKey
<1>2. sess'[tsid[t]] = nil BY <1>1 DEF Without
<1>3. tsid'[t] = tsid[t] /\ ws'[t] # "none"
  BY CreatedKeeps, WsSteps DEF TabKeeps, WsStep, Conns
<1> QED BY <1>2, <1>3 DEF OverThen

(* A close that is to be sent to an agent is for a session that is over. *)
LEMMA KillPreserved ==
    ASSUME TypeInv, ConnRoles, OneTabPerKey, KillIsLate, TypeInv', [Next]_vars
    PROVE  KillIsLate'
<1> USE DEF TypeInv, TypeOK, HandlerTypeOK
<1>1. ASSUME NEW a \in AgentConns, NEW i \in DOMAIN out'[a], out'[a][i].t = "close"
      PROVE  OverThen(out'[a][i].sid)
  <2> DEFINE f == out'[a][i]
  <2>1. a \in Conns /\ a \notin Tabs BY BrokerAssumption DEF Conns
  <2>2. ASSUME NEW j \in DOMAIN out[a], f = out[a][j] PROVE OverThen(f.sid)
    <3>1. out[a][j] \in AgentFrames BY <2>2 DEF SockTypeOK
    <3>2. out[a][j].sid \in Sids BY <1>1, <2>2, <3>1 DEF AgentFrames
    <3> QED BY <1>1, <2>2, <3>2, OverStays DEF KillIsLate
  <2>3. ASSUME NEW h \in Handlers, todo[h].tell # nil, f = ToAgent("close", todo[h].sid)
        PROVE  OverThen(f.sid)
    <3>1. f.sid = todo[h].sid /\ todo[h].sid \in Sids BY <2>3 DEF ToAgent, RolesOK, TodoRoles
    <3> QED BY <2>3, <3>1, OverStays DEF KillIsLate
  <2>4. f # ToAgent("hello_ok", nil) BY <1>1 DEF ToAgent
  <2>5. \A t \in Tabs : f \notin {ToAgent("open", tsid[t]), ToAgent("in", tsid[t])} BY <1>1 DEF ToAgent
  <2>6. \A h \in Handlers : a \notin todo[h].ends BY <2>1 DEF Work
  <2>7. (\E j \in DOMAIN out[a] : f = out[a][j]) \/ Reason(a, f)
    BY <1>1, <2>1, QueueSteps, QueueFrames
  <2> QED BY <2>1, <2>2, <2>3, <2>4, <2>5, <2>6, <2>7 DEF Reason
<1>2. ASSUME NEW h \in Handlers, todo'[h].tell # nil PROVE OverThen(todo'[h].sid)
  <2>1. CASE Shrinks(h)
    <3>1. todo'[h].sid = todo[h].sid /\ todo[h].tell # nil BY <1>2, <2>1 DEF Shrinks
    <3>2. todo[h].sid \in Sids BY <3>1 DEF RolesOK, TodoRoles
    <3> QED BY <3>1, <3>2, OverStays DEF KillIsLate
  <2>2. CASE Given(h)
    <3>1. PICK t \in Tabs : Kills(h, t) BY <1>2, <2>2, GivenFrames
    <3>2. ws[t] # "none" BY <3>1 DEF Kills, ConnRoles, CreatedByHandlers
    <3> QED BY <3>1, <3>2, UnmappedIsOver DEF Kills
  <2> QED BY <2>1, <2>2, TodoShape
<1> QED BY <1>1, <1>2 DEF KillIsLate, Over, OverThen

---------------------------------------------------------------------------
(* The theorems.                                                            *)

(* The relay starts with nothing queued. *)
LEMMA FrameInit == ASSUME Init PROVE FrameInv
<1>1. Unknown BY DEF Init, Unknown
<1>2. HeldMids BY DEF Init, HeldMids
<1>3. DueMids /\ FinIsAnEnd BY DEF Init, DueMids, FinIsAnEnd, NoWork, Job
<1>4. KillIsLate BY DEF Init, ConnInit, KillIsLate, NoWork, Job, Conns
<1>5. Isolation /\ OneEndAndLast BY DEF Init, ConnInit, Isolation, OneEndAndLast, Conns
<1> QED BY <1>1, <1>2, <1>3, <1>4, <1>5 DEF FrameInv

(* Every step keeps the invariant about frames. *)
LEMMA FramePreserved == ASSUME BrokerInv, BrokerInv', FrameInv, [Next]_vars PROVE FrameInv'
BY UnknownPreserved, HeldPreserved, DuePreserved, FinPreserved, KillPreserved, IsolationPreserved,
   LastPreserved
DEF BrokerInv, FrameInv

(* The invariant about frames holds throughout. *)
LEMMA FrameHolds == Spec => []FrameInv
BY InvHolds, FrameInit, FramePreserved, PTL DEF Spec

(* A browser only gets frames from agents of its own machine, and an agent  *)
(* is only told of sessions minted for its machine, although handlers send  *)
(* on conns they looked up under an earlier lock (broker.go:365, 394).      *)
THEOREM IsolationTheorem == Spec => []Isolation
<1>1. FrameInv => Isolation BY DEF FrameInv
<1> QED BY <1>1, FrameHolds, PTL

(* A browser's queue holds at most one end, and it is the last frame: send  *)
(* refuses once close has run, close adds a frame only the first time       *)
(* (broker.go:262-292).                                                     *)
THEOREM OneEndAndLastTheorem == Spec => []OneEndAndLast
<1>1. FrameInv => OneEndAndLast BY DEF FrameInv
<1> QED BY <1>1, FrameHolds, PTL

(* An agent is told to kill a PTY only for a session that is over for good: *)
(* its entry is gone and no tab can register the sid again                  *)
(* (endSession, broker.go:424-434).                                         *)
THEOREM CloseMeansEndedTheorem == Spec => []CloseMeansEnded
<1>1. FrameInv => CloseMeansEnded BY DEF FrameInv, KillIsLate, CloseMeansEnded, Over
<1> QED BY <1>1, FrameHolds, PTL

(* No step takes a key out of b.pend but the claim of the one tab that from *)
(* then on holds it, or a sweep after keyTTL (broker.go:444-450).           *)
THEOREM KeyLostForAReasonTheorem == Spec => KeyLostForAReason
<1> DEFINE Reasoned == \A sid \in Sids :
                         pend[sid] # nil /\ pend'[sid] = nil
                           => pend[sid].expired \/ \E t \in Tabs : tsid[t] = nil /\ tsid'[t] = sid
<1>1. ASSUME TypeInv, [Next]_vars PROVE Reasoned
  <2> SUFFICES ASSUME NEW s \in Sids, pend[s] # nil, pend'[s] = nil
               PROVE  pend[s].expired \/ \E t \in Tabs : tsid[t] = nil /\ tsid'[t] = s
    OBVIOUS
  <2> USE <1>1 DEF TypeInv, TypeOK, MapTypeOK, HandlerTypeOK
  <2>1. ASSUME NEW sid \in Sids, NEW m \in Machines, TermLookup(sid, m) PROVE FALSE
    BY <2>1 DEF TermLookup
  <2>2. ASSUME NEW sid \in Sids, TermInsert(sid) PROVE FALSE
    <3>1. [mid |-> kmid[sid], expired |-> FALSE] \in [mid : Machines, expired : BOOLEAN]
      BY <2>2 DEF TermInsert, RolesOK, AdminRoles
    <3>2. pend'[s] \in {pend[s], [mid |-> kmid[sid], expired |-> FALSE]} BY <2>2 DEF TermInsert
    <3> QED BY <3>1, <3>2, KeysAssumption
  <2>3. ASSUME NEW sid \in Sids, Expire(sid) PROVE FALSE
    <3>1. [pend[sid] EXCEPT !.expired = TRUE] \in [mid : Machines, expired : BOOLEAN]
      <4> HIDE <1>1 DEF HandlerTypeOK
      <4> QED BY <1>1, <2>3 DEF Expire
    <3>2. pend'[s] \in {pend[s], [pend[sid] EXCEPT !.expired = TRUE]} BY <2>3 DEF Expire
    <3> QED BY <3>1, <3>2, KeysAssumption
  <2>4. CASE Sweep BY <2>4 DEF Sweep
  <2>5. ASSUME NEW t \in Tabs, NEW sid \in Sids, ClaimKey(t, sid)
        PROVE  \E u \in Tabs : tsid[u] = nil /\ tsid'[u] = s
    BY <2>5 DEF ClaimKey, RolesOK, TabRoles
  <2> QED BY <1>1, <2>1, <2>2, <2>3, <2>4, <2>5, KeySteps
<1>2. BrokerInv /\ [Next]_vars => [Reasoned]_vars BY <1>1 DEF BrokerInv
<1> QED BY <1>2, InvHolds, PTL DEF Spec, KeyLostForAReason

---------------------------------------------------------------------------
(* The life of a session.                                                   *)

\* What the life of a session is read off, and how it is related.
LifeRoles ==
    /\ TypeInv
    /\ ConnRoles
    /\ KeyRoles
    /\ OneTabPerKey

\* No step of a session's key, claim or registration: sessions may only end.
Onward ==
    /\ UNCHANGED <<pend, tsid>>
    /\ \A sid \in Sids : kpc'[sid] = "minted" <=> kpc[sid] = "minted"
    /\ \A t \in Tabs : tpc'[t] = "claimed" <=> tpc[t] = "claimed"
    /\ \A sid \in Sids : sess'[sid] \in {sess[sid], nil}

(* A step mints, voids, sweeps, claims, attaches or burns a key, or only ends sessions. *)
LEMMA LifeSteps ==
    ASSUME TypeInv, [Next]_vars
    PROVE  \/ \E sid \in Sids : TermInsert(sid) \/ Expire(sid)
           \/ Sweep
           \/ \E t \in Tabs : RegisterTab(t) \/ UpgradeFails(t) \/ \E sid \in Sids : ClaimKey(t, sid)
           \/ Onward
<1> SUFFICES ASSUME \A t \in Tabs : ~RegisterTab(t),
                    \A sid \in Sids : ~TermInsert(sid) /\ ~Expire(sid), ~Sweep,
                    \A t \in Tabs : ~UpgradeFails(t) /\ \A sid \in Sids : ~ClaimKey(t, sid)
             PROVE  Onward
  OBVIOUS
<1> DEFINE Keys == /\ UNCHANGED <<pend, tsid>>
                   /\ \A sid \in Sids : kpc'[sid] = "minted" <=> kpc[sid] = "minted"
                   /\ \A u \in Tabs : tpc'[u] = "claimed" <=> tpc[u] = "claimed"
<1>1. \A sid \in Sids : sess'[sid] \in {sess[sid], nil}
  <2>1. \A sid \in Sids : sess'[sid] # nil => sess'[sid] \in Tabs
    BY TypesPreserved DEF TypeInv, TypeOK, MapTypeOK
  <2> QED BY <2>1, SessShrinks
<1> USE DEF TypeInv, TypeOK, HandlerTypeOK, tabVars, keyVars
<1>2. ASSUME AdminStep PROVE Keys
  <2>1. ASSUME NEW sid \in Sids, NEW m \in Machines, TermLookup(sid, m) PROVE Keys
    BY <2>1 DEF TermLookup
  <2> QED BY <1>2, <2>1 DEF AdminStep, Mint, DeleteStore, DeleteLookup, DeleteDrop
<1>3. ASSUME NEW a \in AgentConns, AgentStep(a) PROVE Keys
  BY <1>3 DEF AgentStep, AgentRefused, AgentHello, AgentRegister, AgentGreet, AgentOut,
      RouteOut, DropSlow, AgentEnd, AgentLost
<1>4. ASSUME NEW t \in Tabs, TabStep(t) PROVE Keys
  <2>1. ASSUME NEW sid \in Sids, RefuseKey(t, sid) PROVE Keys BY <2>1 DEF RefuseKey
  <2>2. CASE OpenSent(t) BY <2>2 DEF OpenSent
  <2>3. CASE OpenFails(t) BY <2>3 DEF OpenFails
  <2>4. CASE EndOffline(t) BY <2>4 DEF EndOffline
  <2>5. CASE Input(t) BY <2>5 DEF Input
  <2>6. CASE TabLost(t) BY <2>6 DEF TabLost
  <2> QED BY <1>4, <2>1, <2>2, <2>3, <2>4, <2>5, <2>6 DEF TabStep
<1>5. ASSUME NEW h \in Handlers, DoWork(h) PROVE Keys
  BY <1>5 DEF DoWork, CloseAgent, CloseTab, TellAgent
<1>6. ASSUME NEW c \in Conns, WriterStep(c) PROVE Keys
  BY <1>6 DEF WriterStep
<1>7. ASSUME UNCHANGED vars PROVE Keys BY <1>7 DEF vars
<1> QED BY <1>1, <1>2, <1>3, <1>4, <1>5, <1>6, <1>7 DEF Next, Quiet, Onward

\* A session in b.sess has one holder, which has left the handshake behind it.
LEMMA Attaching ==
    ASSUME LifeRoles, NEW sid \in Sids, sess[sid] # nil
    PROVE  /\ kpc[sid] = "minted" /\ pend[sid] = nil /\ sess[sid] \in Tabs
           /\ Holder(sid) = {sess[sid]} /\ tpc[sess[sid]] \notin {"new", "refused", "claimed"}
           /\ Stage(sid) = "attached"
<1> USE DEF LifeRoles, TypeInv, TypeOK, MapTypeOK
<1>1. sess[sid] \in Tabs /\ tsid[sess[sid]] = sid BY DEF RolesOK, SessRoles
<1>2. sid # nil BY BrokerAssumption
<1>3. kpc[sid] = "minted" /\ pend[sid] = nil BY <1>1, <1>2 DEF KeyRoles, OneTabPerKey
<1>4. Holder(sid) = {sess[sid]} BY <1>1, <1>2 DEF Holder, OneTabPerKey
<1>5. tpc[sess[sid]] \notin {"new", "refused", "claimed"}
  BY <1>1 DEF ConnRoles, CreatedInMaps, FreshConns
<1>6. Stage(sid) = "attached" BY <1>3, <1>4 DEF Stage
<1> QED BY <1>1, <1>3, <1>4, <1>5, <1>6

\* A key that is in b.pend has no holder and no session.
LEMMA Pending ==
    ASSUME LifeRoles, NEW sid \in Sids, pend[sid] # nil
    PROVE  /\ kpc[sid] = "minted" /\ Holder(sid) = {} /\ sess[sid] = nil
           /\ Stage(sid) = IF pend[sid].expired THEN "void" ELSE "pending"
<1>1. kpc[sid] = "minted" BY DEF LifeRoles, KeyRoles
<1>2. Holder(sid) = {} BY BrokerAssumption DEF Holder, LifeRoles, OneTabPerKey
<1>3. sess[sid] = nil BY Attaching
<1> QED BY <1>1, <1>2, <1>3 DEF Stage

\* A tab that has claimed a key and not registered yet.
LEMMA Claiming ==
    ASSUME LifeRoles, NEW t \in Tabs, tpc[t] = "claimed"
    PROVE  /\ tsid[t] \in Sids /\ kpc[tsid[t]] = "minted" /\ pend[tsid[t]] = nil
           /\ Holder(tsid[t]) = {t} /\ sess[tsid[t]] = nil
           /\ Stage(tsid[t]) = "claimed"
<1>1. tsid[t] \in Sids /\ tsid[t] # nil BY BrokerAssumption DEF LifeRoles, TypeInv, RolesOK, TabRoles
<1>2. kpc[tsid[t]] = "minted" /\ pend[tsid[t]] = nil
  BY <1>1 DEF LifeRoles, KeyRoles, OneTabPerKey
<1>3. Holder(tsid[t]) = {t} BY <1>1 DEF Holder, LifeRoles, OneTabPerKey
<1>4. sess[tsid[t]] = nil
  <2>1. sess[tsid[t]] # nil => sess[tsid[t]] = t BY <1>1, <1>3, Attaching
  <2> QED BY <1>1, <2>1, Attaching
<1>5. Stage(tsid[t]) = "claimed" BY <1>2, <1>3, <1>4 DEF Stage
<1> QED BY <1>1, <1>2, <1>3, <1>4, <1>5

\* What an onward step does to the session of sid.
LEMMA OnwardStage ==
    ASSUME LifeRoles, Onward, NEW sid \in Sids
    PROVE  /\ Holder(sid)' = Holder(sid)
           /\ Stage(sid)' = IF sess[sid] # nil /\ sess'[sid] = nil THEN "ended" ELSE Stage(sid)
<1>1. Holder(sid)' = Holder(sid) BY DEF Holder, Onward
<1>2. CASE sess'[sid] = sess[sid]
  <2>1. (\E t \in Holder(sid)' : tpc'[t] = "claimed") <=> \E t \in Holder(sid) : tpc[t] = "claimed"
    BY <1>1 DEF Onward, Holder
  <2> QED BY <1>1, <1>2, <2>1 DEF Onward, Stage
<1>3. CASE sess[sid] # nil /\ sess'[sid] = nil
  <2>1. Holder(sid)' = {sess[sid]} /\ sess[sid] \in Tabs /\ tpc'[sess[sid]] # "claimed"
    BY <1>1, <1>3, Attaching DEF Onward
  <2>2. kpc'[sid] = "minted" /\ pend'[sid] = nil BY <1>3, Attaching DEF Onward
  <2>3. Holder(sid)' # {} /\ ~\E t \in Holder(sid)' : tpc'[t] = "claimed" BY <2>1
  <2> QED BY <1>1, <1>3, <2>2, <2>3 DEF Stage
<1> QED BY <1>2, <1>3 DEF Onward

\* The two ways out of a claim, for the sid that the tab has claimed.
LEMMA ClaimEnds ==
    ASSUME LifeRoles, LifeRoles', NEW t \in Tabs, NEW sid \in Sids, sid = tsid[t],
           UpgradeFails(t) \/ RegisterTab(t)
    PROVE  /\ \A s \in Sids : Holder(s)' = Holder(s)
           /\ Stage(sid) = "claimed"
           /\ Stage(sid)' = IF UpgradeFails(t) THEN "ended" ELSE "attached"
           /\ \A s \in Sids \ {sid} : Stage(s)' = Stage(s)
<1> USE DEF LifeRoles, TypeInv, TypeOK, MapTypeOK, HandlerTypeOK
<1>1. tpc[t] = "claimed" /\ UNCHANGED <<kpc, pend, tsid>>
  BY DEF UpgradeFails, RegisterTab, keyVars
<1>2. \A s \in Sids : Holder(s)' = Holder(s) BY <1>1 DEF Holder
<1>3. /\ kpc[sid] = "minted" /\ pend[sid] = nil /\ sess[sid] = nil
      /\ Holder(sid) = {t} /\ Stage(sid) = "claimed"
  BY <1>1, Claiming
<1>4. Stage(sid)' = IF UpgradeFails(t) THEN "ended" ELSE "attached"
  <2>1. CASE UpgradeFails(t)
    <3>1. sess'[sid] = nil /\ tpc'[t] # "claimed" BY <1>3, <2>1 DEF UpgradeFails
    <3>2. kpc'[sid] = "minted" /\ pend'[sid] = nil BY <1>1, <1>3
    <3>3. Holder(sid)' # {} /\ ~\E u \in Holder(sid)' : tpc'[u] = "claimed"
      <4> HIDE DEF LifeRoles
      <4>1. Holder(sid)' = {t} BY <1>2, <1>3
      <4> QED BY <3>1, <4>1
    <3> QED BY <2>1, <3>1, <3>2, <3>3 DEF Stage
  <2>2. CASE ~UpgradeFails(t)
    <3>1. sess'[sid] = t BY <2>2 DEF RegisterTab
    <3>2. t # nil BY BrokerAssumption
    <3> QED BY <1>1, <1>2, <1>3, <2>2, <3>1, <3>2 DEF Stage
  <2> QED BY <2>1, <2>2
<1>5. ASSUME NEW s \in Sids \ {sid} PROVE Stage(s)' = Stage(s)
  <2>1. sess'[s] = sess[s] BY <1>5 DEF UpgradeFails, RegisterTab
  <2>2. \A u \in Holder(s) : tpc'[u] = tpc[u] BY <1>5 DEF UpgradeFails, RegisterTab, Holder
  <2> QED BY <1>1, <1>2, <2>1, <2>2 DEF Stage
<1> QED BY <1>2, <1>3, <1>4, <1>5

(* Every key starts unminted. *)
LEMMA LifeInits == ASSUME Init PROVE Life!LifeInit
<1>1. \A sid \in Sids : Stage(sid) = "unminted" BY DEF Init, Stage
<1>2. \A sid \in Sids : Holder(sid) = {} BY BrokerAssumption DEF Init, Holder
<1> QED BY <1>1, <1>2 DEF Life!LifeInit

(* Every step of the relay is a step of the sessions' life, or none. *)
LEMMA LifeStep ==
    ASSUME LifeRoles, LifeRoles', [Next]_vars
    PROVE  [Life!LifeNext]_Life!lifeVars
<1> USE DEF LifeRoles, TypeInv, TypeOK, MapTypeOK, HandlerTypeOK
\* A step that moves one session and leaves the holders alone.
<1>1. ASSUME NEW sid \in Sids, NEW from, NEW to, Stage(sid) = from, Stage(sid)' = to,
             \A s \in Sids \ {sid} : Stage(s)' = Stage(s)
      PROVE  Life!Move(sid, from, to)
  <2>1. \A s \in Sids : Stage(s)' = IF s = sid THEN to ELSE Stage(s) BY <1>1
  <2>2. [s \in Sids |-> Stage(s)]' = [[s \in Sids |-> Stage(s)] EXCEPT ![sid] = to] BY <2>1
  <2> QED BY <1>1, <2>2 DEF Life!Move
<1>2. (\A s \in Sids : Holder(s)' = Holder(s))
         => [s \in Sids |-> Holder(s)]' = [s \in Sids |-> Holder(s)]
  OBVIOUS
<1>3. ASSUME NEW sid \in Sids, TermInsert(sid) PROVE Life!MintKey(sid)
  <2>1. \A s \in Sids : Holder(s)' = Holder(s) BY <1>3 DEF TermInsert, tabVars, Holder
  <2>2. Stage(sid) = "unminted" BY <1>3 DEF TermInsert, Stage
  <2>3. pend'[sid] # nil /\ ~pend'[sid].expired
    <3>1. [mid |-> kmid[sid], expired |-> FALSE] \in [mid : Machines, expired : BOOLEAN]
      BY <1>3 DEF TermInsert, RolesOK, AdminRoles
    <3>2. pend'[sid] = [mid |-> kmid[sid], expired |-> FALSE] BY <1>3 DEF TermInsert
    <3> QED BY <3>1, <3>2, KeysAssumption
  <2>4. Stage(sid)' = "pending" BY <1>3, <2>3 DEF TermInsert, Stage
  <2>5. ASSUME NEW s \in Sids \ {sid} PROVE Stage(s)' = Stage(s)
    <3>1. kpc'[s] = kpc[s] /\ pend'[s] = pend[s] /\ sess' = sess /\ tpc' = tpc
      BY <1>3, <2>5 DEF TermInsert, tabVars
    <3> QED BY <2>1, <3>1 DEF Stage
  <2> QED BY <1>1, <1>2, <2>1, <2>2, <2>4, <2>5 DEF Life!MintKey
<1>4. ASSUME NEW sid \in Sids, Expire(sid) PROVE Life!VoidKey(sid)
  <2>1. \A s \in Sids : Holder(s)' = Holder(s) BY <1>4 DEF Expire, tabVars, Holder
  <2>2. pend[sid] # nil /\ ~pend[sid].expired BY <1>4 DEF Expire
  <2>3. Stage(sid) = "pending" BY <2>2, Pending
  <2>4. pend'[sid] # nil /\ pend'[sid].expired
    <3>1. /\ pend[sid] \in [mid : Machines, expired : BOOLEAN]
          /\ pend'[sid] = [pend[sid] EXCEPT !.expired = TRUE]
      BY <1>4 DEF Expire
    <3> HIDE DEF LifeRoles
    <3> QED BY <3>1, KeysAssumption
  <2>5. Stage(sid)' = "void" BY <1>4, <2>2, <2>4, Pending DEF Expire, keyVars, Stage
  <2>6. ASSUME NEW s \in Sids \ {sid} PROVE Stage(s)' = Stage(s)
    <3>1. kpc'[s] = kpc[s] /\ pend'[s] = pend[s] /\ sess' = sess /\ tpc' = tpc
      BY <1>4, <2>6 DEF Expire, tabVars, keyVars
    <3> QED BY <2>1, <3>1 DEF Stage
  <2> QED BY <1>1, <1>2, <2>1, <2>3, <2>5, <2>6 DEF Life!VoidKey
<1>5. ASSUME Sweep PROVE UNCHANGED Life!lifeVars
  <2>1. \A s \in Sids : Holder(s)' = Holder(s) BY <1>5 DEF Sweep, tabVars, Holder
  <2>2. ASSUME NEW s \in Sids PROVE Stage(s)' = Stage(s)
    <3>1. kpc' = kpc /\ sess' = sess /\ tpc' = tpc BY <1>5 DEF Sweep, tabVars, keyVars
    <3>2. CASE pend'[s] = pend[s] BY <2>1, <3>1, <3>2 DEF Stage
    <3>3. CASE pend[s] # nil /\ pend[s].expired /\ pend'[s] = nil
      BY <2>1, <3>1, <3>3, Pending DEF Stage
    <3> QED BY <1>5, <3>2, <3>3 DEF Sweep
  <2> QED BY <2>1, <2>2 DEF Life!lifeVars
<1>6. ASSUME NEW t \in Tabs, NEW sid \in Sids, ClaimKey(t, sid) PROVE Life!Claim(sid, t)
  <2>1. tsid[t] = nil /\ \A s \in Sids : t \notin Holder(s)
    BY <1>6, BrokerAssumption DEF ClaimKey, RolesOK, TabRoles, Holder
  <2>2. pend[sid] # nil /\ ~pend[sid].expired BY <1>6 DEF ClaimKey
  <2>3. Stage(sid) = "pending" /\ Holder(sid) = {} BY <2>2, Pending
  <2>4. \A s \in Sids : Holder(s)' = IF s = sid THEN {t} ELSE Holder(s)
    BY <1>6, <2>1, <2>3 DEF ClaimKey, Holder
  <2>5. Stage(sid)' = "claimed"
    <3>1. tpc'[t] = "claimed" BY <1>6 DEF ClaimKey
    <3>2. kpc'[sid] = "minted" /\ pend'[sid] = nil /\ sess'[sid] = nil
      BY <1>6, <2>2, Pending DEF ClaimKey, keyVars
    <3>3. Holder(sid)' # {} /\ \E u \in Holder(sid)' : tpc'[u] = "claimed"
      <4> HIDE DEF LifeRoles
      <4>1. t \in Holder(sid)' BY <2>4
      <4> QED BY <3>1, <4>1
    <3> QED BY <3>2, <3>3 DEF Stage
  <2>6. ASSUME NEW s \in Sids \ {sid} PROVE Stage(s)' = Stage(s)
    <3>1. kpc'[s] = kpc[s] /\ pend'[s] = pend[s] /\ sess' = sess BY <1>6, <2>6 DEF ClaimKey, keyVars
    <3>2. Holder(s)' = Holder(s) /\ \A u \in Holder(s) : tpc'[u] = tpc[u]
      BY <1>6, <2>1, <2>4, <2>6 DEF ClaimKey, Holder
    <3> QED BY <3>1, <3>2 DEF Stage
  <2>7. Life!Move(sid, "pending", "claimed") BY <1>1, <2>3, <2>5, <2>6
  <2>8. [s \in Sids |-> Holder(s)]' = [[s \in Sids |-> Holder(s)] EXCEPT ![sid] = {t}] BY <2>4
  <2> HIDE DEF LifeRoles
  <2> QED BY <2>1, <2>3, <2>7, <2>8 DEF Life!Claim
<1>7. ASSUME NEW t \in Tabs, NEW sid \in Sids, sid = tsid[t], UpgradeFails(t)
      PROVE  Life!Burn(sid)
  <2>1. Life!Move(sid, "claimed", "ended") BY <1>1, <1>7, ClaimEnds
  <2> QED BY <1>2, <1>7, <2>1, ClaimEnds DEF Life!Burn
<1>8. ASSUME NEW t \in Tabs, NEW sid \in Sids, sid = tsid[t], RegisterTab(t), ~UpgradeFails(t)
      PROVE  Life!Attach(sid)
  <2>1. Life!Move(sid, "claimed", "attached") BY <1>1, <1>8, ClaimEnds
  <2> QED BY <1>2, <1>8, <2>1, ClaimEnds DEF Life!Attach
<1>9. ASSUME Onward PROVE UNCHANGED Life!lifeVars \/ \E S \in SUBSET Sids : Life!End(S)
  <2> DEFINE S == {sid \in Sids : sess[sid] # nil /\ sess'[sid] = nil}
  <2>1. \A s \in Sids : Holder(s)' = Holder(s) BY <1>9, OnwardStage
  <2>2. \A s \in Sids : Stage(s)' = IF s \in S THEN "ended" ELSE Stage(s) BY <1>9, OnwardStage
  <2>3. \A s \in S : Stage(s) = "attached" BY Attaching
  <2> HIDE DEF S
  <2>4. CASE S = {} BY <1>2, <2>1, <2>2, <2>4 DEF Life!lifeVars
  <2>5. CASE S # {}
    <3>1. Life!End(S) BY <1>2, <2>1, <2>2, <2>3, <2>5 DEF Life!End, S
    <3> QED BY <3>1 DEF S
  <2> QED BY <2>4, <2>5
<1>10. ASSUME NEW t \in Tabs, RegisterTab(t) \/ UpgradeFails(t) PROVE tsid[t] \in Sids
  BY <1>10, Claiming DEF RegisterTab, UpgradeFails
<1> HIDE DEF LifeRoles
<1>11. CASE \E sid \in Sids : TermInsert(sid) \/ Expire(sid) BY <1>3, <1>4, <1>11 DEF Life!LifeNext
<1>12. CASE Sweep BY <1>5, <1>12
<1>13. CASE \E t \in Tabs : RegisterTab(t) \/ UpgradeFails(t) \/ \E sid \in Sids : ClaimKey(t, sid)
  BY <1>6, <1>7, <1>8, <1>10, <1>13 DEF Life!LifeNext
<1>14. CASE Onward BY <1>9, <1>14 DEF Life!LifeNext
<1> QED BY <1>11, <1>12, <1>13, <1>14, LifeSteps DEF LifeRoles

\* Broker implements SessionLife: whatever upgrades, sweeps, agent losses, exits
\* and revocations interleave, a key is claimed by one tab or becomes void, its
\* session is attached at most once, and an ended session stays ended.  This is
\* the part of ImplementsFairLife without fairness.
\* (wsTerm, apiTerm, sweep, dropAgent, endSession of broker.go.)
THEOREM ImplementsLifeTheorem == Spec => Life!LifeSpec
<1>1. Init => Life!LifeInit BY LifeInits
<1>2. BrokerInv => LifeRoles BY DEF BrokerInv, LifeRoles
<1>3. BrokerInv /\ BrokerInv' /\ [Next]_vars => [Life!LifeNext]_Life!lifeVars
  <2>1. BrokerInv' => LifeRoles' BY DEF BrokerInv, LifeRoles
  <2> QED BY <1>2, <2>1, LifeStep
<1> QED BY <1>1, <1>3, InvHolds, PTL DEF Spec, Life!LifeSpec

---------------------------------------------------------------------------
(* What a DELETE comes to.                                                  *)

\* A machine that apiDelete has begun to revoke is revoked.
Deleted == \A m \in Machines : dpc[m] # "idle" => store[m] = "revoked"

\* A socket of m has been looked up and is not registered yet.
Admitted(m) == \E a \in AgentConns : apc[a] = "known" /\ amid[a] = m

\* Nobody serves m, or is about to.
Unserved(m) == agents[m] = nil /\ ~Admitted(m)

(* A machine that is being revoked, has no agent and no hello past its      *)
(* lookup stays so: such a hello is the one way back in, and the only thing *)
(* that RevokedIsOffline overlooks (broker.go:209-215, 319, 329-341).       *)
RevocationHolds ==
    [][\A m \in Machines : dpc[m] # "idle" /\ Unserved(m) => Unserved(m)']_vars

(* Whom a step may admit or register. *)
LEMMA UnservedSteps ==
    ASSUME TypeInv, Deleted, [Next]_vars, NEW m \in Machines, dpc[m] # "idle", Unserved(m)
    PROVE  Unserved(m)'
<1> USE DEF TypeInv, TypeOK, MapTypeOK, HandlerTypeOK, agentVars
<1>1. ASSUME UNCHANGED <<agents, apc, amid>> PROVE Unserved(m)' BY <1>1 DEF Unserved, Admitted
<1>2. CASE AdminStep
  <2>1. CASE \E d \in Machines : DeleteDrop(d)
    <3>1. PICK d \in Machines : DeleteDrop(d) BY <2>1
    <3>2. UNCHANGED <<apc, amid>> BY <3>1 DEF DeleteDrop
    <3>3. agents' \in {agents, [agents EXCEPT ![amid[dac[d]]] = nil]} BY <3>1 DEF DeleteDrop, DropAgent
    <3>4. agents'[m] \in {agents[m], nil} BY <3>3
    <3> QED BY <3>2, <3>4 DEF Unserved, Admitted
  <2>2. CASE ~\E d \in Machines : DeleteDrop(d)
    BY <1>1, <1>2, <2>2 DEF AdminStep, Mint, DeleteStore, DeleteLookup, TermLookup, TermInsert, Expire,
       Sweep
  <2> QED BY <2>1, <2>2
<1>3. ASSUME NEW a \in AgentConns, AgentStep(a) PROVE Unserved(m)'
  <2>1. CASE \E n \in Machines : AgentHello(a, n)
    <3>1. PICK n \in Machines : AgentHello(a, n) BY <2>1
    <3>2. n # m BY <3>1 DEF AgentHello, Deleted
    <3> QED BY <3>1, <3>2 DEF AgentHello, Unserved, Admitted
  <2>2. CASE AgentRegister(a)
    <3>1. amid[a] # m BY <2>2 DEF AgentRegister, Unserved, Admitted
    <3>2. agents'[m] = nil BY <2>2, <3>1 DEF AgentRegister, Unserved
    <3>3. amid' = amid /\ \A b \in AgentConns : apc'[b] = "known" => apc[b] = "known"
      BY <2>2 DEF AgentRegister
    <3> QED BY <3>2, <3>3 DEF Unserved, Admitted
  <2>3. CASE AgentLost(a)
    <3>1. agents'[m] \in {agents[m], nil} BY <2>3 DEF AgentLost, DropAgent
    <3>2. amid' = amid /\ \A b \in AgentConns : apc'[b] = "known" => apc[b] = "known"
      BY <2>3 DEF AgentLost
    <3> QED BY <3>1, <3>2 DEF Unserved, Admitted
  <2>4. ASSUME UNCHANGED <<agents, amid>>,
               \A b \in AgentConns : apc'[b] = "known" => apc[b] = "known"
        PROVE  Unserved(m)'
    BY <2>4 DEF Unserved, Admitted
  <2>5. CASE AgentRefused(a) \/ AgentGreet(a)
    BY <2>4, <2>5 DEF AgentRefused, AgentGreet
  <2>6. CASE RouteOut(a) \/ DropSlow(a)
    <3>1. UNCHANGED <<agents, amid>> BY <2>6 DEF RouteOut, DropSlow
    <3>2. \A b \in AgentConns : apc'[b] = "known" => apc[b] = "known" BY <2>6 DEF RouteOut, DropSlow
    <3> QED BY <2>4, <3>1, <3>2
  <2>7. ASSUME NEW sid \in Sids, AgentOut(a, sid) PROVE Unserved(m)'
    BY <2>4, <2>7 DEF AgentOut
  <2>8. ASSUME NEW sid \in Sids, NEW kind \in {"exit", "err"}, AgentEnd(a, sid, kind)
        PROVE  Unserved(m)'
    BY <1>1, <2>8 DEF AgentEnd
  <2> QED BY <1>3, <2>1, <2>2, <2>3, <2>5, <2>6, <2>7, <2>8 DEF AgentStep
<1>4. ASSUME NEW t \in Tabs, TabStep(t) PROVE Unserved(m)'
  BY <1>1, <1>4 DEF TabStep, ClaimKey, RefuseKey, UpgradeFails, RegisterTab, OpenSent, OpenFails,
     EndOffline, Input, TabLost
<1>5. ASSUME NEW h \in Handlers, DoWork(h) PROVE Unserved(m)'
  BY <1>1, <1>5 DEF DoWork, CloseAgent, CloseTab, TellAgent
<1>6. CASE (\E c \in Conns : WriterStep(c)) \/ Quiet \/ UNCHANGED vars
  BY <1>1, <1>6 DEF WriterStep, Quiet, vars
<1> QED BY <1>2, <1>3, <1>4, <1>5, <1>6 DEF Next

(* A DELETE is under way for revoked machines only. *)
LEMMA DeletedPreserved == ASSUME TypeInv, Deleted, [Next]_vars PROVE Deleted'
<1> USE DEF TypeInv, TypeOK, MapTypeOK, HandlerTypeOK, deleteVars
<1>1. ASSUME UNCHANGED <<store, dpc>> PROVE Deleted' BY <1>1 DEF Deleted
<1>2. CASE AdminStep
  <2>1. ASSUME NEW d \in Machines, Mint(d) \/ DeleteStore(d) PROVE Deleted'
    BY <2>1 DEF Mint, DeleteStore, Deleted
  <2>2. ASSUME NEW d \in Machines, DeleteLookup(d) \/ DeleteDrop(d) PROVE Deleted'
    BY <2>2 DEF DeleteLookup, DeleteDrop, Deleted
  <2>3. ASSUME NEW sid \in Sids,
               \/ \E d \in Machines : TermLookup(sid, d)
               \/ TermInsert(sid) \/ Expire(sid) \/ Sweep
        PROVE  Deleted'
    BY <1>1, <2>3 DEF TermLookup, TermInsert, Expire, Sweep
  <2>4. CASE Sweep BY <1>1, <2>4 DEF Sweep
  <2> QED BY <1>2, <2>1, <2>2, <2>3, <2>4 DEF AdminStep
<1>3. ASSUME NEW a \in AgentConns, AgentStep(a) PROVE Deleted'
  BY <1>1, <1>3 DEF AgentStep, AgentRefused, AgentHello, AgentRegister, AgentGreet, AgentOut, RouteOut,
     DropSlow, AgentEnd, AgentLost
<1>4. ASSUME NEW t \in Tabs, TabStep(t) PROVE Deleted'
  BY <1>1, <1>4 DEF TabStep, ClaimKey, RefuseKey, UpgradeFails, RegisterTab, OpenSent, OpenFails,
     EndOffline, Input, TabLost
<1>5. ASSUME NEW h \in Handlers, DoWork(h) PROVE Deleted'
  BY <1>1, <1>5 DEF DoWork, CloseAgent, CloseTab, TellAgent
<1>6. CASE (\E c \in Conns : WriterStep(c)) \/ Quiet \/ UNCHANGED vars
  BY <1>1, <1>6 DEF WriterStep, Quiet, vars
<1> QED BY <1>2, <1>3, <1>4, <1>5, <1>6 DEF Next

(* Revocation holds for good, once the hellos that were looked up before it *)
(* are through.                                                             *)
THEOREM RevocationHoldsTheorem == Spec => RevocationHolds
<1> DEFINE Holds == \A m \in Machines : dpc[m] # "idle" /\ Unserved(m) => Unserved(m)'
<1>1. Init => Deleted BY DEF Init, Deleted
<1>2. BrokerInv /\ Deleted /\ [Next]_vars => Deleted' BY DeletedPreserved DEF BrokerInv
<1>3. BrokerInv /\ Deleted /\ [Next]_vars => Holds BY UnservedSteps DEF BrokerInv
<1>4. BrokerInv /\ Deleted /\ [Next]_vars => [Holds]_vars BY <1>3
<1> QED BY <1>1, <1>2, <1>4, InvHolds, PTL DEF Spec, RevocationHolds
=============================================================================
