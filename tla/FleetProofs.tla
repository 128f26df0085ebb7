----------------------------- MODULE FleetProofs -----------------------------
(***************************************************************************)
(* What is proved of Fleet, for any sets and any number of restarts: its    *)
(* types, one socket per machine, revocations that nothing undoes, an alarm *)
(* that is armed when it is needed, shells that have their browser; and     *)
(* where no event is delivered during a digest, browsers that have their    *)
(* agent and sessions that lead the life SessionLife describes.             *)
(***************************************************************************)
EXTENDS FleetLife, TLAPS

\* A call that goes on has its machine.
CallsKnow == \A c \in Calls : cpc[c] \in {"body", "digest"} => cmid[c] \in Machines

\* An upgrade that goes on has its session.
TabsKnow == \A t \in Tabs : tpc[t] \in {"digest", "claimed"} => tsid[t] \in Sids

\* The two rows of a machine come and go together.
RowsAgree == tokRow = machineRow

\* A row that a handler will put back is still there.
GotIsThere ==
    /\ \A a \in Agents : agot[a] # nil => agot[a] \in machineRow /\ apc[a] \in {"entered", "reaping"}
    /\ lgot # nil => lgot \in machineRow /\ lpc = "touching"

\* A hello that has found its token row belongs to a machine.
KnownIsThere == \A a \in Agents : apc[a] = "known" => amid[a] \in machineRow

\* Only a hello that has come through makes a socket an agent's.
Enrolled == \A a \in Agents : akind[a] = "agent" => apc[a] \in {"entered", "done"}

Core ==
    /\ RowsAgree /\ GotIsThere /\ KnownIsThere /\ Enrolled
    /\ OneAgentPerMachine /\ RevokedIsOffline

IInv == TypeOK /\ CallsKnow /\ TabsKnow /\ Core

---------------------------------------------------------------------------
(* The parts of the invariant under steps that leave their variables alone. *)

coreVars == <<rowVars, alink, akind, amid, apc, agot, dpc, lpc, lgot>>

(* The core depends on rows, agent sockets, revocations and the alarm only. *)
LEMMA CoreFrame == Core /\ UNCHANGED coreVars => Core'
<1> SUFFICES ASSUME Core, UNCHANGED coreVars PROVE Core'
  OBVIOUS
<1> USE DEF Core, coreVars, rowVars
<1>1. RowsAgree' /\ GotIsThere' /\ KnownIsThere' /\ Enrolled'
  BY DEF RowsAgree, GotIsThere, KnownIsThere, Enrolled
<1>2. OneAgentPerMachine' /\ RevokedIsOffline'
  BY DEF OneAgentPerMachine, RevokedIsOffline, Offline, Registered
<1> QED
  BY <1>1, <1>2

(* Where no socket enrolls and no row goes, two of the properties stay. *)
LEMMA Shrinks ==
  ASSUME OneAgentPerMachine, RevokedIsOffline, UNCHANGED <<born, machineRow, dpc>>,
         \A a \in Agents, m \in Machines : Registered(a, m)' => Registered(a, m),
         RowsOK
  PROVE  OneAgentPerMachine' /\ RevokedIsOffline'
<1>1. OneAgentPerMachine'
  BY DEF OneAgentPerMachine
<1>2. RevokedIsOffline'
  BY DEF RevokedIsOffline, Offline, RowsOK
<1> QED
  BY <1>1, <1>2

(* A handler that is about to put a row back puts one that is there. *)
LEMMA PutIsThere ==
  ASSUME NEW got, got # nil => got \in machineRow, Put(got)
  PROVE  machineRow' = machineRow
  BY DEF Put

(* With the gate open no handler is at a storage operation. *)
LEMMA GateIsOpen ==
  ASSUME Gate
  PROVE  /\ \A a \in Agents : apc[a] \notin {"known", "entered", "reaping"}
         /\ \A m \in Machines : dpc[m] # "deleted"
         /\ lpc = "idle"
  BY DEF Gate, Storing

---------------------------------------------------------------------------
(* The object starts in the invariant. *)
LEMMA InitIInv == Init => IInv
<1> SUFFICES ASSUME Init PROVE IInv
  OBVIOUS
<1> USE DEF Init
<1>1. RowsOK /\ KeysOK
  BY DEF RowsOK, KeysOK, PendRows
<1>2. AgentsOK
  BY DEF AgentsOK
<1>3. TabsOK
  BY DEF TabsOK, PendRows
<1>4. CallsOK
  BY DEF CallsOK
<1>5. AlarmOK
  <2>1. 0 \in 0..MaxRestarts
    BY FleetAssumption
  <2> QED
    BY <2>1 DEF AlarmOK
<1>6. CallsKnow /\ TabsKnow
  BY DEF CallsKnow, TabsKnow
<1>7. RowsAgree /\ GotIsThere /\ KnownIsThere /\ Enrolled
  BY DEF RowsAgree, GotIsThere, KnownIsThere, Enrolled
<1>8. OneAgentPerMachine /\ RevokedIsOffline
  BY DEF OneAgentPerMachine, RevokedIsOffline, Registered
<1> QED
  BY <1>1, <1>2, <1>3, <1>4, <1>5, <1>6, <1>7, <1>8 DEF IInv, TypeOK, Core

---------------------------------------------------------------------------
(* Admin calls.                                                             *)

(* A new machine has both rows and no history. *)
LEMMA MintStep ==
  ASSUME IInv, NEW m \in Machines, Mint(m)
  PROVE  IInv'
<1> USE DEF IInv, TypeOK, Mint, rowVars, keyVars, agentVars, tabVars, callVars, alarmVars, restartVars
<1>1. RowsOK' /\ KeysOK' /\ AgentsOK' /\ TabsOK' /\ CallsOK' /\ AlarmOK'
  BY DEF RowsOK, KeysOK, AgentsOK, TabsOK, CallsOK, AlarmOK
<1>2. CallsKnow' /\ TabsKnow'
  BY DEF CallsKnow, TabsKnow
<1>3. Core'
  <2> USE DEF Core
  <2>1. RowsAgree' /\ GotIsThere' /\ KnownIsThere' /\ Enrolled'
    BY DEF RowsAgree, GotIsThere, KnownIsThere, Enrolled
  <2>2. OneAgentPerMachine'
    BY DEF OneAgentPerMachine, Registered
  <2>3. RevokedIsOffline'
    BY DEF RevokedIsOffline, Offline, Registered
  <2> QED
    BY <2>1, <2>2, <2>3
<1> QED
  BY <1>1, <1>2, <1>3

(* A call that starts knows its machine. *)
LEMMA TermLookupStep ==
  ASSUME IInv, NEW c \in Calls, NEW m \in Machines, TermLookup(c, m)
  PROVE  IInv'
<1> USE DEF IInv, TypeOK, TermLookup, rowVars, keyVars, agentVars, tabVars, callVars, alarmVars, restartVars
<1>1. RowsOK' /\ KeysOK' /\ AgentsOK' /\ TabsOK' /\ CallsOK' /\ AlarmOK'
  BY DEF RowsOK, KeysOK, AgentsOK, TabsOK, CallsOK, AlarmOK
<1>2. CallsKnow'
  BY DEF CallsKnow, CallsOK
<1>3. TabsKnow'
  BY DEF TabsKnow
<1>4. Core'
  BY CoreFrame DEF coreVars
<1> QED
  BY <1>1, <1>2, <1>3, <1>4

(* The body of a call keeps it. *)
LEMMA TermBodyStep ==
  ASSUME IInv, NEW c \in Calls, NEW sid \in Sids, TermBody(c, sid)
  PROVE  IInv'
<1> USE DEF IInv, TypeOK, TermBody, rowVars, keyVars, agentVars, tabVars, callVars, alarmVars, restartVars
<1>1. RowsOK' /\ KeysOK' /\ AgentsOK' /\ TabsOK' /\ CallsOK' /\ AlarmOK'
  BY DEF RowsOK, KeysOK, AgentsOK, TabsOK, CallsOK, AlarmOK
<1>2. CallsKnow' /\ TabsKnow'
  BY DEF CallsKnow, TabsKnow
<1>3. Core'
  BY CoreFrame DEF coreVars
<1> QED
  BY <1>1, <1>2, <1>3

(* A key that is put names a machine. *)
LEMMA TermPutStep ==
  ASSUME IInv, NEW c \in Calls, TermPut(c)
  PROVE  IInv'
<1> USE DEF IInv, TypeOK, TermPut, rowVars, keyVars, agentVars, tabVars, callVars, alarmVars, restartVars
<1>1. RowsOK' /\ AgentsOK' /\ TabsOK' /\ CallsOK' /\ AlarmOK'
  BY DEF RowsOK, AgentsOK, TabsOK, CallsOK, AlarmOK
<1>2. KeysOK'
  <2>1. cmid[c] \in Machines
    BY DEF CallsKnow
  <2> QED
    BY <2>1 DEF KeysOK, PendRows
<1>3. CallsKnow' /\ TabsKnow'
  BY DEF CallsKnow, TabsKnow
<1>4. Core'
  BY CoreFrame DEF coreVars
<1> QED
  BY <1>1, <1>2, <1>3, <1>4

(* The alarm of a key keeps it. *)
LEMMA TermArmStep ==
  ASSUME IInv, NEW c \in Calls, TermArm(c)
  PROVE  IInv'
<1> USE DEF IInv, TypeOK, TermArm, rowVars, keyVars, agentVars, tabVars, callVars, alarmVars, restartVars
<1>1. RowsOK' /\ KeysOK' /\ AgentsOK' /\ TabsOK' /\ CallsOK' /\ AlarmOK'
  BY DEF RowsOK, KeysOK, AgentsOK, TabsOK, CallsOK, AlarmOK
<1>2. CallsKnow' /\ TabsKnow'
  BY DEF CallsKnow, TabsKnow
<1>3. Core'
  BY CoreFrame DEF coreVars
<1> QED
  BY <1>1, <1>2, <1>3

(* No handler holds a row that is deleted, as the gate is open. *)
LEMMA DeleteStep ==
  ASSUME IInv, NEW m \in Machines, Delete(m)
  PROVE  IInv'
<1> USE DEF IInv, TypeOK, Delete, rowVars, keyVars, agentVars, tabVars, callVars, alarmVars, restartVars
<1>1. RowsOK' /\ KeysOK' /\ AgentsOK' /\ TabsOK' /\ CallsOK' /\ AlarmOK'
  BY DEF RowsOK, KeysOK, AgentsOK, TabsOK, CallsOK, AlarmOK
<1>2. CallsKnow' /\ TabsKnow'
  BY DEF CallsKnow, TabsKnow
<1>3. Core'
  <2> USE DEF Core
  <2>1. RowsAgree' /\ GotIsThere' /\ KnownIsThere' /\ Enrolled'
    BY GateIsOpen DEF RowsAgree, GotIsThere, KnownIsThere, Enrolled
  <2>2. OneAgentPerMachine'
    BY DEF OneAgentPerMachine, Registered
  <2>3. RevokedIsOffline'
    BY DEF RevokedIsOffline, Offline, Registered, CallsOK
  <2> QED
    BY <2>1, <2>2, <2>3
<1> QED
  BY <1>1, <1>2, <1>3

(* The only socket of a revoked machine is dropped. *)
LEMMA DeleteDropStep ==
  ASSUME IInv, NEW m \in Machines, DeleteDrop(m)
  PROVE  IInv'
<1> USE DEF IInv, TypeOK, DeleteDrop, rowVars, keyVars, agentVars, tabVars, callVars, alarmVars, restartVars
<1>1. RowsOK' /\ KeysOK' /\ CallsOK' /\ AlarmOK'
  BY DEF RowsOK, KeysOK, CallsOK, AlarmOK
<1>2. AgentsOK'
  BY DEF AgentsOK, DropAgent, Shut
<1>3. TabsOK'
  BY DEF TabsOK, DropAgent, EndTabs, Shut
<1>4. CallsKnow' /\ TabsKnow'
  BY DEF CallsKnow, TabsKnow
<1>5. Core'
  <2> USE DEF Core
  <2>1. RowsAgree' /\ GotIsThere' /\ KnownIsThere' /\ Enrolled'
    BY DEF RowsAgree, GotIsThere, KnownIsThere, Enrolled, DropAgent, AgentsOK
  <2>2. \A b \in Agents, k \in Machines : Registered(b, k)' => Registered(b, k)
    BY DEF Registered, DropAgent, AgentsOK
  <2>3. OneAgentPerMachine'
    BY <2>2 DEF OneAgentPerMachine
  <2>4. Offline(m)'
    <3>1. CASE Offline(m) /\ UNCHANGED <<alink, akind, tlink>>
      BY <3>1 DEF Offline, Registered
    <3>2. ASSUME NEW a \in Agents, Registered(a, m), DropAgent(a) PROVE Offline(m)'
      <4>1. akind'[a] = "replaced"
        BY <3>2 DEF DropAgent, AgentsOK
      <4>2. \A b \in Agents : Registered(b, m) => b = a
        BY <3>2 DEF OneAgentPerMachine
      <4> QED
        BY <4>1, <4>2, <2>2 DEF Offline, Registered
    <3> QED
      BY <3>1, <3>2
  <2>5. RevokedIsOffline'
    BY <2>2, <2>4 DEF RevokedIsOffline, Offline, RowsOK
  <2> QED
    BY <2>1, <2>3, <2>5
<1> QED
  BY <1>1, <1>2, <1>3, <1>4, <1>5

---------------------------------------------------------------------------
(* Agent sockets.                                                           *)

(* A new socket is nobody's. *)
LEMMA AgentConnectsStep ==
  ASSUME IInv, NEW a \in Agents, AgentConnects(a)
  PROVE  IInv'
<1> USE DEF IInv, TypeOK, AgentConnects, rowVars, keyVars, agentVars, tabVars, callVars, alarmVars, restartVars
<1>1. RowsOK' /\ KeysOK' /\ AgentsOK' /\ TabsOK' /\ CallsOK' /\ AlarmOK'
  BY DEF RowsOK, KeysOK, AgentsOK, TabsOK, CallsOK, AlarmOK
<1>2. CallsKnow' /\ TabsKnow'
  BY DEF CallsKnow, TabsKnow
<1>3. Core'
  <2> USE DEF Core
  <2>1. RowsAgree' /\ GotIsThere' /\ KnownIsThere' /\ Enrolled'
    BY GateIsOpen DEF RowsAgree, GotIsThere, KnownIsThere, Enrolled, AgentsOK
  <2>2. \A b \in Agents, k \in Machines : Registered(b, k)' => Registered(b, k)
    BY DEF Registered, AgentsOK
  <2> QED
    BY <2>1, <2>2, Shrinks
<1> QED
  BY <1>1, <1>2, <1>3

(* A hello under way is not enrolled. *)
LEMMA HelloStep ==
  ASSUME IInv, NEW a \in Agents, NEW m \in Machines, Hello(a, m)
  PROVE  IInv'
<1> USE DEF IInv, TypeOK, Hello, rowVars, keyVars, agentVars, tabVars, callVars, alarmVars, restartVars
<1>1. RowsOK' /\ KeysOK' /\ AgentsOK' /\ TabsOK' /\ CallsOK' /\ AlarmOK'
  BY DEF RowsOK, KeysOK, AgentsOK, TabsOK, CallsOK, AlarmOK
<1>2. CallsKnow' /\ TabsKnow'
  BY DEF CallsKnow, TabsKnow
<1>3. Core'
  <2> USE DEF Core
  <2>1. RowsAgree' /\ GotIsThere' /\ KnownIsThere' /\ Enrolled'
    BY DEF RowsAgree, GotIsThere, KnownIsThere, Enrolled
  <2>2. \A b \in Agents, k \in Machines : Registered(b, k)' => Registered(b, k)
    BY DEF Registered, Enrolled
  <2> QED
    BY <2>1, <2>2, Shrinks
<1> QED
  BY <1>1, <1>2, <1>3

(* A refused hello is not enrolled. *)
LEMMA HelloRefusedStep ==
  ASSUME IInv, NEW a \in Agents, HelloRefused(a)
  PROVE  IInv'
<1> USE DEF IInv, TypeOK, HelloRefused, rowVars, keyVars, agentVars, tabVars, callVars, alarmVars, restartVars
<1>1. RowsOK' /\ KeysOK' /\ TabsOK' /\ CallsOK' /\ AlarmOK'
  BY DEF RowsOK, KeysOK, TabsOK, CallsOK, AlarmOK
<1>2. AgentsOK'
  BY DEF AgentsOK, Shut
<1>3. CallsKnow' /\ TabsKnow'
  BY DEF CallsKnow, TabsKnow
<1>4. Core'
  <2> USE DEF Core
  <2>1. RowsAgree' /\ GotIsThere' /\ KnownIsThere' /\ Enrolled'
    BY DEF RowsAgree, GotIsThere, KnownIsThere, Enrolled
  <2>2. \A b \in Agents, k \in Machines : Registered(b, k)' => Registered(b, k)
    BY DEF Registered, Enrolled
  <2> QED
    BY <2>1, <2>2, Shrinks
<1> QED
  BY <1>1, <1>2, <1>3, <1>4

(* A hello that has found its row belongs to a machine that is there. *)
LEMMA HelloLookupStep ==
  ASSUME IInv, NEW a \in Agents, HelloLookup(a)
  PROVE  IInv'
<1> USE DEF IInv, TypeOK, HelloLookup, rowVars, keyVars, agentVars, tabVars, callVars, alarmVars, restartVars
<1>1. RowsOK' /\ KeysOK' /\ AgentsOK' /\ TabsOK' /\ CallsOK' /\ AlarmOK'
  BY DEF RowsOK, KeysOK, AgentsOK, TabsOK, CallsOK, AlarmOK
<1>2. CallsKnow' /\ TabsKnow'
  BY DEF CallsKnow, TabsKnow
<1>3. Core'
  <2> USE DEF Core
  <2>1. RowsAgree' /\ GotIsThere' /\ KnownIsThere' /\ Enrolled'
    BY DEF RowsAgree, GotIsThere, KnownIsThere, Enrolled
  <2>2. \A b \in Agents, k \in Machines : Registered(b, k)' => Registered(b, k)
    BY DEF Registered
  <2> QED
    BY <2>1, <2>2, Shrinks
<1> QED
  BY <1>1, <1>2, <1>3

(* The zombie of the same machine is replaced in the step that enrolls a socket. *)
LEMMA HelloEnterStep ==
  ASSUME IInv, NEW a \in Agents, HelloEnter(a)
  PROVE  IInv'
<1> USE DEF IInv, TypeOK, HelloEnter, rowVars, keyVars, agentVars, tabVars, callVars, alarmVars, restartVars
<1>1. RowsOK' /\ KeysOK' /\ CallsOK' /\ AlarmOK'
  BY DEF RowsOK, KeysOK, CallsOK, AlarmOK
<1>2. AgentsOK'
  <2>1. Got(amid[a]) \in Machines \cup {nil}
    BY DEF AgentsOK, Got
  <2> QED
    BY <2>1 DEF AgentsOK
<1>3. TabsOK'
  BY DEF TabsOK, EndTabs, Shut
<1>4. CallsKnow' /\ TabsKnow'
  BY DEF CallsKnow, TabsKnow
<1>5. Core'
  <2> USE DEF Core
  <2>1. RowsAgree' /\ GotIsThere' /\ KnownIsThere' /\ Enrolled'
    BY DEF RowsAgree, GotIsThere, KnownIsThere, Enrolled, AgentsOK, Got
  <2>2. amid[a] \in machineRow /\ amid' = amid
    BY DEF KnownIsThere
  <2>3. \A b \in Agents, k \in Machines :
           Registered(b, k)' => \/ b = a /\ k = amid[a]
                                \/ Registered(b, k) /\ k # amid[a]
    <3> SUFFICES ASSUME NEW b \in Agents, NEW k \in Machines, Registered(b, k)', b # a
                 PROVE  Registered(b, k) /\ k # amid[a]
      BY DEF Registered
    <3> QED
      BY DEF Registered
  <2>4. OneAgentPerMachine'
    BY <2>3 DEF OneAgentPerMachine
  <2>5. RevokedIsOffline'
    BY <2>2, <2>3 DEF RevokedIsOffline, Offline, RowsOK
  <2> QED
    BY <2>1, <2>4, <2>5
<1> QED
  BY <1>1, <1>2, <1>3, <1>4, <1>5

(* A hello puts back a row that is there. *)
LEMMA HelloGreetStep ==
  ASSUME IInv, NEW a \in Agents, HelloGreet(a)
  PROVE  IInv'
<1> USE DEF IInv, TypeOK, HelloGreet, rowVars, keyVars, agentVars, tabVars, callVars, alarmVars, restartVars
<1>1. RowsOK'
  <2>1. machineRow' = machineRow
    BY PutIsThere DEF Core, GotIsThere
  <2> QED
    BY <2>1 DEF RowsOK
<1>2. KeysOK' /\ AgentsOK' /\ TabsOK' /\ CallsOK' /\ AlarmOK'
  BY DEF KeysOK, AgentsOK, TabsOK, CallsOK, AlarmOK
<1>3. CallsKnow' /\ TabsKnow'
  BY DEF CallsKnow, TabsKnow
<1>4. Core'
  <2> USE DEF Core
  <2>0. machineRow' = machineRow
    BY PutIsThere DEF GotIsThere
  <2>1. RowsAgree' /\ GotIsThere' /\ KnownIsThere' /\ Enrolled'
    BY <2>0 DEF RowsAgree, GotIsThere, KnownIsThere, Enrolled, AgentsOK
  <2>2. \A b \in Agents, k \in Machines : Registered(b, k)' => Registered(b, k)
    BY DEF Registered
  <2>3. UNCHANGED <<born, machineRow, dpc>>
    BY <2>0
  <2> QED
    BY <2>1, <2>2, <2>3, Shrinks
<1> QED
  BY <1>1, <1>2, <1>3, <1>4

(* The end of a session keeps it. *)
LEMMA AgentEndsStep ==
  ASSUME IInv, NEW a \in Agents, NEW sid \in Sids, AgentEnds(a, sid)
  PROVE  IInv'
<1> USE DEF IInv, TypeOK, AgentEnds, rowVars, keyVars, agentVars, tabVars, callVars, alarmVars, restartVars
<1>1. RowsOK' /\ KeysOK' /\ AgentsOK' /\ CallsOK' /\ AlarmOK'
  BY DEF RowsOK, KeysOK, AgentsOK, CallsOK, AlarmOK
<1>2. TabsOK'
  BY DEF TabsOK, Shut
<1>3. CallsKnow' /\ TabsKnow'
  BY DEF CallsKnow, TabsKnow
<1>4. Core'
  BY CoreFrame DEF coreVars
<1> QED
  BY <1>1, <1>2, <1>3, <1>4

(* A lost socket is no agent's, and its row is there. *)
LEMMA AgentGoneStep ==
  ASSUME IInv, NEW a \in Agents, AgentGone(a)
  PROVE  IInv'
<1> USE DEF IInv, TypeOK, AgentGone, rowVars, keyVars, agentVars, tabVars, callVars, alarmVars, restartVars
<1>1. RowsOK' /\ KeysOK' /\ CallsOK' /\ AlarmOK'
  BY DEF RowsOK, KeysOK, CallsOK, AlarmOK
<1>2. AgentsOK'
  <2>1. Got(amid[a]) \in Machines \cup {nil}
    BY DEF AgentsOK, Got
  <2> QED
    BY <2>1 DEF AgentsOK
<1>3. TabsOK'
  BY DEF TabsOK, EndTabs, Shut
<1>4. CallsKnow' /\ TabsKnow'
  BY DEF CallsKnow, TabsKnow
<1>5. Core'
  <2> USE DEF Core
  <2>1. RowsAgree' /\ GotIsThere' /\ KnownIsThere' /\ Enrolled'
    BY GateIsOpen DEF RowsAgree, GotIsThere, KnownIsThere, Enrolled, AgentsOK, Got
  <2>2. \A b \in Agents, k \in Machines : Registered(b, k)' => Registered(b, k)
    BY DEF Registered, AgentsOK
  <2> QED
    BY <2>1, <2>2, Shrinks
<1> QED
  BY <1>1, <1>2, <1>3, <1>4, <1>5

(* A close event puts back a row that is there. *)
LEMMA ReapPutStep ==
  ASSUME IInv, NEW a \in Agents, ReapPut(a)
  PROVE  IInv'
<1> USE DEF IInv, TypeOK, ReapPut, rowVars, keyVars, agentVars, tabVars, callVars, alarmVars, restartVars
<1>1. RowsOK'
  <2>1. machineRow' = machineRow
    BY PutIsThere DEF Core, GotIsThere
  <2> QED
    BY <2>1 DEF RowsOK
<1>2. KeysOK' /\ AgentsOK' /\ TabsOK' /\ CallsOK' /\ AlarmOK'
  BY DEF KeysOK, AgentsOK, TabsOK, CallsOK, AlarmOK
<1>3. CallsKnow' /\ TabsKnow'
  BY DEF CallsKnow, TabsKnow
<1>4. Core'
  <2> USE DEF Core
  <2>0. machineRow' = machineRow
    BY PutIsThere DEF GotIsThere
  <2>1. RowsAgree' /\ GotIsThere' /\ KnownIsThere' /\ Enrolled'
    BY <2>0 DEF RowsAgree, GotIsThere, KnownIsThere, Enrolled, AgentsOK
  <2>2. \A b \in Agents, k \in Machines : Registered(b, k)' => Registered(b, k)
    BY DEF Registered
  <2>3. UNCHANGED <<born, machineRow, dpc>>
    BY <2>0
  <2> QED
    BY <2>1, <2>2, <2>3, Shrinks
<1> QED
  BY <1>1, <1>2, <1>3, <1>4

---------------------------------------------------------------------------
(* Browser sockets and the clock.                                           *)

(* An upgrade keeps it. *)
LEMMA TermUpgradeStep ==
  ASSUME IInv, NEW t \in Tabs, NEW sid \in Sids, NEW key \in Calls \cup {nil}, TermUpgrade(t, sid, key)
  PROVE  IInv'
<1> USE DEF IInv, TypeOK, TermUpgrade, rowVars, keyVars, agentVars, tabVars, callVars, alarmVars, restartVars
<1>1. RowsOK' /\ KeysOK' /\ AgentsOK' /\ CallsOK' /\ AlarmOK'
  BY DEF RowsOK, KeysOK, AgentsOK, CallsOK, AlarmOK
<1>2. TabsOK'
  BY DEF TabsOK, KeysOK
<1>3. CallsKnow'
  BY DEF CallsKnow
<1>4. TabsKnow'
  BY DEF TabsKnow, TabsOK
<1>5. Core'
  BY CoreFrame DEF coreVars
<1> QED
  BY <1>1, <1>2, <1>3, <1>4, <1>5

(* A refused upgrade keeps it. *)
LEMMA TermRefusedStep ==
  ASSUME IInv, NEW t \in Tabs, TermRefused(t)
  PROVE  IInv'
<1> USE DEF IInv, TypeOK, TermRefused, rowVars, keyVars, agentVars, tabVars, callVars, alarmVars, restartVars
<1>1. RowsOK' /\ KeysOK' /\ AgentsOK' /\ CallsOK' /\ AlarmOK'
  BY DEF RowsOK, KeysOK, AgentsOK, CallsOK, AlarmOK
<1>2. TabsOK'
  BY DEF TabsOK, PendRows
<1>3. CallsKnow'
  BY DEF CallsKnow
<1>4. TabsKnow'
  BY DEF TabsKnow, TabsOK
<1>5. Core'
  BY CoreFrame DEF coreVars
<1> QED
  BY <1>1, <1>2, <1>3, <1>4, <1>5

(* A claimed key names the machine of its row. *)
LEMMA TermClaimStep ==
  ASSUME IInv, NEW t \in Tabs, TermClaim(t)
  PROVE  IInv'
<1> USE DEF IInv, TypeOK, TermClaim, rowVars, keyVars, agentVars, tabVars, callVars, alarmVars, restartVars
<1>1. RowsOK' /\ AgentsOK' /\ CallsOK' /\ AlarmOK'
  BY DEF RowsOK, AgentsOK, CallsOK, AlarmOK
<1>2. KeysOK'
  BY DEF KeysOK, PendRows
<1>3. TabsOK'
  <2>1. tgot[t].mid \in Machines
    BY DEF TabsOK, PendRows, Valid
  <2> QED
    BY <2>1 DEF TabsOK, PendRows
<1>4. CallsKnow' /\ TabsKnow'
  BY DEF CallsKnow, TabsKnow
<1>5. Core'
  BY CoreFrame DEF coreVars
<1> QED
  BY <1>1, <1>2, <1>3, <1>4, <1>5

(* An attached browser keeps it. *)
LEMMA TermAttachStep ==
  ASSUME IInv, NEW t \in Tabs, TermAttach(t)
  PROVE  IInv'
<1> USE DEF IInv, TypeOK, TermAttach, rowVars, keyVars, agentVars, tabVars, callVars, alarmVars, restartVars
<1>1. RowsOK' /\ KeysOK' /\ TabsOK' /\ CallsOK' /\ AlarmOK'
  BY DEF RowsOK, KeysOK, TabsOK, CallsOK, AlarmOK
<1>2. AgentsOK'
  BY DEF AgentsOK, TabsKnow
<1>3. CallsKnow' /\ TabsKnow'
  BY DEF CallsKnow, TabsKnow
<1>4. Core'
  BY CoreFrame DEF coreVars
<1> QED
  BY <1>1, <1>2, <1>3, <1>4

(* A lost browser keeps it. *)
LEMMA TabGoneStep ==
  ASSUME IInv, NEW t \in Tabs, TabGone(t)
  PROVE  IInv'
<1> USE DEF IInv, TypeOK, TabGone, rowVars, keyVars, agentVars, tabVars, callVars, alarmVars, restartVars
<1>1. RowsOK' /\ KeysOK' /\ AgentsOK' /\ TabsOK' /\ CallsOK' /\ AlarmOK'
  BY DEF RowsOK, KeysOK, AgentsOK, TabsOK, CallsOK, AlarmOK
<1>2. CallsKnow' /\ TabsKnow'
  BY DEF CallsKnow, TabsKnow
<1>3. Core'
  BY CoreFrame DEF coreVars
<1> QED
  BY <1>1, <1>2, <1>3

(* The end of a key's time keeps it. *)
LEMMA ExpireStep ==
  ASSUME IInv, NEW key \in Calls, Expire(key)
  PROVE  IInv'
<1> USE DEF IInv, TypeOK, Expire, rowVars, keyVars, agentVars, tabVars, callVars, alarmVars, restartVars
<1>1. RowsOK' /\ KeysOK' /\ AgentsOK' /\ TabsOK' /\ CallsOK' /\ AlarmOK'
  BY DEF RowsOK, KeysOK, AgentsOK, TabsOK, CallsOK, AlarmOK
<1>2. CallsKnow' /\ TabsKnow'
  BY DEF CallsKnow, TabsKnow
<1>3. Core'
  BY CoreFrame DEF coreVars
<1> QED
  BY <1>1, <1>2, <1>3

(* Silence keeps it. *)
LEMMA SilentStep ==
  ASSUME IInv, NEW a \in Agents, Silent(a)
  PROVE  IInv'
<1> USE DEF IInv, TypeOK, Silent, rowVars, keyVars, agentVars, tabVars, callVars, alarmVars, restartVars
<1>1. RowsOK' /\ KeysOK' /\ AgentsOK' /\ TabsOK' /\ CallsOK' /\ AlarmOK'
  BY DEF RowsOK, KeysOK, AgentsOK, TabsOK, CallsOK, AlarmOK
<1>2. CallsKnow' /\ TabsKnow'
  BY DEF CallsKnow, TabsKnow
<1>3. Core'
  BY CoreFrame DEF coreVars
<1> QED
  BY <1>1, <1>2, <1>3

(* A heartbeat keeps it. *)
LEMMA HeartbeatStep ==
  ASSUME IInv, NEW a \in Agents, Heartbeat(a)
  PROVE  IInv'
<1> USE DEF IInv, TypeOK, Heartbeat, rowVars, keyVars, agentVars, tabVars, callVars, alarmVars, restartVars
<1>1. RowsOK' /\ KeysOK' /\ AgentsOK' /\ TabsOK' /\ CallsOK' /\ AlarmOK'
  BY DEF RowsOK, KeysOK, AgentsOK, TabsOK, CallsOK, AlarmOK
<1>2. CallsKnow' /\ TabsKnow'
  BY DEF CallsKnow, TabsKnow
<1>3. Core'
  BY CoreFrame DEF coreVars
<1> QED
  BY <1>1, <1>2, <1>3

---------------------------------------------------------------------------
(* The alarm and restarts.                                                  *)

(* An alarm that starts holds no row. *)
LEMMA AlarmFiresStep ==
  ASSUME IInv, AlarmFires
  PROVE  IInv'
<1> USE DEF IInv, TypeOK, AlarmFires, rowVars, keyVars, agentVars, tabVars, callVars, alarmVars, restartVars
<1>1. RowsOK' /\ AgentsOK' /\ TabsOK' /\ CallsOK' /\ AlarmOK'
  BY DEF RowsOK, AgentsOK, TabsOK, CallsOK, AlarmOK
<1>2. KeysOK'
  BY DEF KeysOK, PendRows
<1>3. CallsKnow' /\ TabsKnow'
  BY DEF CallsKnow, TabsKnow
<1>4. Core'
  <2> USE DEF Core
  <2>1. RowsAgree' /\ GotIsThere' /\ KnownIsThere' /\ Enrolled'
    BY GateIsOpen DEF RowsAgree, GotIsThere, KnownIsThere, Enrolled
  <2>2. \A b \in Agents, k \in Machines : Registered(b, k)' => Registered(b, k)
    BY DEF Registered
  <2> QED
    BY <2>1, <2>2, Shrinks
<1> QED
  BY <1>1, <1>2, <1>3, <1>4

(* A reaped socket is no agent's, and its row is there. *)
LEMMA AlarmReapsStep ==
  ASSUME IInv, NEW a \in Agents, AlarmReaps(a)
  PROVE  IInv'
<1> USE DEF IInv, TypeOK, AlarmReaps, rowVars, keyVars, agentVars, tabVars, callVars, alarmVars, restartVars
<1>1. RowsOK' /\ KeysOK' /\ CallsOK'
  BY DEF RowsOK, KeysOK, CallsOK
<1>2. AgentsOK'
  BY DEF AgentsOK, DropAgent, Shut
<1>3. TabsOK'
  BY DEF TabsOK, DropAgent, EndTabs, Shut
<1>4. AlarmOK'
  <2>1. Got(amid[a]) \in Machines \cup {nil}
    BY DEF AgentsOK, Got
  <2> QED
    BY <2>1 DEF AlarmOK
<1>5. CallsKnow' /\ TabsKnow'
  BY DEF CallsKnow, TabsKnow
<1>6. Core'
  <2> USE DEF Core
  <2>1. RowsAgree' /\ GotIsThere' /\ KnownIsThere' /\ Enrolled'
    BY DEF RowsAgree, GotIsThere, KnownIsThere, Enrolled, Got, DropAgent
  <2>2. \A b \in Agents, k \in Machines : Registered(b, k)' => Registered(b, k)
    BY DEF Registered, AgentsOK, DropAgent
  <2> QED
    BY <2>1, <2>2, Shrinks
<1> QED
  BY <1>1, <1>2, <1>3, <1>4, <1>5, <1>6

(* The alarm puts back a row that is there. *)
LEMMA AlarmTouchesStep ==
  ASSUME IInv, AlarmTouches
  PROVE  IInv'
<1> USE DEF IInv, TypeOK, AlarmTouches, rowVars, keyVars, agentVars, tabVars, callVars, alarmVars, restartVars
<1>1. RowsOK'
  <2>1. machineRow' = machineRow
    BY PutIsThere DEF Core, GotIsThere
  <2> QED
    BY <2>1 DEF RowsOK
<1>2. KeysOK' /\ AgentsOK' /\ TabsOK' /\ CallsOK' /\ AlarmOK'
  BY DEF KeysOK, AgentsOK, TabsOK, CallsOK, AlarmOK
<1>3. CallsKnow' /\ TabsKnow'
  BY DEF CallsKnow, TabsKnow
<1>4. Core'
  <2> USE DEF Core
  <2>0. machineRow' = machineRow
    BY PutIsThere DEF GotIsThere
  <2>1. RowsAgree' /\ GotIsThere' /\ KnownIsThere' /\ Enrolled'
    BY <2>0 DEF RowsAgree, GotIsThere, KnownIsThere, Enrolled
  <2>2. \A b \in Agents, k \in Machines : Registered(b, k)' => Registered(b, k)
    BY DEF Registered
  <2>3. UNCHANGED <<born, machineRow, dpc>>
    BY <2>0
  <2> QED
    BY <2>1, <2>2, <2>3, Shrinks
<1> QED
  BY <1>1, <1>2, <1>3, <1>4

(* The end of the alarm keeps it. *)
LEMMA AlarmEndsStep ==
  ASSUME IInv, AlarmEnds
  PROVE  IInv'
<1> USE DEF IInv, TypeOK, AlarmEnds, rowVars, keyVars, agentVars, tabVars, callVars, alarmVars, restartVars
<1>1. RowsOK' /\ KeysOK' /\ AgentsOK' /\ TabsOK' /\ CallsOK'
  BY DEF RowsOK, KeysOK, AgentsOK, TabsOK, CallsOK
<1>2. AlarmOK'
  BY DEF AlarmOK, Alive
<1>3. CallsKnow' /\ TabsKnow'
  BY DEF CallsKnow, TabsKnow
<1>4. Core'
  <2> USE DEF Core
  <2>1. RowsAgree' /\ GotIsThere' /\ KnownIsThere' /\ Enrolled'
    BY DEF RowsAgree, GotIsThere, KnownIsThere, Enrolled
  <2>2. \A b \in Agents, k \in Machines : Registered(b, k)' => Registered(b, k)
    BY DEF Registered, HelloLate
  <2> QED
    BY <2>1, <2>2, Shrinks
<1> QED
  BY <1>1, <1>2, <1>3, <1>4

(* After a restart no machine has a socket. *)
LEMMA RestartStep ==
  ASSUME IInv, Restart
  PROVE  IInv'
<1> USE DEF IInv, TypeOK, Restart, rowVars, keyVars, agentVars, tabVars, callVars, alarmVars, restartVars
<1>1. RowsOK' /\ KeysOK' /\ AgentsOK' /\ CallsOK'
  BY DEF RowsOK, KeysOK, AgentsOK, CallsOK
<1>2. TabsOK'
  BY DEF TabsOK, PendRows
<1>3. AlarmOK'
  <2>1. restarts' \in 0..MaxRestarts
    <3>1. restarts \in 0..MaxRestarts /\ restarts < MaxRestarts /\ restarts' = restarts + 1
      BY DEF AlarmOK
    <3> QED
      BY <3>1, FleetAssumption
  <2> QED
    BY <2>1 DEF AlarmOK
<1>4. CallsKnow' /\ TabsKnow'
  BY DEF CallsKnow, TabsKnow
<1>5. Core'
  <2> USE DEF Core
  <2>1. RowsAgree' /\ GotIsThere' /\ KnownIsThere' /\ Enrolled'
    BY DEF RowsAgree, GotIsThere, KnownIsThere, Enrolled
  <2>2. \A b \in Agents, k \in Machines : ~Registered(b, k)'
    BY DEF Registered, Listed
  <2> QED
    BY <2>1, <2>2 DEF OneAgentPerMachine, RevokedIsOffline, Offline, RowsOK
<1> QED
  BY <1>1, <1>2, <1>3, <1>4, <1>5

---------------------------------------------------------------------------
(* Every step keeps the invariant. *)
LEMMA NextIInv == IInv /\ [Next]_vars => IInv'
<1> SUFFICES ASSUME IInv, [Next]_vars PROVE IInv'
  OBVIOUS
<1>1. ASSUME NEW m \in Machines, Mint(m) \/ Delete(m) \/ DeleteDrop(m) PROVE IInv'
  BY <1>1, MintStep, DeleteStep, DeleteDropStep
<1>2. ASSUME NEW c \in Calls, CallStep(c) \/ Expire(c) PROVE IInv'
  BY <1>2, TermPutStep, TermArmStep, ExpireStep DEF CallStep
<1>3. ASSUME NEW c \in Calls, \/ \E m \in Machines : TermLookup(c, m)
                              \/ \E sid \in Sids : TermBody(c, sid)
      PROVE  IInv'
  BY <1>3, TermLookupStep, TermBodyStep
<1>4. ASSUME NEW a \in Agents,
             \/ AgentConnects(a) \/ AgentStep(a) \/ AgentGone(a) \/ Silent(a) \/ Heartbeat(a)
             \/ \E m \in Machines : Hello(a, m)
             \/ \E sid \in Sids : AgentEnds(a, sid)
      PROVE  IInv'
  BY <1>4, AgentConnectsStep, HelloStep, HelloRefusedStep, HelloLookupStep, HelloEnterStep,
     HelloGreetStep, AgentEndsStep, AgentGoneStep, ReapPutStep, SilentStep, HeartbeatStep DEF
     AgentStep
<1>5. ASSUME NEW t \in Tabs,
             \/ TabStep(t) \/ TabGone(t)
             \/ \E sid \in Sids, key \in Calls \cup {nil} : TermUpgrade(t, sid, key)
      PROVE  IInv'
  BY <1>5, TermUpgradeStep, TermRefusedStep, TermClaimStep, TermAttachStep, TabGoneStep DEF
     TabStep
<1>6. CASE AlarmFires \/ AlarmStep \/ Restart
  BY <1>6, AlarmFiresStep, AlarmReapsStep, AlarmTouchesStep, AlarmEndsStep, RestartStep DEF
     AlarmStep
<1>7. CASE UNCHANGED vars
  <2> USE <1>7 DEF vars, rowVars, keyVars, agentVars, tabVars, callVars, alarmVars, restartVars, IInv
  <2>1. RowsOK' /\ KeysOK'
    BY DEF TypeOK, RowsOK, KeysOK
  <2>2. AgentsOK' /\ TabsOK'
    BY DEF TypeOK, AgentsOK, TabsOK
  <2>3. CallsOK' /\ CallsKnow' /\ TabsKnow'
    BY DEF TypeOK, CallsOK, CallsKnow, TabsKnow
  <2>4. AlarmOK'
    BY DEF TypeOK, AlarmOK
  <2>5. Core'
    BY CoreFrame DEF coreVars
  <2> QED
    BY <2>1, <2>2, <2>3, <2>4, <2>5 DEF TypeOK
<1> QED
  BY <1>1, <1>2, <1>3, <1>4, <1>5, <1>6, <1>7 DEF Next

(* The invariant holds throughout. *)
LEMMA AlwaysIInv == Spec => []IInv
  BY InitIInv, NextIInv, PTL DEF Spec

(* Rows, attachments and the places of handlers keep their types. *)
THEOREM FleetTypeTheorem == Spec => []TypeOK
<1>1. IInv => TypeOK
  BY DEF IInv
<1> QED
  BY <1>1, AlwaysIInv, PTL

(* agentSocket never has a choice: a hello replaces the zombie in the step  *)
(* that enrolls its own socket, whatever reaps and alarms do meanwhile.     *)
THEOREM OneAgentPerMachineTheorem == Spec => []OneAgentPerMachine
<1>1. IInv => OneAgentPerMachine
  BY DEF IInv, Core
<1> QED
  BY <1>1, AlwaysIInv, PTL

(* Once DELETE has answered, the machine has no socket, although a hello    *)
(* with its token may have been anywhere in its lookups.                    *)
THEOREM RevokedIsOfflineTheorem == Spec => []RevokedIsOffline
<1>1. IInv => RevokedIsOffline
  BY DEF IInv, Core
<1> QED
  BY <1>1, AlwaysIInv, PTL

(* No hello, close event or alarm writes a deleted row back, as none holds  *)
(* one while a DELETE can be delivered.                                     *)
THEOREM RevokedStaysGoneTheorem == Spec => RevokedStaysGone
<1>1. ASSUME IInv, Next PROVE machineRow' \cap born \subseteq machineRow
  <2> USE DEF rowVars, keyVars, agentVars, tabVars, callVars, alarmVars, restartVars
  <2>1. ASSUME NEW m \in Machines, Mint(m) \/ Delete(m) \/ DeleteDrop(m)
        PROVE  machineRow' \cap born \subseteq machineRow
    BY <2>1 DEF Mint, Delete, DeleteDrop
  <2>2. ASSUME NEW a \in Agents, HelloGreet(a) \/ ReapPut(a) PROVE machineRow' = machineRow
    BY <1>1, <2>2, PutIsThere DEF HelloGreet, ReapPut, IInv, Core, GotIsThere
  <2>3. CASE AlarmTouches
    BY <1>1, <2>3, PutIsThere DEF AlarmTouches, IInv, Core, GotIsThere
  <2>4. ASSUME NEW c \in Calls, \/ CallStep(c) \/ Expire(c)
                                \/ \E m \in Machines : TermLookup(c, m)
                                \/ \E sid \in Sids : TermBody(c, sid)
        PROVE  machineRow' = machineRow
    BY <2>4 DEF CallStep, TermPut, TermArm, Expire, TermLookup, TermBody
  <2>5. ASSUME NEW a \in Agents,
               \/ AgentConnects(a) \/ AgentGone(a) \/ Silent(a) \/ Heartbeat(a)
               \/ HelloRefused(a) \/ HelloLookup(a) \/ HelloEnter(a)
               \/ \E m \in Machines : Hello(a, m)
               \/ \E sid \in Sids : AgentEnds(a, sid)
        PROVE  machineRow' = machineRow
    BY <2>5 DEF AgentConnects, AgentGone, Silent, Heartbeat, HelloRefused, HelloLookup,
       HelloEnter, Hello, AgentEnds
  <2>6. ASSUME NEW t \in Tabs,
               \/ TabStep(t) \/ TabGone(t)
               \/ \E sid \in Sids, key \in Calls \cup {nil} : TermUpgrade(t, sid, key)
        PROVE  machineRow' = machineRow
    BY <2>6 DEF TabStep, TermRefused, TermClaim, TermAttach, TabGone, TermUpgrade
  <2>7. CASE AlarmFires \/ (\E a \in Agents : AlarmReaps(a)) \/ AlarmEnds \/ Restart
    BY <2>7 DEF AlarmFires, AlarmReaps, AlarmEnds, Restart
  <2> QED
    BY <1>1, <2>1, <2>2, <2>3, <2>4, <2>5, <2>6, <2>7 DEF Next, AgentStep, AlarmStep
<1>2. IInv /\ [Next]_vars => [machineRow' \cap born \subseteq machineRow]_vars
  BY <1>1
<1> QED
  BY <1>2, AlwaysIInv, PTL DEF Spec, RevokedStaysGone

---------------------------------------------------------------------------
(* Shells and the sockets they belong to.                                   *)

\* What an agent was told to open it was told on the socket that enrolled.
RunsKnown == \A a \in Agents : runs[a] # {} => Listed(alink[a]) /\ apc[a] \in {"entered", "done"}

\* A browser socket is accepted when its upgrade is through.
OpenIsDone == \A t \in Tabs : tlink[t] # "none" => tpc[t] = "done"

\* An enrolled socket is a machine's.
Someones == \A a \in Agents : akind[a] = "agent" /\ Listed(alink[a]) => amid[a] \in Machines

ShellInv == RunsKnown /\ OpenIsDone /\ Someones /\ NoOrphanShell

socketVars == <<alink, akind, amid, apc, runs, tlink, tpc, tsid, tmid>>

(* The rows, the keys, the calls and the clock say nothing of sockets. *)
LEMMA ShellFrame == ShellInv /\ UNCHANGED socketVars => ShellInv'
  BY DEF ShellInv, RunsKnown, OpenIsDone, Someones, NoOrphanShell, Listed, socketVars

(* A socket that is dropped takes the browsers of its machine with it, and  *)
(* as it was the only one, nobody else's.                                   *)
LEMMA DropKeepsShells ==
  ASSUME IInv, ShellInv, NEW a \in Agents, akind[a] = "agent", Listed(alink[a]),
         tlink' = EndTabs(amid[a]), UNCHANGED <<amid, apc, tpc, tsid, tmid>>,
         akind' = [akind EXCEPT ![a] = "replaced"],
         \/ alink' = [alink EXCEPT ![a] = Shut(@)] /\ UNCHANGED runs
         \/ alink' = [alink EXCEPT ![a] = "gone"] /\ runs' = [runs EXCEPT ![a] = {}]
  PROVE  ShellInv'
<1> USE DEF IInv, TypeOK, AgentsOK, TabsOK, ShellInv
<1>1. RunsKnown' BY DEF RunsKnown, Listed, Shut
<1>2. OpenIsDone' BY DEF OpenIsDone, EndTabs, Shut
<1>3. Someones' BY DEF Someones, Listed, Shut
<1>4. NoOrphanShell'
  <2> SUFFICES ASSUME NEW b \in Agents, NEW sid \in runs'[b], akind'[b] = "agent"
               PROVE  \E t \in Tabs : tsid'[t] = sid /\ tmid'[t] = amid'[b] /\ tlink'[t] = "open"
    BY DEF NoOrphanShell
  <2>1. b # a /\ akind[b] = "agent" /\ sid \in runs[b] OBVIOUS
  <2>2. amid[b] # amid[a]
    BY <2>1 DEF RunsKnown, Someones, OneAgentPerMachine, Registered, Core
  <2>3. PICK t \in Tabs : tsid[t] = sid /\ tmid[t] = amid[b] /\ tlink[t] = "open"
    BY <2>1 DEF NoOrphanShell
  <2> QED BY <2>2, <2>3 DEF EndTabs
<1> QED BY <1>1, <1>2, <1>3, <1>4

(* Every step keeps shells and browsers together. *)
LEMMA ShellPreserved == ASSUME IInv, ShellInv, [Next]_vars PROVE ShellInv'
<1> USE DEF IInv, TypeOK, rowVars, keyVars, agentVars, tabVars, callVars, alarmVars, restartVars
<1>1. ASSUME NEW m \in Machines, Mint(m) \/ Delete(m) PROVE ShellInv'
  BY <1>1, ShellFrame DEF Mint, Delete, socketVars
<1>2. ASSUME NEW c \in Calls, \/ CallStep(c) \/ Expire(c)
                              \/ \E m \in Machines : TermLookup(c, m)
                              \/ \E sid \in Sids : TermBody(c, sid)
      PROVE  ShellInv'
  BY <1>2, ShellFrame DEF CallStep, TermPut, TermArm, Expire, TermLookup, TermBody, socketVars
<1>3. ASSUME NEW a \in Agents, Silent(a) \/ Heartbeat(a) PROVE ShellInv'
  BY <1>3, ShellFrame DEF Silent, Heartbeat, socketVars
<1>4. CASE AlarmFires \/ AlarmTouches \/ UNCHANGED vars
  BY <1>4, ShellFrame DEF AlarmFires, AlarmTouches, vars, socketVars
<1>5. ASSUME NEW m \in Machines, DeleteDrop(m) PROVE ShellInv'
  <2>1. CASE UNCHANGED <<alink, akind, tlink>>
    BY <1>5, <2>1, ShellFrame DEF DeleteDrop, socketVars
  <2>2. CASE \E a \in Agents : Registered(a, m) /\ DropAgent(a)
    BY <1>5, <2>2, DropKeepsShells DEF DeleteDrop, DropAgent, Registered
  <2> QED BY <1>5, <2>1, <2>2 DEF DeleteDrop
<1>6. ASSUME NEW a \in Agents, AlarmReaps(a) PROVE ShellInv'
  BY <1>6, DropKeepsShells DEF AlarmReaps, Dead, DropAgent
<1>7. ASSUME NEW a \in Agents, \/ AgentConnects(a) \/ HelloRefused(a) \/ HelloLookup(a)
                               \/ HelloGreet(a) \/ ReapPut(a)
                               \/ \E m \in Machines : Hello(a, m)
      PROVE  ShellInv'
  <2> USE <1>7 DEF AgentConnects, HelloRefused, HelloLookup, HelloGreet, ReapPut, Hello, AgentsOK
  <2>1. UNCHANGED <<runs, tlink, tpc, tsid, tmid>> OBVIOUS
  <2>2. RunsKnown' BY <2>1 DEF ShellInv, RunsKnown, Listed, Shut
  <2>3. OpenIsDone' BY <2>1 DEF ShellInv, OpenIsDone
  <2>4. Someones' BY DEF ShellInv, Someones, Listed, Shut, Core, Enrolled
  <2>5. \A b \in Agents : akind'[b] = "agent" => akind[b] = "agent" /\ amid'[b] = amid[b]
    BY DEF Core, Enrolled
  <2>6. NoOrphanShell' BY <2>1, <2>5 DEF ShellInv, NoOrphanShell
  <2> QED BY <2>2, <2>3, <2>4, <2>6 DEF ShellInv
<1>8. ASSUME NEW a \in Agents, HelloEnter(a) PROVE ShellInv'
  <2> USE <1>8 DEF HelloEnter, AgentsOK, TabsOK
  <2>1. RunsKnown' BY DEF ShellInv, RunsKnown, Listed, Registered
  <2>2. OpenIsDone' BY DEF ShellInv, OpenIsDone, EndTabs, Shut
  <2>3. amid[a] \in Machines BY DEF Core, KnownIsThere, RowsOK
  <2>4. Someones' BY <2>3 DEF ShellInv, Someones, Listed, Registered
  <2>5. NoOrphanShell'
    <3> SUFFICES ASSUME NEW b \in Agents, NEW sid \in runs'[b], akind'[b] = "agent"
                 PROVE  \E t \in Tabs : tsid'[t] = sid /\ tmid'[t] = amid'[b] /\ tlink'[t] = "open"
      BY DEF NoOrphanShell
    <3>1. runs[a] = {} BY DEF ShellInv, RunsKnown
    <3>2. sid \in runs[b] /\ b # a /\ akind[b] = "agent" /\ amid[b] # amid[a]
      BY <3>1 DEF ShellInv, RunsKnown, Registered
    <3>3. PICK t \in Tabs : tsid[t] = sid /\ tmid[t] = amid[b] /\ tlink[t] = "open"
      BY <3>2 DEF ShellInv, NoOrphanShell
    <3> QED BY <3>2, <3>3 DEF EndTabs
  <2> QED BY <2>1, <2>2, <2>4, <2>5 DEF ShellInv
<1>9. ASSUME NEW a \in Agents, NEW sid \in Sids, AgentEnds(a, sid) PROVE ShellInv'
  <2> USE <1>9 DEF AgentEnds, AgentsOK, TabsOK
  <2>1. RunsKnown' BY DEF ShellInv, RunsKnown
  <2>2. OpenIsDone' BY DEF ShellInv, OpenIsDone, Shut
  <2>3. Someones' BY DEF ShellInv, Someones
  <2>4. NoOrphanShell'
    <3> SUFFICES ASSUME NEW b \in Agents, NEW s \in runs'[b], akind'[b] = "agent"
                 PROVE  \E t \in Tabs : tsid'[t] = s /\ tmid'[t] = amid'[b] /\ tlink'[t] = "open"
      BY DEF NoOrphanShell
    <3>1. s \in runs[b] /\ (b = a => s # sid) OBVIOUS
    <3>2. amid[b] = amid[a] => b = a
      BY <3>1 DEF ShellInv, RunsKnown, Someones, Core, OneAgentPerMachine, Registered, Listed
    <3>3. PICK t \in Tabs : tsid[t] = s /\ tmid[t] = amid[b] /\ tlink[t] = "open"
      BY <3>1 DEF ShellInv, NoOrphanShell
    <3> QED BY <3>1, <3>2, <3>3 DEF OwnTab
  <2> QED BY <2>1, <2>2, <2>3, <2>4 DEF ShellInv
<1>10. ASSUME NEW a \in Agents, AgentGone(a) PROVE ShellInv'
  <2>1. CASE akind[a] = "agent"
    <3>1. apc[a] # "digest" /\ apc[a] # "known" /\ apc[a] # "entered" BY <1>10, <2>1, GateIsOpen DEF AgentGone, Core, Enrolled
    <3> USE <1>10, <2>1, <3>1 DEF AgentGone, AgentsOK, TabsOK
    <3>2. RunsKnown' BY DEF ShellInv, RunsKnown, Listed
    <3>3. OpenIsDone' BY DEF ShellInv, OpenIsDone, EndTabs, Shut
    <3>4. Someones' BY DEF ShellInv, Someones, Listed
    <3>5. NoOrphanShell'
      <4> SUFFICES ASSUME NEW b \in Agents, NEW s \in runs'[b], akind'[b] = "agent"
                   PROVE  \E t \in Tabs : tsid'[t] = s /\ tmid'[t] = amid'[b] /\ tlink'[t] = "open"
        BY DEF NoOrphanShell
      <4>1. s \in runs[b] /\ b # a /\ amid'[b] = amid[b] /\ akind[b] = "agent" OBVIOUS
      <4>2. amid[b] # amid[a]
        BY <4>1 DEF ShellInv, RunsKnown, Someones, Core, OneAgentPerMachine, Registered
      <4>3. PICK t \in Tabs : tsid[t] = s /\ tmid[t] = amid[b] /\ tlink[t] = "open"
        BY <4>1 DEF ShellInv, NoOrphanShell
      <4> QED BY <4>1, <4>2, <4>3 DEF EndTabs
    <3> QED BY <3>2, <3>3, <3>4, <3>5 DEF ShellInv
  <2>2. CASE akind[a] # "agent"
    <3> USE <1>10, <2>2 DEF AgentGone, AgentsOK
    <3>1. RunsKnown' BY DEF ShellInv, RunsKnown, Listed
    <3>2. OpenIsDone' BY DEF ShellInv, OpenIsDone
    <3>3. Someones' BY DEF ShellInv, Someones, Listed
    <3>4. NoOrphanShell' BY DEF ShellInv, NoOrphanShell
    <3> QED BY <3>1, <3>2, <3>3, <3>4 DEF ShellInv
  <2> QED BY <2>1, <2>2
<1>11. ASSUME NEW t \in Tabs, \/ TermRefused(t) \/ TermClaim(t)
                              \/ \E sid \in Sids, key \in Calls \cup {nil} : TermUpgrade(t, sid, key)
       PROVE  ShellInv'
  <2> USE <1>11 DEF TermRefused, TermClaim, TermUpgrade, TabsOK
  <2>1. UNCHANGED <<alink, akind, amid, apc, runs, tlink>> OBVIOUS
  <2>2. tlink[t] = "none" BY DEF ShellInv, OpenIsDone
  <2>3. OpenIsDone' BY <2>1, <2>2 DEF ShellInv, OpenIsDone
  <2>4. RunsKnown' /\ Someones' BY <2>1 DEF ShellInv, RunsKnown, Someones
  <2>5. NoOrphanShell' BY <2>1, <2>2 DEF ShellInv, NoOrphanShell
  <2> QED BY <2>3, <2>4, <2>5 DEF ShellInv
<1>12. ASSUME NEW t \in Tabs, TermAttach(t) PROVE ShellInv'
  <2> USE <1>12 DEF TermAttach, TabsOK, AgentsOK
  <2>1. UNCHANGED <<alink, akind, amid, apc, tsid, tmid>> /\ tlink[t] = "none"
    BY DEF ShellInv, OpenIsDone
  <2>2. OpenIsDone' BY DEF ShellInv, OpenIsDone
  <2>3. RunsKnown' BY DEF ShellInv, RunsKnown, Registered, Listed, Core, Enrolled
  <2>4. Someones' BY <2>1 DEF ShellInv, Someones
  <2>5. NoOrphanShell'
    <3> SUFFICES ASSUME NEW b \in Agents, NEW s \in runs'[b], akind'[b] = "agent"
                 PROVE  \E u \in Tabs : tsid'[u] = s /\ tmid'[u] = amid'[b] /\ tlink'[u] = "open"
      BY DEF NoOrphanShell
    <3>1. CASE s \in runs[b]
      BY <2>1, <3>1 DEF ShellInv, NoOrphanShell
    <3>2. CASE s \notin runs[b]
      <4>1. Registered(b, tmid[t]) /\ tlink' = [tlink EXCEPT ![t] = "open"] /\ s = tsid[t]
        BY <3>2
      <4> QED BY <2>1, <4>1 DEF Registered
    <3> QED BY <3>1, <3>2
  <2> QED BY <2>2, <2>3, <2>4, <2>5 DEF ShellInv
<1>13. ASSUME NEW t \in Tabs, TabGone(t) PROVE ShellInv'
  <2> USE <1>13 DEF TabGone, TabsOK, AgentsOK
  <2>1. OpenIsDone' BY DEF ShellInv, OpenIsDone, Listed
  <2>2. RunsKnown' BY DEF ShellInv, RunsKnown
  <2>3. Someones' BY DEF ShellInv, Someones
  <2>4. NoOrphanShell'
    <3> SUFFICES ASSUME NEW b \in Agents, NEW s \in runs'[b], akind'[b] = "agent"
                 PROVE  \E u \in Tabs : tsid'[u] = s /\ tmid'[u] = amid'[b] /\ tlink'[u] = "open"
      BY DEF NoOrphanShell
    <3>1. s \in runs[b] OBVIOUS
    <3>2. PICK u \in Tabs : tsid[u] = s /\ tmid[u] = amid[b] /\ tlink[u] = "open"
      BY <3>1 DEF ShellInv, NoOrphanShell
    <3>3. u # t
      BY <3>1, <3>2 DEF Registered, ShellInv, RunsKnown
    <3> QED BY <3>2, <3>3
  <2> QED BY <2>1, <2>2, <2>3, <2>4 DEF ShellInv
<1>14. CASE AlarmEnds
  <2> USE <1>14 DEF AlarmEnds, AgentsOK
  <2>1. RunsKnown' BY DEF ShellInv, RunsKnown, Listed
  <2>2. OpenIsDone' BY DEF ShellInv, OpenIsDone
  <2>3. Someones' BY DEF ShellInv, Someones, HelloLate
  <2>4. NoOrphanShell' BY DEF ShellInv, NoOrphanShell
  <2> QED BY <2>1, <2>2, <2>3, <2>4 DEF ShellInv
<1>15. CASE Restart
  <2> USE <1>15 DEF Restart, AgentsOK, TabsOK
  <2>1. RunsKnown' /\ NoOrphanShell' BY DEF RunsKnown, NoOrphanShell
  <2>2. OpenIsDone' BY DEF ShellInv, OpenIsDone, Listed
  <2>3. Someones' BY DEF Someones, Listed
  <2> QED BY <2>1, <2>2, <2>3 DEF ShellInv
<1> QED
  BY <1>1, <1>2, <1>3, <1>4, <1>5, <1>6, <1>7, <1>8, <1>9, <1>10, <1>11, <1>12, <1>13, <1>14, <1>15
  DEF Next, AgentStep, TabStep, AlarmStep

---------------------------------------------------------------------------
(* The alarm.                                                               *)

\* The two halves of AlarmIsArmed.
SocketsWatched ==
    ~alarm /\ lpc = "idle" =>
        \A a \in Agents : /\ alink[a] = "open" => akind[a] = "replaced" \/ apc[a] = "entered"
                          /\ Listed(alink[a]) => akind[a] # "agent" \/ apc[a] = "entered"

KeysWatched ==
    ~alarm /\ lpc = "idle" =>
        \A sid \in Sids : pend[sid] # nil => cut \/ \E c \in Calls : cpc[c] = "stored"

\* An alarm that runs knows of every key that is left: none is put meanwhile.
LiveIsKept == lpc # "idle" => \A sid \in Sids : pend[sid] # nil => llive

\* A socket has its attachment from the step that accepts it.
Attached == \A a \in Agents : Listed(alink[a]) => akind[a] # "none"

AlarmInv == SocketsWatched /\ KeysWatched /\ LiveIsKept /\ Attached

(* Where no socket is accepted, enrolled or tagged and no handler leaves    *)
(* HelloEnter behind, sockets stay watched.                                 *)
LEMMA WatchedSockets ==
  ASSUME SocketsWatched, Attached, ~alarm' /\ lpc' = "idle" => ~alarm /\ lpc = "idle",
         \A a \in Agents :
            /\ Listed(alink'[a]) => Listed(alink[a]) /\ (alink'[a] = "open" => alink[a] = "open")
            /\ akind'[a] \in {akind[a], "replaced"}
            /\ apc[a] = "entered" => apc'[a] = "entered"
  PROVE  SocketsWatched' /\ Attached'
<1>1. SocketsWatched' BY DEF SocketsWatched, Listed
<1>2. Attached' BY DEF Attached
<1> QED BY <1>1, <1>2

(* Where no key is put and no handler is cut off behind its put, keys stay  *)
(* watched.                                                                 *)
LEMMA WatchedKeys ==
  ASSUME KeysWatched, LiveIsKept, ~alarm' /\ lpc' = "idle" => ~alarm /\ lpc = "idle",
         \A sid \in Sids : pend'[sid] # nil => pend[sid] # nil,
         cut \/ (\E c \in Calls : cpc[c] = "stored") => cut' \/ \E c \in Calls : cpc'[c] = "stored",
         lpc' = "idle" \/ (lpc # "idle" /\ llive' = llive)
  PROVE  KeysWatched' /\ LiveIsKept'
<1>1. KeysWatched' BY DEF KeysWatched
<1>2. LiveIsKept' BY DEF LiveIsKept
<1> QED BY <1>1, <1>2

(* Every step keeps the alarm armed where it is needed. *)
LEMMA AlarmPreserved == ASSUME IInv, AlarmInv, [Next]_vars PROVE AlarmInv'
<1> USE DEF IInv, TypeOK, AlarmInv, rowVars, keyVars, agentVars, tabVars, callVars, alarmVars, restartVars
<1>1. ASSUME NEW m \in Machines, Mint(m) \/ Delete(m) \/ DeleteDrop(m) PROVE AlarmInv'
  <2> USE <1>1 DEF Mint, Delete, DeleteDrop, DropAgent, AgentsOK
  <2>1. UNCHANGED <<pend, alarm, lpc, llive, cpc, cut, apc>> OBVIOUS
  <2>2. SocketsWatched' /\ Attached' BY <2>1, WatchedSockets DEF Shut, Listed
  <2>3. KeysWatched' /\ LiveIsKept' BY <2>1, WatchedKeys
  <2> QED BY <2>2, <2>3
<1>2. ASSUME NEW c \in Calls, \/ TermArm(c) \/ Expire(c)
                              \/ \E m \in Machines : TermLookup(c, m)
                              \/ \E sid \in Sids : TermBody(c, sid)
      PROVE  AlarmInv'
  <2> USE <1>2 DEF TermArm, Expire, TermLookup, TermBody, CallsOK
  <2>1. UNCHANGED <<alink, akind, apc, pend, lpc, llive, cut>> /\ (~alarm' => ~alarm) OBVIOUS
  <2>2. SocketsWatched' /\ Attached' BY <2>1, WatchedSockets
  <2>3. KeysWatched' /\ LiveIsKept' BY <2>1, WatchedKeys DEF KeysWatched, LiveIsKept
  <2> QED BY <2>2, <2>3
<1>3. ASSUME NEW c \in Calls, TermPut(c) PROVE AlarmInv'
  <2> USE <1>3 DEF TermPut, CallsOK
  <2>1. SocketsWatched' /\ Attached' BY WatchedSockets
  <2>2. lpc = "idle" /\ cpc'[c] = "stored" BY DEF Digested, Storing
  <2>3. KeysWatched' /\ LiveIsKept' BY <2>2 DEF KeysWatched, LiveIsKept
  <2> QED BY <2>1, <2>3
<1>4. ASSUME NEW a \in Agents, AgentConnects(a) \/ HelloGreet(a) PROVE AlarmInv'
  <2> USE <1>4 DEF AgentConnects, HelloGreet, AgentsOK
  <2>1. SocketsWatched' /\ KeysWatched' BY DEF SocketsWatched, KeysWatched
  <2>2. Attached' BY DEF Attached
  <2>3. LiveIsKept' BY DEF LiveIsKept
  <2> QED BY <2>1, <2>2, <2>3
<1>5. ASSUME NEW a \in Agents, HelloEnter(a) PROVE AlarmInv'
  <2> USE <1>5 DEF HelloEnter, AgentsOK
  <2>1. SocketsWatched' BY DEF SocketsWatched, Registered, Listed
  <2>2. Attached' BY DEF Attached, Registered, Listed
  <2>3. KeysWatched' /\ LiveIsKept' BY WatchedKeys
  <2> QED BY <2>1, <2>2, <2>3
<1>6. ASSUME NEW a \in Agents,
             \/ HelloRefused(a) \/ HelloLookup(a) \/ ReapPut(a)
             \/ Silent(a) \/ Heartbeat(a)
             \/ \E m \in Machines : Hello(a, m)
             \/ \E sid \in Sids : AgentEnds(a, sid)
      PROVE  AlarmInv'
  <2> USE <1>6 DEF HelloRefused, HelloLookup, ReapPut, Silent, Heartbeat, Hello, AgentEnds, AgentsOK
  <2>1. UNCHANGED <<akind, pend, alarm, lpc, llive, cpc, cut>> OBVIOUS
  <2>2. SocketsWatched' /\ Attached' BY <2>1, WatchedSockets DEF Shut, Listed
  <2>3. KeysWatched' /\ LiveIsKept' BY <2>1, WatchedKeys
  <2> QED BY <2>2, <2>3
<1>7. ASSUME NEW a \in Agents, AgentGone(a) PROVE AlarmInv'
  <2> USE <1>7 DEF AgentGone, AgentsOK
  <2>1. apc[a] # "entered" BY GateIsOpen
  <2>2. SocketsWatched' /\ Attached' BY <2>1, WatchedSockets DEF Listed
  <2>3. KeysWatched' /\ LiveIsKept' BY WatchedKeys
  <2> QED BY <2>2, <2>3
<1>8. ASSUME NEW t \in Tabs,
             \/ TabStep(t) \/ TabGone(t)
             \/ \E sid \in Sids, key \in Calls \cup {nil} : TermUpgrade(t, sid, key)
      PROVE  AlarmInv'
  <2> USE <1>8 DEF TabStep, TermRefused, TermClaim, TermAttach, TabGone, TermUpgrade
  <2>1. UNCHANGED <<alink, akind, apc, alarm, lpc, llive, cpc, cut>> OBVIOUS
  <2>2. \A sid \in Sids : pend'[sid] # nil => pend[sid] # nil BY DEF KeysOK
  <2>3. SocketsWatched' /\ Attached' BY <2>1, WatchedSockets
  <2>4. KeysWatched' /\ LiveIsKept' BY <2>1, <2>2, WatchedKeys
  <2> QED BY <2>3, <2>4
<1>9. CASE AlarmFires
  <2> USE <1>9 DEF AlarmFires
  <2>1. SocketsWatched' /\ KeysWatched' BY DEF SocketsWatched, KeysWatched
  <2>2. Attached' BY DEF Attached
  <2>3. LiveIsKept' BY DEF LiveIsKept
  <2> QED BY <2>1, <2>2, <2>3
<1>10. ASSUME NEW a \in Agents, AlarmReaps(a) PROVE AlarmInv'
  <2> USE <1>10 DEF AlarmReaps, DropAgent, AgentsOK
  <2>1. SocketsWatched' /\ Attached' BY WatchedSockets DEF Shut, Listed
  <2>2. KeysWatched' /\ LiveIsKept' BY WatchedKeys
  <2> QED BY <2>1, <2>2
<1>11. CASE AlarmTouches
  <2> USE <1>11 DEF AlarmTouches
  <2>1. SocketsWatched' /\ Attached' BY WatchedSockets
  <2>2. KeysWatched' /\ LiveIsKept' BY WatchedKeys
  <2> QED BY <2>1, <2>2
<1>12. CASE AlarmEnds
  <2> USE <1>12 DEF AlarmEnds, AgentsOK
  <2>1. SocketsWatched'
    <3> SUFFICES ASSUME ~Alive, NEW a \in Agents, Listed(alink'[a])
                 PROVE  akind[a] # "agent" /\ (alink'[a] = "open" => akind[a] = "replaced")
      BY DEF SocketsWatched, Listed
    <3>1. Listed(alink[a]) BY DEF HelloLate, Listed
    <3>2. akind[a] # "agent" /\ (akind[a] = "pending" => a \in overdue) BY <3>1 DEF Alive
    <3>3. alink'[a] = "open" => akind[a] # "pending" BY <3>1, <3>2 DEF HelloLate
    <3> QED BY <3>1, <3>2, <3>3 DEF Attached
  <2>2. Attached' BY DEF Attached, HelloLate, Listed
  <2>3. KeysWatched' /\ LiveIsKept' BY DEF KeysWatched, LiveIsKept, Alive
  <2> QED BY <2>1, <2>2, <2>3
<1>13. CASE Restart
  <2>1. SocketsWatched' /\ Attached' BY <1>13 DEF Restart, SocketsWatched, Attached, Listed
  <2>2. \A c \in Calls : cpc[c] = "stored" => cut' BY <1>13 DEF Restart
  <2>3. KeysWatched' BY <1>13, <2>2 DEF Restart, KeysWatched
  <2>4. LiveIsKept' BY <1>13 DEF Restart, LiveIsKept
  <2> QED BY <2>1, <2>3, <2>4
<1>14. CASE UNCHANGED vars
  <2> USE <1>14 DEF vars
  <2>1. SocketsWatched' /\ Attached' BY WatchedSockets
  <2>2. KeysWatched' /\ LiveIsKept' BY DEF KeysWatched, LiveIsKept
  <2> QED BY <2>1, <2>2
<1> QED
  BY <1>1, <1>2, <1>3, <1>4, <1>5, <1>6, <1>7, <1>8, <1>9, <1>10, <1>11, <1>12, <1>13, <1>14
  DEF Next, AgentStep, CallStep, AlarmStep

---------------------------------------------------------------------------
(* Keys and the upgrades that claim them.  These hold where no event is     *)
(* delivered during a digest.                                               *)

\* The call of key c has stored it.
Kept(c) == cpc[c] \in {"stored", "done", "unanswered"}

\* A row holds the key of a call that named its sid.
KeysNamed == \A sid \in Sids : pend[sid] # nil => csid[pend[sid].key] = sid /\ Kept(pend[sid].key)

\* Only stored keys run out.
ExpiredWasKept == \A c \in expired : Kept(c)

\* An upgrade has a machine from its claim on.
Claimed(t) == tmid[t] # nil

ClaimsKnow ==
    \A t \in Tabs : IF tpc[t] \in {"claimed", "done"}
                    THEN tmid[t] \in Machines /\ tsid[t] \in Sids ELSE tmid[t] = nil

\* Two upgrades do not claim one sid, and a claimed sid has no key.
OneHolder == \A t, u \in Tabs : Claimed(t) /\ Claimed(u) /\ tsid[t] = tsid[u] => t = u

KeyOrHolder == \A t \in Tabs : Claimed(t) => pend[tsid[t]] = nil /\ Stored(tsid[t])

\* A body being digested names a new sid, or one whose key is there, unexpired.
BodiesFresh ==
    \A c \in Calls : cpc[c] = "digest" =>
        /\ csid[c] \in Sids
        /\ \A t \in Tabs : Claimed(t) => tsid[t] # csid[c]
        /\ ~Stored(csid[c]) \/ (pend[csid[c]] # nil /\ pend[csid[c]].key \notin expired)

\* The row an upgrade has read is the row that is there.
GotIsRow == \A t \in Tabs : IF tpc[t] = "digest" THEN tgot[t] = pend[tsid[t]] ELSE tgot[t] = nil

\* Bodies and upgrades are not digested at the same time.
Alone == \A c \in Calls, t \in Tabs : ~(cpc[c] = "digest" /\ tpc[t] = "digest")

KeyInv ==
    /\ KeysNamed /\ ExpiredWasKept /\ ClaimsKnow /\ OneHolder /\ KeyOrHolder
    /\ BodiesFresh /\ GotIsRow /\ Alone

(* With the gate open and digests inside it, none is under way; one that    *)
(* comes back is the only one.                                              *)
LEMMA DigestsAlone ==
  ASSUME DigestYields = FALSE
  PROVE  /\ Gate => /\ \A c \in Calls : cpc[c] # "digest"
                    /\ \A t \in Tabs : tpc[t] # "digest"
         /\ \A h : Digested(h) => /\ \A c \in Calls : cpc[c] = "digest" => c = h
                                  /\ \A t \in Tabs : tpc[t] = "digest" => t = h
  BY DEF Gate, Digested, Digesting

keyingVars == <<pend, expired, cpc, csid, tpc, tsid, tmid, tgot>>

(* The invariant about keys depends on keys, calls and upgrades only. *)
LEMMA KeyFrame == KeyInv /\ UNCHANGED keyingVars => KeyInv'
<1> SUFFICES ASSUME KeyInv, UNCHANGED keyingVars PROVE KeyInv'
  OBVIOUS
<1> USE DEF KeyInv, keyingVars, Kept, Claimed, Stored
<1>1. KeysNamed' /\ ExpiredWasKept' BY DEF KeysNamed, ExpiredWasKept
<1>2. ClaimsKnow' /\ OneHolder' /\ KeyOrHolder' BY DEF ClaimsKnow, OneHolder, KeyOrHolder
<1>3. BodiesFresh' BY DEF BodiesFresh
<1>4. GotIsRow' /\ Alone' BY DEF GotIsRow, Alone
<1> QED BY <1>1, <1>2, <1>3, <1>4

(* Every step keeps keys and claims apart. *)
LEMMA KeyPreserved ==
  ASSUME DigestYields = FALSE, IInv, KeyInv, [Next]_vars
  PROVE  KeyInv'
<1> USE DEF IInv, TypeOK, rowVars, keyVars, agentVars, tabVars, callVars, alarmVars, restartVars
<1>1. ASSUME NEW m \in Machines, Mint(m) \/ Delete(m) \/ DeleteDrop(m) PROVE KeyInv'
  BY <1>1, KeyFrame DEF Mint, Delete, DeleteDrop, keyingVars
<1>2. ASSUME NEW a \in Agents,
             \/ AgentConnects(a) \/ AgentStep(a) \/ AgentGone(a) \/ Silent(a) \/ Heartbeat(a)
             \/ \E m \in Machines : Hello(a, m)
             \/ \E sid \in Sids : AgentEnds(a, sid)
      PROVE  KeyInv'
  BY <1>2, KeyFrame DEF AgentConnects, AgentStep, HelloRefused, HelloLookup, HelloEnter, HelloGreet,
     ReapPut, AgentGone, Silent, Heartbeat, Hello, AgentEnds, keyingVars
<1>3. ASSUME NEW t \in Tabs, TabGone(t) PROVE KeyInv'
  BY <1>3, KeyFrame DEF TabGone, keyingVars
<1>4. CASE AlarmStep \/ UNCHANGED vars
  BY <1>4, KeyFrame DEF AlarmStep, AlarmReaps, AlarmTouches, AlarmEnds, vars, keyingVars
<1>5. ASSUME NEW c \in Calls, TermArm(c) \/ \E m \in Machines : TermLookup(c, m) PROVE KeyInv'
  <2> USE <1>5 DEF TermArm, TermLookup, CallsOK, KeyInv
  <2>1. UNCHANGED <<pend, expired, csid, tpc, tsid, tmid, tgot>> OBVIOUS
  <2>2. \A d \in Calls : Kept(d)' = Kept(d) /\ (cpc'[d] = "digest" => cpc[d] = "digest") BY DEF Kept
  <2>3. \A sid \in Sids : Stored(sid)' = Stored(sid) BY <2>1, <2>2 DEF Stored, Kept
  <2>4. KeysNamed' /\ ExpiredWasKept' BY <2>1, <2>2 DEF KeysNamed, ExpiredWasKept, KeysOK, PendRows
  <2>5. ClaimsKnow' /\ OneHolder' /\ KeyOrHolder'
    BY <2>1, <2>3 DEF ClaimsKnow, OneHolder, KeyOrHolder, Claimed
  <2>6. BodiesFresh' BY <2>1, <2>2, <2>3 DEF BodiesFresh, Claimed
  <2>7. GotIsRow' /\ Alone' BY <2>1, <2>2 DEF GotIsRow, Alone
  <2> QED BY <2>4, <2>5, <2>6, <2>7
<1>6. ASSUME NEW c \in Calls, NEW sid \in Sids, TermBody(c, sid) PROVE KeyInv'
  <2> USE <1>6 DEF TermBody, CallsOK, KeyInv
  <2>1. UNCHANGED <<pend, expired, tpc, tsid, tmid, tgot>> OBVIOUS
  <2>2. /\ \A d \in Calls : cpc[d] # "digest"
        /\ \A t \in Tabs : tpc[t] # "digest"
    BY DigestsAlone
  <2>3. ~Kept(c) /\ ~Kept(c)' BY DEF Kept
  <2>4. \A d \in Calls \ {c} : csid'[d] = csid[d] /\ cpc'[d] = cpc[d] OBVIOUS
  <2>5. \A s \in Sids : Stored(s)' = Stored(s) BY <2>3, <2>4 DEF Stored, Kept
  <2>6. KeysNamed' /\ ExpiredWasKept'
    BY <2>1, <2>3, <2>4 DEF KeysNamed, ExpiredWasKept, KeysOK, PendRows, Kept
  <2>7. ClaimsKnow' /\ OneHolder' /\ KeyOrHolder'
    BY <2>1, <2>5 DEF ClaimsKnow, OneHolder, KeyOrHolder, Claimed
  <2>8. BodiesFresh'
    <3>1. \A d \in Calls : cpc'[d] = "digest" => d = c BY <2>2, <2>4
    <3>2. \A t \in Tabs : Claimed(t) => tsid[t] # sid
      BY DEF KeyOrHolder, Stored, MayRepeat, ClaimsKnow, Claimed
    <3>3. ~Stored(sid) \/ (pend[sid] # nil /\ pend[sid].key \notin expired)
      BY DEF Stored, MayRepeat
    <3>4. csid'[c] = sid OBVIOUS
    <3> QED BY <2>1, <2>5, <3>1, <3>2, <3>3, <3>4 DEF BodiesFresh, Claimed
  <2>9. GotIsRow' /\ Alone' BY <2>1, <2>2 DEF GotIsRow, Alone
  <2> QED BY <2>6, <2>7, <2>8, <2>9
<1>7. ASSUME NEW c \in Calls, TermPut(c) PROVE KeyInv'
  <2> DEFINE s == csid[c]
  <2> USE <1>7 DEF TermPut, CallsOK, KeyInv
  <2>1. UNCHANGED <<expired, csid, tpc, tsid, tmid, tgot>> OBVIOUS
  <2>2. /\ \A d \in Calls : cpc[d] = "digest" => d = c
        /\ \A t \in Tabs : tpc[t] # "digest"
    BY DigestsAlone DEF Alone
  <2>3. s \in Sids /\ \A t \in Tabs : Claimed(t) => tsid[t] # s BY DEF BodiesFresh
  <2>4. ~Kept(c) /\ Kept(c)' /\ \A d \in Calls \ {c} : Kept(d)' = Kept(d) BY DEF Kept
  <2>5. \A r \in Sids : Stored(r) => Stored(r)' BY <2>1, <2>4 DEF Stored, Kept
  <2>6. pend'[s].key = c /\ \A r \in Sids \ {s} : pend'[r] = pend[r] BY <2>3 DEF KeysOK
  <2>7. KeysNamed' BY <2>1, <2>4, <2>6 DEF KeysNamed, KeysOK, PendRows
  <2>8. ExpiredWasKept' BY <2>1, <2>4 DEF ExpiredWasKept, KeysOK
  <2>9. ClaimsKnow' /\ OneHolder' BY <2>1 DEF ClaimsKnow, OneHolder, Claimed
  <2>10. KeyOrHolder' BY <2>1, <2>3, <2>5, <2>6 DEF KeyOrHolder, Claimed, ClaimsKnow
  <2>11. BodiesFresh' BY <2>2 DEF BodiesFresh
  <2>12. GotIsRow' /\ Alone' BY <2>1, <2>2 DEF GotIsRow, Alone
  <2> QED BY <2>7, <2>8, <2>9, <2>10, <2>11, <2>12
<1>8. ASSUME NEW key \in Calls, Expire(key) PROVE KeyInv'
  <2> USE <1>8 DEF Expire, KeyInv
  <2>1. UNCHANGED <<pend, cpc, csid, tpc, tsid, tmid, tgot>> OBVIOUS
  <2>2. /\ \A d \in Calls : cpc[d] # "digest"
        /\ \A t \in Tabs : tpc[t] # "digest"
    BY DigestsAlone
  <2>3. Kept(key) BY <2>2 DEF KeysNamed, GotIsRow
  <2>4. KeysNamed' /\ ExpiredWasKept' BY <2>1, <2>3 DEF KeysNamed, ExpiredWasKept, Kept
  <2>5. ClaimsKnow' /\ OneHolder' /\ KeyOrHolder'
    BY <2>1 DEF ClaimsKnow, OneHolder, KeyOrHolder, Claimed, Stored
  <2>6. BodiesFresh' BY <2>1, <2>2 DEF BodiesFresh
  <2>7. GotIsRow' /\ Alone' BY <2>1 DEF GotIsRow, Alone
  <2> QED BY <2>4, <2>5, <2>6, <2>7
<1>9. ASSUME NEW t \in Tabs,
             \/ TermRefused(t)
             \/ \E sid \in Sids, key \in Calls \cup {nil} : TermUpgrade(t, sid, key)
      PROVE  KeyInv'
  <2> USE <1>9 DEF TermRefused, TermUpgrade, TabsOK, KeyInv
  <2>1. UNCHANGED <<pend, expired, cpc, csid, tmid>> OBVIOUS
  <2>2. ~Claimed(t) /\ ~Claimed(t)' BY <2>1 DEF ClaimsKnow, Claimed
  <2>3. \A u \in Tabs \ {t} : tpc'[u] = tpc[u] /\ tsid'[u] = tsid[u] /\ tgot'[u] = tgot[u] OBVIOUS
  <2>4. \A c \in Calls : cpc[c] # "digest" BY DigestsAlone DEF Alone
  <2>5. KeysNamed' /\ ExpiredWasKept' BY <2>1 DEF KeysNamed, ExpiredWasKept, Kept
  <2>6. ClaimsKnow' BY <2>1, <2>2, <2>3 DEF ClaimsKnow, Claimed
  <2>7. OneHolder' /\ KeyOrHolder' BY <2>1, <2>2, <2>3 DEF OneHolder, KeyOrHolder, Claimed, Stored
  <2>8. BodiesFresh' /\ Alone' BY <2>1, <2>4 DEF BodiesFresh, Alone
  <2>9. GotIsRow' BY <2>1, <2>3 DEF GotIsRow
  <2> QED BY <2>5, <2>6, <2>7, <2>8, <2>9
<1>10. ASSUME NEW t \in Tabs, TermClaim(t) PROVE KeyInv'
  <2> DEFINE s == tsid[t]
  <2> USE <1>10 DEF TermClaim, TabsOK, KeyInv
  <2>1. UNCHANGED <<expired, cpc, csid, tsid>> OBVIOUS
  <2>2. /\ \A c \in Calls : cpc[c] # "digest"
        /\ \A u \in Tabs \ {t} : tpc[u] # "digest"
    BY DigestsAlone DEF Alone
  <2>3. s \in Sids /\ tgot[t] = pend[s] /\ pend[s] # nil BY DEF TabsKnow, GotIsRow, Valid
  <2>4. pend[s].mid \in Machines BY <2>3 DEF KeysOK, PendRows
  <2>5. Stored(s) BY <2>3 DEF KeysNamed, Stored, Kept, KeysOK, PendRows
  <2>6. pend'[s] = nil /\ \A r \in Sids \ {s} : pend'[r] = pend[r] BY <2>3 DEF KeysOK
  <2>7. \A r \in Sids : Stored(r)' = Stored(r) BY <2>1 DEF Stored
  <2>8. \A u \in Tabs \ {t} : tpc'[u] = tpc[u] /\ tmid'[u] = tmid[u] /\ tgot'[u] = tgot[u] OBVIOUS
  <2>9. \A u \in Tabs : Claimed(u) => tsid[u] # s BY <2>3 DEF KeyOrHolder
  <2>10. KeysNamed' /\ ExpiredWasKept' BY <2>1, <2>6 DEF KeysNamed, ExpiredWasKept, Kept
  <2>11. ClaimsKnow' BY <2>1, <2>3, <2>4, <2>8 DEF ClaimsKnow
  <2>12. OneHolder' BY <2>1, <2>8, <2>9 DEF OneHolder, Claimed
  <2>13. KeyOrHolder'
    <3> SUFFICES ASSUME NEW u \in Tabs, Claimed(u)' PROVE pend'[tsid[u]] = nil /\ Stored(tsid[u])'
      BY <2>1 DEF KeyOrHolder
    <3>1. CASE u = t BY <2>3, <2>5, <2>6, <2>7, <3>1
    <3>2. CASE u # t
      <4>1. Claimed(u) BY <2>8, <3>2 DEF Claimed
      <4>2. tsid[u] \in Sids \ {s} BY <2>9, <4>1 DEF ClaimsKnow, Claimed
      <4> QED BY <2>6, <2>7, <4>1, <4>2 DEF KeyOrHolder
    <3> QED BY <3>1, <3>2
  <2>14. BodiesFresh' /\ Alone' BY <2>1, <2>2 DEF BodiesFresh, Alone
  <2>15. GotIsRow' BY <2>2, <2>8 DEF GotIsRow
  <2> QED BY <2>10, <2>11, <2>12, <2>13, <2>14, <2>15
<1>11. ASSUME NEW t \in Tabs, TermAttach(t) PROVE KeyInv'
  <2> USE <1>11 DEF TermAttach, TabsOK, KeyInv
  <2>1. UNCHANGED <<pend, expired, cpc, csid, tsid, tmid, tgot>> OBVIOUS
  <2>2. \A u \in Tabs : /\ tpc'[u] \in {"claimed", "done"} <=> tpc[u] \in {"claimed", "done"}
                        /\ tpc'[u] = "digest" <=> tpc[u] = "digest"
    OBVIOUS
  <2>3. KeysNamed' /\ ExpiredWasKept' BY <2>1 DEF KeysNamed, ExpiredWasKept, Kept
  <2>4. ClaimsKnow' BY <2>1, <2>2 DEF ClaimsKnow
  <2>5. OneHolder' /\ KeyOrHolder' BY <2>1 DEF OneHolder, KeyOrHolder, Claimed, Stored
  <2>6. BodiesFresh' BY <2>1 DEF BodiesFresh, Claimed, Stored
  <2>7. GotIsRow' /\ Alone' BY <2>1, <2>2 DEF GotIsRow, Alone
  <2> QED BY <2>3, <2>4, <2>5, <2>6, <2>7
<1>12. CASE AlarmFires
  <2> USE <1>12 DEF AlarmFires, KeyInv
  <2>1. UNCHANGED <<expired, cpc, csid, tpc, tsid, tmid, tgot>> OBVIOUS
  <2>2. /\ \A c \in Calls : cpc[c] # "digest"
        /\ \A t \in Tabs : tpc[t] # "digest"
    BY DigestsAlone
  <2>3. \A sid \in Sids : pend'[sid] \in {pend[sid], nil} BY DEF KeysOK
  <2>4. KeysNamed' /\ ExpiredWasKept' BY <2>1, <2>3 DEF KeysNamed, ExpiredWasKept, Kept
  <2>5. ClaimsKnow' /\ OneHolder' BY <2>1 DEF ClaimsKnow, OneHolder, Claimed
  <2>6. KeyOrHolder' BY <2>1, <2>3 DEF KeyOrHolder, ClaimsKnow, Claimed, Stored
  <2>7. BodiesFresh' BY <2>1, <2>2 DEF BodiesFresh
  <2>8. GotIsRow' /\ Alone' BY <2>1, <2>2 DEF GotIsRow, Alone
  <2> QED BY <2>4, <2>5, <2>6, <2>7, <2>8
<1>13. CASE Restart
  <2> USE <1>13 DEF KeyInv
  <2>1. UNCHANGED <<pend, expired, csid, tmid>> /\ tgot' = [t \in Tabs |-> nil] BY DEF Restart
  <2>2. \A c \in Calls : Kept(c)' = Kept(c) /\ cpc'[c] # "digest" BY DEF Restart, Kept
  <2>3. \A sid : Stored(sid)' = Stored(sid) BY <2>1, <2>2 DEF Stored, Kept
  <2>4. \A t \in Tabs : /\ tpc'[t] \in {"claimed", "done"} <=> tpc[t] \in {"claimed", "done"}
                        /\ tpc'[t] # "digest"
    BY DEF Restart
  <2>5. \A t \in Tabs : Claimed(t) => tpc[t] # "digest" BY DEF ClaimsKnow, Claimed
  <2>6. \A t \in Tabs : Claimed(t) => tsid'[t] = tsid[t] BY <2>5 DEF Restart
  <2>7. KeysNamed' /\ ExpiredWasKept' BY <2>1, <2>2 DEF KeysNamed, ExpiredWasKept, KeysOK, PendRows
  <2>8. ClaimsKnow' BY FleetAssumption, <2>1, <2>4, <2>6 DEF ClaimsKnow, Claimed
  <2>9. OneHolder' /\ KeyOrHolder' BY <2>1, <2>3, <2>6 DEF OneHolder, KeyOrHolder, Claimed
  <2>10. BodiesFresh' /\ Alone' BY <2>2 DEF BodiesFresh, Alone
  <2>11. GotIsRow' BY <2>1, <2>4 DEF GotIsRow
  <2> QED BY <2>7, <2>8, <2>9, <2>10, <2>11
<1> QED
  BY <1>1, <1>2, <1>3, <1>4, <1>5, <1>6, <1>7, <1>8, <1>9, <1>10, <1>11, <1>12, <1>13
  DEF Next, CallStep, TabStep

---------------------------------------------------------------------------
(* Open browsers and their agents.                                          *)

\* Another browser of the same session has gone: its reap told the agent to
\* close the session, which was not its alone.
Deserted(t) == \E u \in Tabs : tlink[u] = "gone" /\ tsid[u] = tsid[t] /\ tmid[u] = tmid[t]

\* What agent a does for t.
Serves(a, t) ==
    Registered(a, tmid[t]) /\ (tsid[t] \in runs[a] \/ alink[a] = "shut" \/ Deserted(t))

(* No browser is without a registered agent of its machine, and where that  *)
(* agent does not run its session, another browser of the session has gone. *)
(* It says what NoBlackBox comes to where events are delivered during a     *)
(* digest (fleet.js:201-229, 253-279, 345-353).                             *)
BlackBoxIsDeserted ==
    \A t \in Tabs : tlink[t] = "open" => \E a \in Agents : Serves(a, t)

(* A browser that was accepted keeps its session and machine; one that has  *)
(* gone has gone for good.                                                  *)
LEMMA AcceptedIsKept ==
  ASSUME IInv, ShellInv, [Next]_vars, NEW t \in Tabs, tlink[t] # "none"
  PROVE  /\ tsid'[t] = tsid[t] /\ tmid'[t] = tmid[t]
         /\ tlink[t] = "gone" => tlink'[t] = "gone"
<1> USE DEF IInv, TypeOK, TabsOK, rowVars, keyVars, agentVars, tabVars, callVars, alarmVars, restartVars
<1> DEFINE Stays == /\ tsid'[t] = tsid[t] /\ tmid'[t] = tmid[t]
                    /\ tlink[t] = "gone" => tlink'[t] = "gone"
<1>1. tpc[t] = "done" BY DEF ShellInv, OpenIsDone
<1>2. ASSUME NEW m \in Machines, Mint(m) \/ Delete(m) \/ DeleteDrop(m) PROVE Stays
  BY <1>2 DEF Mint, Delete, DeleteDrop, DropAgent, EndTabs, Shut
<1>3. ASSUME NEW c \in Calls, \/ CallStep(c) \/ Expire(c)
                              \/ \E m \in Machines : TermLookup(c, m)
                              \/ \E sid \in Sids : TermBody(c, sid)
      PROVE  Stays
  BY <1>3 DEF CallStep, TermPut, TermArm, Expire, TermLookup, TermBody
<1>4. ASSUME NEW a \in Agents, \/ AgentConnects(a) \/ Silent(a) \/ Heartbeat(a)
                               \/ \E m \in Machines : Hello(a, m)
      PROVE  Stays
  BY <1>4 DEF AgentConnects, Silent, Heartbeat, Hello
<1>5. ASSUME NEW a \in Agents, AgentStep(a) PROVE Stays
  BY <1>5 DEF AgentStep, HelloRefused, HelloLookup, HelloEnter, HelloGreet, ReapPut, EndTabs, Shut
<1>6. ASSUME NEW a \in Agents, AgentGone(a) \/ (\E sid \in Sids : AgentEnds(a, sid)) PROVE Stays
  BY <1>6 DEF AgentGone, AgentEnds, EndTabs, Shut
<1>7. ASSUME NEW u \in Tabs, TabStep(u) PROVE Stays
  BY <1>1, <1>7 DEF TabStep, TermRefused, TermClaim, TermAttach
<1>8. ASSUME NEW u \in Tabs, \/ TabGone(u)
                             \/ \E sid \in Sids, key \in Calls \cup {nil} : TermUpgrade(u, sid, key)
      PROVE  Stays
  BY <1>1, <1>8 DEF TabGone, TermUpgrade
<1>9. CASE AlarmFires \/ AlarmTouches \/ AlarmEnds \/ UNCHANGED vars
  BY <1>9 DEF AlarmFires, AlarmTouches, AlarmEnds, vars
<1>10. ASSUME NEW a \in Agents, AlarmReaps(a) PROVE Stays
  BY <1>10 DEF AlarmReaps, DropAgent, EndTabs, Shut
<1>11. CASE Restart BY <1>1, <1>11 DEF Restart, Listed
<1> QED BY <1>2, <1>3, <1>4, <1>5, <1>6, <1>7, <1>8, <1>9, <1>10, <1>11 DEF Next, AlarmStep

(* So a deserted browser stays deserted. *)
LEMMA DesertedIsKept ==
  ASSUME IInv, ShellInv, [Next]_vars, NEW t \in Tabs, tlink[t] # "none", Deserted(t)
  PROVE  Deserted(t)'
<1>1. PICK u \in Tabs : tlink[u] = "gone" /\ tsid[u] = tsid[t] /\ tmid[u] = tmid[t]
  BY DEF Deserted
<1> QED BY <1>1, AcceptedIsKept DEF Deserted

(* An agent whose socket is what it was, and which still runs what it ran   *)
(* or finds the browser deserted, serves the browser as before.             *)
LEMMA ServesOn ==
  ASSUME IInv, ShellInv, [Next]_vars, NEW a \in Agents, NEW t \in Tabs, tlink[t] # "none",
         Serves(a, t), alink'[a] = alink[a], akind'[a] = akind[a], amid'[a] = amid[a],
         tsid[t] \in runs[a] => tsid[t] \in runs'[a] \/ Deserted(t)'
  PROVE  Serves(a, t)'
<1>1. tsid'[t] = tsid[t] /\ tmid'[t] = tmid[t] BY AcceptedIsKept
<1>2. Registered(a, tmid[t])' BY <1>1 DEF Serves, Registered
<1>3. Deserted(t) => Deserted(t)' BY DesertedIsKept
<1> HIDE DEF Deserted
<1> QED BY <1>1, <1>2, <1>3 DEF Serves, Registered

(* A socket that is dropped leaves no browser of its machine open.          *)
LEMMA DropLeavesNone ==
  ASSUME IInv, ShellInv, BlackBoxIsDeserted, [Next]_vars, NEW a \in Agents,
         tlink' = EndTabs(amid[a]),
         \A b \in Agents \ {a} : /\ alink'[b] = alink[b] /\ akind'[b] = akind[b]
                                 /\ amid'[b] = amid[b] /\ runs'[b] = runs[b]
  PROVE  BlackBoxIsDeserted'
<1> SUFFICES ASSUME NEW t \in Tabs, tlink'[t] = "open" PROVE \E b \in Agents : Serves(b, t)'
  BY DEF BlackBoxIsDeserted
<1>1. tlink[t] = "open" /\ tmid[t] # amid[a] BY DEF EndTabs, Shut
<1>2. PICK b \in Agents : Serves(b, t) BY <1>1 DEF BlackBoxIsDeserted
<1>3. b # a BY <1>1, <1>2 DEF Serves, Registered
<1> QED BY <1>1, <1>2, <1>3, ServesOn

(* Every step keeps an open browser with its agent. *)
LEMMA BoxPreserved ==
  ASSUME IInv, ShellInv, BlackBoxIsDeserted, [Next]_vars
  PROVE  BlackBoxIsDeserted'
<1> USE DEF IInv, TypeOK, rowVars, keyVars, agentVars, tabVars, callVars, alarmVars, restartVars
<1> DEFINE SocketKept(b) == alink'[b] = alink[b] /\ akind'[b] = akind[b] /\ amid'[b] = amid[b]
<1>1. ASSUME \A t \in Tabs : tlink'[t] = "open" => tlink[t] = "open",
             \A t \in Tabs, b \in Agents :
                tlink'[t] = "open" /\ Serves(b, t) =>
                    SocketKept(b) /\ (tsid[t] \in runs[b] => tsid[t] \in runs'[b] \/ Deserted(t)')
      PROVE  BlackBoxIsDeserted'
  <2> SUFFICES ASSUME NEW t \in Tabs, tlink'[t] = "open" PROVE \E b \in Agents : Serves(b, t)'
    BY DEF BlackBoxIsDeserted
  <2>1. tlink[t] = "open" BY <1>1
  <2>2. PICK b \in Agents : Serves(b, t) BY <2>1 DEF BlackBoxIsDeserted
  <2>3. SocketKept(b) /\ (tsid[t] \in runs[b] => tsid[t] \in runs'[b] \/ Deserted(t)')
    BY <1>1, <2>2
  <2> QED BY <2>1, <2>2, <2>3, ServesOn
<1>2. ASSUME UNCHANGED <<alink, akind, amid, runs, tlink>> PROVE BlackBoxIsDeserted'
  BY <1>1, <1>2
<1>3. ASSUME NEW m \in Machines, Mint(m) \/ Delete(m) PROVE BlackBoxIsDeserted'
  BY <1>2, <1>3 DEF Mint, Delete
<1>4. ASSUME NEW m \in Machines, DeleteDrop(m) PROVE BlackBoxIsDeserted'
  <2>1. CASE UNCHANGED <<alink, akind, tlink>>
    BY <1>2, <1>4, <2>1 DEF DeleteDrop
  <2>2. ASSUME NEW a \in Agents, Registered(a, m), DropAgent(a) PROVE BlackBoxIsDeserted'
    BY <1>4, <2>2, DropLeavesNone DEF DeleteDrop, DropAgent, AgentsOK
  <2> QED BY <1>4, <2>1, <2>2 DEF DeleteDrop
<1>5. ASSUME NEW c \in Calls, \/ CallStep(c) \/ Expire(c)
                              \/ \E m \in Machines : TermLookup(c, m)
                              \/ \E sid \in Sids : TermBody(c, sid)
      PROVE  BlackBoxIsDeserted'
  BY <1>2, <1>5 DEF CallStep, TermPut, TermArm, Expire, TermLookup, TermBody
<1>6. ASSUME NEW a \in Agents, \/ HelloLookup(a) \/ HelloGreet(a) \/ ReapPut(a)
                               \/ Silent(a) \/ Heartbeat(a)
      PROVE  BlackBoxIsDeserted'
  BY <1>2, <1>6 DEF HelloLookup, HelloGreet, ReapPut, Silent, Heartbeat
<1>7. ASSUME NEW a \in Agents, \/ AgentConnects(a) \/ HelloRefused(a)
                               \/ \E m \in Machines : Hello(a, m)
      PROVE  BlackBoxIsDeserted'
  <2> USE <1>7 DEF AgentConnects, HelloRefused, Hello, AgentsOK
  <2>1. UNCHANGED <<runs, tlink>> OBVIOUS
  <2>2. \A b \in Agents : Listed(alink[b]) /\ akind[b] = "agent" => b # a
    BY DEF Core, Enrolled, Listed
  <2>3. \A b \in Agents \ {a} : SocketKept(b) OBVIOUS
  <2>4. \A t \in Tabs, b \in Agents : Serves(b, t) => SocketKept(b)
    BY <2>2, <2>3 DEF Serves, Registered
  <2> QED BY <1>1, <2>1, <2>4
<1>8. ASSUME NEW a \in Agents, HelloEnter(a) PROVE BlackBoxIsDeserted'
  <2> USE <1>8 DEF HelloEnter, AgentsOK
  <2>1. \A t \in Tabs : tlink'[t] = "open" => tlink[t] = "open" BY DEF EndTabs, Shut
  <2>2. ASSUME NEW t \in Tabs, NEW b \in Agents, tlink'[t] = "open", Serves(b, t)
        PROVE  SocketKept(b)
    <3>1. tmid[t] # amid[a] BY <2>2 DEF EndTabs, Shut, Offline, Serves
    <3>2. b # a /\ ~Registered(b, amid[a]) BY <2>2, <3>1 DEF Serves, Registered, Core, Enrolled
    <3> QED BY <3>2
  <2> QED BY <1>1, <2>1, <2>2
<1>9. ASSUME NEW a \in Agents, NEW sid \in Sids, AgentEnds(a, sid) PROVE BlackBoxIsDeserted'
  <2> USE <1>9 DEF AgentEnds, AgentsOK, TabsOK
  <2>1. \A t \in Tabs : tlink'[t] = "open" =>
           tlink[t] = "open" /\ ~(tsid[t] = sid /\ tmid[t] = amid[a])
    BY DEF OwnTab, Shut, Listed
  <2>2. \A b \in Agents : SocketKept(b) OBVIOUS
  <2>3. ASSUME NEW t \in Tabs, NEW b \in Agents, tlink'[t] = "open", Serves(b, t),
               tsid[t] \in runs[b]
        PROVE  tsid[t] \in runs'[b]
    BY <2>1, <2>3 DEF Serves, Registered
  <2> QED BY <1>1, <2>1, <2>2, <2>3
<1>10. ASSUME NEW a \in Agents, AgentGone(a) PROVE BlackBoxIsDeserted'
  <2>1. \A b \in Agents \ {a} : SocketKept(b) /\ runs'[b] = runs[b]
    BY <1>10 DEF AgentGone, AgentsOK
  <2>2. CASE akind[a] = "agent"
    BY <1>10, <2>1, <2>2, DropLeavesNone DEF AgentGone
  <2>3. CASE akind[a] # "agent"
    <3>1. tlink' = tlink BY <1>10, <2>3 DEF AgentGone
    <3>2. \A t \in Tabs : ~Serves(a, t) BY <2>3 DEF Serves, Registered
    <3> QED BY <1>1, <2>1, <3>1, <3>2
  <2> QED BY <2>2, <2>3
<1>11. ASSUME NEW t \in Tabs, \/ TermRefused(t) \/ TermClaim(t)
                              \/ \E sid \in Sids, key \in Calls \cup {nil} : TermUpgrade(t, sid, key)
       PROVE  BlackBoxIsDeserted'
  BY <1>2, <1>11 DEF TermRefused, TermClaim, TermUpgrade
<1>12. ASSUME NEW t \in Tabs, TermAttach(t) PROVE BlackBoxIsDeserted'
  <2> USE <1>12 DEF TermAttach, AgentsOK, TabsOK
  <2> SUFFICES ASSUME NEW u \in Tabs, tlink'[u] = "open" PROVE \E b \in Agents : Serves(b, u)'
    BY DEF BlackBoxIsDeserted
  <2>1. UNCHANGED <<alink, akind, amid, tsid, tmid>> OBVIOUS
  <2>2. \A b \in Agents : runs[b] \subseteq runs'[b] OBVIOUS
  <2>3. CASE u # t
    <3>1. tlink[u] = "open" BY <2>3
    <3>2. PICK b \in Agents : Serves(b, u) BY <3>1 DEF BlackBoxIsDeserted
    <3> QED BY <2>1, <2>2, <3>1, <3>2, ServesOn
  <2>4. CASE u = t
    <3>1. PICK b \in Agents : /\ Registered(b, tmid[t])
                              /\ runs' = IF alink[b] = "open" THEN [runs EXCEPT ![b] = @ \cup {tsid[t]}]
                                                              ELSE runs
      BY <2>4
    <3>2. alink[b] = "open" => tsid[t] \in runs'[b] BY <3>1
    <3>3. alink[b] # "open" => alink[b] = "shut" BY <3>1 DEF Registered, Listed
    <3> QED BY <2>1, <2>4, <3>1, <3>2, <3>3 DEF Serves, Registered
  <2> QED BY <2>3, <2>4
<1>13. ASSUME NEW t \in Tabs, TabGone(t) PROVE BlackBoxIsDeserted'
  <2> USE <1>13 DEF TabGone, AgentsOK, TabsOK
  <2>1. \A u \in Tabs : tlink'[u] = "open" => tlink[u] = "open" OBVIOUS
  <2>2. \A b \in Agents : SocketKept(b) OBVIOUS
  <2>3. ASSUME NEW u \in Tabs, NEW b \in Agents, Serves(b, u),
               tsid[u] \in runs[b], tsid[u] \notin runs'[b]
        PROVE  Deserted(u)'
    <3>1. Registered(b, tmid[t]) /\ tsid[u] = tsid[t] BY <2>3
    <3>2. tmid[u] = tmid[t] BY <2>3, <3>1 DEF Serves, Registered
    <3>3. tlink'[t] = "gone" /\ UNCHANGED <<tsid, tmid>> OBVIOUS
    <3> QED BY <3>1, <3>2, <3>3 DEF Deserted
  <2> QED BY <1>1, <2>1, <2>2, <2>3
<1>14. CASE AlarmFires \/ AlarmTouches \/ UNCHANGED vars
  BY <1>2, <1>14 DEF AlarmFires, AlarmTouches, vars
<1>15. ASSUME NEW a \in Agents, AlarmReaps(a) PROVE BlackBoxIsDeserted'
  BY <1>15, DropLeavesNone DEF AlarmReaps, DropAgent, AgentsOK
<1>16. CASE AlarmEnds
  <2>1. \A a \in Agents : akind[a] = "agent" => alink'[a] = alink[a]
    BY <1>16 DEF AlarmEnds, HelloLate, AgentsOK
  <2>2. \A t \in Tabs, b \in Agents : Serves(b, t) => SocketKept(b)
    BY <1>16, <2>1 DEF AlarmEnds, Serves, Registered
  <2> QED BY <1>1, <1>16, <2>2 DEF AlarmEnds
<1>17. CASE Restart
  BY <1>17 DEF Restart, BlackBoxIsDeserted, Listed
<1> QED
  BY <1>3, <1>4, <1>5, <1>6, <1>7, <1>8, <1>9, <1>10, <1>11, <1>12, <1>13, <1>14, <1>15, <1>16, <1>17
  DEF Next, AgentStep, TabStep, AlarmStep

(* One holder to a session: no browser is deserted. *)
LEMMA NobodyIsDeserted ==
  ASSUME ShellInv, ClaimsKnow, OneHolder, BlackBoxIsDeserted
  PROVE  NoBlackBox
<1> SUFFICES ASSUME NEW t \in Tabs, tlink[t] = "open"
             PROVE  \E a \in Agents : Registered(a, tmid[t]) /\ (tsid[t] \in runs[a] \/ alink[a] = "shut")
  BY DEF NoBlackBox
<1>1. \A u \in Tabs : tlink[u] # "none" => Claimed(u)
  BY FleetAssumption DEF ShellInv, OpenIsDone, ClaimsKnow, Claimed
<1>2. ~Deserted(t) BY <1>1 DEF Deserted, OneHolder
<1> QED BY <1>2 DEF BlackBoxIsDeserted, Serves

---------------------------------------------------------------------------
(* The sessions, seen as SessionLife sees them.                             *)

\* What Stage comes to in each of its cases.
StagesRead ==
    /\ \A t \in Tabs : Claimed(t) =>
          /\ Holder(tsid[t]) = {t}
          /\ Stage(tsid[t]) = IF tpc[t] = "claimed" THEN "claimed"
                         ELSE IF tlink[t] = "open" THEN "attached" ELSE "ended"
    /\ \A sid \in Sids : Holder(sid) = {} =>
          Stage(sid) = IF pend[sid] # nil THEN IF pend[sid].key \in expired THEN "void" ELSE "pending"
                       ELSE IF Stored(sid) THEN "void" ELSE "unminted"
    /\ \A sid \in Sids : pend[sid] # nil => Holder(sid) = {}

SessionInv == ShellInv /\ KeyInv

(* Stage comes to what StagesRead says. *)
LEMMA Stages == SessionInv => StagesRead
<1> SUFFICES ASSUME SessionInv PROVE StagesRead
  OBVIOUS
<1> USE DEF SessionInv, ShellInv, KeyInv
<1>1. ASSUME NEW t \in Tabs, Claimed(t)
      PROVE  /\ Holder(tsid[t]) = {t}
             /\ Stage(tsid[t]) = IF tpc[t] = "claimed" THEN "claimed"
                         ELSE IF tlink[t] = "open" THEN "attached" ELSE "ended"
  <2>1. Holder(tsid[t]) = {t} BY <1>1 DEF Holder, OneHolder, Claimed
  <2>2. CASE tpc[t] = "claimed"
    <3>1. tlink[t] # "open" BY <2>2 DEF OpenIsDone
    <3>2. Stage(tsid[t]) = "claimed" BY <2>1, <2>2, <3>1 DEF Stage
    <3> QED BY <2>1, <2>2, <3>1, <3>2
  <2>3. CASE tpc[t] # "claimed" /\ tlink[t] = "open"
    <3>1. Stage(tsid[t]) = "attached" BY <2>1, <2>3 DEF Stage
    <3> QED BY <2>1, <2>3, <3>1
  <2>4. CASE tpc[t] # "claimed" /\ tlink[t] # "open"
    <3>1. tpc[t] = "done" BY <1>1, <2>4 DEF ClaimsKnow, Claimed
    <3>2. Stage(tsid[t]) = "ended" BY <2>1, <2>4, <3>1 DEF Stage
    <3> QED BY <2>1, <2>4, <3>2
  <2> QED BY <2>2, <2>3, <2>4
<1>2. ASSUME NEW sid \in Sids, Holder(sid) = {}
      PROVE  Stage(sid) = IF pend[sid] # nil THEN IF pend[sid].key \in expired THEN "void" ELSE "pending"
                          ELSE IF Stored(sid) THEN "void" ELSE "unminted"
  BY <1>2 DEF Stage
<1>3. ASSUME NEW sid \in Sids, pend[sid] # nil PROVE Holder(sid) = {}
  BY <1>3 DEF Holder, KeyOrHolder, Claimed
<1> QED BY <1>1, <1>2, <1>3 DEF StagesRead

(* And after a step as well. *)
LEMMA StagesNext == SessionInv' => StagesRead'
  BY Stages, PTL

(* Where nothing happens to the row, the upgrade or the calls of a session, *)
(* it stays where it is.                                                    *)
LEMMA StaysPut ==
  ASSUME StagesRead, StagesRead', NEW sid \in Sids, Holder(sid)' = Holder(sid),
         \A t \in Holder(sid) : tpc'[t] = tpc[t] /\ tlink'[t] = tlink[t],
         Holder(sid) = {} => /\ pend'[sid] = pend[sid] /\ Stored(sid)' = Stored(sid)
                             /\ pend[sid] # nil =>
                                   (pend[sid].key \in expired' <=> pend[sid].key \in expired)
  PROVE  Stage(sid)' = Stage(sid)
<1>1. CASE Holder(sid) = {}
  <2>1. Stage(sid)' = IF pend'[sid] # nil
                      THEN IF pend'[sid].key \in expired' THEN "void" ELSE "pending"
                      ELSE IF Stored(sid)' THEN "void" ELSE "unminted"
    BY <1>1 DEF StagesRead
  <2> QED BY <1>1, <2>1 DEF StagesRead
<1>2. CASE Holder(sid) # {}
  <2>1. PICK t \in Tabs : t \in Holder(sid) BY <1>2 DEF Holder
  <2>2. Claimed(t) /\ tsid[t] = sid BY <2>1 DEF Holder, Claimed
  <2>3. t \in Holder(sid)' BY <2>1
  <2>4. Claimed(t)' /\ tsid'[t] = sid BY <2>3 DEF Holder, Claimed
  <2>5. Stage(sid) = IF tpc[t] = "claimed" THEN "claimed"
                         ELSE IF tlink[t] = "open" THEN "attached" ELSE "ended"
    BY <2>2 DEF StagesRead
  <2>6. Stage(sid)' = IF tpc'[t] = "claimed" THEN "claimed"
                         ELSE IF tlink'[t] = "open" THEN "attached" ELSE "ended"
    BY <2>4 DEF StagesRead
  <2> QED BY <2>1, <2>5, <2>6
<1> QED BY <1>1, <1>2

(* Where no session moves, SessionLife stutters. *)
LEMMA LifeKept ==
  ASSUME \A s \in Sids : Holder(s)' = Holder(s) /\ Stage(s)' = Stage(s)
  PROVE  UNCHANGED Life!lifeVars
  BY DEF Life!lifeVars

(* Where one session moves, SessionLife moves it. *)
LEMMA LifeMoves ==
  ASSUME NEW sid \in Sids, NEW from, NEW to, Stage(sid) = from, Stage(sid)' = to,
         \A s \in Sids \ {sid} : Stage(s)' = Stage(s)
  PROVE  Life!Move(sid, from, to)
<1>1. \A s \in Sids : Stage(s)' = IF s = sid THEN to ELSE Stage(s) OBVIOUS
<1>2. [s \in Sids |-> Stage(s)]' = [[s \in Sids |-> Stage(s)] EXCEPT ![sid] = to] BY <1>1
<1> QED BY <1>2 DEF Life!Move

(* Where no sid gets a holder, holder is what it was. *)
LEMMA HoldersKept ==
  ASSUME \A s \in Sids : Holder(s)' = Holder(s)
  PROVE  [s \in Sids |-> Holder(s)]' = [s \in Sids |-> Holder(s)]
  OBVIOUS

\* A step that may end sessions and does nothing else to them.
EndsOnly ==
    /\ UNCHANGED <<pend, expired, tmid>>
    /\ \A s \in Sids : Stored(s)' = Stored(s)
    /\ \A t \in Tabs : Claimed(t) =>
          /\ tsid'[t] = tsid[t]
          /\ \/ tpc'[t] = tpc[t] /\ tlink'[t] = tlink[t]
             \/ tpc'[t] = "done" /\ tlink'[t] # "open"

(* A step that only ends sessions is an End of SessionLife, or nothing. *)
LEMMA EndStep ==
  ASSUME SessionInv, StagesRead, StagesRead', EndsOnly
  PROVE  UNCHANGED Life!lifeVars \/ \E S \in SUBSET Sids : Life!End(S)
<1> DEFINE Over(t) == /\ Claimed(t) /\ (tpc[t] = "claimed" \/ tlink[t] = "open")
                      /\ tpc'[t] = "done" /\ tlink'[t] # "open"
           S == {sid \in Sids : \E t \in Tabs : tsid[t] = sid /\ Over(t)}
<1>1. \A s \in Sids : Holder(s)' = Holder(s) BY DEF EndsOnly, Holder, Claimed
<1>2. ASSUME NEW s \in S PROVE Stage(s) \in {"claimed", "attached"} /\ Stage(s)' = "ended"
  <2>1. PICK t \in Tabs : tsid[t] = s /\ Over(t) OBVIOUS
  <2>2. Claimed(t)' /\ tsid'[t] = s BY <2>1 DEF EndsOnly, Claimed
  <2>3. Stage(s) \in {"claimed", "attached"} BY <2>1 DEF StagesRead
  <2>4. Stage(s)' = "ended" BY <2>1, <2>2 DEF StagesRead
  <2> QED BY <2>3, <2>4
<1>3. ASSUME NEW s \in Sids \ S PROVE Stage(s)' = Stage(s)
  <2>1. CASE \A t \in Holder(s) : tpc'[t] = tpc[t] /\ tlink'[t] = tlink[t]
    BY <1>1, <1>3, <2>1, StaysPut DEF EndsOnly
  <2>2. CASE \E t \in Holder(s) : ~(tpc'[t] = tpc[t] /\ tlink'[t] = tlink[t])
    <3>1. PICK t \in Tabs : /\ Claimed(t) /\ tsid[t] = s
                            /\ ~(tpc'[t] = tpc[t] /\ tlink'[t] = tlink[t])
      BY <2>2 DEF Holder, Claimed
    <3>2. tpc'[t] = "done" /\ tlink'[t] # "open" /\ Claimed(t)' /\ tsid'[t] = s
      BY <3>1 DEF EndsOnly, Claimed
    <3>3. tpc[t] # "claimed" /\ tlink[t] # "open" BY <1>3, <3>1, <3>2
    <3>4. Stage(s) = "ended" BY <3>1, <3>3 DEF StagesRead
    <3>5. Stage(s)' = "ended" BY <3>2 DEF StagesRead
    <3> QED BY <3>4, <3>5
  <2> QED BY <2>1, <2>2
<1> HIDE DEF S
<1>4. CASE S = {} BY <1>1, <1>3, <1>4, LifeKept
<1>5. CASE S # {}
  <2>1. \A s \in S : Stage(s) \in {"claimed", "attached"} BY <1>2
  <2>2. \A s \in Sids : Stage(s)' = IF s \in S THEN "ended" ELSE Stage(s) BY <1>2, <1>3
  <2>3. S \subseteq Sids BY DEF S
  <2>4. Life!End(S) BY <1>1, <1>5, <2>1, <2>2, <2>3, HoldersKept DEF Life!End
  <2> QED BY <2>3, <2>4
<1> QED BY <1>4, <1>5

(* What most steps do to sessions: they end some or leave all alone.        *)
LEMMA EndSteps ==
  ASSUME IInv, SessionInv,
         \/ UNCHANGED vars
         \/ \E m \in Machines : Mint(m) \/ Delete(m) \/ DeleteDrop(m)
         \/ \E c \in Calls : TermArm(c) \/ \E m \in Machines : TermLookup(c, m)
         \/ \E c \in Calls, sid \in Sids : TermBody(c, sid)
         \/ \E a \in Agents : \/ AgentConnects(a) \/ AgentStep(a) \/ AgentGone(a)
                              \/ Silent(a) \/ Heartbeat(a)
                              \/ \E m \in Machines : Hello(a, m)
                              \/ \E sid \in Sids : AgentEnds(a, sid)
         \/ \E t \in Tabs : \/ TermRefused(t) \/ TabGone(t)
                            \/ \E sid \in Sids, key \in Calls \cup {nil} : TermUpgrade(t, sid, key)
         \/ AlarmStep \/ Restart
  PROVE  EndsOnly
<1> USE DEF IInv, TypeOK, rowVars, keyVars, agentVars, tabVars, callVars, alarmVars, restartVars,
            SessionInv, ShellInv, KeyInv
<1>1. \A t \in Tabs : Claimed(t) => tpc[t] \in {"claimed", "done"} /\ (tlink[t] = "none" \/ tpc[t] = "done")
  BY DEF ClaimsKnow, Claimed, OpenIsDone
<1>2. ASSUME UNCHANGED <<pend, expired, tpc, tsid, tmid, tlink>>, \A s \in Sids : Stored(s)' = Stored(s)
      PROVE  EndsOnly
  BY <1>2 DEF EndsOnly
<1>3. ASSUME UNCHANGED <<pend, expired, cpc, csid, tpc, tsid, tmid, tlink>> PROVE EndsOnly
  BY <1>2, <1>3 DEF Stored
\* The browsers of a machine are shut.
<1>4. ASSUME UNCHANGED <<pend, expired, cpc, csid, tpc, tsid, tmid>>,
             NEW m, tlink' = EndTabs(m)
      PROVE  EndsOnly
  <2>1. \A s \in Sids : Stored(s)' = Stored(s) BY <1>4 DEF Stored
  <2>2. \A t \in Tabs : \/ tlink'[t] = tlink[t]
                        \/ tlink[t] = "open" /\ tlink'[t] = "shut"
    BY <1>4 DEF EndTabs, Shut
  <2> QED BY <1>1, <1>4, <2>1, <2>2 DEF EndsOnly
<1>5. CASE UNCHANGED vars BY <1>3, <1>5 DEF vars
<1>6. ASSUME NEW m \in Machines, Mint(m) \/ Delete(m) \/ DeleteDrop(m) PROVE EndsOnly
  BY <1>3, <1>4, <1>6 DEF Mint, Delete, DeleteDrop, DropAgent
<1>7. ASSUME NEW c \in Calls, TermArm(c) \/ \E m \in Machines : TermLookup(c, m) PROVE EndsOnly
  <2>1. \A s \in Sids : Stored(s)' = Stored(s) BY <1>7 DEF TermArm, TermLookup, Stored, CallsOK
  <2> QED BY <1>2, <1>7, <2>1 DEF TermArm, TermLookup
<1>8. ASSUME NEW c \in Calls, NEW sid \in Sids, TermBody(c, sid) PROVE EndsOnly
  <2>1. \A s \in Sids : Stored(s)' = Stored(s) BY <1>8 DEF TermBody, Stored, CallsOK
  <2> QED BY <1>2, <1>8, <2>1 DEF TermBody
<1>9. ASSUME NEW a \in Agents,
             \/ AgentConnects(a) \/ HelloRefused(a) \/ HelloLookup(a) \/ HelloGreet(a) \/ ReapPut(a)
             \/ Silent(a) \/ Heartbeat(a)
             \/ \E m \in Machines : Hello(a, m)
      PROVE  EndsOnly
  BY <1>3, <1>9 DEF AgentConnects, HelloRefused, HelloLookup, HelloGreet, ReapPut, Silent, Heartbeat, Hello
<1>10. ASSUME NEW a \in Agents, HelloEnter(a) \/ AgentGone(a) PROVE EndsOnly
  BY <1>3, <1>4, <1>10 DEF HelloEnter, AgentGone
<1>11. ASSUME NEW a \in Agents, NEW sid \in Sids, AgentEnds(a, sid) PROVE EndsOnly
  <2>1. \A s \in Sids : Stored(s)' = Stored(s) BY <1>11 DEF AgentEnds, Stored
  <2>2. \A t \in Tabs : \/ tlink'[t] = tlink[t]
                        \/ tlink[t] = "open" /\ tlink'[t] = "shut"
    BY <1>11 DEF AgentEnds, Shut
  <2> QED BY <1>1, <1>11, <2>1, <2>2 DEF AgentEnds, EndsOnly
<1>12. ASSUME NEW t \in Tabs,
              \/ TermRefused(t)
              \/ \E sid \in Sids, key \in Calls \cup {nil} : TermUpgrade(t, sid, key)
       PROVE  EndsOnly
  <2>1. \A s \in Sids : Stored(s)' = Stored(s) BY <1>12 DEF TermRefused, TermUpgrade, Stored
  <2>2. \A u \in Tabs : Claimed(u) => u # t BY <1>1, <1>12 DEF TermRefused, TermUpgrade
  <2>3. \A u \in Tabs \ {t} : tpc'[u] = tpc[u] /\ tsid'[u] = tsid[u]
    BY <1>12 DEF TermRefused, TermUpgrade, TabsOK
  <2> QED BY <1>12, <2>1, <2>2, <2>3 DEF TermRefused, TermUpgrade, EndsOnly
<1>13. ASSUME NEW t \in Tabs, TabGone(t) PROVE EndsOnly
  <2>1. \A s \in Sids : Stored(s)' = Stored(s) BY <1>13 DEF TabGone, Stored
  <2>2. \A u \in Tabs \ {t} : tlink'[u] = tlink[u] BY <1>13 DEF TabGone, TabsOK
  <2>3. tpc[t] = "done" /\ tlink'[t] = "gone" BY <1>13 DEF TabGone, TabsOK, OpenIsDone, Listed
  <2> QED BY <1>13, <2>1, <2>2, <2>3 DEF TabGone, EndsOnly
<1>14. CASE AlarmStep
  BY <1>3, <1>4, <1>14 DEF AlarmStep, AlarmReaps, AlarmTouches, AlarmEnds, DropAgent
<1>15. CASE Restart
  <2>1. \A s \in Sids : Stored(s)' = Stored(s)
    <3>1. \A c \in Calls : Kept(c)' = Kept(c) /\ csid' = csid BY <1>15 DEF Restart, Kept
    <3> QED BY <3>1 DEF Stored, Kept
  <2>2. \A t \in Tabs : tpc[t] \in {"claimed", "done"} =>
           tpc'[t] = "done" /\ tsid'[t] = tsid[t]
    BY <1>15 DEF Restart
  <2>3. \A t \in Tabs : tlink'[t] # "open" BY <1>15 DEF Restart, Listed
  <2> QED BY <1>1, <1>15, <2>1, <2>2, <2>3 DEF Restart, EndsOnly
<1> QED
  BY <1>5, <1>6, <1>7, <1>8, <1>9, <1>10, <1>11, <1>12, <1>13, <1>14, <1>15 DEF AgentStep

(* The put of a key mints it, or renews one that is pending. *)
LEMMA PutLife ==
  ASSUME DigestYields = FALSE, IInv, SessionInv, StagesRead, StagesRead', NEW c \in Calls, TermPut(c)
  PROVE  UNCHANGED Life!lifeVars \/ \E sid \in Sids : Life!MintKey(sid)
<1>0. PICK sid : sid = csid[c] OBVIOUS
<1> USE <1>0 DEF TermPut, IInv, TypeOK, CallsOK, SessionInv, KeyInv
<1>1. UNCHANGED <<expired, csid, tabVars>> OBVIOUS
<1>2. sid \in Sids /\ (\A t \in Tabs : Claimed(t) => tsid[t] # sid) BY DEF BodiesFresh
<1>3. ~Stored(sid) \/ (pend[sid] # nil /\ pend[sid].key \notin expired) BY DEF BodiesFresh
<1>4. pend'[sid] # nil /\ pend'[sid].key = c /\ c \notin expired
  <2>1. cmid[c] \in Machines BY DEF CallsKnow
  <2>2. pend'[sid] = [key |-> c, mid |-> cmid[c]] BY <1>2 DEF KeysOK
  <2>3. [key |-> c, mid |-> cmid[c]] \in [key : Calls, mid : Machines] BY <2>1
  <2>4. c \notin expired BY DEF ExpiredWasKept, Kept
  <2> QED BY <2>2, <2>3, <2>4, RowsAssumption
<1>5. \A s \in Sids : Holder(s)' = Holder(s) BY <1>1 DEF Holder, tabVars
<1>6. Holder(sid) = {} BY <1>2 DEF Holder, Claimed
<1>7. Stage(sid)' = "pending" BY <1>1, <1>2, <1>4, <1>5, <1>6 DEF StagesRead
<1>8. ASSUME NEW s \in Sids \ {sid} PROVE Stage(s)' = Stage(s)
  <2>1. pend'[s] = pend[s] BY <1>2, <1>8 DEF KeysOK
  <2>2. Stored(s)' = Stored(s) BY <1>1, <1>8 DEF Stored
  <2> QED BY <1>1, <1>5, <2>1, <2>2, StaysPut DEF tabVars
<1>9. Stage(sid) \in {"unminted", "pending"}
  <2>1. CASE pend[sid] # nil
    <3>1. pend[sid].key \notin expired
      BY <1>2, <1>3, <2>1 DEF KeysNamed, Stored, Kept, KeysOK, PendRows
    <3> QED BY <1>2, <1>6, <2>1, <3>1 DEF StagesRead
  <2>2. CASE pend[sid] = nil BY <1>2, <1>3, <1>6, <2>2 DEF StagesRead
  <2> QED BY <2>1, <2>2
<1>10. CASE Stage(sid) = "pending"
  <2>1. \A s \in Sids : Stage(s)' = Stage(s) BY <1>7, <1>8, <1>10
  <2> QED BY <1>5, <2>1, LifeKept
<1>11. CASE Stage(sid) = "unminted"
  <2>1. Life!Move(sid, "unminted", "pending") BY <1>2, <1>7, <1>8, <1>11, LifeMoves
  <2> QED BY <1>2, <1>5, <2>1, HoldersKept DEF Life!MintKey
<1> QED BY <1>9, <1>10, <1>11

(* A key that runs out is void. *)
LEMMA ExpireLife ==
  ASSUME DigestYields = FALSE, IInv, SessionInv, StagesRead, StagesRead', NEW key \in Calls, Expire(key)
  PROVE  \E sid \in Sids : Life!VoidKey(sid)
<1> USE DEF Expire, IInv, TypeOK, SessionInv, KeyInv
<1>1. UNCHANGED <<pend, cpc, csid, tabVars>> BY DEF callVars
<1>2. \A t \in Tabs : tgot[t] = nil BY DigestsAlone DEF GotIsRow
<1>3. PICK sid \in Sids : pend[sid] # nil /\ pend[sid].key = key BY <1>2
<1>4. \A s \in Sids : Holder(s)' = Holder(s) BY <1>1 DEF Holder, tabVars
<1>5. Holder(sid) = {} BY <1>3 DEF StagesRead
<1>6. Stage(sid) = "pending" BY <1>3, <1>5 DEF StagesRead
<1>7. Stage(sid)' = "void" BY <1>1, <1>3, <1>4, <1>5 DEF StagesRead
<1>8. ASSUME NEW s \in Sids \ {sid} PROVE Stage(s)' = Stage(s)
  <2>1. pend[s] # nil => pend[s].key # key BY <1>3, <1>8 DEF KeysNamed
  <2>2. Stored(s)' = Stored(s) BY <1>1 DEF Stored
  <2> QED BY <1>1, <1>4, <2>1, <2>2, StaysPut DEF tabVars
<1>9. Life!Move(sid, "pending", "void") BY <1>6, <1>7, <1>8, LifeMoves
<1> QED BY <1>4, <1>9, HoldersKept DEF Life!VoidKey

(* The alarm sweeps keys that are void already. *)
LEMMA SweepLife ==
  ASSUME IInv, SessionInv, StagesRead, StagesRead', AlarmFires
  PROVE  UNCHANGED Life!lifeVars
<1> USE DEF AlarmFires, IInv, TypeOK, SessionInv, KeyInv
<1>1. UNCHANGED <<expired, cpc, csid, tabVars>> BY DEF callVars
<1>2. \A s \in Sids : Holder(s)' = Holder(s) /\ Stored(s)' = Stored(s)
  BY <1>1 DEF Holder, Stored, tabVars
<1>3. ASSUME NEW s \in Sids PROVE Stage(s)' = Stage(s)
  <2>1. CASE ~Sweeps(s)
    <3>1. pend'[s] = pend[s] BY <2>1
    <3> QED BY <1>1, <1>2, <3>1, StaysPut DEF tabVars
  <2>2. CASE Sweeps(s)
    <3>1. pend'[s] = nil BY <2>2
    <3>2. Holder(s) = {} BY <2>2 DEF Sweeps, StagesRead
    <3>3. Stage(s) = "void" BY <2>2, <3>2 DEF Sweeps, StagesRead
    <3>4. Stored(s) BY <2>2 DEF Sweeps, KeysNamed, Stored, Kept, KeysOK, PendRows
    <3>5. Stage(s)' = "void" BY <1>2, <3>1, <3>2, <3>4 DEF StagesRead
    <3> QED BY <3>3, <3>5
  <2> QED BY <2>1, <2>2
<1> QED BY <1>2, <1>3, LifeKept

(* A claim takes a pending key for a tab that holds none. *)
LEMMA ClaimLife ==
  ASSUME IInv, SessionInv, StagesRead, StagesRead', NEW t \in Tabs, TermClaim(t)
  PROVE  \E sid \in Sids : Life!Claim(sid, t)
<1>0. PICK sid : sid = tsid[t] OBVIOUS
<1> USE <1>0 DEF TermClaim, IInv, TypeOK, TabsOK, SessionInv, KeyInv
<1>1. UNCHANGED <<expired, cpc, csid, tsid, tlink>> BY DEF callVars
<1>2. sid \in Sids /\ tgot[t] = pend[sid] /\ pend[sid] # nil /\ pend[sid].key \notin expired
  BY DEF TabsKnow, GotIsRow, Valid
<1>3. pend'[sid] = nil /\ \A s \in Sids \ {sid} : pend'[s] = pend[s] BY <1>2 DEF KeysOK
<1>4. tmid'[t] = pend[sid].mid /\ pend[sid].mid \in Machines BY <1>2 DEF KeysOK, PendRows
<1>5. ~Claimed(t) /\ Claimed(t)' BY <1>4, FleetAssumption DEF ClaimsKnow, Claimed
<1>6. \A u \in Tabs \ {t} : tpc'[u] = tpc[u] /\ tmid'[u] = tmid[u] OBVIOUS
<1>7. Holder(sid) = {} /\ Stage(sid) = "pending" BY <1>2 DEF StagesRead
<1>8. \A s \in Sids : t \notin Holder(s) BY <1>5 DEF Holder, Claimed
<1>9. \A s \in Sids : Holder(s)' = IF s = sid THEN {t} ELSE Holder(s)
  BY <1>1, <1>5, <1>6, <1>7 DEF Holder, Claimed
<1>10. Stage(sid)' = "claimed" BY <1>1, <1>5 DEF StagesRead
<1>11. ASSUME NEW s \in Sids \ {sid} PROVE Stage(s)' = Stage(s)
  <2>1. Holder(s)' = Holder(s) BY <1>9, <1>11
  <2>2. \A u \in Holder(s) : tpc'[u] = tpc[u] /\ tlink'[u] = tlink[u] BY <1>1, <1>6, <1>8 DEF Holder
  <2>3. Stored(s)' = Stored(s) BY <1>1 DEF Stored
  <2> QED BY <1>1, <1>3, <1>11, <2>1, <2>2, <2>3, StaysPut
<1>12. Life!Move(sid, "pending", "claimed") BY <1>2, <1>7, <1>10, <1>11, LifeMoves
<1>13. [s \in Sids |-> Holder(s)]' = [[s \in Sids |-> Holder(s)] EXCEPT ![sid] = {t}] BY <1>9
<1>14. Life!Claim(sid, t) BY <1>2, <1>7, <1>8, <1>12, <1>13 DEF Life!Claim
<1> QED BY <1>2, <1>14

(* A claim is attached, or burnt where the agent is offline. *)
LEMMA AttachLife ==
  ASSUME IInv, SessionInv, StagesRead, StagesRead', NEW t \in Tabs, TermAttach(t)
  PROVE  \E sid \in Sids : Life!Attach(sid) \/ Life!Burn(sid)
<1>0. PICK sid : sid = tsid[t] OBVIOUS
<1> USE <1>0 DEF TermAttach, IInv, TypeOK, TabsOK, SessionInv, KeyInv
<1>1. UNCHANGED <<pend, expired, cpc, csid, tsid, tmid>> BY DEF keyVars, callVars
<1>2. sid \in Sids /\ Claimed(t) BY FleetAssumption DEF ClaimsKnow, Claimed
<1>3. tpc'[t] = "done" /\ \A u \in Tabs \ {t} : tpc'[u] = tpc[u] /\ tlink'[u] = tlink[u] OBVIOUS
<1>4. \A s \in Sids : Holder(s)' = Holder(s) /\ Stored(s)' = Stored(s) BY <1>1 DEF Holder, Stored
<1>5. Stage(sid) = "claimed" BY <1>2 DEF StagesRead
<1>6. Claimed(t)' BY <1>1, <1>2 DEF Claimed
<1>7. Stage(sid)' = IF tlink'[t] = "open" THEN "attached" ELSE "ended"
  BY <1>1, <1>3, <1>6 DEF StagesRead
<1>8. ASSUME NEW s \in Sids \ {sid} PROVE Stage(s)' = Stage(s)
  <2>1. \A u \in Holder(s) : tpc'[u] = tpc[u] /\ tlink'[u] = tlink[u] BY <1>3, <1>8 DEF Holder
  <2> QED BY <1>1, <1>4, <2>1, StaysPut
<1>9. CASE tlink'[t] = "open"
  <2>1. Life!Move(sid, "claimed", "attached") BY <1>2, <1>5, <1>7, <1>8, <1>9, LifeMoves
  <2> QED BY <1>2, <1>4, <2>1, HoldersKept DEF Life!Attach
<1>10. CASE tlink'[t] # "open"
  <2>1. Life!Move(sid, "claimed", "ended") BY <1>2, <1>5, <1>7, <1>8, <1>10, LifeMoves
  <2> QED BY <1>2, <1>4, <2>1, HoldersKept DEF Life!Burn
<1> QED BY <1>9, <1>10

(* Every step of the object is a step of the sessions' life, or none. *)
LEMMA LifeStep ==
  ASSUME DigestYields = FALSE, IInv, SessionInv, StagesRead, StagesRead', [Next]_vars
  PROVE  [Life!LifeNext]_Life!lifeVars
<1>1. CASE \E c \in Calls : TermPut(c) BY <1>1, PutLife DEF Life!LifeNext
<1>2. CASE \E c \in Calls : Expire(c) BY <1>2, ExpireLife DEF Life!LifeNext
<1>3. CASE AlarmFires BY <1>3, SweepLife
<1>4. CASE \E t \in Tabs : TermClaim(t) BY <1>4, ClaimLife DEF Life!LifeNext
<1>5. CASE \E t \in Tabs : TermAttach(t) BY <1>5, AttachLife DEF Life!LifeNext
<1>6. CASE EndsOnly BY <1>6, EndStep DEF Life!LifeNext
<1> QED BY <1>1, <1>2, <1>3, <1>4, <1>5, <1>6, EndSteps DEF Next, CallStep, TabStep

---------------------------------------------------------------------------
(* The theorems about sockets and sessions.                                 *)

(* The object starts with no socket, key or session. *)
LEMMA InitRelay == Init => ShellInv /\ AlarmInv /\ KeyInv /\ BlackBoxIsDeserted /\ Life!LifeInit
<1> SUFFICES ASSUME Init PROVE ShellInv /\ AlarmInv /\ KeyInv /\ BlackBoxIsDeserted /\ Life!LifeInit
  OBVIOUS
<1> USE DEF Init
<1>1. ShellInv BY DEF ShellInv, RunsKnown, OpenIsDone, Someones, NoOrphanShell
<1>2. AlarmInv BY DEF AlarmInv, SocketsWatched, KeysWatched, LiveIsKept, Attached, Listed
<1>3. KeysNamed /\ ExpiredWasKept /\ ClaimsKnow BY DEF KeysNamed, ExpiredWasKept, ClaimsKnow
<1>4. OneHolder /\ KeyOrHolder BY DEF OneHolder, KeyOrHolder, Claimed
<1>5. BodiesFresh /\ GotIsRow /\ Alone BY DEF BodiesFresh, GotIsRow, Alone
<1>6. BlackBoxIsDeserted BY DEF BlackBoxIsDeserted
<1>7. \A sid \in Sids : Holder(sid) = {} /\ Stage(sid) = "unminted" BY DEF Holder, Stage, Stored
<1>8. Life!LifeInit BY <1>7 DEF Life!LifeInit
<1> QED BY <1>1, <1>2, <1>3, <1>4, <1>5, <1>6, <1>8 DEF KeyInv

(* The invariants about shells, browsers and the alarm hold throughout. *)
LEMMA AlwaysShellAlarm == Spec => [](IInv /\ ShellInv /\ AlarmInv /\ BlackBoxIsDeserted)
<1>1. Init => IInv /\ ShellInv /\ AlarmInv /\ BlackBoxIsDeserted BY InitIInv, InitRelay
<1>2. IInv /\ ShellInv /\ AlarmInv /\ BlackBoxIsDeserted /\ [Next]_vars =>
         (IInv /\ ShellInv /\ AlarmInv /\ BlackBoxIsDeserted)'
  BY NextIInv, ShellPreserved, AlarmPreserved, BoxPreserved
<1> QED BY <1>1, <1>2, PTL DEF Spec

(* Sessions are kept apart where no event comes between the read of a key   *)
(* and its claim.                                                           *)
LEMMA AlwaysSessions ==
  ASSUME DigestYields = FALSE
  PROVE  Spec => [](IInv /\ SessionInv)
<1>1. Init => IInv /\ SessionInv BY InitIInv, InitRelay DEF SessionInv
<1>2. IInv /\ SessionInv /\ [Next]_vars => (IInv /\ SessionInv)'
  BY NextIInv, ShellPreserved, KeyPreserved DEF SessionInv
<1> QED BY <1>1, <1>2, PTL DEF Spec

(* What an enrolled agent runs has its browser, whatever exits, reaps,      *)
(* replacements, alarms and restarts interleave, and whether or not events  *)
(* are delivered during a digest (fleet.js:253-279, 289-323, 337-361).      *)
THEOREM NoOrphanShellTheorem == Spec => []NoOrphanShell
<1>1. ShellInv => NoOrphanShell BY DEF ShellInv
<1> QED BY <1>1, AlwaysShellAlarm, PTL

(* No agent, hello or key is left without an alarm, but for a key whose     *)
(* call a restart cut off between its put and armAlarm (fleet.js:163-170,   *)
(* 235-241, 363-411).                                                       *)
THEOREM AlarmIsArmedTheorem == Spec => []AlarmIsArmed
<1>1. AlarmInv => AlarmIsArmed BY DEF AlarmInv, SocketsWatched, KeysWatched, AlarmIsArmed
<1> QED BY <1>1, AlwaysShellAlarm, PTL

(* No browser stays open without a registered agent of its machine, and a   *)
(* black box comes only of another browser of the same session that has     *)
(* gone, however digests, hellos, exits, reaps, alarms and restarts         *)
(* interleave (fleet.js:201-229, 253-279, 337-361).                         *)
THEOREM BlackBoxIsDesertedTheorem == Spec => []BlackBoxIsDeserted
  BY AlwaysShellAlarm, PTL

(* An open browser has its agent, which was told of it or is closing.  It   *)
(* takes that no event comes between the read of a key and its claim: two   *)
(* upgrades of one key would share a shell, and the first to leave end it   *)
(* for both (fleet.js:201-229, 253-271).                                    *)
THEOREM NoBlackBoxTheorem ==
  ASSUME DigestYields = FALSE
  PROVE  Spec => []NoBlackBox
<1>1. SessionInv /\ BlackBoxIsDeserted => NoBlackBox
  BY NobodyIsDeserted DEF SessionInv, KeyInv
<1> QED BY <1>1, AlwaysSessions, BlackBoxIsDesertedTheorem, PTL

(* The Worker's relay implements SessionLife, as the Go broker does, under  *)
(* the same condition on digests.                                           *)
THEOREM ImplementsLifeTheorem ==
  ASSUME DigestYields = FALSE
  PROVE  Spec => ImplementsLife
<1>1. Init => Life!LifeInit BY InitRelay
<1>2. SessionInv => StagesRead BY Stages
<1>3. SessionInv' => StagesRead' BY StagesNext
<1>4. IInv /\ SessionInv /\ SessionInv' /\ [Next]_vars => [Life!LifeNext]_Life!lifeVars
  BY <1>2, <1>3, LifeStep
<1> QED BY <1>1, <1>4, AlwaysSessions, PTL DEF Spec, ImplementsLife, Life!LifeSpec

=============================================================================
