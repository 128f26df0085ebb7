----------------------------- MODULE AgentProofs -----------------------------
(***************************************************************************)
(* Type correctness of Agent and its safety properties, for any set of      *)
(* PTYs and sids and any amount of output.                                  *)
(***************************************************************************)
EXTENDS Agent, TLAPS

\* What one connection started is not live in the next, and what is left of
\* it when its socket is closed was killed.
Sessions ==
    /\ pc \in {"sleep", "dial", "hello"} => live = {}
    /\ pc = "closing" => \A p \in Ptys : shell[p] # "running"

\* An object that was not spawned is nowhere.
Fresh ==
    \A p \in Ptys : ppc[p] = "none" =>
       /\ p \notin live /\ p \notin exited /\ p \notin erred
       /\ rdr[p] = "none" /\ \A s \in Sids : ptys[s] # p
       /\ sent[p] = 0 /\ buf[p] = 0 /\ got[p] = 0 /\ chunks[p] = 0 /\ taken[p] = 0

\* Until pump forgets it, a live PTY is in the map under its sid.
Mapped ==
    \A p \in live :
       /\ sid[p] \in Sids
       /\ ppc[p] \in {"pumping", "waiting", "forgetting"} /\ pc # "closing" => ptys[sid[p]] = p

\* pump waits for the shell before it forgets.
WaitedFor == \A p \in Ptys : ppc[p] \in {"forgetting", "reporting", "done"} => shell[p] = "dead"

\* An err frame is followed by the kill.
KillFollows == \A p \in erred : shell[p] # "running" \/ (pc = "tampered" /\ cur = p)

\* Where the output of p is, as long as it may still be sent.
Flow(p) ==
    /\ sent[p] + buf[p] = got[p] /\ ptmx[p] # "none"
    /\ taken[p] = got[p] + chunks[p] + (IF rdr[p] = "sending" THEN 1 ELSE 0)
    /\ ptmx[p] = "closed" => ppc[p] \in {"forgetting", "reporting", "done"}
    /\ ppc[p] # "pumping" => chunks[p] = 0 /\ buf[p] = 0 /\ rdr[p] = "ended"
    /\ rdr[p] = "ended" /\ ptmx[p] # "cut" =>
          taken[p] = made[p] /\ (Hungup(p) \/ ptmx[p] = "closed")

Flows == \A p \in Ptys : Sends(p) => Flow(p)

\* Nothing follows an exit frame, and everything was sent before it.
Exits == \A p \in exited : ppc[p] = "done" /\ (ptmx[p] = "closed" => sent[p] = made[p])

Inv ==
    /\ Sessions /\ Fresh /\ Mapped /\ WaitedFor /\ EveryShellIsReachable
    /\ KillFollows /\ Flows /\ Exits

IInv == TypeOK /\ Inv

---------------------------------------------------------------------------
(* The agent starts in the invariant. *)
LEMMA InitIInv == Init => IInv
<1> SUFFICES ASSUME Init PROVE IInv
  OBVIOUS
<1> USE DEF Init
<1>1. RunOK /\ NetOK /\ MapOK
  BY DEF RunOK, NetOK, MapOK
<1>2. ShellOK /\ PumpOK
  BY DEF ShellOK, PumpOK
<1>3. CountOK
  BY AgentAssumption DEF CountOK
<1>4. Sessions /\ Fresh /\ Mapped /\ WaitedFor /\ EveryShellIsReachable /\ KillFollows
  BY AgentAssumption DEF Sessions, Fresh, Mapped, WaitedFor, EveryShellIsReachable, KillFollows
<1>5. Flows /\ Exits
  BY DEF Flows, Exits, Sends
<1> QED
  BY <1>1, <1>2, <1>3, <1>4, <1>5 DEF IInv, TypeOK, Inv

---------------------------------------------------------------------------
(* Run and the read loop.                                                   *)

(* The end of a pause keeps it. *)
LEMMA WakeStep ==
  ASSUME IInv, Wake
  PROVE  IInv'
<1> USE DEF IInv, TypeOK, Inv, Wake, runVars, netVars, ptyVars, outVars, wireVars
<1>1. RunOK' /\ NetOK' /\ MapOK' /\ ShellOK' /\ CountOK' /\ PumpOK'
  <2>1. RunOK' /\ NetOK' BY DEF RunOK, NetOK
  <2>2. MapOK' /\ ShellOK' BY DEF MapOK, ShellOK
  <2>3. CountOK' BY DEF CountOK
  <2>4. PumpOK' BY DEF PumpOK
  <2> QED BY <2>1, <2>2, <2>3, <2>4
<1>2. Sessions' /\ Fresh' /\ Mapped' /\ WaitedFor' /\ EveryShellIsReachable' /\ KillFollows' /\ Flows' /\ Exits'
  BY DEF Sessions, Fresh, Mapped, WaitedFor, EveryShellIsReachable, KillFollows, Flows, Flow,
     Sends, Hungup, Exits
<1> QED
  BY <1>1, <1>2

(* A new socket is nobody's yet. *)
LEMMA DialStep ==
  ASSUME IInv, Dial
  PROVE  IInv'
<1> USE DEF IInv, TypeOK, Inv, Dial, runVars, netVars, ptyVars, outVars, wireVars
<1>1. RunOK' /\ NetOK' /\ MapOK' /\ ShellOK' /\ CountOK' /\ PumpOK'
  <2>1. RunOK' /\ NetOK' BY DEF RunOK, NetOK
  <2>2. MapOK' /\ ShellOK' BY DEF MapOK, ShellOK
  <2>3. CountOK' BY DEF CountOK
  <2>4. PumpOK' BY DEF PumpOK
  <2> QED BY <2>1, <2>2, <2>3, <2>4
<1>2. Sessions' /\ Fresh' /\ Mapped' /\ WaitedFor' /\ EveryShellIsReachable' /\ KillFollows' /\ Exits'
  BY DEF Sessions, Fresh, Mapped, WaitedFor, EveryShellIsReachable, KillFollows, Exits
<1>3. Flows'
  BY DEF Flows, Sends, Sessions
<1> QED
  BY <1>1, <1>2, <1>3

(* A failed dial keeps it. *)
LEMMA DialFailsStep ==
  ASSUME IInv, DialFails
  PROVE  IInv'
<1> USE DEF IInv, TypeOK, Inv, DialFails, Returned, runVars, netVars, ptyVars, outVars, wireVars
<1>1. RunOK' /\ NetOK' /\ MapOK' /\ ShellOK' /\ CountOK' /\ PumpOK'
  <2>1. RunOK' /\ NetOK' BY DEF RunOK, NetOK
  <2>2. MapOK' /\ ShellOK' BY DEF MapOK, ShellOK
  <2>3. CountOK' BY DEF CountOK
  <2>4. PumpOK' BY DEF PumpOK
  <2> QED BY <2>1, <2>2, <2>3, <2>4
<1>2. Sessions' /\ Fresh' /\ Mapped' /\ WaitedFor' /\ EveryShellIsReachable' /\ KillFollows' /\ Flows' /\ Exits'
  BY DEF Sessions, Fresh, Mapped, WaitedFor, EveryShellIsReachable, KillFollows, Flows, Flow,
     Sends, Hungup, Exits
<1> QED
  BY <1>1, <1>2

(* The welcome keeps it. *)
LEMMA HelloOkStep ==
  ASSUME IInv, HelloOk
  PROVE  IInv'
<1> USE DEF IInv, TypeOK, Inv, HelloOk, runVars, netVars, ptyVars, outVars, wireVars
<1>1. RunOK' /\ NetOK' /\ MapOK' /\ ShellOK' /\ CountOK' /\ PumpOK'
  <2>1. RunOK' /\ NetOK' BY DEF RunOK, NetOK
  <2>2. MapOK' /\ ShellOK' BY DEF MapOK, ShellOK
  <2>3. CountOK' BY DEF CountOK
  <2>4. PumpOK' BY DEF PumpOK
  <2> QED BY <2>1, <2>2, <2>3, <2>4
<1>2. Sessions' /\ Fresh' /\ Mapped' /\ WaitedFor' /\ EveryShellIsReachable' /\ KillFollows' /\ Flows' /\ Exits'
  BY DEF Sessions, Fresh, Mapped, WaitedFor, EveryShellIsReachable, KillFollows, Flows, Flow,
     Sends, Hungup, Exits
<1> QED
  BY <1>1, <1>2

(* A refused hello keeps it. *)
LEMMA HelloRejectedStep ==
  ASSUME IInv, HelloRejected
  PROVE  IInv'
<1> USE DEF IInv, TypeOK, Inv, HelloRejected, Returned, runVars, netVars, ptyVars, outVars, wireVars
<1>1. RunOK' /\ NetOK' /\ MapOK' /\ ShellOK' /\ CountOK' /\ PumpOK'
  <2>1. RunOK' /\ NetOK' BY DEF RunOK, NetOK
  <2>2. MapOK' /\ ShellOK' BY DEF MapOK, ShellOK
  <2>3. CountOK' BY DEF CountOK
  <2>4. PumpOK' BY DEF PumpOK
  <2> QED BY <2>1, <2>2, <2>3, <2>4
<1>2. Sessions' /\ Fresh' /\ Mapped' /\ WaitedFor' /\ EveryShellIsReachable' /\ KillFollows' /\ Flows' /\ Exits'
  BY DEF Sessions, Fresh, Mapped, WaitedFor, EveryShellIsReachable, KillFollows, Flows, Sends,
     Exits
<1> QED
  BY <1>1, <1>2

(* A frame without effect keeps it. *)
LEMMA IgnoredStep ==
  ASSUME IInv, NEW f \in Frames, Ignored(f)
  PROVE  IInv'
<1> USE DEF IInv, TypeOK, Inv, Ignored, Reads, runVars, netVars, ptyVars, outVars, wireVars
<1>1. RunOK' /\ NetOK' /\ MapOK' /\ ShellOK' /\ CountOK' /\ PumpOK'
  <2>1. RunOK' /\ NetOK' BY DEF RunOK, NetOK
  <2>2. MapOK' /\ ShellOK' BY DEF MapOK, ShellOK
  <2>3. CountOK' BY DEF CountOK
  <2>4. PumpOK' BY DEF PumpOK
  <2> QED BY <2>1, <2>2, <2>3, <2>4
<1>2. Sessions' /\ Fresh' /\ Mapped' /\ WaitedFor' /\ EveryShellIsReachable' /\ KillFollows' /\ Flows' /\ Exits'
  BY DEF Sessions, Fresh, Mapped, WaitedFor, EveryShellIsReachable, KillFollows, Flows, Flow,
     Sends, Hungup, Exits
<1> QED
  BY <1>1, <1>2

(* A new shell is in the map, under a sid that was free. *)
LEMMA OpenStep ==
  ASSUME IInv, NEW f \in Frames, Open(f)
  PROVE  IInv'
<1> USE DEF IInv, TypeOK, Inv, Open, Start, Frames, runVars, netVars, ptyVars, outVars, wireVars
<1> DEFINE p == CHOOSE q \in Ptys : ppc[q] = "none"
<1>p. p \in Ptys /\ ppc[p] = "none" /\ f.sid \in Sids /\ ptys[f.sid] = nil /\ nil \notin Ptys
  BY AgentAssumption
<1>q. /\ p \notin live /\ p \notin exited /\ p \notin erred /\ \A s \in Sids : ptys[s] # p
      /\ sent[p] = 0 /\ buf[p] = 0 /\ got[p] = 0 /\ chunks[p] = 0 /\ taken[p] = 0
  BY DEF Fresh
<1>r. /\ ptys' = [ptys EXCEPT ![f.sid] = p] /\ live' = live \cup {p} /\ sid' = [sid EXCEPT ![p] = f.sid]
      /\ shell' = [shell EXCEPT ![p] = "running"] /\ ptmx' = [ptmx EXCEPT ![p] = "open"]
      /\ rdr' = [rdr EXCEPT ![p] = "reading"] /\ ppc' = [ppc EXCEPT ![p] = "pumping"]
  OBVIOUS
<1> HIDE DEF p
<1>1. RunOK' /\ NetOK' /\ MapOK'
  BY DEF RunOK, NetOK, MapOK
<1>2. ShellOK' /\ CountOK' /\ PumpOK'
  BY DEF ShellOK, CountOK, PumpOK
<1>3. Sessions' /\ WaitedFor'
  BY DEF Sessions, WaitedFor
<1>4. Fresh'
  BY DEF PumpOK, Fresh
<1>5. Mapped'
  BY <1>p DEF RunOK, MapOK, Mapped
<1>6. EveryShellIsReachable'
  BY <1>p DEF MapOK, EveryShellIsReachable
<1>7. KillFollows'
  BY DEF KillFollows, Fresh
<1>8. Flows'
  <2> SUFFICES ASSUME NEW q \in Ptys, Sends(q)' PROVE Flow(q)'
    BY DEF Flows
  <2>1. CASE q = p
    BY <2>1, <1>p, <1>q DEF ShellOK, PumpOK, Flow
  <2>2. CASE q # p
    BY <2>2, <1>r DEF PumpOK, Flows, Flow, Sends, Hungup
  <2> QED
    BY <2>1, <2>2
<1>9. Exits'
  BY DEF PumpOK, Exits, Fresh
<1> QED
  BY <1>1, <1>2, <1>3, <1>4, <1>5, <1>6, <1>7, <1>8, <1>9

(* The session of a tampered frame is about to be killed. *)
LEMMA TamperedStep ==
  ASSUME IInv, NEW f \in Frames, Tampered(f)
  PROVE  IInv'
<1> USE DEF IInv, TypeOK, Inv, Tampered, Reads, Frames, runVars, netVars, ptyVars, outVars, wireVars
<1>1. RunOK'
  BY DEF RunOK, MapOK
<1>2. NetOK' /\ MapOK' /\ ShellOK' /\ CountOK' /\ PumpOK'
  <2>1. NetOK' BY DEF NetOK
  <2>2. MapOK' /\ ShellOK' BY DEF MapOK, ShellOK
  <2>3. CountOK' BY DEF CountOK
  <2>4. PumpOK' BY DEF PumpOK
  <2> QED BY <2>1, <2>2, <2>3, <2>4
<1>3. Sessions' /\ Fresh' /\ Mapped' /\ WaitedFor' /\ EveryShellIsReachable' /\ KillFollows' /\ Flows' /\ Exits'
  BY DEF Sessions, Fresh, Mapped, WaitedFor, EveryShellIsReachable, KillFollows, Flows, Flow,
     Sends, Hungup, Exits
<1> QED
  BY <1>1, <1>2, <1>3

(* The kill follows the err frame. *)
LEMMA KillTamperedStep ==
  ASSUME IInv, KillTampered
  PROVE  IInv'
<1> USE DEF IInv, TypeOK, Inv, KillTampered, Kill, runVars, netVars, ptyVars, outVars, wireVars
<1>1. RunOK' /\ NetOK' /\ MapOK' /\ ShellOK' /\ CountOK' /\ PumpOK'
  <2>1. RunOK' /\ NetOK' BY DEF RunOK, NetOK
  <2>2. MapOK' /\ ShellOK' BY DEF MapOK, ShellOK
  <2>3. CountOK' BY DEF CountOK
  <2>4. PumpOK' BY DEF PumpOK
  <2> QED BY <2>1, <2>2, <2>3, <2>4
<1>2. Sessions' /\ Fresh' /\ Mapped' /\ WaitedFor' /\ EveryShellIsReachable' /\ Flows' /\ Exits'
  BY DEF Sessions, Fresh, Mapped, WaitedFor, EveryShellIsReachable, Flows, Flow, Sends,
     Hungup, Exits
<1>3. KillFollows'
  BY DEF RunOK, KillFollows
<1> QED
  BY <1>1, <1>2, <1>3

(* Input keeps it. *)
LEMMA InputStep ==
  ASSUME IInv, NEW f \in Frames, Input(f)
  PROVE  IInv'
<1> USE DEF IInv, TypeOK, Inv, Input, Reads, Frames, runVars, netVars, ptyVars, outVars, wireVars
<1>1. RunOK'
  BY DEF RunOK, MapOK
<1>2. NetOK' /\ MapOK' /\ ShellOK' /\ CountOK' /\ PumpOK'
  <2>1. NetOK' BY DEF NetOK
  <2>2. MapOK' /\ ShellOK' BY DEF MapOK, ShellOK
  <2>3. CountOK' BY DEF CountOK
  <2>4. PumpOK' BY DEF PumpOK
  <2> QED BY <2>1, <2>2, <2>3, <2>4
<1>3. Sessions' /\ Fresh' /\ Mapped' /\ WaitedFor' /\ EveryShellIsReachable' /\ KillFollows' /\ Flows' /\ Exits'
  BY DEF Sessions, Fresh, Mapped, WaitedFor, EveryShellIsReachable, KillFollows, Flows, Flow,
     Sends, Hungup, Exits
<1> QED
  BY <1>1, <1>2, <1>3

(* A write that returns keeps it. *)
LEMMA WrittenStep ==
  ASSUME IInv, Written
  PROVE  IInv'
<1> USE DEF IInv, TypeOK, Inv, Written, runVars, netVars, ptyVars, outVars, wireVars
<1>1. RunOK' /\ NetOK' /\ MapOK' /\ ShellOK' /\ CountOK' /\ PumpOK'
  <2>1. RunOK' /\ NetOK' BY DEF RunOK, NetOK
  <2>2. MapOK' /\ ShellOK' BY DEF MapOK, ShellOK
  <2>3. CountOK' BY DEF CountOK
  <2>4. PumpOK' BY DEF PumpOK
  <2> QED BY <2>1, <2>2, <2>3, <2>4
<1>2. Sessions' /\ Fresh' /\ Mapped' /\ WaitedFor' /\ EveryShellIsReachable' /\ KillFollows' /\ Flows' /\ Exits'
  BY DEF Sessions, Fresh, Mapped, WaitedFor, EveryShellIsReachable, KillFollows, Flows, Flow,
     Sends, Hungup, Exits
<1> QED
  BY <1>1, <1>2

(* A close kills the shell of its sid. *)
LEMMA CloseStep ==
  ASSUME IInv, NEW f \in Frames, Close(f)
  PROVE  IInv'
<1> USE DEF IInv, TypeOK, Inv, Close, Reads, Kill, Frames, runVars, netVars, ptyVars, outVars, wireVars
<1>1. RunOK' /\ NetOK' /\ MapOK' /\ ShellOK' /\ CountOK' /\ PumpOK'
  <2>1. RunOK' /\ NetOK' BY DEF RunOK, NetOK
  <2>2. MapOK' /\ ShellOK' BY DEF MapOK, ShellOK
  <2>3. CountOK' BY DEF CountOK
  <2>4. PumpOK' BY DEF PumpOK
  <2> QED BY <2>1, <2>2, <2>3, <2>4
<1>2. Sessions' /\ Fresh' /\ Mapped' /\ WaitedFor' /\ EveryShellIsReachable' /\ Flows' /\ Exits'
  BY DEF Sessions, Fresh, Mapped, WaitedFor, EveryShellIsReachable, Flows, Flow, Sends,
     Hungup, Exits
<1>3. KillFollows'
  BY DEF RunOK, KillFollows
<1> QED
  BY <1>1, <1>2, <1>3

(* A failed read keeps it. *)
LEMMA ReadFailsStep ==
  ASSUME IInv, ReadFails
  PROVE  IInv'
<1> USE DEF IInv, TypeOK, Inv, ReadFails, runVars, netVars, ptyVars, outVars, wireVars
<1>1. RunOK' /\ NetOK' /\ MapOK' /\ ShellOK' /\ CountOK' /\ PumpOK'
  <2>1. RunOK' /\ NetOK' BY DEF RunOK, NetOK
  <2>2. MapOK' /\ ShellOK' BY DEF MapOK, ShellOK
  <2>3. CountOK' BY DEF CountOK
  <2>4. PumpOK' BY DEF PumpOK
  <2> QED BY <2>1, <2>2, <2>3, <2>4
<1>2. Sessions' /\ Fresh' /\ Mapped' /\ WaitedFor' /\ EveryShellIsReachable' /\ KillFollows' /\ Flows' /\ Exits'
  BY DEF Sessions, Fresh, Mapped, WaitedFor, EveryShellIsReachable, KillFollows, Flows, Flow,
     Sends, Hungup, Exits
<1> QED
  BY <1>1, <1>2

(* All shells that run are in the map, and killed. *)
LEMMA KillAllStep ==
  ASSUME IInv, KillAll
  PROVE  IInv'
<1> USE DEF IInv, TypeOK, Inv, KillAll, Kill, runVars, netVars, ptyVars, outVars, wireVars
<1>1. RunOK' /\ NetOK' /\ MapOK' /\ ShellOK' /\ CountOK' /\ PumpOK'
  <2>1. RunOK' /\ NetOK' BY DEF RunOK, NetOK
  <2>2. MapOK' /\ ShellOK' BY DEF MapOK, ShellOK
  <2>3. CountOK' BY DEF CountOK
  <2>4. PumpOK' BY DEF PumpOK
  <2> QED BY <2>1, <2>2, <2>3, <2>4
<1>2. Sessions'
  <2>1. ASSUME NEW p \in Ptys PROVE shell'[p] # "running"
    <3>1. CASE shell[p] = "running"
      <4>1. sid[p] \in Sids /\ ptys[sid[p]] = p
        BY <3>1 DEF EveryShellIsReachable, Mapped
      <4>2. p \in {ptys[s] : s \in Sids} \ {nil}
        BY <4>1, AgentAssumption
      <4> QED
        BY <4>2
    <3>2. CASE shell[p] # "running"
      BY <3>2
    <3> QED
      BY <3>1
  <2> QED
    BY <2>1 DEF Sessions
<1>3. Fresh'
  BY AgentAssumption DEF Fresh
<1>4. Mapped' /\ WaitedFor' /\ Flows'
  BY DEF Mapped, WaitedFor, Flows, Flow, Sends, Hungup
<1>5. EveryShellIsReachable'
  BY DEF EveryShellIsReachable, Mapped
<1>6. KillFollows'
  BY DEF RunOK, KillFollows
<1>7. Exits'
  BY DEF RunOK, Exits
<1> QED
  BY <1>1, <1>2, <1>3, <1>4, <1>5, <1>6, <1>7

(* No shell runs when the socket is closed. *)
LEMMA CloseSocketStep ==
  ASSUME IInv, CloseSocket
  PROVE  IInv'
<1> USE DEF IInv, TypeOK, Inv, CloseSocket, Returned, runVars, netVars, ptyVars, outVars, wireVars
<1>1. RunOK' /\ NetOK' /\ MapOK' /\ ShellOK' /\ CountOK' /\ PumpOK'
  <2>1. RunOK' /\ NetOK' BY DEF RunOK, NetOK
  <2>2. MapOK' /\ ShellOK' BY DEF MapOK, ShellOK
  <2>3. CountOK' BY DEF CountOK
  <2>4. PumpOK' BY DEF PumpOK
  <2> QED BY <2>1, <2>2, <2>3, <2>4
<1>2. Sessions' /\ Fresh' /\ Mapped' /\ WaitedFor' /\ KillFollows' /\ Flows' /\ Exits'
  BY DEF Sessions, Fresh, Mapped, WaitedFor, KillFollows, Flows, Sends, Exits
<1>3. EveryShellIsReachable'
  BY DEF EveryShellIsReachable, Sessions
<1> QED
  BY <1>1, <1>2, <1>3

---------------------------------------------------------------------------
(* pump.                                                                    *)

(* A chunk that is read keeps it. *)
LEMMA PtyReadStep ==
  ASSUME IInv, NEW p \in Ptys, PtyRead(p)
  PROVE  IInv'
<1> USE DEF IInv, TypeOK, Inv, PtyRead, Pumping, runVars, netVars, ptyVars, outVars, wireVars
<1>1. RunOK' /\ NetOK' /\ MapOK' /\ ShellOK' /\ CountOK' /\ PumpOK'
  <2>1. RunOK' /\ NetOK' BY DEF RunOK, NetOK
  <2>2. MapOK' /\ ShellOK' BY DEF MapOK, ShellOK
  <2>3. CountOK' BY DEF CountOK
  <2>4. PumpOK' BY DEF PumpOK
  <2> QED BY <2>1, <2>2, <2>3, <2>4
<1>2. Sessions' /\ Fresh' /\ Mapped' /\ WaitedFor' /\ EveryShellIsReachable' /\ KillFollows' /\ Exits'
  BY DEF Sessions, Fresh, Mapped, WaitedFor, EveryShellIsReachable, KillFollows, Exits
<1>3. Flows'
  BY DEF CountOK, PumpOK, Flows, Flow, Sends, Hungup
<1> QED
  BY <1>1, <1>2, <1>3

(* A chunk that enters the channel keeps it. *)
LEMMA PtySendStep ==
  ASSUME IInv, NEW p \in Ptys, PtySend(p)
  PROVE  IInv'
<1> USE DEF IInv, TypeOK, Inv, PtySend, runVars, netVars, ptyVars, outVars, wireVars
<1>1. RunOK' /\ NetOK' /\ MapOK' /\ ShellOK' /\ CountOK' /\ PumpOK'
  <2>1. RunOK' /\ NetOK' BY DEF RunOK, NetOK
  <2>2. MapOK' /\ ShellOK' BY DEF MapOK, ShellOK
  <2>3. CountOK' BY AgentAssumption DEF CountOK
  <2>4. PumpOK' BY DEF PumpOK
  <2> QED BY <2>1, <2>2, <2>3, <2>4
<1>2. Sessions' /\ Fresh' /\ Mapped' /\ WaitedFor' /\ EveryShellIsReachable' /\ KillFollows' /\ Exits'
  BY DEF Sessions, Fresh, Mapped, WaitedFor, EveryShellIsReachable, KillFollows, Exits
<1>3. Flows'
  BY DEF CountOK, PumpOK, Flows, Flow, Sends, Hungup
<1> QED
  BY <1>1, <1>2, <1>3

(* The reader ends when all was read, or was cut off. *)
LEMMA PtyEndStep ==
  ASSUME IInv, NEW p \in Ptys, PtyEnd(p)
  PROVE  IInv'
<1> USE DEF IInv, TypeOK, Inv, PtyEnd, Hungup, runVars, netVars, ptyVars, outVars, wireVars
<1>1. RunOK' /\ NetOK' /\ MapOK' /\ ShellOK' /\ CountOK' /\ PumpOK'
  <2>1. RunOK' /\ NetOK' BY DEF RunOK, NetOK
  <2>2. MapOK' /\ ShellOK' BY DEF MapOK, ShellOK
  <2>3. CountOK' BY DEF CountOK
  <2>4. PumpOK' BY DEF PumpOK
  <2> QED BY <2>1, <2>2, <2>3, <2>4
<1>2. Sessions' /\ Fresh' /\ Mapped' /\ WaitedFor' /\ EveryShellIsReachable' /\ KillFollows' /\ Exits'
  BY DEF Sessions, Fresh, Mapped, WaitedFor, EveryShellIsReachable, KillFollows, Exits
<1>3. Flows'
  BY DEF ShellOK, Flows, Flow, Sends
<1> QED
  BY <1>1, <1>2, <1>3

(* What is drained nobody was going to send: the connection is over. *)
LEMMA DrainStep ==
  ASSUME IInv, NEW p \in Ptys, Drain(p)
  PROVE  IInv'
<1> USE DEF IInv, TypeOK, Inv, Drain, runVars, netVars, ptyVars, outVars, wireVars
<1>1. RunOK' /\ NetOK' /\ MapOK' /\ ShellOK' /\ CountOK' /\ PumpOK'
  <2>1. RunOK' /\ NetOK' BY DEF RunOK, NetOK
  <2>2. MapOK' /\ ShellOK' BY DEF MapOK, ShellOK
  <2>3. CountOK' BY AgentAssumption DEF CountOK
  <2>4. PumpOK' BY DEF PumpOK
  <2> QED BY <2>1, <2>2, <2>3, <2>4
<1>2. Sessions' /\ Fresh' /\ Mapped' /\ WaitedFor' /\ EveryShellIsReachable' /\ KillFollows' /\ Exits'
  BY DEF Sessions, Fresh, Mapped, WaitedFor, EveryShellIsReachable, KillFollows, Exits
<1>3. Flows'
  BY DEF CountOK, PumpOK, Flows, Flow, Sends, Hungup
<1> QED
  BY <1>1, <1>2, <1>3

(* What pump takes is in its buffer or sent. *)
LEMMA PumpTakeStep ==
  ASSUME IInv, NEW p \in Ptys, PumpTake(p)
  PROVE  IInv'
<1> USE DEF IInv, TypeOK, Inv, PumpTake, Pumping, Flush, runVars, netVars, ptyVars, outVars, wireVars
<1>1. RunOK' /\ NetOK' /\ MapOK' /\ ShellOK' /\ PumpOK'
  <2>1. RunOK' /\ NetOK' BY DEF RunOK, NetOK
  <2>2. MapOK' /\ ShellOK' BY DEF MapOK, ShellOK
  <2>3. PumpOK' BY DEF PumpOK
  <2> QED BY <2>1, <2>2, <2>3
<1>2. CountOK'
  <2>1. FlushBytes \in Nat /\ FlushBytes > 0 /\ buf[p] \in Nat /\ buf[p] < FlushBytes
    BY AgentAssumption DEF CountOK
  <2>2. buf' \in [Ptys -> 0..(FlushBytes - 1)]
    <3>1. 0 \in 0..(FlushBytes - 1)
      BY <2>1
    <3>2. CASE buf[p] + 1 >= FlushBytes
      BY <3>1, <3>2 DEF CountOK
    <3>3. CASE ~(buf[p] + 1 >= FlushBytes)
      <4>1. buf[p] + 1 \in 0..(FlushBytes - 1)
        BY <2>1, <3>3
      <4>2. buf' = [buf EXCEPT ![p] = buf[p] + 1]
        BY <3>3
      <4> QED
        BY <4>1, <4>2 DEF CountOK
    <3> QED
      BY <3>2, <3>3
  <2>3. chunks' \in [Ptys -> 0..ChunkCap]
    <3>1. chunks[p] - 1 \in 0..ChunkCap
      BY AgentAssumption DEF CountOK
    <3> QED
      BY <3>1 DEF CountOK
  <2> QED
    BY <2>2, <2>3 DEF CountOK
<1>3. Sessions' /\ EveryShellIsReachable' /\ KillFollows'
  BY DEF Sessions, EveryShellIsReachable, KillFollows
<1>4. Fresh'
  BY DEF CountOK, PumpOK, Fresh
<1>5. Mapped'
  BY DEF RunOK, PumpOK, Mapped
<1>6. WaitedFor'
  BY DEF PumpOK, WaitedFor
<1>7. Flows'
  BY DEF CountOK, PumpOK, Flows, Flow, Sends, Hungup
<1>8. Exits'
  BY DEF RunOK, CountOK, PumpOK, Exits
<1> QED
  BY <1>1, <1>2, <1>3, <1>4, <1>5, <1>6, <1>7, <1>8

(* A flush keeps it. *)
LEMMA PumpTimerStep ==
  ASSUME IInv, NEW p \in Ptys, PumpTimer(p)
  PROVE  IInv'
<1> USE DEF IInv, TypeOK, Inv, PumpTimer, Pumping, Flush, runVars, netVars, ptyVars, outVars, wireVars
<1>1. RunOK' /\ NetOK' /\ MapOK' /\ ShellOK' /\ PumpOK'
  <2>1. RunOK' /\ NetOK' BY DEF RunOK, NetOK
  <2>2. MapOK' /\ ShellOK' BY DEF MapOK, ShellOK
  <2>3. PumpOK' BY DEF PumpOK
  <2> QED BY <2>1, <2>2, <2>3
<1>2. CountOK'
  <2>1. FlushBytes \in Nat /\ FlushBytes > 0 /\ buf[p] \in Nat /\ buf[p] < FlushBytes
    BY AgentAssumption DEF CountOK
  <2>2. buf' \in [Ptys -> 0..(FlushBytes - 1)]
    <3>1. 0 \in 0..(FlushBytes - 1)
      BY <2>1
    <3> QED
      BY <3>1 DEF CountOK
  <2> QED
    BY <2>2 DEF CountOK
<1>3. Sessions' /\ Fresh' /\ Mapped' /\ WaitedFor' /\ EveryShellIsReachable' /\ KillFollows' /\ Exits'
  BY DEF Sessions, Fresh, Mapped, WaitedFor, EveryShellIsReachable, KillFollows, Exits
<1>4. Flows'
  BY DEF CountOK, Flows, Flow, Sends, Hungup
<1> QED
  BY <1>1, <1>2, <1>3, <1>4

(* pump leaves its loop with everything sent. *)
LEMMA PumpEndStep ==
  ASSUME IInv, NEW p \in Ptys, PumpEnd(p)
  PROVE  IInv'
<1> USE DEF IInv, TypeOK, Inv, PumpEnd, Pumping, Flush, runVars, netVars, ptyVars, outVars, wireVars
<1>1. RunOK' /\ NetOK' /\ MapOK' /\ ShellOK' /\ PumpOK'
  <2>1. RunOK' /\ NetOK' BY DEF RunOK, NetOK
  <2>2. MapOK' /\ ShellOK' BY DEF MapOK, ShellOK
  <2>3. PumpOK' BY DEF PumpOK
  <2> QED BY <2>1, <2>2, <2>3
<1>2. CountOK'
  <2>1. FlushBytes \in Nat /\ FlushBytes > 0 /\ buf[p] \in Nat /\ buf[p] < FlushBytes
    BY AgentAssumption DEF CountOK
  <2>2. buf' \in [Ptys -> 0..(FlushBytes - 1)]
    <3>1. 0 \in 0..(FlushBytes - 1)
      BY <2>1
    <3> QED
      BY <3>1 DEF CountOK
  <2> QED
    BY <2>2 DEF CountOK
<1>3. Sessions' /\ Fresh' /\ Mapped' /\ WaitedFor' /\ EveryShellIsReachable' /\ KillFollows' /\ Exits'
  BY DEF Sessions, Fresh, Mapped, WaitedFor, EveryShellIsReachable, KillFollows, Exits
<1>4. Flows'
  BY DEF CountOK, Flows, Flow, Sends, Hungup
<1> QED
  BY <1>1, <1>2, <1>3, <1>4

(* Our end is closed once the shell is gone. *)
LEMMA PumpWaitStep ==
  ASSUME IInv, NEW p \in Ptys, PumpWait(p)
  PROVE  IInv'
<1> USE DEF IInv, TypeOK, Inv, PumpWait, runVars, netVars, ptyVars, outVars, wireVars
<1>1. RunOK' /\ NetOK' /\ MapOK' /\ ShellOK' /\ CountOK' /\ PumpOK'
  <2>1. RunOK' /\ NetOK' BY DEF RunOK, NetOK
  <2>2. MapOK' /\ ShellOK' BY DEF MapOK, ShellOK
  <2>3. CountOK' BY DEF CountOK
  <2>4. PumpOK' BY DEF PumpOK
  <2> QED BY <2>1, <2>2, <2>3, <2>4
<1>2. Sessions' /\ Fresh' /\ Mapped' /\ WaitedFor' /\ EveryShellIsReachable' /\ KillFollows' /\ Exits'
  BY DEF Sessions, Fresh, Mapped, WaitedFor, EveryShellIsReachable, KillFollows, Exits
<1>3. Flows'
  BY DEF PumpOK, Flows, Flow, Sends, Hungup
<1> QED
  BY <1>1, <1>2, <1>3

(* pump forgets its own entry only. *)
LEMMA PumpForgetStep ==
  ASSUME IInv, NEW p \in Ptys, PumpForget(p)
  PROVE  IInv'
<1> USE DEF IInv, TypeOK, Inv, PumpForget, runVars, netVars, ptyVars, outVars, wireVars
<1>1. RunOK' /\ NetOK' /\ MapOK' /\ ShellOK' /\ CountOK' /\ PumpOK'
  <2>1. RunOK' /\ NetOK' BY DEF RunOK, NetOK
  <2>2. MapOK' /\ ShellOK' BY DEF MapOK, ShellOK
  <2>3. CountOK' BY DEF CountOK
  <2>4. PumpOK' BY DEF PumpOK
  <2> QED BY <2>1, <2>2, <2>3, <2>4
<1>2. Sessions' /\ WaitedFor' /\ KillFollows' /\ Flows' /\ Exits'
  BY DEF Sessions, WaitedFor, KillFollows, Flows, Flow, Sends, Hungup, Exits
<1>3. Fresh'
  BY AgentAssumption DEF Fresh
<1>4. Mapped'
  BY DEF PumpOK, Mapped
<1>5. EveryShellIsReachable'
  BY DEF EveryShellIsReachable, Sessions, Mapped, WaitedFor
<1> QED
  BY <1>1, <1>2, <1>3, <1>4, <1>5

(* The exit frame follows the output. *)
LEMMA PumpExitStep ==
  ASSUME IInv, NEW p \in Ptys, PumpExit(p)
  PROVE  IInv'
<1> USE DEF IInv, TypeOK, Inv, PumpExit, runVars, netVars, ptyVars, outVars, wireVars
<1>1. RunOK' /\ NetOK' /\ MapOK' /\ ShellOK' /\ CountOK' /\ PumpOK'
  <2>1. RunOK' /\ NetOK' BY DEF RunOK, NetOK
  <2>2. MapOK' /\ ShellOK' BY DEF MapOK, ShellOK
  <2>3. CountOK' BY DEF CountOK
  <2>4. PumpOK' BY DEF PumpOK
  <2> QED BY <2>1, <2>2, <2>3, <2>4
<1>2. Sessions' /\ Fresh' /\ Mapped' /\ WaitedFor' /\ EveryShellIsReachable' /\ KillFollows' /\ Flows'
  BY DEF Sessions, Fresh, Mapped, WaitedFor, EveryShellIsReachable, KillFollows, Flows, Flow,
     Sends, Hungup
<1>3. Exits'
  BY DEF CountOK, PumpOK, Exits, Flows, Flow
<1> QED
  BY <1>1, <1>2, <1>3

---------------------------------------------------------------------------
(* The surroundings.                                                        *)

(* A shell that dies keeps it. *)
LEMMA ShellDiesStep ==
  ASSUME IInv, NEW p \in Ptys, ShellDies(p)
  PROVE  IInv'
<1> USE DEF IInv, TypeOK, Inv, ShellDies, runVars, netVars, ptyVars, outVars, wireVars
<1>1. RunOK' /\ NetOK' /\ MapOK' /\ ShellOK' /\ CountOK' /\ PumpOK'
  <2>1. RunOK' /\ NetOK' BY DEF RunOK, NetOK
  <2>2. MapOK' /\ ShellOK' BY DEF MapOK, ShellOK
  <2>3. CountOK' BY DEF CountOK
  <2>4. PumpOK' BY DEF PumpOK
  <2> QED BY <2>1, <2>2, <2>3, <2>4
<1>2. Sessions' /\ Fresh' /\ Mapped' /\ WaitedFor' /\ EveryShellIsReachable' /\ KillFollows' /\ Flows' /\ Exits'
  BY DEF Sessions, Fresh, Mapped, WaitedFor, EveryShellIsReachable, KillFollows, Flows, Flow,
     Sends, Hungup, Exits
<1> QED
  BY <1>1, <1>2

(* A background job that ends keeps it. *)
LEMMA HolderLeavesStep ==
  ASSUME IInv, NEW p \in Ptys, HolderLeaves(p)
  PROVE  IInv'
<1> USE DEF IInv, TypeOK, Inv, HolderLeaves, runVars, netVars, ptyVars, outVars, wireVars
<1>1. RunOK' /\ NetOK' /\ MapOK' /\ ShellOK' /\ CountOK' /\ PumpOK'
  <2>1. RunOK' /\ NetOK' BY DEF RunOK, NetOK
  <2>2. MapOK' /\ ShellOK' BY DEF MapOK, ShellOK
  <2>3. CountOK' BY DEF CountOK
  <2>4. PumpOK' BY DEF PumpOK
  <2> QED BY <2>1, <2>2, <2>3, <2>4
<1>2. Sessions' /\ Fresh' /\ Mapped' /\ WaitedFor' /\ EveryShellIsReachable' /\ KillFollows' /\ Flows' /\ Exits'
  BY DEF Sessions, Fresh, Mapped, WaitedFor, EveryShellIsReachable, KillFollows, Flows, Flow,
     Sends, Hungup, Exits
<1> QED
  BY <1>1, <1>2

(* Output of a program keeps it. *)
LEMMA OutputStep ==
  ASSUME IInv, NEW p \in Ptys, Output(p)
  PROVE  IInv'
<1> USE DEF IInv, TypeOK, Inv, Output, runVars, netVars, ptyVars, outVars, wireVars
<1>1. RunOK' /\ NetOK' /\ MapOK' /\ ShellOK' /\ CountOK' /\ PumpOK'
  <2>1. RunOK' /\ NetOK' BY DEF RunOK, NetOK
  <2>2. MapOK' /\ ShellOK' BY DEF MapOK, ShellOK
  <2>3. CountOK' BY DEF CountOK
  <2>4. PumpOK' BY DEF PumpOK
  <2> QED BY <2>1, <2>2, <2>3, <2>4
<1>2. Sessions' /\ Fresh' /\ Mapped' /\ WaitedFor' /\ EveryShellIsReachable' /\ KillFollows' /\ Flows' /\ Exits'
  BY DEF Sessions, Fresh, Mapped, WaitedFor, EveryShellIsReachable, KillFollows, Flows, Flow,
     Sends, Hungup, Exits
<1> QED
  BY <1>1, <1>2

(* A frame that arrives keeps it. *)
LEMMA RelaySendsStep ==
  ASSUME IInv, NEW f \in Frames, RelaySends(f)
  PROVE  IInv'
<1> USE DEF IInv, TypeOK, Inv, RelaySends, runVars, netVars, ptyVars, outVars, wireVars
<1>1. RunOK' /\ NetOK' /\ MapOK' /\ ShellOK' /\ CountOK' /\ PumpOK'
  <2>1. RunOK' /\ NetOK' BY DEF RunOK, NetOK
  <2>2. MapOK' /\ ShellOK' BY DEF MapOK, ShellOK
  <2>3. CountOK' BY DEF CountOK
  <2>4. PumpOK' BY DEF PumpOK
  <2> QED BY <2>1, <2>2, <2>3, <2>4
<1>2. Sessions' /\ Fresh' /\ Mapped' /\ WaitedFor' /\ EveryShellIsReachable' /\ KillFollows' /\ Flows' /\ Exits'
  BY DEF Sessions, Fresh, Mapped, WaitedFor, EveryShellIsReachable, KillFollows, Flows, Flow,
     Sends, Hungup, Exits
<1> QED
  BY <1>1, <1>2

(* A broken socket keeps it. *)
LEMMA LinkBreaksStep ==
  ASSUME IInv, LinkBreaks
  PROVE  IInv'
<1> USE DEF IInv, TypeOK, Inv, LinkBreaks, runVars, netVars, ptyVars, outVars, wireVars
<1>1. RunOK' /\ NetOK' /\ MapOK' /\ ShellOK' /\ CountOK' /\ PumpOK'
  <2>1. RunOK' /\ NetOK' BY DEF RunOK, NetOK
  <2>2. MapOK' /\ ShellOK' BY DEF MapOK, ShellOK
  <2>3. CountOK' BY DEF CountOK
  <2>4. PumpOK' BY DEF PumpOK
  <2> QED BY <2>1, <2>2, <2>3, <2>4
<1>2. Sessions' /\ Fresh' /\ Mapped' /\ WaitedFor' /\ EveryShellIsReachable' /\ KillFollows' /\ Flows' /\ Exits'
  BY DEF Sessions, Fresh, Mapped, WaitedFor, EveryShellIsReachable, KillFollows, Flows, Sends,
     Exits
<1> QED
  BY <1>1, <1>2

---------------------------------------------------------------------------
(* Every step keeps the invariant. *)
LEMMA NextIInv == IInv /\ [Next]_vars => IInv'
<1> SUFFICES ASSUME IInv, [Next]_vars PROVE IInv'
  OBVIOUS
<1>1. CASE RunStep
  BY <1>1, WakeStep, DialStep, DialFailsStep, HelloOkStep, HelloRejectedStep DEF RunStep
<1>2. CASE LoopStep
  BY <1>2, IgnoredStep, OpenStep, TamperedStep, InputStep, CloseStep, KillTamperedStep,
     KillAllStep, CloseSocketStep DEF LoopStep
<1>3. CASE Written \/ ReadFails \/ LinkBreaks
  BY <1>3, WrittenStep, ReadFailsStep, LinkBreaksStep
<1>4. ASSUME NEW p \in Ptys, Reader(p) \/ Pump(p) \/ Drain(p) PROVE IInv'
  BY <1>4, PtyReadStep, PtySendStep, PtyEndStep, DrainStep, PumpTakeStep, PumpTimerStep, PumpEndStep, PumpWaitStep,
     PumpForgetStep, PumpExitStep DEF Reader, Pump
<1>5. ASSUME NEW p \in Ptys, ShellDies(p) \/ HolderLeaves(p) \/ Output(p) PROVE IInv'
  BY <1>5, ShellDiesStep, HolderLeavesStep, OutputStep
<1>6. ASSUME NEW f \in Frames, RelaySends(f) PROVE IInv'
  BY <1>6, RelaySendsStep
<1>7. CASE UNCHANGED vars
  <2> USE <1>7 DEF vars, runVars, netVars, ptyVars, outVars, wireVars, IInv, Inv, TypeOK
  <2>1. RunOK' /\ NetOK' /\ MapOK'
    BY DEF RunOK, NetOK, MapOK
  <2>2. ShellOK' /\ CountOK' /\ PumpOK'
    BY DEF ShellOK, CountOK, PumpOK
  <2>3. Sessions' /\ Fresh' /\ Mapped'
    BY DEF Sessions, Fresh, Mapped
  <2>4. WaitedFor' /\ EveryShellIsReachable' /\ KillFollows'
    BY DEF WaitedFor, EveryShellIsReachable, KillFollows
  <2>5. Flows' /\ Exits'
    BY DEF Flows, Flow, Sends, Hungup, Exits
  <2> QED
    BY <2>1, <2>2, <2>3, <2>4, <2>5
<1> QED
  BY <1>1, <1>2, <1>3, <1>4, <1>5, <1>6, <1>7 DEF Next

(* The invariant holds throughout. *)
LEMMA AlwaysIInv == Spec => []IInv
  BY InitIInv, NextIInv, PTL DEF Spec

(* Every variable of the agent keeps its type; buf stays below 4 KiB. *)
THEOREM AgentTypeTheorem == Spec => []TypeOK
<1>1. IInv => TypeOK
  BY DEF IInv
<1> QED
  BY <1>1, AlwaysIInv, PTL

(* Every shell that runs is in the map of the connection that is up.        *)
THEOREM EveryShellIsReachableTheorem == Spec => []EveryShellIsReachable
<1>1. IInv => EveryShellIsReachable
  BY DEF IInv, Inv
<1> QED
  BY <1>1, AlwaysIInv, PTL

(* A session whose input was tampered with is killed before another frame   *)
(* is read.                                                                 *)
THEOREM TamperedIsKilledTheorem == Spec => []TamperedIsKilled
<1>1. IInv => TamperedIsKilled
  BY DEF IInv, Inv, KillFollows, TamperedIsKilled
<1> QED
  BY <1>1, AlwaysIInv, PTL

(* All output of a PTY is sent before its exit frame, however much there is *)
(* and however reading, flushing and the shell's death interleave.          *)
THEOREM OutputBeforeExitTheorem == Spec => []OutputBeforeExit
<1>1. IInv => OutputBeforeExit
  BY DEF IInv, Inv, Exits, OutputBeforeExit
<1> QED
  BY <1>1, AlwaysIInv, PTL

---------------------------------------------------------------------------
(* Terminals and the connection they belong to.                             *)

\* Our end of a terminal is open until pump has waited for the shell, and
\* until then it is where the loss of the socket finds it.
Terminals ==
    \A p \in Ptys : ptmx[p] = "open" =>
       /\ pc # "closing" /\ ppc[p] \in {"pumping", "waiting"}
       /\ p \in live /\ ptys[sid[p]] = p

(* Every step keeps the open terminals where they are found. *)
LEMMA TerminalsPreserved == ASSUME IInv, Terminals, [Next]_vars PROVE Terminals'
<1> USE DEF IInv, TypeOK, MapOK, ShellOK, PumpOK, RunOK, Terminals, runVars, netVars, ptyVars,
            outVars, wireVars, Returned
<1>1. CASE Wake \/ Dial \/ DialFails \/ HelloOk \/ HelloRejected
  BY <1>1 DEF Wake, Dial, DialFails, HelloOk, HelloRejected
<1>2. ASSUME NEW f \in Frames, Ignored(f) \/ Tampered(f) \/ Input(f) \/ Close(f) PROVE Terminals'
  BY <1>2 DEF Ignored, Tampered, Input, Close, Reads, Kill
<1>3. ASSUME NEW f \in Frames, Open(f) PROVE Terminals'
  <2> DEFINE p == CHOOSE q \in Ptys : ppc[q] = "none"
  <2>1. p \in Ptys /\ ppc[p] = "none" BY <1>3 DEF Open, Start
  <2>2. f.sid \in Sids BY DEF Frames
  <2> HIDE DEF p
  <2>3. /\ ptys' = [ptys EXCEPT ![f.sid] = p] /\ live' = live \cup {p}
        /\ sid' = [sid EXCEPT ![p] = f.sid] /\ ptmx' = [ptmx EXCEPT ![p] = "open"]
        /\ ppc' = [ppc EXCEPT ![p] = "pumping"] /\ pc' = pc /\ pc = "read"
        /\ ptys[f.sid] = nil
    BY <1>3 DEF Open, Start, p
  <2>4. ptmx'[p] = "open" => /\ pc' # "closing" /\ ppc'[p] \in {"pumping", "waiting"}
                             /\ p \in live' /\ ptys'[sid'[p]] = p
    BY <2>1, <2>2, <2>3
  <2>5. ASSUME NEW q \in Ptys, q # p, ptmx'[q] = "open"
        PROVE  /\ pc' # "closing" /\ ppc'[q] \in {"pumping", "waiting"}
               /\ q \in live' /\ ptys'[sid'[q]] = q
    <3>1. ptys[sid[q]] = q /\ q # nil /\ sid'[q] = sid[q] BY <2>3, <2>5, AgentAssumption
    <3> QED BY <2>3, <2>5, <3>1
  <2> QED BY <2>4, <2>5
<1>4. CASE KillTampered \/ Written \/ ReadFails
  BY <1>4 DEF KillTampered, Written, ReadFails, Kill
<1>5. CASE KillAll
  <2> DEFINE mine == {ptys[s] : s \in Sids} \ {nil}
  <2>1. ASSUME NEW p \in Ptys, ptmx[p] = "open" PROVE p \in mine
    <3>1. sid[p] \in Sids /\ p # nil BY <2>1, AgentAssumption DEF Inv, Mapped
    <3> QED BY <2>1, <3>1
  <2> HIDE DEF mine
  <2>2. ptmx' = [p \in Ptys |-> IF p \in mine THEN "cut" ELSE ptmx[p]]
    BY <1>5 DEF KillAll, mine
  <2> QED BY <2>1, <2>2
<1>6. CASE CloseSocket
  BY <1>6 DEF CloseSocket
<1>7. ASSUME NEW p \in Ptys, PtyRead(p) \/ PtySend(p) \/ PtyEnd(p) \/ Drain(p) \/ Output(p) PROVE Terminals'
  BY <1>7 DEF PtyRead, PtySend, PtyEnd, Drain, Output
<1>8. ASSUME NEW p \in Ptys, ShellDies(p) \/ HolderLeaves(p) PROVE Terminals'
  BY <1>8 DEF ShellDies, HolderLeaves
<1>9. ASSUME NEW p \in Ptys, PumpTake(p) \/ PumpTimer(p) \/ PumpEnd(p) PROVE Terminals'
  BY <1>9 DEF PumpTake, PumpTimer, PumpEnd, Pumping, Flush
<1>10. ASSUME NEW p \in Ptys, PumpWait(p) PROVE Terminals'
  BY <1>10 DEF PumpWait
<1>11. ASSUME NEW p \in Ptys, PumpForget(p) PROVE Terminals'
  <2> USE <1>11 DEF PumpForget
  <2> SUFFICES ASSUME NEW q \in Ptys, ptmx[q] = "open"
               PROVE  /\ pc # "closing" /\ ppc'[q] \in {"pumping", "waiting"}
                      /\ q \in live /\ ptys'[sid[q]] = q
    OBVIOUS
  <2>1. q # p /\ pc # "closing" OBVIOUS
  <2>2. p \in live => ptys[sid[p]] = p BY <2>1 DEF Inv, Mapped
  <2>3. p \in live => sid[q] # sid[p] BY <2>1, <2>2
  <2> QED BY <2>1, <2>3
<1>12. ASSUME NEW p \in Ptys, PumpExit(p) PROVE Terminals'
  BY <1>12 DEF PumpExit
<1>13. CASE (\E f \in Frames : RelaySends(f)) \/ LinkBreaks \/ UNCHANGED vars
  BY <1>13 DEF RelaySends, LinkBreaks, vars
<1> QED
  BY <1>1, <1>2, <1>3, <1>4, <1>5, <1>6, <1>7, <1>8, <1>9, <1>10, <1>11, <1>12, <1>13
  DEF Next, RunStep, LoopStep, Reader, Pump

(* "No PTY of ours outlives its socket" (agent_test.go:502): when session   *)
(* has returned, and until the next one reads its first frame, no shell of  *)
(* the agent runs that was not killed, and our end of every terminal is     *)
(* closed, by pump or by session's deferred calls (agent.go:131-139, 353).  *)
NoPtyOutlivesItsSocket ==
    pc \in {"sleep", "dial", "hello"} => \A p \in Ptys : shell[p] # "running" /\ ptmx[p] # "open"

(* No PTY of the agent outlives the connection that started it. *)
THEOREM NoPtyOutlivesItsSocketTheorem == Spec => []NoPtyOutlivesItsSocket
<1>1. Init => Terminals
  BY DEF Init, Terminals
<1>2. IInv /\ Terminals /\ [Next]_vars => Terminals'
  BY TerminalsPreserved
<1>3. IInv /\ Terminals => NoPtyOutlivesItsSocket
  BY DEF IInv, Inv, Sessions, EveryShellIsReachable, Terminals, NoPtyOutlivesItsSocket
<1> QED
  BY <1>1, <1>2, <1>3, AlwaysIInv, PTL DEF Spec

=============================================================================
