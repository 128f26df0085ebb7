------------------------------- MODULE Agent -------------------------------
(***************************************************************************)
(* The Go agent, internal/agent/agent.go: Run's reconnect loop, session's   *)
(* read loop, and per PTY the two goroutines of pump.  The loop and the     *)
(* pumps share the map ptys (under pmu) and the socket (under wmu); a write *)
(* to a PTY, unlike anything else the loop does, waits for the program that *)
(* runs there.                                                              *)
(*                                                                          *)
(* Output is counted, not carried: a byte is one unit, read from the PTY as *)
(* one chunk.  A payload is authentic and well formed or it is not (good).  *)
(* How long Run pauses before it dials again (1 s doubling to 30 s) is left *)
(* out; so is whether a program reads its input: a write returns or not.    *)
(* A send returns at once, with or without an error: that one without a     *)
(* write deadline may wait for a relay that does not read is left out.      *)
(***************************************************************************)
EXTENDS Integers, Sequences, FiniteSets

CONSTANTS Ptys,       \* ptySession objects, each spawned at most once
          Sids,
          Encrypted,  \* whether POPFLEET_E2E_KEY is set
          FlushBytes, \* 4 KiB in the code, in chunks
          ChunkCap,   \* capacity of the chunks channel (32)
          MaxOut,     \* bound on what the programs of each PTY write, for TLC
          MaxInbox,   \* bound on unread frames, for TLC
          MaxFrames,  \* bound on frames the relay sends, for TLC
          nil

ASSUME AgentAssumption ==
    /\ Encrypted \in BOOLEAN
    /\ FlushBytes \in Nat \ {0} /\ ChunkCap \in Nat \ {0}
    /\ MaxOut \in Nat /\ MaxInbox \in Nat /\ MaxFrames \in Nat
    /\ nil \notin Ptys

Frames == [t : {"open", "in", "resize", "close"}, sid : Sids, good : BOOLEAN]

VARIABLES
    pc,       \* Run and session: what the main goroutine does
    cur,      \* the PTY it writes to or is about to kill
    link,     \* the socket: "none", "up" or "cut"
    inbox,    \* frames that have arrived and are unread
    ptys,     \* session's map, nil where there is no entry
    live,     \* the PTYs spawned by the current call of session
    sid, shell, held, ptmx, \* per PTY: its sid, the shell, whether another
              \* process has the terminal open, our end of it
    made, taken, chunks, got, buf, sent, \* per PTY: output written, read, in
              \* the channel to pump, received by pump, collected in its buf,
              \* and put on the wire
    rdr, ppc, \* per PTY: where the reader and pump are
    exited, erred, \* history: PTYs with an exit or err frame on the wire
    frames, opens  \* frames and open frames the relay sent so far

runVars == <<pc, cur>>
netVars == <<link, inbox, frames, opens>>
ptyVars == <<sid, shell, held, ptmx>>
outVars == <<made, taken, chunks, got, buf, sent, rdr, ppc>>
wireVars == <<exited, erred>>
vars == <<runVars, netVars, ptys, live, ptyVars, outVars, wireVars>>

Init ==
    /\ pc = "dial" /\ cur = nil
    /\ link = "none" /\ inbox = <<>> /\ frames = 0 /\ opens = 0
    /\ ptys = [s \in Sids |-> nil] /\ live = {}
    /\ sid = [p \in Ptys |-> nil]
    /\ shell = [p \in Ptys |-> "none"]
    /\ held = [p \in Ptys |-> FALSE]
    /\ ptmx = [p \in Ptys |-> "none"]
    /\ made = [p \in Ptys |-> 0] /\ taken = [p \in Ptys |-> 0] /\ chunks = [p \in Ptys |-> 0]
    /\ got = [p \in Ptys |-> 0] /\ buf = [p \in Ptys |-> 0] /\ sent = [p \in Ptys |-> 0]
    /\ rdr = [p \in Ptys |-> "none"] /\ ppc = [p \in Ptys |-> "none"]
    /\ exited = {} /\ erred = {}

---------------------------------------------------------------------------
(* Run: one session after the other, with a pause in between.               *)

Returned == pc' = "sleep" /\ cur' = nil

Wake ==
    /\ pc = "sleep"
    /\ pc' = "dial"
    /\ UNCHANGED <<cur, netVars, ptys, live, ptyVars, outVars, wireVars>>

Dial ==
    /\ pc = "dial"
    /\ link' = "up"
    /\ pc' = "hello"
    /\ UNCHANGED <<cur, inbox, frames, opens, ptys, live, ptyVars, outVars, wireVars>>

DialFails ==
    /\ pc = "dial"
    /\ Returned
    /\ UNCHANGED <<netVars, ptys, live, ptyVars, outVars, wireVars>>

HelloOk ==
    /\ pc = "hello" /\ link = "up"
    /\ pc' = "read"
    /\ UNCHANGED <<cur, netVars, ptys, live, ptyVars, outVars, wireVars>>

\* No answer in 10 s, another frame, or the socket broke.
HelloRejected ==
    /\ pc = "hello"
    /\ link' = "none" /\ inbox' = <<>>
    /\ Returned
    /\ UNCHANGED <<frames, opens, ptys, live, ptyVars, outVars, wireVars>>

---------------------------------------------------------------------------
(* session's read loop.                                                     *)

\* The loop has read the frame f.
Reads(f) ==
    /\ pc = "read" /\ inbox # <<>> /\ f = Head(inbox)
    /\ inbox' = Tail(inbox)
    /\ UNCHANGED <<link, frames, opens, live>>

\* What the loop does with a frame changes nothing but the inbox: a sid that
\* is unknown or, for open, known; in plaintext mode a payload that is no
\* base64; an open whose cmd does not decrypt (answered with err) or whose
\* shell does not start (answered with exit); a resize.
Ignored(f) ==
    /\ Reads(f)
    /\ \/ f.t = "resize"
       \/ f.t = "open" /\ ptys[f.sid] # nil
       \/ f.t = "open" /\ ptys[f.sid] = nil
       \/ f.t \in {"in", "close"} /\ ptys[f.sid] = nil
       \/ f.t = "in" /\ ptys[f.sid] # nil /\ ~f.good /\ ~Encrypted
    /\ UNCHANGED <<pc, cur, ptys, ptyVars, outVars, wireVars>>

\* spawn makes a new object; which one does not matter.
Start(s) ==
    LET p == CHOOSE q \in Ptys : ppc[q] = "none"
    IN  /\ \E q \in Ptys : ppc[q] = "none"
        /\ ptys' = [ptys EXCEPT ![s] = p]
        /\ live' = live \cup {p}
        /\ sid' = [sid EXCEPT ![p] = s]
        /\ shell' = [shell EXCEPT ![p] = "running"]
        /\ ptmx' = [ptmx EXCEPT ![p] = "open"]
        /\ rdr' = [rdr EXCEPT ![p] = "reading"]
        /\ ppc' = [ppc EXCEPT ![p] = "pumping"]
        /\ UNCHANGED <<held, made, taken, chunks, got, buf, sent, wireVars>>

\* Mutant of Open: a duplicate open starts a second shell.
OpenDuplicate(f) ==
    /\ pc = "read" /\ inbox # <<>> /\ f = Head(inbox)
    /\ f.t = "open" /\ (Encrypted => f.good)
    /\ inbox' = Tail(inbox)
    /\ Start(f.sid)
    /\ UNCHANGED <<runVars, link, frames, opens>>

\* open: spawn, enter the map, start pump.
Open(f) ==
    /\ pc = "read" /\ inbox # <<>> /\ f = Head(inbox)
    /\ f.t = "open" /\ ptys[f.sid] = nil /\ (Encrypted => f.good)
    /\ inbox' = Tail(inbox)
    /\ Start(f.sid)
    /\ UNCHANGED <<runVars, link, frames, opens>>

\* SIGKILL, which the process does not survive but may not have died of yet.
Kill(P) == shell' = [p \in Ptys |-> IF p \in P /\ shell[p] = "running" THEN "killed" ELSE shell[p]]

\* A send by the loop or by the pump of p succeeds on the socket of its own
\* session only.
Sends(p) == p \in live /\ link = "up"

\* in, with a payload that does not authenticate: err first, then the kill.
Tampered(f) ==
    /\ Reads(f)
    /\ f.t = "in" /\ ptys[f.sid] # nil /\ ~f.good /\ Encrypted
    /\ pc' = "tampered" /\ cur' = ptys[f.sid]
    /\ erred' = IF Sends(ptys[f.sid]) THEN erred \cup {ptys[f.sid]} ELSE erred
    /\ UNCHANGED <<ptys, ptyVars, outVars, exited>>

\* Mutant of KillTampered: err is sent and that is all.
TamperedGoesOn ==
    /\ pc = "tampered"
    /\ pc' = "read" /\ cur' = nil
    /\ UNCHANGED <<netVars, ptys, live, ptyVars, outVars, wireVars>>

KillTampered ==
    /\ pc = "tampered"
    /\ Kill({cur})
    /\ pc' = "read" /\ cur' = nil
    /\ UNCHANGED <<netVars, ptys, live, sid, held, ptmx, outVars, wireVars>>

Input(f) ==
    /\ Reads(f)
    /\ f.t = "in" /\ ptys[f.sid] # nil /\ f.good
    /\ pc' = "write" /\ cur' = ptys[f.sid]
    /\ UNCHANGED <<ptys, ptyVars, outVars, wireVars>>

\* No process has the terminal of p open any more.
Hungup(p) == shell[p] = "dead" /\ ~held[p]

\* p.f.Write returns: the programs have read enough, or it fails.
Written ==
    /\ pc = "write"
    /\ pc' = "read" /\ cur' = nil
    /\ UNCHANGED <<netVars, ptys, live, ptyVars, outVars, wireVars>>

\* It has to once all programs are gone or pump has closed our end.
WriteFails == Written /\ (Hungup(cur) \/ ptmx[cur] # "open")

Close(f) ==
    /\ Reads(f)
    /\ f.t = "close" /\ ptys[f.sid] # nil
    /\ Kill({ptys[f.sid]})
    /\ UNCHANGED <<pc, cur, ptys, sid, held, ptmx, outVars, wireVars>>

\* Mutant of ReadFails: the loop tries again.
ReadTriesAgain == pc = "read" /\ UNCHANGED vars

\* The read fails: the socket broke, 45 s passed without a pong, or the
\* frame is no JSON.
ReadFails ==
    /\ pc = "read"
    /\ pc' = "leaving"
    /\ UNCHANGED <<cur, netVars, ptys, live, ptyVars, outVars, wireVars>>

\* session's deferred calls, last one first: kill every PTY in the map ...
KillAll ==
    LET mine == {ptys[s] : s \in Sids} \ {nil}
    IN  /\ pc = "leaving"
        /\ Kill(mine)
        /\ ptmx' = [p \in Ptys |-> IF p \in mine THEN "cut" ELSE ptmx[p]]
        /\ ptys' = [s \in Sids |-> nil]
        /\ pc' = "closing"
        /\ UNCHANGED <<cur, netVars, live, sid, held, outVars, wireVars>>

\* ... then close the socket.
CloseSocket ==
    /\ pc = "closing"
    /\ link' = "none" /\ inbox' = <<>>
    /\ live' = {}
    /\ Returned
    /\ UNCHANGED <<frames, opens, ptys, ptyVars, outVars, wireVars>>

---------------------------------------------------------------------------
(* pump: a reader goroutine, a loop that collects and flushes, and, once    *)
(* the loop is left, a goroutine that drains the channel.                   *)

Pumping(p) == ppc[p] = "pumping"

PtyRead(p) ==
    /\ rdr[p] = "reading" /\ ptmx[p] = "open"
    /\ taken[p] < made[p]
    /\ taken' = [taken EXCEPT ![p] = @ + 1]
    /\ rdr' = [rdr EXCEPT ![p] = "sending"]
    /\ UNCHANGED <<runVars, netVars, ptys, live, ptyVars, made, chunks, got, buf, sent, ppc, wireVars>>

\* chunks <- buf: until there is room the reader sees nothing else, not even
\* that its terminal was closed.
PtySend(p) ==
    /\ rdr[p] = "sending" /\ chunks[p] < ChunkCap
    /\ chunks' = [chunks EXCEPT ![p] = @ + 1]
    /\ rdr' = [rdr EXCEPT ![p] = "reading"]
    /\ UNCHANGED <<runVars, netVars, ptys, live, ptyVars, made, taken, got, buf, sent, ppc, wireVars>>

\* EIO: everything was read and nobody has the terminal open, or our end
\* was closed.  The channel is closed with it.
PtyEnd(p) ==
    /\ rdr[p] = "reading"
    /\ ptmx[p] # "open" \/ (Hungup(p) /\ taken[p] = made[p])
    /\ rdr' = [rdr EXCEPT ![p] = "ended"]
    /\ UNCHANGED <<runVars, netVars, ptys, live, ptyVars, made, taken, chunks, got, buf, sent, ppc, wireVars>>

\* flush with n bytes in buf; pump goes to the given place if it fails.
Flush(p, n, then, else) ==
    /\ buf' = [buf EXCEPT ![p] = 0]
    /\ sent' = IF Sends(p) THEN [sent EXCEPT ![p] = @ + n] ELSE sent
    /\ ppc' = [ppc EXCEPT ![p] = IF Sends(p) \/ n = 0 THEN then ELSE else]

PumpTake(p) ==
    /\ Pumping(p) /\ chunks[p] > 0
    /\ chunks' = [chunks EXCEPT ![p] = @ - 1]
    /\ got' = [got EXCEPT ![p] = @ + 1]
    /\ IF buf[p] + 1 >= FlushBytes
       THEN Flush(p, buf[p] + 1, "pumping", "waiting")
       ELSE buf' = [buf EXCEPT ![p] = @ + 1] /\ UNCHANGED <<sent, ppc>>
    /\ UNCHANGED <<runVars, netVars, ptys, live, ptyVars, made, taken, rdr, wireVars>>

\* 16 ms after the first byte entered buf.
PumpTimer(p) ==
    /\ Pumping(p) /\ buf[p] > 0
    /\ Flush(p, buf[p], "pumping", "waiting")
    /\ UNCHANGED <<runVars, netVars, ptys, live, ptyVars, made, taken, chunks, got, rdr, wireVars>>

\* Mutant of PumpEnd: what is in buf is not flushed.
PumpEndUnflushed(p) ==
    /\ Pumping(p) /\ rdr[p] = "ended" /\ chunks[p] = 0
    /\ ppc' = [ppc EXCEPT ![p] = "waiting"]
    /\ UNCHANGED <<runVars, netVars, ptys, live, ptyVars, made, taken, chunks, got, buf, sent, rdr, wireVars>>

PumpEnd(p) ==
    /\ Pumping(p) /\ rdr[p] = "ended" /\ chunks[p] = 0
    /\ Flush(p, buf[p], "waiting", "waiting")
    /\ UNCHANGED <<runVars, netVars, ptys, live, ptyVars, made, taken, chunks, got, rdr, wireVars>>

\* cmd.Wait, then our end of the terminal is closed.
PumpWait(p) ==
    /\ ppc[p] = "waiting" /\ shell[p] = "dead"
    /\ ptmx' = [ptmx EXCEPT ![p] = IF @ = "open" THEN "closed" ELSE @]
    /\ ppc' = [ppc EXCEPT ![p] = "forgetting"]
    /\ UNCHANGED <<runVars, netVars, ptys, live, sid, shell, held,
                   made, taken, chunks, got, buf, sent, rdr, wireVars>>

\* Mutant of PumpForget: pump returns without an exit frame.
PumpForgetReturns(p) ==
    /\ ppc[p] = "forgetting"
    /\ ptys' = IF p \in live THEN [ptys EXCEPT ![sid[p]] = nil] ELSE ptys
    /\ ppc' = [ppc EXCEPT ![p] = "done"]
    /\ UNCHANGED <<runVars, netVars, live, ptyVars, made, taken, chunks, got, buf, sent, rdr, wireVars>>

\* forget: by sid, in the map of the session that started p.
PumpForget(p) ==
    /\ ppc[p] = "forgetting"
    /\ ptys' = IF p \in live THEN [ptys EXCEPT ![sid[p]] = nil] ELSE ptys
    /\ ppc' = [ppc EXCEPT ![p] = "reporting"]
    /\ UNCHANGED <<runVars, netVars, live, ptyVars, made, taken, chunks, got, buf, sent, rdr, wireVars>>

PumpExit(p) ==
    /\ ppc[p] = "reporting"
    /\ exited' = IF Sends(p) THEN exited \cup {p} ELSE exited
    /\ ppc' = [ppc EXCEPT ![p] = "done"]
    /\ UNCHANGED <<runVars, netVars, ptys, live, ptyVars, made, taken, chunks, got, buf, sent, rdr, erred>>

\* Mutant of Drain: there is no such goroutine.
DrainNothing(p) == FALSE /\ UNCHANGED vars

\* Past its loop, pump throws away what the reader still has to send.
Drain(p) ==
    /\ ppc[p] \notin {"none", "pumping"} /\ chunks[p] > 0
    /\ chunks' = [chunks EXCEPT ![p] = @ - 1]
    /\ UNCHANGED <<runVars, netVars, ptys, live, ptyVars, made, taken, got, buf, sent, rdr, ppc, wireVars>>

Reader(p) == PtyRead(p) \/ PtySend(p) \/ PtyEnd(p)

Pump(p) ==
    \/ PumpTake(p) \/ PumpTimer(p) \/ PumpEnd(p)
    \/ PumpWait(p) \/ PumpForget(p) \/ PumpExit(p)

---------------------------------------------------------------------------
(* The surroundings: the programs on the PTYs, the relay and the network.   *)

\* The shell exits, or dies of its kill; a process it started may keep the
\* terminal open (a background job, which gets no SIGHUP).
ShellDies(p) ==
    /\ shell[p] \in {"running", "killed"}
    /\ shell' = [shell EXCEPT ![p] = "dead"]
    /\ \E h \in BOOLEAN : held' = [held EXCEPT ![p] = h]
    /\ UNCHANGED <<runVars, netVars, ptys, live, sid, ptmx, outVars, wireVars>>

HolderLeaves(p) ==
    /\ held[p]
    /\ held' = [held EXCEPT ![p] = FALSE]
    /\ UNCHANGED <<runVars, netVars, ptys, live, sid, shell, ptmx, outVars, wireVars>>

Output(p) ==
    /\ shell[p] = "running" \/ held[p]
    /\ ptmx[p] = "open" /\ made[p] < MaxOut
    /\ made' = [made EXCEPT ![p] = @ + 1]
    /\ UNCHANGED <<runVars, netVars, ptys, live, ptyVars, taken, chunks, got, buf, sent, rdr, ppc, wireVars>>

RelaySends(f) ==
    /\ link = "up" /\ pc \notin {"dial", "hello", "sleep"}
    /\ frames < MaxFrames /\ Len(inbox) < MaxInbox
    /\ f.t = "open" => opens < Cardinality(Ptys)
    /\ f.t \in {"resize", "close"} => f.good
    /\ inbox' = Append(inbox, f)
    /\ frames' = frames + 1
    /\ opens' = IF f.t = "open" THEN opens + 1 ELSE opens
    /\ UNCHANGED <<runVars, link, ptys, live, ptyVars, outVars, wireVars>>

LinkBreaks ==
    /\ link = "up"
    /\ link' = "cut"
    /\ UNCHANGED <<runVars, inbox, frames, opens, ptys, live, ptyVars, outVars, wireVars>>

---------------------------------------------------------------------------
LoopStep ==
    \/ \E f \in Frames : Ignored(f) \/ Open(f) \/ Tampered(f) \/ Input(f) \/ Close(f)
    \/ KillTampered
    \/ KillAll \/ CloseSocket

RunStep == Wake \/ Dial \/ DialFails \/ HelloOk \/ HelloRejected

Next ==
    \/ RunStep \/ LoopStep \/ Written \/ ReadFails
    \/ \E p \in Ptys : Reader(p) \/ Pump(p) \/ Drain(p)
    \/ \E p \in Ptys : ShellDies(p) \/ HolderLeaves(p) \/ Output(p)
    \/ \E f \in Frames : RelaySends(f)
    \/ LinkBreaks

Spec == Init /\ [][Next]_vars

(* The agent's own goroutines go on when they can; a read on a broken       *)
(* socket fails after the frames that had arrived; a killed process dies.   *)
(* Nothing makes a program read its input, a background job end, the relay  *)
(* send or the network break.                                               *)
Fairness ==
    /\ WF_vars(RunStep) /\ WF_vars(LoopStep) /\ WF_vars(WriteFails)
    /\ WF_vars(ReadFails /\ link = "cut" /\ inbox = <<>>)
    /\ \A p \in Ptys :
          /\ WF_vars(Reader(p)) /\ WF_vars(Pump(p)) /\ WF_vars(Drain(p))
          /\ WF_vars(ShellDies(p) /\ shell[p] = "killed")

FairSpec == Spec /\ Fairness

---------------------------------------------------------------------------
RunOK ==
    /\ pc \in {"sleep", "dial", "hello", "read", "write", "tampered", "leaving", "closing"}
    /\ cur \in Ptys \cup {nil} /\ link \in {"none", "up", "cut"}
    /\ live \subseteq Ptys /\ exited \subseteq Ptys /\ erred \subseteq Ptys

NetOK == inbox \in Seq(Frames) /\ frames \in Nat /\ opens \in Nat

MapOK == ptys \in [Sids -> Ptys \cup {nil}] /\ sid \in [Ptys -> Sids \cup {nil}]

ShellOK ==
    /\ shell \in [Ptys -> {"none", "running", "killed", "dead"}]
    /\ held \in [Ptys -> BOOLEAN]
    /\ ptmx \in [Ptys -> {"none", "open", "closed", "cut"}]

CountOK ==
    /\ made \in [Ptys -> Nat] /\ taken \in [Ptys -> Nat] /\ got \in [Ptys -> Nat]
    /\ chunks \in [Ptys -> 0..ChunkCap]
    /\ buf \in [Ptys -> 0..(FlushBytes - 1)] /\ sent \in [Ptys -> Nat]

PumpOK ==
    /\ rdr \in [Ptys -> {"none", "reading", "sending", "ended"}]
    /\ ppc \in [Ptys -> {"none", "pumping", "waiting", "forgetting", "reporting", "done"}]

TypeOK == RunOK /\ NetOK /\ MapOK /\ ShellOK /\ CountOK /\ PumpOK

(* Every shell that runs can be killed: it is in the map of the connection  *)
(* that is up, where close and the socket's loss find it, whatever open,    *)
(* duplicate open, exit and forget did to its sid before.  "No PTY of ours  *)
(* outlives its socket" (agent.go:131, agent_test.go:502).                  *)
EveryShellIsReachable ==
    \A p \in Ptys : shell[p] = "running" => p \in live /\ ptys[sid[p]] = p

(* An exit frame is the last word of its PTY: all the terminal showed has   *)
(* been sent before it, however reading, the 4 KiB and the 16 ms flush      *)
(* interleave with the shell's death.  Only the end of the connection cuts  *)
(* output off.  (pump, agent.go:312-355.)                                   *)
OutputBeforeExit ==
    \A p \in exited : ptmx[p] = "closed" => sent[p] = made[p]

(* A frame that does not authenticate kills its session: once the err frame *)
(* is out and the loop reads on, the shell has its SIGKILL.                 *)
(* (agent.go:226-232; "tampered frame kills the session with err",          *)
(* implementation-notes.md:47.)                                             *)
TamperedIsKilled ==
    \A p \in erred : cur = p \/ shell[p] # "running"

(* A shell that died and left no process on its terminal is reported, unless*)
(* the connection ends first.                                               *)
ExitIsReported ==
    \A p \in Ptys : Hungup(p) ~> (p \in exited \/ p \notin live \/ link = "cut")

(* No goroutine is left behind by a connection: the pump and the reader of  *)
(* every PTY end once session has returned, even where a background job     *)
(* keeps the terminal open, and where a full channel holds the reader when  *)
(* a failed send makes pump leave its loop: then it takes the drain to let  *)
(* it see that its terminal was closed.  (agent.go:284-296, 332-339.)       *)
PumpsEnd ==
    \A p \in Ptys : (ppc[p] # "none" /\ p \notin live) ~> (ppc[p] = "done" /\ rdr[p] = "ended")

(* A broken socket is noticed and left, unless the loop is held up by a     *)
(* program that does not read what is typed (see LossKillsEveryPty).        *)
LossIsNoticed ==
    link = "cut" ~> (link = "none" \/ pc = "write")

---------------------------------------------------------------------------
(* What the documentation says and the code does not do.                    *)

(* "on socket loss: kill every PTY, reconnect with backoff"                 *)
(* (docs/PROTOCOL.md:55).                                                   *)
LossKillsEveryPty ==
    link = "cut" ~> (\A p \in Ptys : shell[p] # "running")
=============================================================================
