# popfleet in TLA+

popfleet gives a browser a terminal on a machine behind NAT. An *agent* on the
machine dials out to a *relay*; the relay pairs it with a browser that holds a
one-time session key. There are two relays with one protocol (docs/PROTOCOL.md):
the Go broker and a Cloudflare Worker; both serve the same two pages, a panel and
a terminal. This directory models the relays, the machine store, the Go agent and
the pages, checks them with TLC on small instances, and proves the main safety
properties of every one of them for instances of every size with TLAPS.

Commands, in this directory:

    tlasany M.tla                      parse
    tlc -workers 2 -config X.cfg M     model-check (runs are listed in PROJECT.json)
    tlapm BrokerProofs.tla             check proofs (and the other *Proofs.tla)

## 1. Inventory

| Part | Source | State it keeps | Operations | Talks to |
|---|---|---|---|---|
| relay connection | internal/broker/broker.go 237-292 | bounded queue `out`, `closed`, the socket | newConn and its writer goroutine, send, close | every handler of the broker |
| Go broker | internal/broker/broker.go | `agents`, `pend`, `sess` under `b.mu` | wsAgent, wsTerm, apiMint, apiTerm, apiDelete, sweep, dropAgent, endSession, toBrowser | conns, the store |
| machine store | internal/store/store.go | machines in memory, JSON file, temporary file | Open, Mint, ByToken, Touch, Delete, List, save | the broker, the file system |
| Go agent | internal/agent/agent.go | map of PTYs, one goroutine pair per PTY | Run, session, pump, send | a relay, the shells |
| Worker relay | worker/src/fleet.js, worker/src/index.js | storage rows, socket attachments, the alarm | fetch (four calls), upgradeAgent, upgradeTerm, webSocketMessage, hello, reap, alarm | the platform, agents, browsers |
| Python agent | contrib/agent.py | dict of sessions, asyncio tasks | connect, handle, pump, e2e_kill | a relay, the shells |
| terminal page | internal/panel/term.js (worker/public/term.js is the same file) | the socket, `aead`, `ended`, the promise chains recvChain and sendChain, the stored fleet key | init, enableE2E, handleFrame, seal and unseal, onData, banner | a relay, the user, other tabs (localStorage) |
| panel page | internal/panel/index.js (worker/public/index.js is the same file) | the admin token, `known`, `cfg`, the calls under way | poll, render, api, adminToken, mint, revoke, open a terminal | the admin calls, the user |
| payload encryption | internal/e2e/e2e.go | none | Key, Seal, Open | agents, pages |
| installer, harness, release | contrib/, worker/sync-assets.sh | none | | |

What is hard about each, and what makes it correct:

- **Connection.** Several handlers call `send` and `close` on one conn while its
  writer drains it. A frame after the final one, a send on a closed channel or a
  socket that stays open after `close` would each break the relay. Correct: FIFO,
  nothing after the final frame, a closed conn always shuts its socket.
- **Broker.** Handlers change the maps under `b.mu` and act on conns after they
  unlocked, so any two interleave there. A duplicate hello replaces the zombie, a
  zombie dies late, a browser disconnects while its shell exits, a queue is full,
  a machine is revoked during a handshake. Correct: a key opens one session;
  whatever leaves a map is closed; a session ends when and only when it should;
  nothing crosses between machines; nobody waits for ever ("losing the agent
  socket must never leave a dead black box", implementation-notes.md:13).
- **Store.** A crash between any two file system calls, a call that fails, a
  temporary file left behind, memory and file that disagree after a failed save.
  Correct: a token that was handed out is durable, one that was refused never
  comes to life, the file is always whole, a deleted machine stays deleted.
- **Agent.** The reading loop, the readers of the PTYs and their pumps share a map
  and a socket; exit races output; a background job keeps a PTY after its shell;
  a tampered frame is followed by others; a write to a PTY can block. Correct: no
  shell without a way to kill it, all output before exit, no goroutine left
  behind.
- **Worker.** One object, no threads, but handlers interleave at awaits; what
  survives hibernation is in rows and attachments; the alarm is the only deadline.
  Correct: what the broker promises, with one socket per machine and per sid, an
  alarm that is armed whenever it is needed, and a revocation nothing undoes.
- **Terminal page.** One thread, but it waits for the probe, prompts, key
  derivation, decryption and sealing, and frames, keystrokes and the socket's close
  event come in between. Correct: output and keystrokes in order, nothing shown or
  sent in the wrong mode, one banner for every end, and the right one.
- **Panel page.** A poll every 2 s whether or not the last was answered; answers
  are late, refused or lost, and a 401 takes the token away under other calls.
  Correct: the table converges to the relay's list, toasts agree with it, a wrong
  token is asked for again and a good one is kept.
- **Python agent.** Same promises as the Go agent.

`hazards` in PROJECT.json lists these behaviours at the lines where they bite.

## 2. Modules

| Module | Models | Remarks |
|---|---|---|
| Conn | `conn` of broker.go | operators over `out`, `closed`, `ws`; used by Broker and PageFeed |
| Broker | every handler of broker.go that changes state | one step per critical section, per call on a conn, per read of a socket |
| SessionLife | abstract: unminted, pending, claimed, attached, ended or void | implemented by both relays |
| BrokerLife | refinement mapping Broker -> SessionLife | |
| BrokerProofs | theorems about Broker: maps, keys, conns | |
| BrokerFrameProofs | theorems about Broker: frames, and that it implements SessionLife | rests on BrokerProofs |
| Store | store.go, call by call | crash and failure between any two calls |
| StoreProofs | theorems about Store | |
| Agent | agent.go | Run, session, both goroutines of pump |
| Fleet | fleet.js | one step per await that lets something happen |
| FleetLife | refinement mapping Fleet -> SessionLife | |
| TermPage | term.js | one action per task and per promise callback that follows a wait |
| TermPageProofs | theorems about TermPage | |
| Viewer | abstract: what a terminal promises its user | implemented by TermPage |
| PageFeed | composition: handlers -> Conn -> socket -> TermPage | refines TermPage's own relay, and Viewer |
| PageFeedProofs | theorems about PageFeed, and that it implements Viewer | rests on TermPageProofs |
| FleetProofs, AgentProofs | theorems about Fleet and Agent | |
| Panel | index.js, and the admin check of worker/src/index.js | polls and clicks overlap |
| PanelProofs | theorems about Panel | |
| MCBroker, MCStore, MCAgent, MCFleet, MCPage, MCPanel | model values and symmetry sets | one .cfg per run |

Broker instantiates Conn for all its conns (`INSTANCE Conn WITH Conns <- Conns`), so
what the writer and the queue do is part of every run and proof of the broker.

Operators named *Mutant of X* are wrong versions of X. No specification uses them:
each shows, put in X's place, that some property would notice that bug.

### Conn and Broker

A handler that has unlocked `b.mu` and still has calls to make carries them in
`todo[h]`: shut an agent's conn, end a set of browsers with one final frame (in
any order, as a map iteration has none), tell an agent to close a PTY. `DoWork`
does them one at a time, so every other handler can run in between, as in the
code. `apc`, `tpc`, `dpc`, `kpc` say where wsAgent, wsTerm, apiDelete and apiTerm
are. A frame is its kind, sid, sender and banner text. The bound `Revocable`
limits which machines TLC deletes.

Handlers' locals that outlive a critical section are variables, since stale reads
are the point: `tac` is the agent wsTerm captured with the key, `acur` the session
toBrowser found, `dac` the agent apiDelete found.

### Store

`op.at` is the next file system call of the operation that holds `s.mu`; `Crash` may
come between any two. `works` says whether the disk works, which changes at any time:
while it does not, each call succeeds or fails; while it does, a call fails only for
a reason the code gives it, an O_EXCL that finds a file. A death is the process's: a
completed call's effect on the files stays (no fsync model).

### Agent

`pc` is the single main goroutine (dial, hello, read loop, a write to a PTY in
progress, the deferred kills), `rdr` and `ppc` the two goroutines of each PTY and
`chunks` what is in the channel between them. The reader reads (PtyRead) and then
waits for room in the channel (PtySend); meanwhile it sees nothing, not even the end
of its terminal (PtyEnd). Once pump has left its loop `Drain` takes what comes.
Output is counted rather than carried. What the shells, their background jobs, the
relay and the network do is external and unfair: a program may never read.

### Fleet

JavaScript is atomic between awaits. The platform (external) is a gate: while a
storage operation is outstanding no new event is delivered. So the only awaits
that let other handlers run are `request.json()` and, if the constant
`DigestYields` says so, `crypto.subtle.digest`. The runtime Workers use computes a
digest before `digest` returns, so the runs have `DigestYields = FALSE`. The other
storage awaits are still separate steps wherever something durable is done before
and something else after them, because `Restart` may come there: it loses all
sockets and running handlers and keeps rows and alarm. Hibernation needs no action:
nothing in the model lives outside rows, attachments and handlers under way.
`runs[a]` is what agent a was told to open and neither closed nor reported ended.
Socket frames are reliable and ordered, so a frame is accounted for when sent.
A socket whose hello was refused is closed and stays `pending`, as its attachment
does: a late hello on it is handled like one on a socket the alarm has closed.

### TermPage, PageFeed, Viewer

A browser runs one task at a time, and the promise callbacks a task made ready
before the next one: `Free` is the guard of a task and of a promise that the
platform settles (a fetch, a key derivation, a decryption). `chain` is recvChain
with `work` saying what its head waits for, `keys` is sendChain, and the close
event is on neither. A prompt blocks the page, not the network. A fleet key is
short (not 32 bytes), good or wrong; a payload authenticates or not. The user may
answer a prompt with any of them, or decline, and other pages of the origin change
the stored key at any time.

TermPage has a free relay of its own: numbered output, at most one end frame, then
nothing. PageFeed puts the broker's conn there (any handler may call send and close
in any order, the queue may be full, the socket may fail at any write) and shows
that this is such a relay (ConnIsARelay), so what holds of TermPage holds of the
page behind a broker. Against a Worker, which writes to its socket without a queue
of its own, the page keeps the free relay; Fleet sends a browser nothing after its
end, as it closes the socket in the same step.

### Panel

`req` is the set of calls under way, each with the token it was sent with, its
answer and, for a poll, the rows as they were when the relay answered. Answers come
in any order, after any delay, or never. `list` is the relay's truth, which minting,
revoking and agents change. The admin check of the Worker stands in front (`Edge`);
a request without a token carries `Bearer` alone, as fetch trims the header.

## 3. Runs

| Run | Instance | What it shows |
|---|---|---|
| relay | 2 machines, 2 agent sockets, 2 tabs, 1 sid, queue 1 | one tab per key; maps lead to open conns; nothing is forgotten; loss banners are true; sessions follow their agent; isolation of machines |
| release | 1 machine (revocable), 2 agents (SuccessorIsLate), 1 tab, 1 sid, queue 2, fairness | one end and nothing after it; close means ended; a key is lost only for a reason; every ended session and every lost, replaced or revoked agent is let go; refinement of FairLifeSpec |
| store | 2 machines, 1 label, 1 reading of the clock, fairness | durability, rollback, wholeness; saves recover from whatever was left behind |
| agent | 2 PTYs on one sid, encrypted, 3 units of output, channel 1, flush at 2, 3 frames (OneAtATime), fairness | every shell reachable; tampering kills; output before exit; exits reported; goroutines end; loss noticed |
| fleet | 2 machines (one revocable), 2 agents, 2 tabs, 1 sid, 2 mints, 1 restart | the Worker's safety, RevokedStaysGone, refinement of LifeSpec |
| fleet_live | 1 machine, 1 agent, 1 tab, 2 sids, 2 mints, 1 restart, fairness | expired keys are swept, silent agents reaped |
| page | 1 conn, queue 2, 2 outputs, 2 keystrokes, fairness | the page is in the right mode; output and keystrokes in order; a queued reason is shown, accepted output too, and every end gets a banner; the conn refines the page's relay |
| panel | 1 machine, 2 calls under way, 3 clicks, failures or changes, fairness | toasts agree with the table; the table converges; a wrong token is asked for again, a good one kept |
| blackbox, revokerace, store_delete, agent_stall | small | disagreements, section 6 |

Why these bounds. The races of the broker are between two handlers about one
machine or one sid: two agent sockets of one machine (replacement, late death), two
tabs for one key, an agent of a second machine that names a foreign sid. A queue of
one is full after one frame; the release run has two, so that a frame and a final
frame can be queued together. The store's interference is between operations on
two machines, one whose save fails and one whose save writes it. Two PTYs are what
it takes for a sid to be reused; three frames, for one that follows a tampered one to
the same shell; three units of output and a channel of one, for a reader that is held
up in its send while pump holds one unit in its buffer. On the page, two outputs behind one another are
what a slow decryption could reorder, two keystrokes what a slow seal could, and
the queue of two holds an output and a final frame, or is full of output when
`close` or a third comes. In the panel two calls are a stale answer and a fresh one; a third
only repeats this. The type invariants are theorems and not part of
the runs. One restart of the Worker meets each of its awaits.
What the instances leave out, two sessions lost with one agent for instance, is
inside the theorems, which hold for any sets.

Two runs with liveness have a bound beside the constants, an ACTION_CONSTRAINT that the
MC module defines:

- SuccessorIsLate (release). The second agent connects only while the first serves
  and wsTerm is between the claim of a key and its registration, the point where a
  replacement meets most: a map entry, a captured agent and an open frame. From then
  on only the replaced agent sends frames, and no DELETE starts. With one agent
  nothing is bounded, so a loss and a revocation come at any point; a replacement at
  any other point is in the relay run, for safety.
- OneAtATime (agent). A behaviour has a second shell, or a third frame, or a shell
  that writes more than one unit. What the three have in common, the read loop, goes
  on under each; the theorems have no such bound.

Neither holds back a step with a fairness condition, so neither makes a liveness
property hold: a bound only makes the surroundings do less.

Runs with SYMMETRY check no liveness. CHECK_DEADLOCK FALSE stands where an instance
can use up its sockets and requests or simply be left alone.

### Fairness

- Broker: a goroutine not waiting for its peer goes on; a write ends within the
  10 s write deadline; a read on a socket that was shut fails once the frames
  already received are used up, which needs strong fairness as those frames lead
  the loop away from its read; keyTTL passes and sweep ticks. Nobody has to
  connect, send or leave.
- Store: the goroutine that holds `s.mu` goes on. The disk may stay broken and
  nobody has to call or to start the broker: SavesRecover says in its premise that
  the broker is up and the disk works from some moment on.
- Agent: its goroutines go on when they can, the drain among them; a read on a broken socket fails after
  the frames that had arrived; a killed process dies. Programs, background jobs,
  relay and network owe nothing.
- Page: the probe and the handshake settle, a promise that can settle does, a task
  that can run does, and the broker's writer goes on. Nobody has to answer a prompt
  (EndReachesTheUser says so in its premise) or to type.
- Panel: the timer ticks, the relay answers what reached it, an answer runs its
  callback. Prompts may stay up for ever: then no page with a wrong token goes on.
- Fleet: a handler runs to its end; an alarm that is set is delivered although
  other events may be taken first (strong fairness). The clock, agents and
  browsers owe nothing: SilentIsReaped lets a late heartbeat rescue its agent.

## 4. Proofs

`BrokerProofs`, for any finite or infinite sets of machines, sockets, tabs and sids
and any queue length, from BrokerAssumption (the kinds of identifiers are disjoint, `nil` is
none of them, QueueLen > 0), FramesAssumption and ConnAssumption (`nil` is no frame).

    BrokerInv = TypeInv /\ ConnRoles /\ KeyRoles /\ OneTabPerKey /\ FreeHandlers
                /\ OutOfMaps /\ MappedIsOpen /\ NothingForgotten
                /\ LossBannerIsTrue /\ SessionFollowsAgent

None of the properties is inductive alone. TypeInv adds to TypeOK which locals a
handler has set by the time it is at each place. ConnRoles: a conn that is in a
map, in a handler's local or in some `todo` was created, and a fresh one is empty.
FreeHandlers: a handler about to take the lock has no calls left from before, so a
new job never overwrites an old one; without it NothingForgotten fails. OutOfMaps:
what is on a `todo` list has left the maps for good, so a conn that is closed
cannot be found again; MappedIsOpen rests on it. KeyRoles: a claimed sid is neither
pending nor unminted, hence OneTabPerKey. LossBannerIsTrue needs that a tab's agent
is captured in the step that claims the key and that a machine's entry changes only
together with the removal of its sessions (AgentChangeEnds). Each part has a lemma
with one case per action; InvPreserved joins them and each theorem follows with PTL.

`BrokerFrameProofs`, from the same and KeysAssumption (`nil` is no row of b.pend), is
about what reaches the peers: whose frames, in which order, and what they claim.

    FrameInv = Unknown /\ HeldMids /\ DueMids /\ FinIsAnEnd /\ KillIsLate
               /\ Isolation /\ OneEndAndLast

One lemma, QueueSteps, says that a step appends one frame to a queue for one of five
reasons, takes its first frame or drops all; the rest is about the reasons.
Isolation is a matter of stale locals: HeldMids says that the agent wsTerm captured
and the session toBrowser found belong to the right machine, DueMids the same of
what waits in `todo`. CloseMeansEnded is not inductive, as a sid without session may
still get one: KillIsLate says that its one possible tab has been in b.sess already.
For KeyLostForAReason each of the steps that empties a row is looked at.
ImplementsLifeTheorem is the step simulation. Stage of BrokerLife is read off four
variables, and LifeSteps shows that all but six actions are Onward: they may only end
sessions. SessionLife ends any set of sessions in one step, as dropAgent does.
RevocationHolds bounds the finding `revokerace`: once a DELETE has begun and no agent
of the machine is registered, or looked up and about to be, none ever is again.

`StoreProofs`, from StoreAssumption and NilAssumption: StoreInv says what the two
files hold at each point of save (Progress), that the file has no machine memory lacks unless it
was condemned (NoLoss), and that a mint under way is the only difference a failed
save leaves, so that undoing it restores agreement (Minting, Undone, Failed).
DeletionIsFinal bounds the finding `store_delete`: a deleted machine that neither
memory nor the file has any more does not come back, as a save can only rename what
memory holds.

`TermPageProofs`, from no assumption: for sessions of any length,

    IInv = TypeOK /\ Inert /\ KeyKnown /\ Waits /\ PlainRelay /\ ProbedPageIsInMode

ProbedPageIsInMode alone is not inductive: a step of the page could decrypt or seal
with no key. KeyKnown says that whoever is about to has one, which needs Inert
(before the socket is asked for, no frame came in and no key left) and Waits (a
pending wait belongs to init or to the head of a chain). PlainRelay: a page behind
a broker never leaves plaintext mode, as no e2e frame is on its way to it. One
lemma per action, each with a step per conjunct; what the queues hold is in
QueueFacts and ModeFacts.

`PageFeedProofs`, from ConnAssumption and FeedAssumption (the tab's conn is a conn,
MaxOut is a number, the frames the page gets are frames): for queues of any length,
sessions of any size, any callers of send and close and a socket that may fail at
any write.

    FeedInv  = FeedTypeOK /\ QueueIsTheRest /\ Ends /\ FinalIsComing
    OrderInv = OutputInOrder /\ EndIsLast /\ KeysInOrder /\ DecryptsOutput

ConnIsARelay says that what leaves the conn's queue is what TermPage's own relay
might send next. QueueIsTheRest is the reason: the queue holds what was accepted and
not sent, in order, with the end frame behind it, though close makes room by
dropping frames when the queue is full. Hence a theorem of TermPage with its free
relay is one of the page behind a conn, which is how IInv and OrderInv, invariants of
TermPage's Next, are used here. FinalFrameIsShown needs FinalIsComing: once the
socket is through, the end frame is in the inbox or on the chain, so the close
event finds `ended` set or comes later. OrderInv is what Viewer's promises (output
once and in order, nothing after the end, keystrokes in order) come to on the two
chains and the inbox, where an output may wait for a key or a decryption while
others arrive behind it.

`PanelProofs`, from PanelAssumption (`nil` is no machine, list or toast): for any
machines and any number of calls. The invariant adds to ToastsTellTheRows that the
first list makes no toast and that an answered poll has a list; GoodTokenIsKept
needs that the right token is never refused and that a prompt is up only while
there is no token. Ten of the actions change requests only (Quiet), so they share
one proof.

`FleetProofs`, from FleetAssumption: for any machines, sockets, tabs, sids, calls
and any number of restarts. A hello, a DELETE and a touch each read a row, wait,
and go on, and OneAgentPerMachine, RevokedIsOffline and RevokedStaysGone are about
what they find after the wait. The core of the invariant is therefore about what is remembered over it: GotIsThere (a
row that was read to be put back is still there, as the input gate holds events off
until the put), KnownIsThere (a hello whose token was found has a machine row) and
RowsAgree (the token row and the machine row come and go together, hence finding
one is finding both). Enrolled says that a socket is an agent's only after its
hello. CoreFrame is the lemma for the many steps that touch none of this, Shrinks
the one for steps that only take sockets away. Three more invariants stand on it:

    ShellInv = RunsKnown /\ OpenIsDone /\ Someones /\ NoOrphanShell
    AlarmInv = SocketsWatched /\ KeysWatched /\ LiveIsKept /\ Attached
    KeyInv   = KeysNamed /\ ExpiredWasKept /\ ClaimsKnow /\ OneHolder /\ KeyOrHolder
               /\ BodiesFresh /\ GotIsRow /\ Alone

NoOrphanShell needs that a shell is only ever opened on a socket that enrolled
(RunsKnown) and that such a socket has a machine (Someones), so that a frame or a
close event of it finds its own browsers. SocketsWatched and KeysWatched are the halves
of AlarmIsArmed; LiveIsKept says that an alarm that runs and has not counted some
key cannot be about to disarm. Both hold whether or not a digest yields.

NoBlackBox and ImplementsLife do not: were events delivered during a digest, two
upgrades could read one row and both claim its key, and the first to leave would end
the shell of both (TLC shows this when the constant is TRUE). That this is all that
could happen is BlackBoxIsDesertedTheorem, which has no hypothesis: every open browser
has a registered agent of its machine, and that agent runs its session, or is
closing, or another browser of the same session has gone. It rests on ShellInv and
on AcceptedIsKept (a browser keeps its session and machine, and one that has gone
stays gone), and NoBlackBox follows from it and OneHolder. NoBlackBoxTheorem and
ImplementsLifeTheorem themselves have the hypothesis DigestYields = FALSE (see Fleet in
section 2 for why the platform meets it). Alone states what it gives, that no two
handlers are in a digest at once; GotIsRow and BodiesFresh, that what was read before the
digest is still so after it; OneHolder and KeyOrHolder, that a claim is the only one.
RowsAssumption says that `nil` is no row.

`AgentProofs`, from AgentAssumption: for any set of shells and sids, any amount of
output, any flush threshold and channel capacity.

    Inv = Sessions /\ Fresh /\ Mapped /\ WaitedFor /\ EveryShellIsReachable
          /\ KillFollows /\ Flows /\ Exits

EveryShellIsReachable needs that forget, which goes by sid, removes no other shell's
entry: Mapped says a live PTY has its own entry until pump forgets it, WaitedFor
that pump forgets only after the shell died, and Sessions that nothing lives on from one
connection to the next. OutputBeforeExit needs to know where every byte is, the one in the reader's hand and
those in the channel included (Flows:
sent + buf = got while the socket takes output, and got = taken = made once the
reader ended without being cut off) and that this is final by the time of the exit
frame (Exits). KillFollows adds to TamperedIsKilled which PTY the loop is about to
kill. NoPtyOutlivesItsSocket is what EveryShellIsReachable is for: when session has
returned no shell runs unkilled and no terminal is open. Its second half needs
Terminals: an open terminal is in the map until pump has closed it, so that the
deferred loop over the map misses none, whoever forgets what meanwhile.

Every safety invariant, action property and refinement that a passing run checks is
so stated by a theorem, with one exception: of ImplementsFairLife only the safety part
is proved (Spec => LifeSpec). Model-checked only: its fairness part, and all liveness
(EndedIsReleased, SavesRecover, ExitIsReported, PumpsEnd, LossIsNoticed, KeysAreSwept,
SilentIsReaped, AcceptedIsShown, EndReachesTheUser, WrongTokenIsAskedAgain,
Converges), which is outside the prover's reach.

## 5. Not modelled

- Python agent: planned (section 7).
- main.go, panel.go and the routing of worker/src/index.js: no state.
- Terminal geometry (resize frames change nothing the page, the relays or the
  agent's map keep), the DOM, `confirm`, the machine-name prompt and the `last seen`
  column.
- How long Run pauses before it dials again (1 s doubling to 30 s).
- The agent's sends have no write deadline (agent.go:100-104): with a relay that
  keeps the connection and does not read, a send holds `wmu`, and the read loop
  stays in its own next send. In Agent a send returns, with or without an error, so
  its liveness is about sockets that take or refuse what is written. The broker's
  reader waits for locks and the store's save only, never for a browser.
- e2e.go: library cryptography; its users' models let a payload be authentic or not.
- Exact times: 10, 25, 35 and 45 s deadlines, keyTTL and the 16 ms flush are steps
  that may happen, so what depends on their ratios (a dot that turns red after two
  missed heartbeats) is not shown.
- `Touch`'s and the Worker's row contents beyond the presence of a row: names and
  versions are labels in Store and absent in Fleet.
- In Fleet, one millisecond: at `Date.now() == exp` a key is refused by upgradeTerm
  (`<`), accepted by a repeated mint (`>`) and not swept. The model has no instant
  between valid and expired.

## 6. Where code and documents disagree

Each of the first four is a run that ends in a counterexample.

1. `blackbox`: wsTerm captures the agent with the key (broker.go:451) and registers
   later. If the agent is dropped in between and `open` still fits its queue,
   the tab is in `b.sess` with nobody left to end it (implementation-notes.md:13).
2. `revokerace`: wsAgent looks up the token (broker.go:319) and registers later
   (329-341); a DELETE in between answers 204 and the agent is then served
   (docs/PROTOCOL.md:95). In the Worker the input gate excludes this
   (RevokedIsOffline of the fleet run).
3. `store_delete`: Delete ignores the error of save (store.go:152); after a failed
   save and a restart the machine is back (internal/store/store_test.go:109).
4. `agent_stall`: the read loop is in a PTY write (agent.go:234) for a program that
   does not read; a lost socket is not noticed (docs/PROTOCOL.md:55).

Seen while modelling, without a run:

- The final frame of `close` is dropped when the queue is full (broker.go:285-290):
  the page then shows a plain disconnect rather than the banner dropAgent's comment
  (402-403) promises.
- pump forgets the sid before it sends exit (agent.go:354-355); docs/PROTOCOL.md:54
  has the other order. The relay never reuses a sid, so no open falls in between.
- `close` kills the shell only (agent.go:244): a background job that keeps the PTY
  delays the forgetting and the exit frame until it ends or the socket does.
- With `DigestYields = TRUE`, TLC refutes NoBlackBox and ImplementsLife of Fleet:
  two upgrades read one key before either deletes it, against "first valid upgrade
  wins, later ones lose" (fleet.js:202). The code relies on a digest that does not
  yield; deleting before the digest, or comparing again after it, would not.
- A restart between the put of a key and armAlarm (fleet.js:167-173) leaves a key
  that is not swept until the next mint or agent connection: `cut` in AlarmIsArmed
  and KeysAreSwept.

- term.js, the close event (155) is not on recvChain: on an encrypted session the
  exit frame may still wait there for a decryption, and the banner then says
  "disconnected" instead of the reason ("first cause wins; the ws close that follows
  must not overwrite it", 33). FinalFrameIsShown is therefore about a broker's page,
  where nothing on the chain waits.
- term.js 139 says nothing is ever processed in the wrong mode. That holds if the
  probe was answered (ProbedPageIsInMode). A failed probe counts as "not encrypted"
  (143): on a Worker, output before the e2e frame is then shown as ciphertext and
  keystrokes leave unsealed, and after a declined key in the fallback (120) all of
  it is.
- index.js 38: a 401 takes away whatever token is stored by then. With two calls
  under way the second 401 discards the good token just pasted and the user is asked
  again ("prompt once", 2). GoodTokenIsKept allows exactly this.
- index.js 134: polls overlap, so an older list may be rendered after a newer one.
  A revoked row reappears for a poll, with toasts for what did not happen.
- index.js 11: an enrollment dialog opened before /config.json was answered, or
  after that failed, carries no key for an encrypted fleet (against 5-6).

## 7. Plan

Done, in this order: Conn, Broker with SessionLife, Store, the proofs of both,
Agent, Fleet, TermPage with Viewer and PageFeed, Panel, and the proofs of these, the
step simulations included.
The most important behaviour, sessions that end properly whoever fails, came first.
Next:

1. Theorems about the modules below, their refinements first.
2. Relay, composing the broker's conn to an agent with the agent's read loop: what
   a dropped `close` (a full agent queue, broker.go:432-434) does to the PTY, and
   what a refused `open` reports (468).
3. PyAgent, against the promises of Agent: a bad base64 payload ends the connection
   (contrib/agent.py:242), e2e_kill sends err without exit (306-311), os.write on a
   non-blocking descriptor drops input.
