------------------------------ MODULE TermPage ------------------------------
(***************************************************************************)
(* The terminal page, internal/panel/term.js (worker/public/term.js is the  *)
(* same file): one tab, from the probe of /config.json to its banner.       *)
(*                                                                          *)
(* JavaScript runs one task at a time, and the promise callbacks a task has *)
(* made ready before the next task (Free).  A prompt blocks the page.  Two  *)
(* promise chains keep order across awaits: recvChain (chain, its head being*)
(* handled as work says) and sendChain (keys, its head being sealed).  The  *)
(* close event of the socket is on neither chain.                           *)
(*                                                                          *)
(* External: the relay, which sends numbered output, at most one end frame  *)
(* and closes; the user, who types and answers prompts; the other pages     *)
(* that share the stored fleet key.  A fleet key is "short" (not 32 bytes), *)
(* "good", or "wrong"; a payload is authentic (ok) or it is not.  Geometry  *)
(* frames change nothing that the page keeps and are left out.              *)
(***************************************************************************)
EXTENDS Naturals, Sequences, Functions

CONSTANTS MaxOut,   \* bound on the output frames of the session, for TLC
          MaxKeys   \* bound on the keystrokes, for TLC

FleetKeys == {"short", "good", "wrong"}
EndFrames == {"exit", "err"}
PageFrames == [t : {"e2e", "out"} \cup EndFrames, n : Nat, ok : BOOLEAN]
Outputs == [n : Nat, clear : BOOLEAN]
Strokes == [n : Nat, sealed : BOOLEAN]

VARIABLES
    relay,        \* "worker" (v1e) or "broker" (v1)
    sent, over,   \* output frames the relay sent; whether it is through with us
    inbox,        \* frames the browser has received and not dispatched
    boot,         \* where init is: the socket is opened "plain" or "sealed"
    asks, cand,   \* where enableE2E is, and the key it is importing
    aead,         \* the session's key, nil until enableE2E has succeeded
    stored,       \* localStorage popfleet_e2e, nil if absent
    sock,         \* ws.readyState, "none" while ws is null
    chain, work,  \* recvChain: frames not handled yet; what the first waits for
    shown,        \* what term.write got: output numbers, and whether readable
    ended,        \* the banner, nil while there is none
    typed, keys, sealing, \* keystrokes; those on sendChain; first one being sealed
    wire          \* the "in" frames that left: keystrokes, and whether sealed

relayVars == <<relay, sent, over>>
keyVars == <<boot, asks, cand, aead, stored>>
recvVars == <<chain, work, shown>>
sendVars == <<typed, keys, sealing, wire>>
vars == <<relayVars, inbox, keyVars, sock, recvVars, ended, sendVars>>

Init ==
    /\ relay \in {"worker", "broker"} /\ sent = 0 /\ over = FALSE /\ inbox = <<>>
    /\ boot = "probing" /\ asks = "idle" /\ cand = "nil" /\ aead = "nil"
    /\ stored \in FleetKeys \cup {"nil"}
    /\ sock = "none" /\ chain = <<>> /\ work = "idle" /\ shown = <<>>
    /\ ended = "nil"
    /\ typed = 0 /\ keys = <<>> /\ sealing = FALSE /\ wire = <<>>

\* The next task may run: no prompt is up, no promise callback is ready.
Free ==
    /\ asks # "prompting"
    /\ chain = <<>> \/ work # "idle"
    /\ keys = <<>> \/ sealing

\* Mutant of Banner: the last cause wins.
BannerLast(cause) == ended' = cause

\* banner: the first cause wins.
Banner(cause) == ended' = IF ended = "nil" THEN cause ELSE ended

---------------------------------------------------------------------------
(* enableE2E, called by init and by the handler of an e2e frame.            *)

\* Up to its first wait.
EnableE2E ==
    /\ stored' = IF stored = "short" THEN "nil" ELSE stored
    /\ asks' = IF stored \in {"nil", "short"} THEN "prompting" ELSE "importing"
    /\ cand' = IF stored \in {"nil", "short"} THEN "nil" ELSE stored
    /\ UNCHANGED aead

\* What awaits enableE2E goes on: init with ok, the frame handler anyway.
Enabled(ok) ==
    /\ asks' = "idle" /\ cand' = "nil"
    /\ IF boot = "keying"
       THEN /\ boot' = IF ok THEN "sealed" ELSE "stopped"
            /\ sock' = IF ok THEN "connecting" ELSE sock
            /\ UNCHANGED <<chain, work>>
       ELSE /\ work' = "idle" /\ chain' = Tail(chain)
            /\ UNCHANGED <<boot, sock>>

PromptDeclined ==
    /\ asks = "prompting"
    /\ Banner("no key")
    /\ Enabled(FALSE)
    /\ UNCHANGED <<relayVars, inbox, aead, stored, shown, sendVars>>

PromptAnswered(key) ==
    /\ asks = "prompting"
    /\ IF key = "short"
       THEN stored' = "nil" /\ UNCHANGED <<asks, cand>>
       ELSE asks' = "importing" /\ cand' = key /\ UNCHANGED stored
    /\ UNCHANGED <<relayVars, inbox, boot, aead, sock, recvVars, ended, sendVars>>

KeyImported ==
    /\ Free /\ asks = "importing"
    /\ aead' = cand /\ stored' = cand
    /\ Enabled(TRUE)
    /\ UNCHANGED <<relayVars, inbox, shown, ended, sendVars>>

---------------------------------------------------------------------------
(* init and the socket.                                                     *)

\* GET /config.json has settled; one that fails counts as {"e2e":false}.
ProbeAnswered(e2e) ==
    /\ Free /\ boot = "probing"
    /\ e2e => relay = "worker"
    /\ IF e2e
       THEN boot' = "keying" /\ EnableE2E /\ UNCHANGED sock
       ELSE boot' = "plain" /\ sock' = "connecting" /\ UNCHANGED <<asks, cand, aead, stored>>
    /\ UNCHANGED <<relayVars, inbox, recvVars, ended, sendVars>>

\* onopen, which sends the geometry.
SocketOpens ==
    /\ Free /\ sock = "connecting" /\ ~over
    /\ sock' = "open"
    /\ UNCHANGED <<relayVars, inbox, keyVars, recvVars, ended, sendVars>>

\* Refused, failed, closed by the relay after its last frame, or by us.
SocketCloses ==
    /\ Free
    /\ sock \in {"connecting", "closing"} \/ (sock = "open" /\ over /\ inbox = <<>>)
    /\ sock' = "closed" /\ inbox' = <<>> /\ over' = TRUE
    /\ Banner("disconnected")
    /\ UNCHANGED <<relay, sent, keyVars, recvVars, sendVars>>

---------------------------------------------------------------------------
(* Frames.                                                                  *)

\* onmessage.
Receive ==
    /\ Free /\ sock = "open" /\ inbox # <<>>
    /\ inbox' = Tail(inbox)
    /\ chain' = Append(chain, Head(inbox))
    /\ UNCHANGED <<relayVars, keyVars, sock, work, shown, ended, sendVars>>

\* handleFrame starts on the frame f.
Handles(f) == chain # <<>> /\ work = "idle" /\ f = Head(chain)

Write(f, readable) == shown' = Append(shown, [n |-> f.n, clear |-> readable])

HandleE2E(f) ==
    /\ Handles(f) /\ f.t = "e2e"
    /\ IF aead = "nil"
       THEN work' = "enabling" /\ EnableE2E /\ UNCHANGED chain
       ELSE chain' = Tail(chain) /\ UNCHANGED <<work, asks, cand, aead, stored>>
    /\ UNCHANGED <<relayVars, inbox, boot, sock, shown, ended, sendVars>>

HandleOut(f) ==
    /\ Handles(f) /\ f.t = "out"
    /\ IF aead = "nil"
       THEN Write(f, relay = "broker") /\ chain' = Tail(chain) /\ UNCHANGED work
       ELSE work' = "decrypting" /\ UNCHANGED <<chain, shown>>
    /\ UNCHANGED <<relayVars, inbox, keyVars, sock, ended, sendVars>>

HandleEnd(f) ==
    /\ Handles(f) /\ f.t \in EndFrames
    /\ Banner(f.t)
    /\ chain' = Tail(chain)
    /\ UNCHANGED <<relayVars, inbox, keyVars, sock, work, shown, sendVars>>

\* Mutant of Decrypts: what does not authenticate is shown all the same.
DecryptsAny(f) == aead # "nil"

Decrypts(f) == aead = "good" /\ f.ok

\* unseal settles.  A failure forgets the stored key and closes the socket.
Decrypted ==
    LET f == Head(chain)
    IN  /\ Free /\ work = "decrypting"
        /\ work' = "idle" /\ chain' = Tail(chain)
        /\ IF Decrypts(f)
           THEN /\ Write(f, aead = "good" /\ f.ok)
                /\ UNCHANGED <<stored, ended, sock, inbox>>
           ELSE /\ stored' = "nil" /\ Banner("decrypt") /\ UNCHANGED shown
                /\ sock' = IF sock = "open" THEN "closing" ELSE sock
                /\ inbox' = <<>>
        /\ UNCHANGED <<relayVars, boot, asks, cand, aead, sendVars>>

---------------------------------------------------------------------------
(* Keystrokes.                                                              *)

Keystroke ==
    /\ Free /\ typed < MaxKeys
    /\ typed' = typed + 1
    /\ keys' = Append(keys, typed + 1)
    /\ UNCHANGED <<relayVars, inbox, keyVars, sock, recvVars, ended, sealing, wire>>

\* ws.send, which drops what comes after the socket has begun to close.
SendIn(k, sealed) ==
    wire' = IF sock = "open" THEN Append(wire, [n |-> k, sealed |-> sealed]) ELSE wire

\* The first callback of sendChain starts.
SendNext ==
    /\ keys # <<>> /\ ~sealing
    /\ IF sock = "open" /\ aead # "nil"
       THEN sealing' = TRUE /\ UNCHANGED <<keys, wire>>
       ELSE SendIn(Head(keys), FALSE) /\ keys' = Tail(keys) /\ UNCHANGED sealing
    /\ UNCHANGED <<relayVars, inbox, keyVars, sock, recvVars, ended, typed>>

\* Mutant of Sealed: without the chain any seal may settle first.
SealedAny ==
    /\ Free /\ sealing
    /\ \E i \in DOMAIN keys :
          /\ SendIn(keys[i], TRUE)
          /\ keys' = SubSeq(keys, 1, i - 1) \o SubSeq(keys, i + 1, Len(keys))
    /\ sealing' = FALSE
    /\ UNCHANGED <<relayVars, inbox, keyVars, sock, recvVars, ended, typed>>

Sealed ==
    /\ Free /\ sealing
    /\ SendIn(Head(keys), TRUE)
    /\ keys' = Tail(keys) /\ sealing' = FALSE
    /\ UNCHANGED <<relayVars, inbox, keyVars, sock, recvVars, ended, typed>>

---------------------------------------------------------------------------
(* The surroundings.                                                        *)

\* A frame of the relay arrives; once the page closes, nobody looks at it.
Arrives(f) == inbox' = IF sock \in {"connecting", "open"} THEN Append(inbox, f) ELSE inbox

Connected == sock \in {"connecting", "open", "closing"} /\ ~over

\* The Worker says first that it is v1e, but nothing orders this frame before
\* output (term.js:10-14).
RelayAnnounces ==
    /\ Connected /\ relay = "worker"
    /\ \A f \in Range(inbox \o chain) : f.t # "e2e"
    /\ Arrives([t |-> "e2e", n |-> 0, ok |-> TRUE])
    /\ UNCHANGED <<relayVars, keyVars, sock, recvVars, ended, sendVars>>

RelaySends(ok) ==
    /\ Connected /\ sent < MaxOut
    /\ relay = "broker" => ok
    /\ sent' = sent + 1
    /\ Arrives([t |-> "out", n |-> sent + 1, ok |-> ok])
    /\ UNCHANGED <<relay, over, keyVars, sock, recvVars, ended, sendVars>>

\* The end frame is the relay's last (OneEndAndLast of Broker).
RelayEnds(t) ==
    /\ Connected
    /\ Arrives([t |-> t, n |-> 0, ok |-> TRUE]) /\ over' = TRUE
    /\ UNCHANGED <<relay, sent, keyVars, sock, recvVars, ended, sendVars>>

LinkBreaks ==
    /\ Connected
    /\ over' = TRUE
    /\ UNCHANGED <<relay, sent, inbox, keyVars, sock, recvVars, ended, sendVars>>

\* Another terminal page, or the panel (index.js:15-22, which checks nothing),
\* stores a key; once this page has one, it does not look again.
OthersStore(key) ==
    /\ key # stored /\ aead = "nil"
    /\ stored' = key
    /\ UNCHANGED <<relayVars, inbox, boot, asks, cand, aead, sock, recvVars, ended, sendVars>>

---------------------------------------------------------------------------
PageStep ==
    \/ \E e2e \in BOOLEAN : ProbeAnswered(e2e)
    \/ KeyImported \/ SocketOpens \/ SocketCloses
    \/ Receive \/ Decrypted \/ SendNext \/ Sealed
    \/ \E f \in Range(chain) : HandleE2E(f) \/ HandleOut(f) \/ HandleEnd(f)

UserStep ==
    \/ PromptDeclined
    \/ \E key \in FleetKeys : PromptAnswered(key)
    \/ \E key \in FleetKeys \cup {"nil"} : OthersStore(key)
    \/ Keystroke

RelayStep ==
    \/ RelayAnnounces \/ LinkBreaks
    \/ \E ok \in BOOLEAN : RelaySends(ok)
    \/ \E t \in EndFrames : RelayEnds(t)

Next == PageStep \/ UserStep \/ RelayStep

Spec == Init /\ [][Next]_vars

---------------------------------------------------------------------------
Queues ==
    /\ inbox \in Seq(PageFrames) /\ chain \in Seq(PageFrames)
    /\ shown \in Seq(Outputs) /\ keys \in Seq(Nat) /\ wire \in Seq(Strokes)

Counts ==
    /\ relay \in {"worker", "broker"} /\ over \in BOOLEAN /\ sealing \in BOOLEAN
    /\ sent \in Nat /\ typed \in Nat

Stages ==
    /\ boot \in {"probing", "keying", "stopped", "plain", "sealed"}
    /\ asks \in {"idle", "prompting", "importing"}
    /\ sock \in {"none", "connecting", "open", "closing", "closed"}
    /\ work \in {"idle", "enabling", "decrypting"}

KeysAndBanner ==
    /\ cand \in {"good", "wrong", "nil"} /\ aead \in {"good", "wrong", "nil"}
    /\ stored \in FleetKeys \cup {"nil"}
    /\ ended \in {"no key", "decrypt", "disconnected"} \cup EndFrames \cup {"nil"}

TypeOK == Counts /\ Stages /\ KeysAndBanner /\ Queues

(* Nothing is shown or sent in the wrong mode: what is shown was decrypted  *)
(* and authentic on a Worker relay, and keystrokes are sealed there and     *)
(* there only.                                                              *)
RightMode ==
    /\ \A i \in DOMAIN shown : shown[i].clear
    /\ \A i \in DOMAIN wire : wire[i].sealed = (relay = "worker")

(* That holds for every page whose probe was answered, whatever order the   *)
(* e2e frame, output, tampering, prompts and keystrokes come in: "e2e       *)
(* decision first, socket second" (term.js:139), "nothing forged is ever    *)
(* rendered" (README.md:66).                                                *)
ProbedPageIsInMode == relay = "broker" \/ boot = "sealed" => RightMode

=============================================================================
