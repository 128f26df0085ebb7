--------------------------- MODULE TermPageProofs ---------------------------
(***************************************************************************)
(* Type correctness of TermPage and the mode its page is in, for sessions   *)
(* of any length.                                                           *)
(***************************************************************************)
EXTENDS TermPage, TLAPS

\* Before the socket is asked for, nothing has come in or gone out.
Inert ==
    boot \in {"probing", "keying", "stopped"} =>
       /\ sock = "none" /\ inbox = <<>> /\ chain = <<>> /\ work = "idle"
       /\ shown = <<>> /\ wire = <<>> /\ ~sealing

\* Whoever needs the session's key has it.
KeyKnown ==
    /\ boot = "sealed" \/ work = "decrypting" \/ sealing => aead # "nil"
    /\ work = "enabling" => aead = "nil"
    /\ asks = "importing" => cand # "nil"

\* What is waited for belongs to someone who waits.
Waits ==
    /\ asks # "idle" <=> boot = "keying" \/ work = "enabling"
    /\ work # "idle" => chain # <<>>
    /\ sealing => keys # <<>>

NoE2E(q) == \A i \in DOMAIN q : q[i].t # "e2e"

\* A broker never gets the page into v1e.
PlainRelay ==
    relay = "broker" =>
       /\ boot \in {"probing", "plain"} /\ aead = "nil" /\ asks = "idle" /\ work = "idle"
       /\ NoE2E(inbox) /\ NoE2E(chain)

IInv == TypeOK /\ Inert /\ KeyKnown /\ Waits /\ PlainRelay /\ ProbedPageIsInMode

---------------------------------------------------------------------------
(* Queues.                                                                  *)

(* What remains when the head of a queue is taken was in it before. *)
LEMMA TailOf ==
  ASSUME NEW S, NEW q \in Seq(S), q # <<>>
  PROVE  /\ Head(q) \in S /\ Tail(q) \in Seq(S) /\ Head(q) = q[1] /\ 1 \in DOMAIN q
         /\ \A i \in DOMAIN Tail(q) : i + 1 \in DOMAIN q /\ Tail(q)[i] = q[i + 1]
  OBVIOUS

(* What is in a queue after an Append was there, or is the new element. *)
LEMMA AppendTo ==
  ASSUME NEW S, NEW q \in Seq(S), NEW x \in S
  PROVE  /\ Append(q, x) \in Seq(S) /\ Append(q, x) # <<>>
         /\ \A i \in DOMAIN Append(q, x) :
               \/ i \in DOMAIN q /\ Append(q, x)[i] = q[i]
               \/ Append(q, x)[i] = x
  OBVIOUS

(* The frames that are made are frames. *)
LEMMA FrameTypes ==
  /\ \A t \in {"e2e", "out"} \cup EndFrames, n \in Nat, ok \in BOOLEAN :
        [t |-> t, n |-> n, ok |-> ok] \in PageFrames
  /\ \A f \in PageFrames : f.n \in Nat /\ f.ok \in BOOLEAN /\ f.t \in {"e2e", "out"} \cup EndFrames
  /\ \A n \in Nat, b \in BOOLEAN : [n |-> n, clear |-> b] \in Outputs
  /\ \A n \in Nat, b \in BOOLEAN : [n |-> n, sealed |-> b] \in Strokes
  BY DEF PageFrames, Outputs, Strokes

(* What the queues of the page hold before and after a frame moves. *)
LEMMA QueueFacts ==
  ASSUME Queues
  PROVE  /\ chain # <<>> => /\ Tail(chain) \in Seq(PageFrames) /\ Head(chain) \in PageFrames
                            /\ NoE2E(chain) => NoE2E(Tail(chain)) /\ Head(chain).t # "e2e"
         /\ inbox # <<>> => /\ Tail(inbox) \in Seq(PageFrames) /\ Head(inbox) \in PageFrames
                            /\ NoE2E(inbox) => NoE2E(Tail(inbox)) /\ Head(inbox).t # "e2e"
         /\ \A f \in PageFrames :
               /\ Append(chain, f) \in Seq(PageFrames) /\ Append(chain, f) # <<>>
               /\ Append(inbox, f) \in Seq(PageFrames)
               /\ f.t # "e2e" /\ NoE2E(chain) => NoE2E(Append(chain, f))
               /\ f.t # "e2e" /\ NoE2E(inbox) => NoE2E(Append(inbox, f))
         /\ keys # <<>> => Tail(keys) \in Seq(Nat) /\ Head(keys) \in Nat
         /\ \A k \in Nat : Append(keys, k) \in Seq(Nat) /\ Append(keys, k) # <<>>
<1> USE DEF Queues
<1>1. chain # <<>> => /\ Tail(chain) \in Seq(PageFrames) /\ Head(chain) \in PageFrames
                      /\ NoE2E(chain) => NoE2E(Tail(chain)) /\ Head(chain).t # "e2e"
  BY DEF NoE2E
<1>2. inbox # <<>> => /\ Tail(inbox) \in Seq(PageFrames) /\ Head(inbox) \in PageFrames
                      /\ NoE2E(inbox) => NoE2E(Tail(inbox)) /\ Head(inbox).t # "e2e"
  BY DEF NoE2E
<1>3. ASSUME NEW f \in PageFrames
      PROVE  /\ Append(chain, f) \in Seq(PageFrames) /\ Append(chain, f) # <<>>
             /\ f.t # "e2e" /\ NoE2E(chain) => NoE2E(Append(chain, f))
  <2>1. DEFINE q == Append(chain, f)
  <2>2. q \in Seq(PageFrames) /\ q # <<>>
        /\ \A i \in DOMAIN q : (i \in DOMAIN chain /\ q[i] = chain[i]) \/ q[i] = f
    BY AppendTo
  <2> QED
    BY <2>2 DEF NoE2E
<1>4. ASSUME NEW f \in PageFrames
      PROVE  /\ Append(inbox, f) \in Seq(PageFrames)
             /\ f.t # "e2e" /\ NoE2E(inbox) => NoE2E(Append(inbox, f))
  BY DEF NoE2E
<1>6. \A k \in Nat : Append(keys, k) \in Seq(Nat) /\ Append(keys, k) # <<>>
  BY AppendTo
<1>7. \A f \in PageFrames :
         /\ Append(chain, f) \in Seq(PageFrames) /\ Append(chain, f) # <<>>
         /\ Append(inbox, f) \in Seq(PageFrames)
         /\ f.t # "e2e" /\ NoE2E(chain) => NoE2E(Append(chain, f))
         /\ f.t # "e2e" /\ NoE2E(inbox) => NoE2E(Append(inbox, f))
  BY <1>3, <1>4
<1>8. keys # <<>> => Tail(keys) \in Seq(Nat) /\ Head(keys) \in Nat
  OBVIOUS
<1> HIDE DEF Queues
<1> QED
  BY <1>1, <1>2, <1>6, <1>7, <1>8

Clear(q) == \A i \in DOMAIN q : q[i].clear
Mode(q) == \A i \in DOMAIN q : q[i].sealed = (relay = "worker")

(* What is written or sent in the right mode keeps the rest in it. *)
LEMMA ModeFacts ==
  ASSUME Queues
  PROVE  /\ \A n \in Nat, b \in BOOLEAN :
               /\ Append(shown, [n |-> n, clear |-> b]) \in Seq(Outputs)
               /\ Clear(shown) /\ b => Clear(Append(shown, [n |-> n, clear |-> b]))
         /\ \A n \in Nat, b \in BOOLEAN :
               /\ Append(wire, [n |-> n, sealed |-> b]) \in Seq(Strokes)
               /\ Mode(wire) /\ b = (relay = "worker") => Mode(Append(wire, [n |-> n, sealed |-> b]))
<1> USE DEF Queues
<1>1. ASSUME NEW n \in Nat, NEW b \in BOOLEAN
      PROVE  /\ Append(shown, [n |-> n, clear |-> b]) \in Seq(Outputs)
             /\ Clear(shown) /\ b => Clear(Append(shown, [n |-> n, clear |-> b]))
  <2> DEFINE x == [n |-> n, clear |-> b]
             q == Append(shown, x)
  <2>1. x \in Outputs /\ x.clear = b
    BY DEF Outputs
  <2>2. q \in Seq(Outputs)
        /\ \A i \in DOMAIN q : (i \in DOMAIN shown /\ q[i] = shown[i]) \/ q[i] = x
    <3> HIDE DEF x
    <3> QED
      BY <2>1
  <2> HIDE DEF x, q
  <2>3. Clear(shown) /\ b => Clear(q)
    BY <2>1, <2>2 DEF Clear
  <2> QED
    BY <2>2, <2>3 DEF x, q
<1>2. ASSUME NEW n \in Nat, NEW b \in BOOLEAN
      PROVE  /\ Append(wire, [n |-> n, sealed |-> b]) \in Seq(Strokes)
             /\ Mode(wire) /\ b = (relay = "worker") => Mode(Append(wire, [n |-> n, sealed |-> b]))
  <2> DEFINE x == [n |-> n, sealed |-> b]
             q == Append(wire, x)
  <2>1. x \in Strokes /\ x.sealed = b
    BY DEF Strokes
  <2>2. q \in Seq(Strokes)
        /\ \A i \in DOMAIN q : (i \in DOMAIN wire /\ q[i] = wire[i]) \/ q[i] = x
    <3> HIDE DEF x
    <3> QED
      BY <2>1
  <2> HIDE DEF x, q
  <2>3. Mode(wire) /\ b = (relay = "worker") => Mode(q)
    BY <2>1, <2>2 DEF Mode
  <2> QED
    BY <2>2, <2>3 DEF x, q
<1> QED
  BY <1>1, <1>2

---------------------------------------------------------------------------
(* The page starts in the invariant. *)
LEMMA InitIInv == Init => IInv
<1> SUFFICES ASSUME Init PROVE IInv
  OBVIOUS
<1>0. \A S : <<>> \in Seq(S)
  OBVIOUS
<1>1. TypeOK
  BY <1>0 DEF Init, TypeOK, Queues, Counts, Stages, KeysAndBanner
<1>2. Inert /\ KeyKnown /\ Waits /\ PlainRelay
  BY DEF Init, Inert, KeyKnown, Waits, PlainRelay, NoE2E
<1>3. ProbedPageIsInMode
  BY DEF Init, ProbedPageIsInMode, RightMode
<1> QED
  BY <1>1, <1>2, <1>3 DEF IInv

(* ProbeAnswered keeps it. *)
LEMMA ProbeAnsweredStep ==
  ASSUME IInv, NEW e2e \in BOOLEAN, ProbeAnswered(e2e)
  PROVE  IInv'
<1> USE DEF IInv, TypeOK, ProbeAnswered, EnableE2E, relayVars, keyVars, recvVars, sendVars, EndFrames
<1>1. Queues'
  BY DEF Queues
<1>2. Counts'
  BY DEF Counts
<1>3. Stages'
  BY DEF Stages
<1>4. KeysAndBanner'
  BY DEF KeysAndBanner, FleetKeys
<1>5. Inert' /\ KeyKnown'
  BY DEF Inert, KeyKnown
<1>6. Waits'
  BY DEF Waits
<1>7. PlainRelay'
  BY DEF PlainRelay
<1>8. ProbedPageIsInMode'
  BY DEF ProbedPageIsInMode, RightMode
<1> QED
  BY <1>1, <1>2, <1>3, <1>4, <1>5, <1>6, <1>7, <1>8

(* KeyImported keeps it. *)
LEMMA KeyImportedStep ==
  ASSUME IInv, KeyImported
  PROVE  IInv'
<1> USE DEF IInv, TypeOK, KeyImported, Enabled, relayVars, keyVars, recvVars, sendVars, EndFrames
<1>1. Queues'
  BY QueueFacts DEF Queues, Waits
<1>2. Counts'
  BY DEF Counts
<1>3. Stages'
  BY DEF Stages
<1>4. KeysAndBanner'
  BY DEF KeysAndBanner, FleetKeys
<1>5. Inert' /\ KeyKnown'
  BY DEF Inert, KeyKnown, Waits
<1>6. Waits'
  BY DEF Inert, Waits
<1>7. PlainRelay'
  BY DEF PlainRelay
<1>8. ProbedPageIsInMode'
  <2>1. \/ boot' = boot /\ shown' = shown /\ wire' = wire /\ relay' = relay
        \/ shown' = <<>> /\ wire' = <<>>
    BY DEF Inert
  <2> QED
    BY <2>1 DEF ProbedPageIsInMode, RightMode
<1> QED
  BY <1>1, <1>2, <1>3, <1>4, <1>5, <1>6, <1>7, <1>8

(* SocketOpens keeps it. *)
LEMMA SocketOpensStep ==
  ASSUME IInv, SocketOpens
  PROVE  IInv'
<1> USE DEF IInv, TypeOK, SocketOpens, relayVars, keyVars, recvVars, sendVars, EndFrames
<1>1. Queues'
  BY DEF Queues
<1>2. Counts'
  BY DEF Counts
<1>3. Stages'
  BY DEF Stages
<1>4. KeysAndBanner'
  BY DEF KeysAndBanner
<1>5. Inert' /\ KeyKnown'
  BY DEF Inert, KeyKnown
<1>6. Waits'
  BY DEF Waits
<1>7. PlainRelay'
  BY DEF PlainRelay
<1>8. ProbedPageIsInMode'
  BY DEF ProbedPageIsInMode, RightMode
<1> QED
  BY <1>1, <1>2, <1>3, <1>4, <1>5, <1>6, <1>7, <1>8

(* SocketCloses keeps it. *)
LEMMA SocketClosesStep ==
  ASSUME IInv, SocketCloses
  PROVE  IInv'
<1> USE DEF IInv, TypeOK, SocketCloses, Banner, relayVars, keyVars, recvVars, sendVars, EndFrames
<1>1. Queues'
  BY DEF Queues
<1>2. Counts'
  BY DEF Counts
<1>3. Stages'
  BY DEF Stages
<1>4. KeysAndBanner'
  BY DEF KeysAndBanner
<1>5. Inert' /\ KeyKnown'
  BY DEF Inert, KeyKnown
<1>6. Waits'
  BY DEF Waits
<1>7. PlainRelay'
  <2>1. NoE2E(inbox')
    BY DEF NoE2E
  <2> QED
    BY <2>1 DEF PlainRelay
<1>8. ProbedPageIsInMode'
  BY DEF ProbedPageIsInMode, RightMode
<1> QED
  BY <1>1, <1>2, <1>3, <1>4, <1>5, <1>6, <1>7, <1>8

(* Receive keeps it. *)
LEMMA ReceiveStep ==
  ASSUME IInv, Receive
  PROVE  IInv'
<1> USE DEF IInv, TypeOK, Receive, relayVars, keyVars, recvVars, sendVars, EndFrames
<1>1. Queues'
  BY DEF Queues
<1>2. Counts'
  BY DEF Counts
<1>3. Stages'
  BY DEF Stages
<1>4. KeysAndBanner'
  BY DEF KeysAndBanner
<1>5. Inert' /\ KeyKnown'
  BY DEF Inert, KeyKnown
<1>6. Waits'
  BY DEF Waits
<1>7. PlainRelay'
  BY QueueFacts DEF PlainRelay
<1>8. ProbedPageIsInMode'
  BY DEF ProbedPageIsInMode, RightMode
<1> QED
  BY <1>1, <1>2, <1>3, <1>4, <1>5, <1>6, <1>7, <1>8

(* Decrypted keeps it. *)
LEMMA DecryptedStep ==
  ASSUME IInv, Decrypted
  PROVE  IInv'
<1> USE DEF IInv, TypeOK, Decrypted, Write, Decrypts, Banner, relayVars, keyVars, recvVars, sendVars, EndFrames
<1>1. Queues'
  <2> USE DEF Stages, Waits
  <2>0. \A S : <<>> \in Seq(S)
    OBVIOUS
  <2>3. shown' = shown \/ \E n \in Nat, b \in BOOLEAN : shown' = Append(shown, [n |-> n, clear |-> b])
    BY QueueFacts, FrameTypes
  <2>5. shown' \in Seq(Outputs)
    BY <2>3, ModeFacts DEF Queues
  <2>6. inbox' \in Seq(PageFrames)
    BY <2>0 DEF Queues
  <2> QED
    BY <2>5, <2>6 DEF Queues
<1>2. Counts'
  BY DEF Counts
<1>3. Stages'
  BY DEF Stages
<1>4. KeysAndBanner'
  BY DEF KeysAndBanner
<1>5. Inert' /\ KeyKnown'
  BY DEF Inert, KeyKnown
<1>6. Waits'
  BY DEF Waits
<1>7. PlainRelay'
  BY DEF PlainRelay
<1>8. ProbedPageIsInMode'
  BY QueueFacts, ModeFacts, FrameTypes DEF Waits, ProbedPageIsInMode, RightMode, Clear
<1> QED
  BY <1>1, <1>2, <1>3, <1>4, <1>5, <1>6, <1>7, <1>8

(* SendNext keeps it. *)
LEMMA SendNextStep ==
  ASSUME IInv, SendNext
  PROVE  IInv'
<1> USE DEF IInv, TypeOK, SendNext, SendIn, relayVars, keyVars, recvVars, sendVars, EndFrames
<1>1. Queues'
  BY QueueFacts, ModeFacts DEF Queues
<1>2. Counts'
  BY DEF Counts
<1>3. Stages'
  BY DEF Stages
<1>4. KeysAndBanner'
  BY DEF KeysAndBanner
<1>5. Inert' /\ KeyKnown'
  BY DEF Inert, KeyKnown
<1>6. Waits'
  BY DEF Waits
<1>7. PlainRelay'
  BY DEF PlainRelay
<1>8. ProbedPageIsInMode'
  BY QueueFacts, ModeFacts DEF KeyKnown, ProbedPageIsInMode, RightMode, Mode
<1> QED
  BY <1>1, <1>2, <1>3, <1>4, <1>5, <1>6, <1>7, <1>8

(* Sealed keeps it. *)
LEMMA SealedStep ==
  ASSUME IInv, Sealed
  PROVE  IInv'
<1> USE DEF IInv, TypeOK, Sealed, SendIn, relayVars, keyVars, recvVars, sendVars, EndFrames
<1>1. Queues'
  BY QueueFacts, ModeFacts DEF Queues, Waits
<1>2. Counts'
  BY DEF Counts
<1>3. Stages'
  BY DEF Stages
<1>4. KeysAndBanner'
  BY DEF KeysAndBanner
<1>5. Inert' /\ KeyKnown'
  BY DEF Inert, KeyKnown
<1>6. Waits'
  BY DEF Waits
<1>7. PlainRelay'
  BY DEF PlainRelay
<1>8. ProbedPageIsInMode'
  BY QueueFacts, ModeFacts DEF Counts, KeyKnown, Waits, PlainRelay, ProbedPageIsInMode,
     RightMode, Mode
<1> QED
  BY <1>1, <1>2, <1>3, <1>4, <1>5, <1>6, <1>7, <1>8

(* HandleE2E keeps it. *)
LEMMA HandleE2EStep ==
  ASSUME IInv, NEW f \in PageFrames, HandleE2E(f)
  PROVE  IInv'
<1> USE DEF IInv, TypeOK, HandleE2E, Handles, EnableE2E, relayVars, keyVars, recvVars, sendVars, EndFrames
<1>1. Queues'
  BY QueueFacts DEF Queues
<1>2. Counts'
  BY DEF Counts
<1>3. Stages'
  BY DEF Stages
<1>4. KeysAndBanner'
  BY DEF KeysAndBanner, FleetKeys
<1>5. Inert' /\ KeyKnown'
  BY DEF Inert, KeyKnown
<1>6. Waits'
  BY DEF Waits
<1>7. PlainRelay'
  BY QueueFacts DEF PlainRelay
<1>8. ProbedPageIsInMode'
  BY DEF ProbedPageIsInMode, RightMode
<1> QED
  BY <1>1, <1>2, <1>3, <1>4, <1>5, <1>6, <1>7, <1>8

(* HandleOut keeps it. *)
LEMMA HandleOutStep ==
  ASSUME IInv, NEW f \in PageFrames, HandleOut(f)
  PROVE  IInv'
<1> USE DEF IInv, TypeOK, HandleOut, Handles, Write, relayVars, keyVars, recvVars, sendVars, EndFrames
<1>1. Queues'
  BY QueueFacts, ModeFacts, FrameTypes DEF Queues
<1>2. Counts'
  BY DEF Counts
<1>3. Stages'
  BY DEF Stages
<1>4. KeysAndBanner'
  BY DEF KeysAndBanner
<1>5. Inert' /\ KeyKnown'
  BY DEF Inert, KeyKnown
<1>6. Waits'
  BY DEF Waits
<1>7. PlainRelay'
  BY QueueFacts DEF PlainRelay
<1>8. ProbedPageIsInMode'
  BY ModeFacts, FrameTypes DEF KeyKnown, ProbedPageIsInMode, RightMode, Clear
<1> QED
  BY <1>1, <1>2, <1>3, <1>4, <1>5, <1>6, <1>7, <1>8

(* HandleEnd keeps it. *)
LEMMA HandleEndStep ==
  ASSUME IInv, NEW f \in PageFrames, HandleEnd(f)
  PROVE  IInv'
<1> USE DEF IInv, TypeOK, HandleEnd, Handles, Banner, EndFrames, relayVars, keyVars, recvVars, sendVars
<1>1. Queues'
  BY DEF Queues
<1>2. Counts'
  BY DEF Counts
<1>3. Stages'
  BY DEF Stages
<1>4. KeysAndBanner'
  BY DEF KeysAndBanner
<1>5. Inert' /\ KeyKnown'
  BY DEF Inert, KeyKnown
<1>6. Waits'
  BY DEF Waits
<1>7. PlainRelay'
  BY QueueFacts DEF PlainRelay
<1>8. ProbedPageIsInMode'
  BY DEF ProbedPageIsInMode, RightMode
<1> QED
  BY <1>1, <1>2, <1>3, <1>4, <1>5, <1>6, <1>7, <1>8

(* PromptDeclined keeps it. *)
LEMMA PromptDeclinedStep ==
  ASSUME IInv, PromptDeclined
  PROVE  IInv'
<1> USE DEF IInv, TypeOK, PromptDeclined, Enabled, Banner, relayVars, keyVars, recvVars, sendVars, EndFrames
<1>1. Queues'
  BY QueueFacts DEF Queues, Waits
<1>2. Counts'
  BY DEF Counts
<1>3. Stages'
  BY DEF Stages
<1>4. KeysAndBanner'
  BY DEF KeysAndBanner
<1>5. Inert' /\ KeyKnown'
  BY DEF Inert, KeyKnown, Waits
<1>6. Waits'
  BY DEF Inert, Waits
<1>7. PlainRelay'
  BY DEF PlainRelay
<1>8. ProbedPageIsInMode'
  BY DEF KeyKnown, Waits, PlainRelay, ProbedPageIsInMode
<1> QED
  BY <1>1, <1>2, <1>3, <1>4, <1>5, <1>6, <1>7, <1>8

(* PromptAnswered keeps it. *)
LEMMA PromptAnsweredStep ==
  ASSUME IInv, NEW key \in FleetKeys, PromptAnswered(key)
  PROVE  IInv'
<1> USE DEF IInv, TypeOK, PromptAnswered, relayVars, keyVars, recvVars, sendVars, EndFrames
<1>1. Queues'
  BY DEF Queues
<1>2. Counts'
  BY DEF Counts
<1>3. Stages'
  BY DEF Stages
<1>4. KeysAndBanner'
  BY DEF KeysAndBanner, FleetKeys
<1>5. Inert' /\ KeyKnown'
  BY DEF FleetKeys, Inert, KeyKnown
<1>6. Waits'
  BY DEF Waits
<1>7. PlainRelay'
  BY DEF PlainRelay
<1>8. ProbedPageIsInMode'
  BY DEF KeyKnown, Waits, PlainRelay, ProbedPageIsInMode
<1> QED
  BY <1>1, <1>2, <1>3, <1>4, <1>5, <1>6, <1>7, <1>8

(* OthersStore keeps it. *)
LEMMA OthersStoreStep ==
  ASSUME IInv, NEW key \in FleetKeys \cup {"nil"}, OthersStore(key)
  PROVE  IInv'
<1> USE DEF IInv, TypeOK, OthersStore, relayVars, keyVars, recvVars, sendVars, EndFrames
<1>1. Queues'
  BY DEF Queues
<1>2. Counts'
  BY DEF Counts
<1>3. Stages'
  BY DEF Stages
<1>4. KeysAndBanner'
  BY DEF KeysAndBanner
<1>5. Inert' /\ KeyKnown'
  BY DEF Inert, KeyKnown
<1>6. Waits'
  BY DEF Waits
<1>7. PlainRelay'
  BY DEF PlainRelay
<1>8. ProbedPageIsInMode'
  BY DEF ProbedPageIsInMode, RightMode
<1> QED
  BY <1>1, <1>2, <1>3, <1>4, <1>5, <1>6, <1>7, <1>8

(* Keystroke keeps it. *)
LEMMA KeystrokeStep ==
  ASSUME IInv, Keystroke
  PROVE  IInv'
<1> USE DEF IInv, TypeOK, Keystroke, relayVars, keyVars, recvVars, sendVars, EndFrames
<1>1. Queues'
  BY DEF Queues, Counts
<1>2. Counts'
  BY DEF Counts
<1>3. Stages'
  BY DEF Stages
<1>4. KeysAndBanner'
  BY DEF KeysAndBanner
<1>5. Inert' /\ KeyKnown'
  BY DEF Inert, KeyKnown
<1>6. Waits'
  BY DEF Waits
<1>7. PlainRelay'
  BY DEF PlainRelay
<1>8. ProbedPageIsInMode'
  BY DEF ProbedPageIsInMode, RightMode
<1> QED
  BY <1>1, <1>2, <1>3, <1>4, <1>5, <1>6, <1>7, <1>8

(* RelayAnnounces keeps it. *)
LEMMA RelayAnnouncesStep ==
  ASSUME IInv, RelayAnnounces
  PROVE  IInv'
<1> USE DEF IInv, TypeOK, RelayAnnounces, Arrives, Connected, relayVars, keyVars, recvVars, sendVars, EndFrames
<1>1. Queues'
  BY QueueFacts, FrameTypes DEF Queues
<1>2. Counts'
  BY DEF Counts
<1>3. Stages'
  BY DEF Stages
<1>4. KeysAndBanner'
  BY DEF KeysAndBanner
<1>5. Inert' /\ KeyKnown'
  BY DEF Inert, KeyKnown
<1>6. Waits'
  BY DEF Waits
<1>7. PlainRelay'
  BY DEF PlainRelay
<1>8. ProbedPageIsInMode'
  BY DEF ProbedPageIsInMode, RightMode
<1> QED
  BY <1>1, <1>2, <1>3, <1>4, <1>5, <1>6, <1>7, <1>8

(* LinkBreaks keeps it. *)
LEMMA LinkBreaksStep ==
  ASSUME IInv, LinkBreaks
  PROVE  IInv'
<1> USE DEF IInv, TypeOK, LinkBreaks, Connected, relayVars, keyVars, recvVars, sendVars, EndFrames
<1>1. Queues'
  BY DEF Queues
<1>2. Counts'
  BY DEF Counts
<1>3. Stages'
  BY DEF Stages
<1>4. KeysAndBanner'
  BY DEF KeysAndBanner
<1>5. Inert' /\ KeyKnown'
  BY DEF Inert, KeyKnown
<1>6. Waits'
  BY DEF Waits
<1>7. PlainRelay'
  BY DEF PlainRelay
<1>8. ProbedPageIsInMode'
  BY DEF ProbedPageIsInMode, RightMode
<1> QED
  BY <1>1, <1>2, <1>3, <1>4, <1>5, <1>6, <1>7, <1>8

(* RelaySends keeps it. *)
LEMMA RelaySendsStep ==
  ASSUME IInv, NEW ok \in BOOLEAN, RelaySends(ok)
  PROVE  IInv'
<1> USE DEF IInv, TypeOK, RelaySends, Arrives, Connected, relayVars, keyVars, recvVars, sendVars, EndFrames
<1>1. Queues'
  BY FrameTypes DEF Queues, Counts
<1>2. Counts'
  BY DEF Counts
<1>3. Stages'
  BY DEF Stages
<1>4. KeysAndBanner'
  BY DEF KeysAndBanner
<1>5. Inert' /\ KeyKnown'
  BY DEF Inert, KeyKnown
<1>6. Waits'
  BY DEF Waits
<1>7. PlainRelay'
  <2> DEFINE f == [t |-> "out", n |-> sent + 1, ok |-> ok]
  <2>1. f \in PageFrames /\ f.t # "e2e"
    <3>1. sent + 1 \in Nat
      BY DEF Counts
    <3> QED
      BY <3>1, FrameTypes
  <2>2. inbox' = inbox \/ inbox' = Append(inbox, f)
    OBVIOUS
  <2> HIDE DEF f
  <2>3. NoE2E(inbox) => NoE2E(inbox')
    BY <2>1, <2>2, QueueFacts
  <2> QED
    BY <2>3 DEF PlainRelay
<1>8. ProbedPageIsInMode'
  BY DEF ProbedPageIsInMode, RightMode
<1> QED
  BY <1>1, <1>2, <1>3, <1>4, <1>5, <1>6, <1>7, <1>8

(* RelayEnds keeps it. *)
LEMMA RelayEndsStep ==
  ASSUME IInv, NEW t \in EndFrames, RelayEnds(t)
  PROVE  IInv'
<1> USE DEF IInv, TypeOK, RelayEnds, Arrives, Connected, relayVars, keyVars, recvVars, sendVars, EndFrames
<1>1. Queues'
  BY QueueFacts, FrameTypes DEF Queues
<1>2. Counts'
  BY DEF Counts
<1>3. Stages'
  BY DEF Stages
<1>4. KeysAndBanner'
  BY DEF KeysAndBanner
<1>5. Inert' /\ KeyKnown'
  BY DEF Inert, KeyKnown
<1>6. Waits'
  BY DEF Waits
<1>7. PlainRelay'
  BY QueueFacts, FrameTypes DEF PlainRelay
<1>8. ProbedPageIsInMode'
  BY DEF ProbedPageIsInMode, RightMode
<1> QED
  BY <1>1, <1>2, <1>3, <1>4, <1>5, <1>6, <1>7, <1>8

---------------------------------------------------------------------------
(* Every step keeps the invariant. *)
LEMMA NextIInv == IInv /\ [Next]_vars => IInv'
<1> SUFFICES ASSUME IInv, [Next]_vars PROVE IInv'
  OBVIOUS
<1>1. CASE PageStep
  <2>1. Range(chain) \subseteq PageFrames
    BY DEF IInv, TypeOK, Queues, Range
  <2>2. CASE \E e2e \in BOOLEAN : ProbeAnswered(e2e)
    BY <2>2, ProbeAnsweredStep
  <2>3. CASE \E f \in Range(chain) : HandleE2E(f) \/ HandleOut(f) \/ HandleEnd(f)
    BY <2>1, <2>3, HandleE2EStep, HandleOutStep, HandleEndStep
  <2> QED
    BY <1>1, <2>2, <2>3, KeyImportedStep, SocketOpensStep, SocketClosesStep, ReceiveStep,
       DecryptedStep, SendNextStep, SealedStep DEF PageStep
<1>2. CASE UserStep
  BY <1>2, PromptDeclinedStep, PromptAnsweredStep, OthersStoreStep, KeystrokeStep DEF UserStep
<1>3. CASE RelayStep
  BY <1>3, RelayAnnouncesStep, LinkBreaksStep, RelaySendsStep, RelayEndsStep DEF RelayStep
<1>4. CASE UNCHANGED vars
  <2> USE <1>4 DEF vars, relayVars, keyVars, recvVars, sendVars, IInv
  <2>1. TypeOK'
    <3>1. Counts' /\ Stages'
      BY DEF TypeOK, Counts, Stages
    <3>2. KeysAndBanner'
      BY DEF TypeOK, KeysAndBanner
    <3>3. Queues'
      BY DEF TypeOK, Queues
    <3> QED
      BY <3>1, <3>2, <3>3 DEF TypeOK
  <2>2. Inert' /\ KeyKnown' /\ Waits'
    BY DEF Inert, KeyKnown, Waits
  <2>3. PlainRelay'
    BY DEF PlainRelay
  <2>4. ProbedPageIsInMode'
    BY DEF ProbedPageIsInMode, RightMode
  <2> QED
    BY <2>1, <2>2, <2>3, <2>4
<1> QED
  BY <1>1, <1>2, <1>3, <1>4 DEF Next

(* The invariant holds throughout. *)
LEMMA AlwaysIInv == Spec => []IInv
  BY InitIInv, NextIInv, PTL DEF Spec

(* Every variable of the page keeps its type, for sessions of any length. *)
THEOREM TermPageTypeTheorem == Spec => []TypeOK
<1>1. IInv => TypeOK
  BY DEF IInv
<1> QED
  BY <1>1, AlwaysIInv, PTL

(* A page whose probe was answered never shows output that was not          *)
(* decrypted and authentic on a Worker relay, and seals keystrokes there    *)
(* and there only, whatever order frames, prompts and keystrokes come in.   *)
THEOREM ProbedPageIsInModeTheorem == Spec => []ProbedPageIsInMode
<1>1. IInv => ProbedPageIsInMode
  BY DEF IInv
<1> QED
  BY <1>1, AlwaysIInv, PTL

=============================================================================
