--------------------------- MODULE PageFeedProofs ---------------------------
(***************************************************************************)
(* What the terminal page at the end of a conn can rely on, for queues of   *)
(* any length and sessions of any size: that the conn is a relay, that the  *)
(* reason a session ended is shown, and that the page keeps what Viewer     *)
(* promises.                                                                *)
(***************************************************************************)
EXTENDS PageFeed, TermPageProofs

OutFrame(n) == [t |-> "out", n |-> n, ok |-> TRUE]
LastFrames == [t : EndFrames, n : {0}, ok : {TRUE}]

\* The outputs that wait in the conn's queue.
Waiting == IF final = nil THEN Len(out[tab]) ELSE Len(out[tab]) - 1

FeedTypeOK ==
    /\ out \in [Conns -> Seq(Frames)]
    /\ closed \in [Conns -> BOOLEAN]
    /\ ws \in [Conns -> {"none", "open", "shut"}]
    /\ accepted \in 0..MaxOut
    /\ final \in LastFrames \cup {nil}
    /\ broken \in BOOLEAN

\* Until the socket is through with the page, the queue holds the outputs that
\* were accepted and not sent, in order, and behind them the end frame, if any.
QueueIsTheRest ==
    relay = "broker" /\ ~over =>
        /\ accepted = sent + Waiting
        /\ \A i \in 1..Waiting : out[tab][i] = OutFrame(sent + i)
        /\ final # nil => out[tab] # <<>> /\ out[tab][Len(out[tab])] = final

\* How the conn, the socket and the banner hang together.
Ends ==
    /\ relay = "worker" => ws[tab] = "none"
    /\ ws[tab] = "none" => ~closed[tab]
    /\ final # nil => closed[tab]
    /\ relay = "broker" /\ over => closed[tab] \/ broken
    /\ ws[tab] = "shut" => over
    /\ relay = "broker" => sock # "closing"
    /\ ws[tab] # "none" => sock # "none"
    /\ ended = "disconnected" \/ sock = "closed" => over
    /\ sock = "closed" => ended # "nil"

Has(q, f) == \E i \in DOMAIN q : q[i] = f

\* The end frame is on its way to the banner, and the close event is behind it.
FinalIsComing ==
    final # nil /\ ~broken =>
        /\ ended # "disconnected"
        /\ over => \/ ended # "nil"
                   \/ Has(inbox, final)
                   \/ Has(chain, final)

FeedInv == FeedTypeOK /\ QueueIsTheRest /\ Ends /\ FinalIsComing

---------------------------------------------------------------------------
(* What Viewer's promises rest on.                                          *)

Seen == IF shown = <<>> THEN 0 ELSE shown[Len(shown)].n
Entered == IF wire = <<>> THEN 0 ELSE wire[Len(wire)].n

\* The outputs of a queue are numbered upwards, above lo and up to hi.
Upwards(q, lo, hi) ==
    \A i \in DOMAIN q : q[i].t = "out" =>
        /\ lo < q[i].n /\ q[i].n <= hi
        /\ \A j \in DOMAIN q : j < i /\ q[j].t = "out" => q[j].n < q[i].n

Before(p, q) ==
    \A i \in DOMAIN p, j \in DOMAIN q : p[i].t = "out" /\ q[j].t = "out" => p[i].n < q[j].n

\* Outputs are handled in the order they were sent.
OutputInOrder ==
    /\ Seen <= sent
    /\ Upwards(chain, Seen, sent) /\ Upwards(inbox, Seen, sent) /\ Before(chain, inbox)

EndOnlyLast(q) == \A i \in DOMAIN q : q[i].t \in EndFrames => i = Len(q)
HasEnd(q) == \E i \in DOMAIN q : q[i].t \in EndFrames

\* Nothing follows an end frame.
EndIsLast ==
    /\ EndOnlyLast(chain) /\ EndOnlyLast(inbox)
    /\ HasEnd(chain) => over /\ inbox = <<>>
    /\ HasEnd(inbox) => over
    /\ ended \in EndFrames => over /\ chain = <<>> /\ inbox = <<>>

Ascending(q, lo, hi) ==
    \A i \in DOMAIN q :
        /\ lo < q[i] /\ q[i] <= hi
        /\ \A j \in DOMAIN q : j < i => q[j] < q[i]

\* Keystrokes leave in the order they were typed.
KeysInOrder == Entered <= typed /\ Ascending(keys, Entered, typed)

\* What is being decrypted is output.
DecryptsOutput == work = "decrypting" => chain # <<>> /\ Head(chain).t = "out"

OrderInv == OutputInOrder /\ EndIsLast /\ KeysInOrder /\ DecryptsOutput

---------------------------------------------------------------------------
(* Numbers in queues.                                                       *)

(* What an appended queue holds, place by place. *)
LEMMA AppendAt ==
    ASSUME NEW S, NEW q \in Seq(S), NEW x \in S
    PROVE  /\ Len(Append(q, x)) = Len(q) + 1 /\ Len(q) \in Nat
           /\ \A i \in DOMAIN Append(q, x) :
                 i \in Nat /\ ((i \in DOMAIN q /\ Append(q, x)[i] = q[i])
                               \/ (i = Len(q) + 1 /\ Append(q, x)[i] = x))
           /\ \A i \in DOMAIN q : i \in Nat /\ i <= Len(q) /\ q[i] \in S
<1>1. Len(Append(q, x)) = Len(q) + 1 /\ Len(q) \in Nat /\ Append(q, x) \in Seq(S) OBVIOUS
<1>2. DOMAIN Append(q, x) = 1..(Len(q) + 1) /\ DOMAIN q = 1..Len(q) BY <1>1
<1>3. /\ \A i \in 1..Len(q) : Append(q, x)[i] = q[i] /\ q[i] \in S
      /\ Append(q, x)[Len(q) + 1] = x
  OBVIOUS
<1> QED BY <1>1, <1>2, <1>3

(* The rest of a rising queue rises, above its first. *)
LEMMA UpwardsTail ==
    ASSUME NEW q \in Seq(PageFrames), q # <<>>, NEW lo \in Nat, NEW hi \in Nat, Upwards(q, lo, hi)
    PROVE  /\ Upwards(Tail(q), lo, hi)
           /\ Head(q).t = "out" =>
                 /\ lo < Head(q).n /\ Head(q).n <= hi
                 /\ Upwards(Tail(q), Head(q).n, hi)
<1>1. /\ Head(q) = q[1] /\ 1 \in DOMAIN q
      /\ \A i \in DOMAIN Tail(q) : i \in Nat /\ i >= 1 /\ i + 1 \in DOMAIN q /\ Tail(q)[i] = q[i + 1]
  OBVIOUS
<1>2. \A i \in DOMAIN q : q[i] \in PageFrames /\ q[i].n \in Nat BY FrameTypes
<1> HIDE DEF Upwards
<1>3. Upwards(Tail(q), lo, hi)
  <2> SUFFICES ASSUME NEW i \in DOMAIN Tail(q), Tail(q)[i].t = "out"
               PROVE  /\ lo < Tail(q)[i].n /\ Tail(q)[i].n <= hi
                      /\ \A j \in DOMAIN Tail(q) : j < i /\ Tail(q)[j].t = "out"
                            => Tail(q)[j].n < Tail(q)[i].n
    BY DEF Upwards
  <2> QED BY <1>1 DEF Upwards
<1>4. ASSUME Head(q).t = "out", NEW i \in DOMAIN Tail(q), Tail(q)[i].t = "out"
      PROVE  Head(q).n < Tail(q)[i].n
  BY <1>1, <1>4 DEF Upwards
<1>5. Head(q).t = "out" => lo < Head(q).n /\ Head(q).n <= hi BY <1>1 DEF Upwards
<1> QED BY <1>3, <1>4, <1>5 DEF Upwards

(* A rising queue rises with a higher frame at its end. *)
LEMMA UpwardsAppend ==
    ASSUME NEW q \in Seq(PageFrames), NEW f \in PageFrames, NEW lo \in Nat, NEW hi \in Nat,
           Upwards(q, lo, hi),
           f.t = "out" => /\ lo < f.n /\ f.n <= hi
                          /\ \A j \in DOMAIN q : q[j].t = "out" => q[j].n < f.n
    PROVE  Upwards(Append(q, f), lo, hi)
<1> DEFINE r == Append(q, f)
<1>1. /\ \A i \in DOMAIN r : i \in Nat
      /\ \A i \in DOMAIN r : \/ i \in DOMAIN q /\ r[i] = q[i]
                             \/ i = Len(q) + 1 /\ r[i] = f
      /\ \A i \in DOMAIN q : i \in Nat /\ i <= Len(q)
      /\ Len(q) \in Nat
  BY AppendAt DEF r
<1> HIDE DEF r
<1>2. ASSUME NEW i \in DOMAIN r, r[i].t = "out"
      PROVE  /\ lo < r[i].n /\ r[i].n <= hi
             /\ \A j \in DOMAIN r : j < i /\ r[j].t = "out" => r[j].n < r[i].n
  <2>1. CASE i \in DOMAIN q /\ r[i] = q[i]
    <3>1. \A j \in DOMAIN r : j < i => j \in DOMAIN q /\ r[j] = q[j] BY <1>1, <2>1
    <3> QED BY <1>2, <2>1, <3>1 DEF Upwards
  <2>2. CASE i = Len(q) + 1 /\ r[i] = f
    <3>1. \A j \in DOMAIN r : j < i => j \in DOMAIN q /\ r[j] = q[j] BY <1>1, <2>2
    <3> QED BY <1>2, <2>2, <3>1
  <2> QED BY <1>1, <2>1, <2>2
<1> QED BY <1>2 DEF Upwards, r

(* A rising queue rises below any higher bound. *)
LEMMA UpwardsWiden ==
    ASSUME NEW q \in Seq(PageFrames), NEW lo \in Nat, NEW hi \in Nat, NEW top \in Nat, hi <= top,
           Upwards(q, lo, hi)
    PROVE  Upwards(q, lo, top)
<1>1. \A i \in DOMAIN q : q[i].n \in Nat BY FrameTypes
<1> QED BY <1>1 DEF Upwards

(* The same of keystrokes: the rest. *)
LEMMA AscendingTail ==
    ASSUME NEW q \in Seq(Nat), q # <<>>, NEW lo \in Nat, NEW hi \in Nat, Ascending(q, lo, hi)
    PROVE  /\ Ascending(Tail(q), lo, hi) /\ Ascending(Tail(q), Head(q), hi)
           /\ lo < Head(q) /\ Head(q) <= hi /\ Head(q) \in Nat
<1>1. /\ Head(q) = q[1] /\ 1 \in DOMAIN q /\ Head(q) \in Nat
      /\ \A i \in DOMAIN Tail(q) : i \in Nat /\ i >= 1 /\ i + 1 \in DOMAIN q /\ Tail(q)[i] = q[i + 1]
  OBVIOUS
<1>2. \A i \in DOMAIN Tail(q) :
         /\ lo < Tail(q)[i] /\ Tail(q)[i] <= hi /\ Head(q) < Tail(q)[i]
         /\ \A j \in DOMAIN Tail(q) : j < i => Tail(q)[j] < Tail(q)[i]
  <2> SUFFICES ASSUME NEW i \in DOMAIN Tail(q)
               PROVE  /\ lo < Tail(q)[i] /\ Tail(q)[i] <= hi /\ Head(q) < Tail(q)[i]
                      /\ \A j \in DOMAIN Tail(q) : j < i => Tail(q)[j] < Tail(q)[i]
    OBVIOUS
  <2>1. i \in Nat /\ i >= 1 /\ i + 1 \in DOMAIN q /\ Tail(q)[i] = q[i + 1] BY <1>1
  <2>2. lo < q[i + 1] /\ q[i + 1] <= hi /\ \A j \in DOMAIN q : j < i + 1 => q[j] < q[i + 1]
    BY <2>1 DEF Ascending
  <2>3. q[1] < q[i + 1] BY <1>1, <2>1, <2>2
  <2>4. ASSUME NEW j \in DOMAIN Tail(q), j < i PROVE Tail(q)[j] < Tail(q)[i]
    <3>1. j \in Nat /\ j + 1 \in DOMAIN q /\ Tail(q)[j] = q[j + 1] BY <1>1
    <3>2. j + 1 < i + 1 BY <2>1, <2>4, <3>1
    <3> QED BY <2>1, <2>2, <3>1, <3>2
  <2> QED BY <1>1, <2>1, <2>2, <2>3, <2>4
<1>3. lo < Head(q) /\ Head(q) <= hi
  <2>1. lo < q[1] /\ q[1] <= hi BY <1>1 DEF Ascending
  <2> QED BY <1>1, <2>1
<1> QED BY <1>1, <1>2, <1>3 DEF Ascending

(* The same of keystrokes: the next at the end. *)
LEMMA AscendingAppend ==
    ASSUME NEW q \in Seq(Nat), NEW lo \in Nat, NEW hi \in Nat, lo <= hi, Ascending(q, lo, hi)
    PROVE  Ascending(Append(q, hi + 1), lo, hi + 1)
<1> DEFINE r == Append(q, hi + 1)
<1>1. /\ \A i \in DOMAIN r : i \in Nat
      /\ \A i \in DOMAIN r : \/ i \in DOMAIN q /\ r[i] = q[i]
                             \/ i = Len(q) + 1 /\ r[i] = hi + 1
      /\ \A i \in DOMAIN q : i \in Nat /\ i <= Len(q) /\ q[i] \in Nat
      /\ Len(q) \in Nat
  BY AppendAt DEF r
<1> HIDE DEF r
<1>2. ASSUME NEW i \in DOMAIN r
      PROVE  /\ lo < r[i] /\ r[i] <= hi + 1
             /\ \A j \in DOMAIN r : j < i => r[j] < r[i]
  <2>1. CASE i \in DOMAIN q /\ r[i] = q[i]
    <3>1. \A j \in DOMAIN r : j < i => j \in DOMAIN q /\ r[j] = q[j] BY <1>1, <2>1
    <3> QED BY <1>1, <2>1, <3>1 DEF Ascending
  <2>2. CASE i = Len(q) + 1 /\ r[i] = hi + 1
    <3>1. \A j \in DOMAIN r : j < i => j \in DOMAIN q /\ r[j] = q[j] BY <1>1, <2>2
    <3> QED BY <1>1, <2>2, <3>1 DEF Ascending
  <2> QED BY <1>1, <2>1, <2>2
<1> QED BY <1>2 DEF Ascending, r

(* What is left of a queue whose end is last. *)
LEMMA EndTail ==
    ASSUME NEW q \in Seq(PageFrames), q # <<>>, EndOnlyLast(q)
    PROVE  /\ EndOnlyLast(Tail(q)) /\ (HasEnd(Tail(q)) => HasEnd(q))
           /\ Head(q).t \in EndFrames => HasEnd(q) /\ Tail(q) = <<>>
<1>1. /\ Head(q) = q[1] /\ 1 \in DOMAIN q /\ Len(Tail(q)) = Len(q) - 1 /\ Len(q) \in Nat
      /\ \A i \in DOMAIN Tail(q) : i \in Nat /\ i + 1 \in DOMAIN q /\ Tail(q)[i] = q[i + 1]
  OBVIOUS
<1>5. Len(q) = 1 => Tail(q) = <<>>
  <2>1. Tail(q) \in Seq(PageFrames) OBVIOUS
  <2> QED BY <1>1, <2>1
<1>2. EndOnlyLast(Tail(q)) BY <1>1 DEF EndOnlyLast
<1>3. HasEnd(Tail(q)) => HasEnd(q) BY <1>1 DEF HasEnd
<1>4. Head(q).t \in EndFrames => HasEnd(q) /\ Tail(q) = <<>> BY <1>1, <1>5 DEF EndOnlyLast, HasEnd
<1> QED BY <1>2, <1>3, <1>4

(* A queue without an end may get one. *)
LEMMA EndAppend ==
    ASSUME NEW q \in Seq(PageFrames), ~HasEnd(q), NEW f \in PageFrames
    PROVE  EndOnlyLast(Append(q, f)) /\ (HasEnd(Append(q, f)) => f.t \in EndFrames)
<1> DEFINE r == Append(q, f)
<1>1. /\ \A i \in DOMAIN r : \/ i \in DOMAIN q /\ r[i] = q[i]
                             \/ i = Len(q) + 1 /\ r[i] = f
      /\ Len(r) = Len(q) + 1
  BY AppendAt DEF r
<1> HIDE DEF r
<1> QED BY <1>1 DEF EndOnlyLast, HasEnd, r

(* The last of an appended queue is what was appended. *)
LEMMA LastOfAppend ==
    ASSUME NEW S, NEW q \in Seq(S), NEW x \in S
    PROVE  Append(q, x) # <<>> /\ Append(q, x)[Len(Append(q, x))] = x
OBVIOUS
---------------------------------------------------------------------------
(* What the page's steps do to its queues.                                  *)

\* No frame comes, is handled or shown; closing the socket forgets the inbox.
NoFrame ==
    /\ UNCHANGED <<sent, chain, shown>> /\ (over => over')
    /\ inbox' = inbox \/ inbox' = <<>>
    /\ ended' = ended \/ ended' \notin EndFrames

FrameArrives(f) ==
    /\ ~over /\ UNCHANGED <<chain, shown, ended>>
    /\ inbox' = inbox \/ inbox' = Append(inbox, f)
    /\ IF f.t = "out" THEN f.n = sent + 1 /\ sent' = f.n ELSE sent' = sent
    /\ f.t \in EndFrames => over'

Receives ==
    /\ UNCHANGED <<sent, over, shown, ended>>
    /\ inbox # <<>> /\ inbox' = Tail(inbox) /\ chain' = Append(chain, Head(inbox))

\* The first frame of recvChain is done with and, if it is output, on the screen.
FrameShown ==
    /\ UNCHANGED <<sent, over, inbox, ended, wire>>
    /\ chain # <<>> /\ chain' = Tail(chain) /\ Head(chain).t = "out"
    /\ \E b \in BOOLEAN : shown' = Append(shown, [n |-> Head(chain).n, clear |-> b])

FrameHandled ==
    /\ UNCHANGED <<sent, over, shown>>
    /\ chain # <<>> /\ chain' = Tail(chain) /\ (inbox' = inbox \/ inbox' = <<>>)
    /\ ended' = ended \/ ended' \notin EndFrames \/ Head(chain).t \in EndFrames

(* A frame goes through the page one place at a time. *)
LEMMA PageMoves ==
    ASSUME IInv, DecryptsOutput, [Next]_vars
    PROVE  \/ NoFrame \/ Receives \/ FrameShown \/ FrameHandled
           \/ \E f \in PageFrames : FrameArrives(f)
<1> USE DEF IInv, TypeOK, relayVars, keyVars, recvVars, sendVars
<1>1. ASSUME PageStep
      PROVE  NoFrame \/ Receives \/ FrameShown \/ FrameHandled
  <2>1. ASSUME NEW e2e \in BOOLEAN, ProbeAnswered(e2e) PROVE NoFrame
    BY <2>1 DEF ProbeAnswered, NoFrame
  <2>2. ASSUME KeyImported PROVE NoFrame \/ FrameHandled
    <3>1. CASE boot = "keying" BY <2>2, <3>1 DEF KeyImported, Enabled, NoFrame
    <3>2. CASE boot # "keying" BY <2>2, <3>2 DEF KeyImported, Enabled, Waits, FrameHandled
    <3> QED BY <3>1, <3>2
  <2>3. CASE SocketOpens BY <2>3 DEF SocketOpens, NoFrame
  <2>4. CASE SocketCloses BY <2>4 DEF SocketCloses, Banner, EndFrames, NoFrame
  <2>5. CASE Receive BY <2>5 DEF Receive, Receives
  <2>6. ASSUME Decrypted PROVE NoFrame \/ FrameShown \/ FrameHandled
    <3>1. chain # <<>> /\ chain' = Tail(chain) /\ UNCHANGED <<sent, over, wire>>
      BY <2>6 DEF Decrypted, Waits
    <3>2. CASE Decrypts(Head(chain))
      <4>1. Head(chain).t = "out" BY <2>6 DEF Decrypted, DecryptsOutput
      <4>2. (aead = "good" /\ Head(chain).ok) \in BOOLEAN OBVIOUS
      <4> QED BY <2>6, <3>1, <3>2, <4>1, <4>2 DEF Decrypted, Write, FrameShown
    <3>3. CASE ~Decrypts(Head(chain))
      BY <2>6, <3>1, <3>3 DEF Decrypted, Banner, EndFrames, FrameHandled
    <3> QED BY <3>2, <3>3
  <2>7. CASE SendNext BY <2>7 DEF SendNext, NoFrame
  <2>8. CASE Sealed BY <2>8 DEF Sealed, NoFrame
  <2>9. ASSUME NEW f \in Range(chain), HandleE2E(f) PROVE NoFrame \/ FrameHandled
    <3>1. CASE aead = "nil" BY <2>9, <3>1 DEF HandleE2E, NoFrame
    <3>2. CASE aead # "nil" BY <2>9, <3>2 DEF HandleE2E, Handles, FrameHandled
    <3> QED BY <3>1, <3>2
  <2>10. ASSUME NEW f \in Range(chain), HandleOut(f) PROVE NoFrame \/ FrameShown
    <3>1. CASE aead = "nil"
      <4>1. (relay = "broker") \in BOOLEAN OBVIOUS
      <4> QED BY <2>10, <3>1, <4>1 DEF HandleOut, Handles, Write, FrameShown
    <3>2. CASE aead # "nil" BY <2>10, <3>2 DEF HandleOut, NoFrame
    <3> QED BY <3>1, <3>2
  <2>11. ASSUME NEW f \in Range(chain), HandleEnd(f) PROVE FrameHandled
    BY <2>11 DEF HandleEnd, Handles, FrameHandled
  <2> QED BY <1>1, <2>1, <2>2, <2>3, <2>4, <2>5, <2>6, <2>7, <2>8, <2>9, <2>10, <2>11 DEF PageStep
<1>2. ASSUME UserStep PROVE NoFrame \/ FrameHandled
  <2>1. ASSUME PromptDeclined PROVE NoFrame \/ FrameHandled
    <3>1. CASE boot = "keying"
      BY <2>1, <3>1 DEF PromptDeclined, Enabled, Banner, EndFrames, NoFrame
    <3>2. CASE boot # "keying"
      BY <2>1, <3>2 DEF PromptDeclined, Enabled, Banner, EndFrames, Waits, FrameHandled
    <3> QED BY <3>1, <3>2
  <2>2. ASSUME NEW key, PromptAnswered(key) PROVE NoFrame
    BY <2>2 DEF PromptAnswered, NoFrame
  <2>3. ASSUME NEW key, OthersStore(key) PROVE NoFrame
    BY <2>3 DEF OthersStore, NoFrame
  <2>4. CASE Keystroke BY <2>4 DEF Keystroke, NoFrame
  <2> QED BY <1>2, <2>1, <2>2, <2>3, <2>4 DEF UserStep
<1>3. ASSUME RelayStep PROVE NoFrame \/ \E f \in PageFrames : FrameArrives(f)
  <2>1. ASSUME RelayAnnounces PROVE \E f \in PageFrames : FrameArrives(f)
    <3> DEFINE f == [t |-> "e2e", n |-> 0, ok |-> TRUE]
    <3>1. f \in PageFrames BY FrameTypes
    <3>2. FrameArrives(f) BY <2>1 DEF RelayAnnounces, Connected, Arrives, FrameArrives, EndFrames
    <3> QED BY <3>1, <3>2
  <2>2. ASSUME NEW ok \in BOOLEAN, RelaySends(ok) PROVE \E f \in PageFrames : FrameArrives(f)
    <3> DEFINE f == [t |-> "out", n |-> sent + 1, ok |-> ok]
    <3>1. sent + 1 \in Nat BY DEF Counts
    <3>2. f \in PageFrames BY <3>1, FrameTypes
    <3>3. FrameArrives(f) BY <2>2 DEF RelaySends, Connected, Arrives, FrameArrives, EndFrames
    <3> QED BY <3>2, <3>3
  <2>3. ASSUME NEW t \in EndFrames, RelayEnds(t) PROVE \E f \in PageFrames : FrameArrives(f)
    <3> DEFINE f == [t |-> t, n |-> 0, ok |-> TRUE]
    <3>1. f \in PageFrames BY FrameTypes
    <3>2. FrameArrives(f) BY <2>3 DEF RelayEnds, Connected, Arrives, FrameArrives, EndFrames
    <3> QED BY <3>1, <3>2
  <2>4. CASE LinkBreaks BY <2>4 DEF LinkBreaks, NoFrame
  <2> QED BY <1>3, <2>1, <2>2, <2>3, <2>4 DEF RelayStep
<1>4. CASE UNCHANGED vars BY <1>4 DEF vars, NoFrame
<1> QED BY <1>1, <1>2, <1>3, <1>4 DEF Next

(* Only output is ever decrypted. *)
LEMMA DecryptsOutputPreserved ==
    ASSUME IInv, DecryptsOutput, [Next]_vars
    PROVE  DecryptsOutput'
<1> USE DEF IInv, TypeOK, Queues, relayVars, keyVars, recvVars, sendVars, DecryptsOutput
<1>1. CASE UNCHANGED <<work, chain>> BY <1>1
<1>2. ASSUME Receive PROVE DecryptsOutput'
  <2>1. Head(inbox) \in PageFrames BY <1>2 DEF Receive
  <2>2. chain # <<>> => Head(Append(chain, Head(inbox))) = Head(chain) BY <2>1
  <2> QED BY <1>2, <2>1, <2>2, AppendTo DEF Receive
<1>3. ASSUME NEW f \in Range(chain), HandleOut(f) PROVE DecryptsOutput'
  BY <1>3 DEF HandleOut, Handles
<1>4. CASE work' # "decrypting" BY <1>4
<1>5. ASSUME NEW f \in Range(chain), HandleE2E(f) PROVE work' # "decrypting"
  BY <1>5 DEF HandleE2E, Handles
<1>6. ASSUME NEW f \in Range(chain), HandleEnd(f) PROVE work' # "decrypting"
  BY <1>6 DEF HandleEnd, Handles
<1>7. ASSUME PromptDeclined \/ KeyImported PROVE work' # "decrypting"
  BY <1>7 DEF PromptDeclined, KeyImported, Enabled, Inert
<1>8. ASSUME Decrypted PROVE work' # "decrypting" BY <1>8 DEF Decrypted
<1>9. ASSUME NEW e2e \in BOOLEAN, ProbeAnswered(e2e) PROVE UNCHANGED <<work, chain>>
  BY <1>9 DEF ProbeAnswered
<1>10. ASSUME NEW key, PromptAnswered(key) \/ OthersStore(key) PROVE UNCHANGED <<work, chain>>
  BY <1>10 DEF PromptAnswered, OthersStore
<1>11. ASSUME SocketOpens \/ SocketCloses \/ SendNext \/ Sealed \/ Keystroke \/ UNCHANGED vars
       PROVE  UNCHANGED <<work, chain>>
  BY <1>11 DEF SocketOpens, SocketCloses, SendNext, Sealed, Keystroke, vars
<1>12. ASSUME RelayStep PROVE UNCHANGED <<work, chain>>
  BY <1>12 DEF RelayStep, RelayAnnounces, LinkBreaks, RelaySends, RelayEnds
<1> QED BY <1>1, <1>2, <1>3, <1>4, <1>5, <1>6, <1>7, <1>8, <1>9, <1>10, <1>11, <1>12
        DEF Next, PageStep, UserStep

\* What the page's steps do to the keystrokes.
KeysStay == UNCHANGED <<typed, keys, wire>>
KeyTyped == /\ typed' = typed + 1 /\ keys' = Append(keys, typed + 1)
            /\ UNCHANGED <<wire, shown, ended>>
KeyLeaves ==
    /\ keys # <<>> /\ keys' = Tail(keys) /\ UNCHANGED <<typed, shown, ended>>
    /\ \/ wire' = wire
       \/ \E b \in BOOLEAN : wire' = Append(wire, [n |-> Head(keys), sealed |-> b])

(* A keystroke goes through the page one place at a time. *)
LEMMA KeyMoves ==
    ASSUME IInv, [Next]_vars
    PROVE  KeysStay \/ KeyTyped \/ KeyLeaves
<1> USE DEF relayVars, keyVars, recvVars, sendVars, KeysStay
<1>1. ASSUME PageStep PROVE KeysStay \/ KeyLeaves
  <2>1. ASSUME SendNext PROVE KeysStay \/ KeyLeaves
    <3>1. CASE sock = "open" /\ aead # "nil" BY <2>1, <3>1 DEF SendNext
    <3>2. CASE ~(sock = "open" /\ aead # "nil")
      BY <2>1, <3>2 DEF SendNext, SendIn, KeyLeaves
    <3> QED BY <3>1, <3>2
  <2>2. ASSUME Sealed PROVE KeyLeaves
    BY <2>2 DEF Sealed, SendIn, KeyLeaves, IInv, Waits
  <2>3. ASSUME NEW e2e \in BOOLEAN, ProbeAnswered(e2e) PROVE KeysStay BY <2>3 DEF ProbeAnswered
  <2>4. CASE KeyImported BY <2>4 DEF KeyImported
  <2>5. CASE SocketOpens \/ SocketCloses BY <2>5 DEF SocketOpens, SocketCloses
  <2>6. CASE Receive \/ Decrypted BY <2>6 DEF Receive, Decrypted
  <2>7. ASSUME NEW f \in Range(chain), HandleE2E(f) \/ HandleOut(f) \/ HandleEnd(f) PROVE KeysStay
    BY <2>7 DEF HandleE2E, HandleOut, HandleEnd
  <2> QED BY <1>1, <2>1, <2>2, <2>3, <2>4, <2>5, <2>6, <2>7 DEF PageStep
<1>2. ASSUME UserStep PROVE KeysStay \/ KeyTyped
  <2>1. ASSUME NEW key, PromptAnswered(key) \/ OthersStore(key) PROVE KeysStay
    BY <2>1 DEF PromptAnswered, OthersStore
  <2>2. CASE PromptDeclined BY <2>2 DEF PromptDeclined
  <2>3. CASE Keystroke BY <2>3 DEF Keystroke, KeyTyped
  <2> QED BY <1>2, <2>1, <2>2, <2>3 DEF UserStep
<1>3. ASSUME RelayStep PROVE KeysStay
  BY <1>3 DEF RelayStep, RelayAnnounces, LinkBreaks, RelaySends, RelayEnds
<1>4. CASE UNCHANGED vars BY <1>4 DEF vars
<1> QED BY <1>1, <1>2, <1>3, <1>4 DEF Next

(* Keystrokes keep their order on their way to the wire. *)
LEMMA KeysInOrderPreserved ==
    ASSUME IInv, KeysInOrder, [Next]_vars
    PROVE  KeysInOrder' /\ (wire' # wire => Entered' \in Nat /\ Entered' > Entered)
<1> USE DEF IInv, TypeOK, Counts, Queues
<1>1. typed \in Nat /\ keys \in Seq(Nat) /\ wire \in Seq(Strokes) OBVIOUS
<1>2. Entered \in Nat
  <2>1. wire # <<>> => wire[Len(wire)] \in Strokes BY <1>1
  <2> QED BY <2>1, FrameTypes DEF Entered, Strokes
<1> HIDE DEF IInv
<1>3. CASE UNCHANGED <<typed, keys, wire>> BY <1>3 DEF KeysInOrder, Entered, Ascending
<1>4. CASE KeyTyped
  <2>1. Entered' = Entered BY <1>4 DEF KeyTyped, Entered
  <2>2. Ascending(Append(keys, typed + 1), Entered, typed + 1)
    BY <1>1, <1>2, AscendingAppend DEF KeysInOrder
  <2>3. Ascending(keys, Entered, typed)' BY <1>4, <2>1, <2>2 DEF KeyTyped, Ascending
  <2>4. Entered' <= typed' BY <1>1, <1>2, <1>4, <2>1 DEF KeyTyped, KeysInOrder
  <2> QED BY <1>4, <2>3, <2>4 DEF KeyTyped, KeysInOrder
<1>5. CASE KeyLeaves
  <2>1. /\ Ascending(Tail(keys), Entered, typed) /\ Ascending(Tail(keys), Head(keys), typed)
        /\ Entered < Head(keys) /\ Head(keys) <= typed /\ Head(keys) \in Nat
    BY <1>1, <1>2, <1>5, AscendingTail DEF KeyLeaves, KeysInOrder
  <2>2. (Entered' = Entered /\ wire' = wire) \/ Entered' = Head(keys)
    <3>1. CASE wire' = wire BY <3>1 DEF Entered
    <3>2. ASSUME NEW b \in BOOLEAN, wire' = Append(wire, [n |-> Head(keys), sealed |-> b])
          PROVE  Entered' = Head(keys)
      <4>1. [n |-> Head(keys), sealed |-> b] \in Strokes BY <2>1, FrameTypes
      <4>2. wire' # <<>> /\ wire'[Len(wire')] = [n |-> Head(keys), sealed |-> b]
        BY <1>1, <3>2, <4>1, LastOfAppend
      <4> QED BY <4>2 DEF Entered
    <3> QED BY <1>5, <3>1, <3>2 DEF KeyLeaves
  <2>3. keys' = Tail(keys) /\ typed' = typed BY <1>5 DEF KeyLeaves
  <2>4. Ascending(keys', Entered', typed') BY <2>1, <2>2, <2>3
  <2>5. Entered' <= typed' BY <2>1, <2>2, <2>3 DEF KeysInOrder
  <2> QED BY <2>1, <2>2, <2>4, <2>5 DEF KeysInOrder, Ascending
<1> QED BY <1>3, <1>4, <1>5, KeyMoves DEF KeysStay

\* Nothing is in a queue that is empty.
LEMMA EmptyQueue ==
    /\ \A lo, hi : Upwards(<<>>, lo, hi)
    /\ \A q : Before(q, <<>>) /\ Before(<<>>, q)
    /\ EndOnlyLast(<<>>) /\ ~HasEnd(<<>>)
BY DEF Upwards, Before, EndOnlyLast, HasEnd

(* The first of two queues in order, without its head. *)
LEMMA BeforeTail ==
    ASSUME NEW p \in Seq(PageFrames), NEW q \in Seq(PageFrames), Before(p, q)
    PROVE  /\ p # <<>> => Before(Tail(p), q)
           /\ p # <<>> /\ Head(p).t = "out"
                 => \A j \in DOMAIN q : q[j].t = "out" => Head(p).n < q[j].n
<1>1. ASSUME p # <<>>
      PROVE  /\ Head(p) = p[1] /\ 1 \in DOMAIN p
             /\ \A i \in DOMAIN Tail(p) : i + 1 \in DOMAIN p /\ Tail(p)[i] = p[i + 1]
  BY <1>1, TailOf
<1>2. ASSUME p # <<>> PROVE Before(Tail(p), q) BY <1>1, <1>2 DEF Before
<1>3. ASSUME p # <<>>, Head(p).t = "out", NEW j \in DOMAIN q, q[j].t = "out"
      PROVE  Head(p).n < q[j].n
  BY <1>1, <1>3 DEF Before
<1> QED BY <1>2, <1>3

\* Taking the head of q to the end of p keeps one behind the other.
LEMMA BeforeMove ==
    ASSUME NEW p \in Seq(PageFrames), NEW q \in Seq(PageFrames), q # <<>>, Before(p, q),
           NEW lo \in Nat, NEW hi \in Nat, Upwards(p, lo, hi), Upwards(q, lo, hi)
    PROVE  Before(Append(p, Head(q)), Tail(q)) /\ Upwards(Append(p, Head(q)), lo, hi)
<1>1. /\ Head(q) = q[1] /\ 1 \in DOMAIN q /\ Head(q) \in PageFrames
      /\ \A i \in DOMAIN Tail(q) : i + 1 \in DOMAIN q /\ Tail(q)[i] = q[i + 1]
  BY TailOf
<1>2. Head(q).t = "out" => lo < Head(q).n /\ Head(q).n <= hi /\ Upwards(Tail(q), Head(q).n, hi)
  BY UpwardsTail
<1> DEFINE r == Append(p, Head(q))
<1>3. \A i \in DOMAIN r : \/ i \in DOMAIN p /\ r[i] = p[i]
                          \/ r[i] = Head(q)
  BY <1>1, AppendTo
<1>4. Upwards(r, lo, hi)
  <2>1. \A j \in DOMAIN p : p[j].t = "out" /\ Head(q).t = "out" => p[j].n < Head(q).n
    BY <1>1 DEF Before
  <2> QED BY <1>1, <1>2, <2>1, UpwardsAppend
<1> HIDE DEF r
<1>5. ASSUME NEW i \in DOMAIN r, NEW j \in DOMAIN Tail(q), r[i].t = "out", Tail(q)[j].t = "out"
      PROVE  r[i].n < Tail(q)[j].n
  <2>1. CASE i \in DOMAIN p /\ r[i] = p[i] BY <1>1, <1>5, <2>1 DEF Before
  <2>2. CASE r[i] = Head(q) BY <1>2, <1>5, <2>2 DEF Upwards
  <2> QED BY <1>3, <2>1, <2>2
<1>6. Before(r, Tail(q)) BY <1>5 DEF Before
<1> QED BY <1>4, <1>6 DEF r

(* Two queues stay in order with a higher frame at the end. *)
LEMMA BeforeAppend ==
    ASSUME NEW p \in Seq(PageFrames), NEW q \in Seq(PageFrames), NEW f \in PageFrames, Before(p, q),
           f.t = "out" => \A i \in DOMAIN p : p[i].t = "out" => p[i].n < f.n
    PROVE  Before(p, Append(q, f))
<1> DEFINE r == Append(q, f)
<1>1. \A i \in DOMAIN r : \/ i \in DOMAIN q /\ r[i] = q[i]
                          \/ r[i] = f
  BY AppendTo
<1> HIDE DEF r
<1>2. Before(p, r) BY <1>1 DEF Before
<1> QED BY <1>2 DEF r

(* What was shown and sent is counted in numbers. *)
LEMMA SeenTypes == ASSUME TypeOK PROVE Seen \in Nat /\ sent \in Nat
<1>1. shown \in Seq(Outputs) BY DEF TypeOK, Queues
<1>2. shown # <<>> => shown[Len(shown)] \in Outputs BY <1>1
<1> QED BY <1>2, FrameTypes DEF Seen, TypeOK, Counts, Outputs

\* What the next output is numbered is above all that are on their way.
LEMMA NextNumber ==
    ASSUME NEW q \in Seq(PageFrames), NEW lo \in Nat, NEW hi \in Nat, Upwards(q, lo, hi)
    PROVE  \A j \in DOMAIN q : q[j].t = "out" => q[j].n < hi + 1
<1>1. \A j \in DOMAIN q : q[j].n \in Nat BY FrameTypes
<1> QED BY <1>1 DEF Upwards

(* Output keeps its order on its way to the screen. *)
LEMMA OutputInOrderPreserved ==
    ASSUME IInv, DecryptsOutput, OutputInOrder, [Next]_vars
    PROVE  OutputInOrder' /\ (shown' # shown => Seen' \in Nat /\ Seen' > Seen)
<1>1. chain \in Seq(PageFrames) /\ inbox \in Seq(PageFrames) /\ shown \in Seq(Outputs)
  BY DEF IInv, TypeOK, Queues
<1>2. Seen \in Nat /\ sent \in Nat BY SeenTypes DEF IInv
<1>3. /\ Seen <= sent /\ Upwards(chain, Seen, sent) /\ Upwards(inbox, Seen, sent)
      /\ Before(chain, inbox)
  BY DEF OutputInOrder
<1>4. shown' = shown => Seen' = Seen BY DEF Seen
<1>5. ASSUME sent' = sent, shown' = shown,
             Upwards(chain', Seen, sent), Upwards(inbox', Seen, sent), Before(chain', inbox')
      PROVE  OutputInOrder' /\ shown' = shown
  <2>1. Upwards(chain, Seen, sent)' BY <1>4, <1>5 DEF Upwards
  <2>2. Upwards(inbox, Seen, sent)' BY <1>4, <1>5 DEF Upwards
  <2>3. Before(chain, inbox)' BY <1>5 DEF Before
  <2> QED BY <1>3, <1>4, <1>5, <2>1, <2>2, <2>3 DEF OutputInOrder
<1>6. CASE NoFrame
  <2>1. UNCHANGED <<sent, chain, shown>> /\ (inbox' = inbox \/ inbox' = <<>>) BY <1>6 DEF NoFrame
  <2> QED BY <1>3, <1>5, <2>1, EmptyQueue
<1>7. CASE Receives
  <2>1. /\ UNCHANGED <<sent, shown>> /\ inbox # <<>> /\ inbox' = Tail(inbox)
        /\ chain' = Append(chain, Head(inbox))
    BY <1>7 DEF Receives
  <2> QED BY <1>1, <1>2, <1>3, <1>5, <2>1, BeforeMove, UpwardsTail
<1>8. CASE FrameHandled
  <2>1. /\ UNCHANGED <<sent, shown>> /\ chain # <<>> /\ chain' = Tail(chain)
        /\ inbox' = inbox \/ inbox' = <<>>
    BY <1>8 DEF FrameHandled
  <2> QED BY <1>1, <1>2, <1>3, <1>5, <2>1, BeforeTail, UpwardsTail, EmptyQueue
<1>9. CASE FrameShown
  <2>1. /\ UNCHANGED <<sent, inbox>> /\ chain # <<>> /\ chain' = Tail(chain) /\ Head(chain).t = "out"
    BY <1>9 DEF FrameShown
  <2> DEFINE n == Head(chain).n
  <2>2. n \in Nat BY <1>1, <2>1, TailOf, FrameTypes
  <2>3. Seen' = n
    <3>1. PICK b \in BOOLEAN : shown' = Append(shown, [n |-> n, clear |-> b])
      BY <1>9 DEF FrameShown
    <3>2. [n |-> n, clear |-> b] \in Outputs BY <2>2, FrameTypes
    <3>3. shown' # <<>> /\ shown'[Len(shown')] = [n |-> n, clear |-> b]
      BY <1>1, <3>1, <3>2, LastOfAppend
    <3> QED BY <3>3 DEF Seen
  <2>4. Seen < n /\ n <= sent /\ Upwards(Tail(chain), n, sent)
    BY <1>1, <1>2, <1>3, <2>1, UpwardsTail
  <2>5. \A j \in DOMAIN inbox : inbox[j].t = "out" => n < inbox[j].n
    BY <1>1, <1>3, <2>1, BeforeTail
  <2> HIDE DEF n
  <2>6. Upwards(inbox, n, sent) BY <1>3, <2>5 DEF Upwards
  <2>7. Upwards(chain, Seen, sent)' BY <2>1, <2>3, <2>4 DEF Upwards
  <2>8. Upwards(inbox, Seen, sent)' BY <2>1, <2>3, <2>6 DEF Upwards
  <2>9. Before(chain, inbox)'
    <3>1. Before(Tail(chain), inbox) BY <1>1, <1>3, <2>1, BeforeTail
    <3> QED BY <2>1, <3>1 DEF Before
  <2> QED BY <1>2, <2>1, <2>2, <2>3, <2>4, <2>7, <2>8, <2>9 DEF OutputInOrder
<1>10. ASSUME NEW f \in PageFrames, FrameArrives(f)
       PROVE  OutputInOrder' /\ shown' = shown
  <2>1. /\ UNCHANGED <<chain, shown>> /\ (inbox' = inbox \/ inbox' = Append(inbox, f))
        /\ IF f.t = "out" THEN f.n = sent + 1 /\ sent' = f.n ELSE sent' = sent
    BY <1>10 DEF FrameArrives
  <2>2. sent' \in Nat /\ sent <= sent' /\ f.n \in Nat BY <1>2, <2>1, FrameTypes
  <2>3. Upwards(chain, Seen, sent') /\ Upwards(inbox, Seen, sent')
    BY <1>1, <1>2, <1>3, <2>2, UpwardsWiden
  <2>4. f.t = "out" => /\ Seen < f.n /\ f.n <= sent'
                       /\ \A j \in DOMAIN inbox : inbox[j].t = "out" => inbox[j].n < f.n
                       /\ \A j \in DOMAIN chain : chain[j].t = "out" => chain[j].n < f.n
    <3>1. CASE f.t = "out"
      <4>1. f.n = sent + 1 /\ sent' = f.n BY <2>1, <3>1
      <4>2. Seen < f.n /\ f.n <= sent' BY <1>2, <1>3, <4>1
      <4>3. /\ \A j \in DOMAIN inbox : inbox[j].t = "out" => inbox[j].n < sent + 1
            /\ \A j \in DOMAIN chain : chain[j].t = "out" => chain[j].n < sent + 1
        BY <1>1, <1>2, <1>3, NextNumber
      <4> QED BY <4>1, <4>2, <4>3
    <3> QED BY <3>1
  <2>5. Upwards(inbox', Seen, sent') BY <1>1, <1>2, <2>1, <2>2, <2>3, <2>4, UpwardsAppend
  <2>6. Before(chain, inbox') BY <1>1, <1>3, <2>1, <2>4, BeforeAppend
  <2>7. Upwards(chain, Seen, sent)' BY <1>4, <2>1, <2>3 DEF Upwards
  <2>8. Upwards(inbox, Seen, sent)' BY <1>4, <2>1, <2>5 DEF Upwards
  <2>9. Before(chain, inbox)' BY <2>1, <2>6 DEF Before
  <2>10. Seen' <= sent' BY <1>2, <1>3, <1>4, <2>1, <2>2
  <2> QED BY <2>1, <2>7, <2>8, <2>9, <2>10 DEF OutputInOrder
<1> QED BY <1>6, <1>7, <1>8, <1>9, <1>10, PageMoves

(* Nothing comes behind an end frame, on the page or on the screen. *)
LEMMA EndIsLastPreserved ==
    ASSUME IInv, DecryptsOutput, EndIsLast, [Next]_vars
    PROVE  EndIsLast' /\ (shown' # shown => ended \notin EndFrames)
<1>1. chain \in Seq(PageFrames) /\ inbox \in Seq(PageFrames)
  BY DEF IInv, TypeOK, Queues
<1>2. /\ EndOnlyLast(chain) /\ EndOnlyLast(inbox)
      /\ HasEnd(chain) => over /\ inbox = <<>>
      /\ HasEnd(inbox) => over
      /\ ended \in EndFrames => over /\ chain = <<>> /\ inbox = <<>>
  BY DEF EndIsLast
<1>3. ASSUME EndOnlyLast(chain') /\ EndOnlyLast(inbox'),
             HasEnd(chain') => over' /\ inbox' = <<>>, HasEnd(inbox') => over',
             ended' \in EndFrames => over' /\ chain' = <<>> /\ inbox' = <<>>
      PROVE  EndIsLast'
  BY <1>3 DEF EndIsLast, EndOnlyLast, HasEnd
<1>4. CASE NoFrame
  <2>1. /\ UNCHANGED <<chain, shown>> /\ (over => over')
        /\ inbox' = inbox \/ inbox' = <<>>
        /\ ended' = ended \/ ended' \notin EndFrames
    BY <1>4 DEF NoFrame
  <2> QED BY <1>2, <1>3, <2>1, EmptyQueue
<1>5. CASE Receives
  <2>1. /\ UNCHANGED <<over, shown, ended>> /\ inbox # <<>> /\ inbox' = Tail(inbox)
        /\ chain' = Append(chain, Head(inbox))
    BY <1>5 DEF Receives
  <2>2. Head(inbox) \in PageFrames /\ ~HasEnd(chain) /\ ended \notin EndFrames
    BY <1>1, <1>2, <2>1, TailOf
  <2>3. EndOnlyLast(chain') /\ (HasEnd(chain') => Head(inbox).t \in EndFrames)
    BY <1>1, <2>1, <2>2, EndAppend
  <2>4. /\ EndOnlyLast(Tail(inbox)) /\ (HasEnd(Tail(inbox)) => HasEnd(inbox))
        /\ Head(inbox).t \in EndFrames => HasEnd(inbox) /\ Tail(inbox) = <<>>
    BY <1>1, <1>2, <2>1, EndTail
  <2> QED BY <1>2, <1>3, <2>1, <2>2, <2>3, <2>4
<1>6. ASSUME chain # <<>>, chain' = Tail(chain), inbox' = inbox \/ inbox' = <<>>, over' = over,
             ended' = ended \/ ended' \notin EndFrames \/ Head(chain).t \in EndFrames
      PROVE  EndIsLast' /\ ended \notin EndFrames
  <2>1. /\ EndOnlyLast(Tail(chain)) /\ (HasEnd(Tail(chain)) => HasEnd(chain))
        /\ Head(chain).t \in EndFrames => HasEnd(chain) /\ Tail(chain) = <<>>
    BY <1>1, <1>2, <1>6, EndTail
  <2>2. ended \notin EndFrames BY <1>2, <1>6
  <2>3. EndOnlyLast(chain') /\ EndOnlyLast(inbox') BY <1>2, <1>6, <2>1, EmptyQueue
  <2>4. HasEnd(chain') => over' /\ inbox' = <<>> BY <1>2, <1>6, <2>1
  <2>5. HasEnd(inbox') => over' BY <1>2, <1>6, EmptyQueue
  <2>6. ended' \in EndFrames => over' /\ chain' = <<>> /\ inbox' = <<>>
    BY <1>2, <1>6, <2>1, <2>2
  <2> QED BY <1>3, <2>2, <2>3, <2>4, <2>5, <2>6
<1>7. CASE FrameShown \/ FrameHandled BY <1>6, <1>7 DEF FrameShown, FrameHandled
<1>8. ASSUME NEW f \in PageFrames, FrameArrives(f)
      PROVE  EndIsLast' /\ shown' = shown
  <2>1. /\ ~over /\ UNCHANGED <<chain, shown, ended>> /\ (inbox' = inbox \/ inbox' = Append(inbox, f))
        /\ f.t \in EndFrames => over'
    BY <1>8 DEF FrameArrives
  <2>2. ~HasEnd(inbox) /\ ~HasEnd(chain) /\ ended \notin EndFrames BY <1>2, <2>1
  <2>3. EndOnlyLast(inbox') /\ (HasEnd(inbox') => f.t \in EndFrames)
    BY <1>1, <1>2, <2>1, <2>2, EndAppend
  <2> QED BY <1>2, <1>3, <2>1, <2>2, <2>3
<1>9. (NoFrame \/ Receives \/ FrameHandled) => shown' = shown BY DEF NoFrame, Receives, FrameHandled
<1>10. FrameShown => ended \notin EndFrames BY <1>6 DEF FrameShown
<1> QED BY <1>4, <1>5, <1>7, <1>8, <1>9, <1>10, PageMoves

(* The page starts with nothing received or typed. *)
LEMMA OrderInit == ASSUME Init PROVE OrderInv
<1>1. /\ Seen = 0 /\ Entered = 0 /\ sent = 0 /\ typed = 0 /\ chain = <<>> /\ inbox = <<>>
      /\ keys = <<>> /\ work = "idle" /\ ended \notin EndFrames
  BY DEF Init, Seen, Entered, EndFrames
<1>2. OutputInOrder BY <1>1, EmptyQueue DEF OutputInOrder
<1>3. EndIsLast BY <1>1, EmptyQueue DEF EndIsLast
<1>4. KeysInOrder BY <1>1 DEF KeysInOrder, Ascending
<1> QED BY <1>1, <1>2, <1>3, <1>4 DEF OrderInv, DecryptsOutput

(* Every step of the page keeps the order. *)
LEMMA OrderPreserved == ASSUME IInv, OrderInv, [Next]_vars PROVE OrderInv'
BY OutputInOrderPreserved, EndIsLastPreserved, KeysInOrderPreserved, DecryptsOutputPreserved
DEF OrderInv

---------------------------------------------------------------------------
(* The page implements Viewer.                                              *)

Causes == {"no key", "decrypt", "disconnected"} \cup EndFrames

\* The first cause becomes the banner; nothing else happens on the screen.
FirstCause == UNCHANGED <<shown, wire>> /\ ended = "nil" /\ ended' \in Causes

\* A step changes the screen, the wire or the banner, and not two of them.
LEMMA OneAtATime ==
    ASSUME [Next]_vars
    PROVE  UNCHANGED <<wire, ended>> \/ UNCHANGED <<shown, ended>> \/ FirstCause
<1> USE DEF relayVars, keyVars, recvVars, sendVars
<1>1. ASSUME NEW cause \in Causes, Banner(cause), UNCHANGED <<shown, wire>>
      PROVE  UNCHANGED <<shown, ended>> \/ FirstCause
  BY <1>1 DEF Banner, FirstCause
<1>2. ASSUME PageStep
      PROVE  UNCHANGED <<wire, ended>> \/ UNCHANGED <<shown, ended>> \/ FirstCause
  <2>1. ASSUME NEW e2e \in BOOLEAN, ProbeAnswered(e2e) PROVE UNCHANGED <<wire, ended>>
    BY <2>1 DEF ProbeAnswered
  <2>2. CASE KeyImported \/ SocketOpens \/ Receive BY <2>2 DEF KeyImported, SocketOpens, Receive
  <2>3. CASE SocketCloses BY <1>1, <2>3 DEF SocketCloses, Causes
  <2>4. ASSUME Decrypted
        PROVE  UNCHANGED <<wire, ended>> \/ UNCHANGED <<shown, ended>> \/ FirstCause
    <3>1. CASE Decrypts(Head(chain)) BY <2>4, <3>1 DEF Decrypted
    <3>2. CASE ~Decrypts(Head(chain)) BY <1>1, <2>4, <3>2 DEF Decrypted, Causes
    <3> QED BY <3>1, <3>2
  <2>5. CASE SendNext \/ Sealed BY <2>5 DEF SendNext, Sealed
  <2>6. ASSUME NEW f \in Range(chain), HandleE2E(f) \/ HandleOut(f) PROVE UNCHANGED <<wire, ended>>
    BY <2>6 DEF HandleE2E, HandleOut
  <2>7. ASSUME NEW f \in Range(chain), HandleEnd(f)
        PROVE  UNCHANGED <<shown, ended>> \/ FirstCause
    BY <1>1, <2>7 DEF HandleEnd, Causes
  <2> QED BY <1>2, <2>1, <2>2, <2>3, <2>4, <2>5, <2>6, <2>7 DEF PageStep
<1>3. ASSUME UserStep PROVE UNCHANGED <<wire, ended>> \/ UNCHANGED <<shown, ended>> \/ FirstCause
  <2>1. ASSUME NEW key, PromptAnswered(key) \/ OthersStore(key) PROVE UNCHANGED <<wire, ended>>
    BY <2>1 DEF PromptAnswered, OthersStore
  <2>2. CASE PromptDeclined BY <1>1, <2>2 DEF PromptDeclined, Causes
  <2>3. CASE Keystroke BY <2>3 DEF Keystroke
  <2> QED BY <1>3, <2>1, <2>2, <2>3 DEF UserStep
<1>4. ASSUME RelayStep PROVE UNCHANGED <<wire, ended>>
  BY <1>4 DEF RelayStep, RelayAnnounces, LinkBreaks, RelaySends, RelayEnds
<1>5. CASE UNCHANGED vars BY <1>5 DEF vars
<1> QED BY <1>2, <1>3, <1>4, <1>5 DEF Next

(* The page starts as Viewer does. *)
LEMMA ViewInits == ASSUME Init PROVE View!ViewInit
BY DEF Init, View!ViewInit

(* Every step of the page is a step of Viewer, or none. *)
LEMMA ViewStep ==
    ASSUME IInv, OrderInv, [Next]_vars
    PROVE  [View!ViewNext]_View!viewVars
<1> DEFINE reason == IF ended = "nil" THEN {} ELSE {ended}
<1>1. shown' # shown => ended \notin EndFrames /\ Seen' \in Nat /\ Seen' > Seen
  BY OutputInOrderPreserved, EndIsLastPreserved DEF OrderInv
<1>2. wire' # wire => Entered' \in Nat /\ Entered' > Entered
  BY KeysInOrderPreserved DEF OrderInv
<1>3. shown' = shown => Seen' = Seen BY DEF Seen
<1>4. wire' = wire => Entered' = Entered BY DEF Entered
<1>5. ended' = ended => reason' = reason OBVIOUS
<1>6. CASE UNCHANGED <<wire, ended>>
  <2>1. CASE shown' = shown
    BY <1>3, <1>4, <1>5, <1>6, <2>1 DEF View!viewVars, Seen, Entered
  <2>2. CASE shown' # shown
    <3>1. reason \cap EndFrames = {} BY <1>1, <2>2 DEF EndFrames
    <3>2. View!Show BY <1>1, <1>4, <1>5, <1>6, <2>2, <3>1 DEF View!Show, Seen, Entered
    <3> QED BY <3>2 DEF View!ViewNext
  <2> QED BY <2>1, <2>2
<1>7. CASE UNCHANGED <<shown, ended>>
  <2>1. CASE wire' = wire
    BY <1>3, <1>4, <1>5, <1>7, <2>1 DEF View!viewVars, Seen, Entered
  <2>2. CASE wire' # wire
    <3>1. View!Enter BY <1>2, <1>3, <1>5, <1>7, <2>2 DEF View!Enter, Seen, Entered
    <3> QED BY <3>1 DEF View!ViewNext
  <2> QED BY <2>1, <2>2
<1>8. CASE FirstCause
  <2>1. ended' \in Causes /\ reason = {} /\ reason' = {ended'}
    BY <1>8 DEF FirstCause, Causes, EndFrames
  <2>2. View!End(ended')
    BY <1>3, <1>4, <1>8, <2>1 DEF FirstCause, View!End, Seen, Entered
  <2> QED BY <2>1, <2>2 DEF View!ViewNext, Causes
<1> QED BY <1>6, <1>7, <1>8, OneAtATime

---------------------------------------------------------------------------
(* The conn.                                                                *)

(* Which frames the conn and the page share. *)
LEMMA FrameFacts ==
    /\ nil \notin Frames /\ tab \in Conns /\ MaxOut \in Nat /\ QueueLen \in Nat
    /\ \A n \in 1..(MaxOut + 1) : OutFrame(n) \in Frames /\ OutFrame(n) \in PageFrames
                                  /\ OutFrame(n).t = "out" /\ OutFrame(n).n = n
    /\ LastFrames \subseteq Frames /\ LastFrames \subseteq PageFrames
    /\ \A f \in LastFrames : f.t \in EndFrames /\ f.n = 0 /\ f.ok = TRUE
    /\ \A t \in EndFrames : [t |-> t, n |-> 0, ok |-> TRUE] \in LastFrames
<1>1. /\ nil \notin Frames /\ tab \in Conns /\ MaxOut \in Nat /\ QueueLen \in Nat
      /\ FeedFrames \subseteq Frames
  BY ConnAssumption, FeedAssumption
<1>2. \A n \in 1..(MaxOut + 1) : n \in 0..(MaxOut + 1) /\ n \in Nat BY <1>1
<1>3. 0 \in 0..(MaxOut + 1) BY <1>1
<1>4. ASSUME NEW n \in 1..(MaxOut + 1)
      PROVE  OutFrame(n) \in FeedFrames /\ OutFrame(n) \in PageFrames
             /\ OutFrame(n).t = "out" /\ OutFrame(n).n = n
  BY <1>2 DEF OutFrame, FeedFrames, PageFrames
<1>5. LastFrames \subseteq FeedFrames /\ LastFrames \subseteq PageFrames
  <2>1. ASSUME NEW t \in EndFrames
        PROVE  [t |-> t, n |-> 0, ok |-> TRUE] \in FeedFrames \cap PageFrames
    BY <1>3 DEF FeedFrames, PageFrames
  <2>2. ASSUME NEW f \in LastFrames
        PROVE  f.t \in EndFrames /\ f = [t |-> f.t, n |-> 0, ok |-> TRUE]
    BY DEF LastFrames
  <2> QED BY <2>1, <2>2
<1>6. /\ \A f \in LastFrames : f.t \in EndFrames /\ f.n = 0 /\ f.ok = TRUE
      /\ \A t \in EndFrames : [t |-> t, n |-> 0, ok |-> TRUE] \in LastFrames
  BY DEF LastFrames
<1> QED BY <1>1, <1>4, <1>5, <1>6

\* What FeedInv says of the conn of the page alone.
LEMMA QueueTypes ==
    ASSUME FeedTypeOK, IInv
    PROVE  /\ out[tab] \in Seq(Frames) /\ Len(out[tab]) \in Nat /\ accepted \in Nat /\ sent \in Nat
           /\ relay \in {"broker", "worker"} /\ over \in BOOLEAN /\ closed[tab] \in BOOLEAN
           /\ DOMAIN out[tab] = 1..Len(out[tab])
BY FrameFacts DEF FeedTypeOK, IInv, TypeOK, Counts

(* The conn's side keeps its types. *)
LEMMA FeedTypesPreserved ==
    ASSUME FeedTypeOK, [FeedNext]_allVars
    PROVE  FeedTypeOK'
<1> USE FrameFacts DEF FeedTypeOK, connVars
<1>1. ASSUME NEW f \in Frames, send(tab, f) PROVE out' \in [Conns -> Seq(Frames)]
  <2>1. Append(out[tab], f) \in Seq(Frames) OBVIOUS
  <2> QED BY <1>1, <2>1 DEF send
<1>2. CASE Upgraded BY <1>2 DEF Upgraded, newConn
<1>3. CASE Relays
  <2> DEFINE f == [t |-> "out", n |-> accepted + 1, ok |-> TRUE]
  <2>1. accepted + 1 \in 1..(MaxOut + 1) OBVIOUS
  <2>2. f \in Frames BY <2>1 DEF OutFrame
  <2>3. Accepts(tab) => accepted + 1 \in 0..MaxOut BY <1>3 DEF Relays, Accepts
  <2>4. out' \in [Conns -> Seq(Frames)] BY <1>1, <1>3, <2>2 DEF Relays
  <2>5. accepted' \in 0..MaxOut BY <1>3, <2>3 DEF Relays
  <2> QED BY <1>3, <2>4, <2>5 DEF Relays, send
<1>4. ASSUME NEW t \in EndFrames \cup {"gone"}, Closes(t) PROVE FeedTypeOK'
  <2> DEFINE f == IF t = "gone" THEN nil ELSE [t |-> t, n |-> 0, ok |-> TRUE]
  <2>1. f = nil \/ f \in LastFrames BY <1>4
  <2>2. f # nil => Append(out[tab], f) \in Seq(Frames) BY <2>1
  <2>3. close(tab, f) /\ final' = IF Accepts(tab) /\ f # nil THEN f ELSE final
    BY <1>4 DEF Closes
  <2> HIDE DEF f
  <2>4. out' \in [Conns -> Seq(Frames)] /\ closed' \in [Conns -> BOOLEAN] /\ ws' = ws
    BY <2>2, <2>3 DEF close
  <2>5. final' \in LastFrames \cup {nil} BY <2>1, <2>3
  <2> QED BY <1>4, <2>4, <2>5 DEF Closes
<1>5. CASE Delivers
  <2>1. out[tab] # <<>> /\ out' = [out EXCEPT ![tab] = Tail(@)] BY <1>5 DEF Delivers, WriteFrame
  <2>2. Tail(out[tab]) \in Seq(Frames) BY <2>1
  <2> QED BY <1>5, <2>1, <2>2 DEF Delivers, WriteFrame
<1>6. CASE WriterLeaves
  <2>1. out[tab] # <<>> => Tail(out[tab]) \in Seq(Frames) OBVIOUS
  <2>2. CASE Drained(tab) BY <1>6, <2>2 DEF WriterLeaves, Drained
  <2>3. CASE WriteError(tab) /\ broken' = TRUE
    <3>1. out' \in [Conns -> Seq(Frames)] BY <2>1, <2>3 DEF WriteError
    <3> QED BY <1>6, <2>3, <3>1 DEF WriterLeaves, WriteError
  <2>4. broken' \in BOOLEAN BY <1>6 DEF WriterLeaves
  <2> QED BY <1>6, <2>2, <2>3 DEF WriterLeaves
<1>7. CASE PageSteps
  <2>1. UNCHANGED <<connVars, accepted, final>> /\ broken' \in BOOLEAN BY <1>7 DEF PageSteps
  <2> QED BY <2>1
<1>8. CASE relay = "worker" /\ RelayStep /\ UNCHANGED feedVars BY <1>8 DEF feedVars
<1>9. CASE relay = "broker" /\ LinkBreaks /\ broken' = TRUE /\ UNCHANGED <<connVars, accepted, final>>
  BY <1>9
<1>10. CASE UNCHANGED allVars BY <1>10 DEF allVars, feedVars
<1> QED BY <1>2, <1>3, <1>4, <1>5, <1>6, <1>7, <1>8, <1>9, <1>10 DEF FeedNext, WriterStep

\* What the page's own steps leave of what the conn is about.
LEMMA PageStepsFacts ==
    ASSUME PageStep \/ UserStep
    PROVE  /\ UNCHANGED <<relay, sent>>
           /\ over' = over \/ (over' = TRUE /\ SocketCloses)
<1> USE DEF relayVars
<1>1. ASSUME PageStep
      PROVE  UNCHANGED <<relay, sent>> /\ (over' = over \/ (over' = TRUE /\ SocketCloses))
  <2>1. CASE SocketCloses BY <2>1 DEF SocketCloses
  <2>2. CASE ~SocketCloses
    BY <1>1, <2>2 DEF PageStep, ProbeAnswered, KeyImported, SocketOpens, Receive, Decrypted,
        SendNext, Sealed, HandleE2E, HandleOut, HandleEnd
  <2> QED BY <2>1, <2>2
<1>2. ASSUME UserStep PROVE UNCHANGED <<relay, sent, over>>
  BY <1>2 DEF UserStep, PromptDeclined, PromptAnswered, OthersStore, Keystroke
<1> QED BY <1>1, <1>2

(* The relay behind the socket is what it was. *)
LEMMA RelayStepFacts == ASSUME RelayStep PROVE relay' = relay
BY DEF RelayStep, RelayAnnounces, LinkBreaks, RelaySends, RelayEnds, relayVars

\* What the frame at the head of the queue is, while the page can still get it.
LEMMA HeadOfQueue ==
    ASSUME FeedInv, IInv, relay = "broker", ~over, out[tab] # <<>>
    PROVE  /\ Head(out[tab]) = out[tab][1] /\ Len(out[tab]) >= 1
           /\ \/ /\ Head(out[tab]) = OutFrame(sent + 1) /\ Waiting >= 1
                 /\ sent + 1 \in 1..MaxOut
              \/ /\ Head(out[tab]) = final /\ final \in LastFrames
                 /\ Len(out[tab]) = 1
<1>1. out[tab] \in Seq(Frames) /\ accepted \in 0..MaxOut /\ sent \in Nat /\ final \in LastFrames \cup {nil}
  BY QueueTypes DEF FeedInv, FeedTypeOK
<1>2. Head(out[tab]) = out[tab][1] /\ Len(out[tab]) >= 1 /\ Len(out[tab]) \in Nat BY <1>1
<1>3. /\ accepted = sent + Waiting
      /\ \A i \in 1..Waiting : out[tab][i] = OutFrame(sent + i)
      /\ final # nil => out[tab][Len(out[tab])] = final
  BY DEF FeedInv, QueueIsTheRest
<1>4. Waiting \in Nat BY <1>2 DEF Waiting
<1>5. MaxOut \in Nat BY FrameFacts
<1>6. CASE Waiting >= 1
  <2>1. sent + 1 \in 1..MaxOut BY <1>1, <1>3, <1>4, <1>5, <1>6
  <2>2. 1 \in 1..Waiting BY <1>4, <1>6
  <2> QED BY <1>2, <1>3, <1>6, <2>1, <2>2
<1>7. CASE Waiting = 0
  <2>1. final # nil /\ Len(out[tab]) = 1 BY <1>2, <1>7 DEF Waiting
  <2> QED BY <1>1, <1>2, <1>3, <2>1
<1> QED BY <1>4, <1>6, <1>7

\* A step of the page at the end of the conn is a step of TermPage.
LEMMA FeedStep ==
    ASSUME FeedInv, IInv, [FeedNext]_allVars
    PROVE  [Next]_vars
<1>1. CASE PageSteps BY <1>1 DEF PageSteps, Next
<1>2. CASE RelayStep \/ LinkBreaks BY <1>2 DEF Next, RelayStep
<1>3. CASE UNCHANGED vars BY <1>3
<1>4. CASE Delivers
  <2> DEFINE f == Head(out[tab])
  <2>1. CASE over BY <1>4, <2>1 DEF Delivers
  <2>2. CASE ~over
    <3>1. ws[tab] = "open" /\ out[tab] # <<>> /\ relay = "broker"
      <4>1. relay \in {"broker", "worker"} BY DEF IInv, TypeOK, Counts
      <4> QED BY <1>4, <4>1 DEF Delivers, WriteFrame, FeedInv, Ends
    <3>2. sock \in {"connecting", "open"}
      BY <2>2, <3>1 DEF FeedInv, Ends, IInv, TypeOK, Stages
    <3>3. /\ Arrives(f) /\ sent' = (IF f.t = "out" THEN f.n ELSE sent) /\ over' = (f.t \in EndFrames)
          /\ UNCHANGED <<relay, keyVars, sock, recvVars, ended, sendVars>>
      BY <1>4, <2>2 DEF Delivers
    <3>4. CASE f = OutFrame(sent + 1) /\ sent + 1 \in 1..MaxOut
      <4>1. sent < MaxOut /\ sent \in Nat BY <3>4, FrameFacts, QueueTypes DEF FeedInv
      <4>2. f.t = "out" /\ f.n = sent + 1 /\ f = [t |-> "out", n |-> sent + 1, ok |-> TRUE]
        BY <3>4 DEF OutFrame
      <4> HIDE DEF f
      <4>3. over' = over /\ sent' = sent + 1 BY <2>2, <3>3, <4>2, QueueTypes DEF EndFrames, FeedInv
      <4>4. RelaySends(TRUE)
        BY <2>2, <3>2, <3>3, <4>1, <4>2, <4>3 DEF RelaySends, Connected
      <4> QED BY <4>4 DEF Next, RelayStep
    <3>5. CASE f \in LastFrames
      <4>1. f.t \in EndFrames /\ f = [t |-> f.t, n |-> 0, ok |-> TRUE]
        BY <3>5 DEF LastFrames
      <4> HIDE DEF f
      <4>2. over' = TRUE /\ sent' = sent BY <3>3, <4>1 DEF EndFrames
      <4>3. RelayEnds(f.t) BY <2>2, <3>2, <3>3, <4>1, <4>2 DEF RelayEnds, Connected
      <4> QED BY <4>1, <4>3 DEF Next, RelayStep
    <3> QED BY <2>2, <3>1, <3>4, <3>5, HeadOfQueue
  <2> QED BY <2>1, <2>2
<1>5. CASE WriterLeaves
  <2>1. ws[tab] = "open" /\ ws' = [ws EXCEPT ![tab] = "shut"]
    BY <1>5 DEF WriterLeaves, Drained, WriteError
  <2>2. ws'[tab] = "shut" BY <2>1, FrameFacts DEF FeedInv, FeedTypeOK
  <2>3. over' = TRUE
        /\ UNCHANGED <<relay, sent, inbox, keyVars, sock, recvVars, ended, sendVars>>
    BY <1>5, <2>2 DEF WriterLeaves
  <2>4. CASE over BY <2>3, <2>4, QueueTypes DEF vars, relayVars, FeedInv
  <2>5. CASE ~over
    <3>1. Connected BY <2>1, <2>5 DEF Connected, FeedInv, Ends, IInv, TypeOK, Stages
    <3> QED BY <2>3, <3>1 DEF LinkBreaks, Next, RelayStep
  <2> QED BY <2>4, <2>5
<1> QED BY <1>1, <1>2, <1>3, <1>4, <1>5
        DEF FeedNext, WriterStep, Upgraded, Relays, Closes, allVars

(* What waits in the conn is what was accepted and not sent. *)
LEMMA QueuePreserved ==
    ASSUME FeedInv, FeedTypeOK', IInv, IInv', [FeedNext]_allVars
    PROVE  QueueIsTheRest'
<1>1. CASE relay' # "broker" \/ over' BY <1>1 DEF QueueIsTheRest
<1>2. ASSUME UNCHANGED <<accepted, sent, out, final, relay>>, over' = over PROVE QueueIsTheRest'
  BY <1>2 DEF FeedInv, QueueIsTheRest, Waiting
<1>3. ASSUME relay = "broker", ~over
      PROVE  /\ accepted = sent + Waiting /\ Waiting \in Nat
             /\ \A i \in 1..Waiting : out[tab][i] = OutFrame(sent + i)
             /\ final # nil => out[tab] # <<>> /\ out[tab][Len(out[tab])] = final
  <2>1. out[tab] \in Seq(Frames) BY QueueTypes DEF FeedInv
  <2>2. Waiting \in Nat BY <1>3, <2>1 DEF Waiting, FeedInv, QueueIsTheRest
  <2> QED BY <1>3, <2>2 DEF FeedInv, QueueIsTheRest
<1>4. CASE PageSteps
  <2>1. UNCHANGED <<relay, sent, out, accepted, final>> /\ (over' = over \/ over' = TRUE)
    BY <1>4, PageStepsFacts DEF PageSteps, connVars
  <2> QED BY <1>1, <1>2, <2>1
<1>5. CASE relay = "worker" /\ RelayStep BY <1>1, <1>5, RelayStepFacts
<1>6. CASE LinkBreaks BY <1>1, <1>6 DEF LinkBreaks
<1>7. CASE Upgraded BY <1>2, <1>7 DEF Upgraded, newConn, vars, relayVars
<1>8. CASE Relays
  <2>1. UNCHANGED <<relay, sent, over, final>> BY <1>8 DEF Relays, vars, relayVars
  <2>2. CASE ~Accepts(tab)
    BY <1>2, <1>8, <2>1, <2>2 DEF Relays, send
  <2>3. CASE Accepts(tab) /\ relay = "broker" /\ ~over
    <3> DEFINE f == [t |-> "out", n |-> accepted + 1, ok |-> TRUE]
               q == out[tab]
    <3>1. final = nil /\ Waiting = Len(q) BY <2>3 DEF Accepts, FeedInv, Ends, Waiting
    <3>2. q \in Seq(Frames) /\ Len(q) \in Nat /\ accepted \in Nat /\ sent \in Nat
      BY QueueTypes DEF FeedInv
    <3>3. out'[tab] = Append(q, f) /\ accepted' = accepted + 1
      BY <1>8, <2>3, FrameFacts DEF Relays, send, FeedInv, FeedTypeOK
    <3>4. /\ Len(Append(q, f)) = Len(q) + 1 /\ Append(q, f)[Len(q) + 1] = f
          /\ \A i \in 1..Len(q) : Append(q, f)[i] = q[i]
      BY <3>2
    <3>5. f = OutFrame(sent + (Len(q) + 1))
      <4>1. accepted + 1 = sent + (Len(q) + 1) BY <1>3, <2>3, <3>1, <3>2
      <4> QED BY <4>1 DEF OutFrame
    <3> HIDE DEF f, q
    <3>6. ASSUME NEW i \in 1..(Len(q) + 1) PROVE out'[tab][i] = OutFrame(sent + i)
      <4>1. CASE i = Len(q) + 1 BY <3>3, <3>4, <3>5, <4>1
      <4>2. CASE i \in 1..Len(q) BY <1>3, <2>3, <3>1, <3>3, <3>4, <4>2 DEF q
      <4> QED BY <3>2, <4>1, <4>2
    <3>7. Waiting' = Len(q) + 1 /\ final' = nil BY <2>1, <3>1, <3>3, <3>4 DEF Waiting
    <3>8. accepted' = sent' + Waiting' BY <1>3, <2>1, <2>3, <3>1, <3>2, <3>3, <3>7
    <3>9. \A i \in 1..Waiting' : out'[tab][i] = OutFrame(sent' + i) BY <2>1, <3>6, <3>7
    <3> QED BY <3>7, <3>8, <3>9 DEF QueueIsTheRest, OutFrame
  <2> QED BY <1>1, <2>1, <2>2, <2>3
<1>9. ASSUME NEW t \in EndFrames \cup {"gone"}, Closes(t) PROVE QueueIsTheRest'
  <2> DEFINE f == IF t = "gone" THEN nil ELSE [t |-> t, n |-> 0, ok |-> TRUE]
             q == out[tab]
  <2>1. UNCHANGED <<relay, sent, over, accepted>> BY <1>9 DEF Closes, vars, relayVars
  <2>2. close(tab, f) /\ final' = (IF Accepts(tab) /\ f # nil THEN f ELSE final)
    BY <1>9 DEF Closes
  <2> HIDE DEF f
  <2>3. CASE relay = "broker" /\ ~over /\ ~(Accepts(tab) /\ f # nil)
    <3>1. out' = out /\ final' = final BY <2>2, <2>3 DEF close, FeedInv, Ends
    <3> QED BY <1>2, <2>1, <3>1
  <2>4. CASE relay = "broker" /\ ~over /\ Accepts(tab) /\ f # nil
    <3>1. final = nil /\ Waiting = Len(q) BY <2>4 DEF Accepts, FeedInv, Ends, Waiting
    <3>2. q \in Seq(Frames) /\ Len(q) \in Nat /\ accepted \in Nat /\ sent \in Nat
      BY QueueTypes DEF FeedInv
    <3>3. out'[tab] = Append(q, f)
      BY <2>2, <2>4, FrameFacts DEF close, FeedInv, FeedTypeOK, Ends
    <3>4. /\ Len(Append(q, f)) = Len(q) + 1 /\ Append(q, f)[Len(q) + 1] = f
          /\ \A i \in 1..Len(q) : Append(q, f)[i] = q[i]
      BY <3>2
    <3> HIDE DEF q
    <3>5. Len(out'[tab]) = Len(q) + 1 BY <3>3, <3>4
    <3>6. Waiting' = Len(q) /\ final' = f BY <2>2, <2>4, <3>2, <3>5 DEF Waiting
    <3>7. accepted' = sent' + Waiting' BY <1>3, <2>1, <2>4, <3>1, <3>6
    <3>8. \A i \in 1..Waiting' : out'[tab][i] = OutFrame(sent' + i)
      BY <1>3, <2>1, <2>4, <3>1, <3>3, <3>4, <3>6 DEF q
    <3>9. out'[tab] # <<>> /\ out'[tab][Len(out'[tab])] = final'
      <4>1. out'[tab][Len(out'[tab])] = f BY <3>3, <3>4, <3>5
      <4>2. Len(out'[tab]) # 0 BY <3>2, <3>5
      <4>3. out'[tab] # <<>> BY <4>2
      <4> QED BY <3>6, <4>1, <4>3
    <3> QED BY <3>7, <3>8, <3>9 DEF QueueIsTheRest, OutFrame
  <2> QED BY <1>1, <2>1, <2>3, <2>4
<1>10. CASE Delivers
  <2> DEFINE q == out[tab]
             f == Head(q)
  <2>1. q # <<>> /\ out' = [out EXCEPT ![tab] = Tail(@)] /\ UNCHANGED <<accepted, final>>
    BY <1>10 DEF Delivers, WriteFrame
  <2>2. q \in Seq(Frames) /\ accepted \in Nat /\ sent \in Nat /\ Len(q) \in Nat
    BY QueueTypes DEF FeedInv
  <2>3. out'[tab] = Tail(q) BY <2>1, FrameFacts DEF FeedInv, FeedTypeOK
  <2>4. Len(Tail(q)) = Len(q) - 1 /\ \A i \in 1..(Len(q) - 1) : Tail(q)[i] = q[i + 1]
    BY <2>1, <2>2
  <2>5. CASE over BY <1>1, <1>10, <2>5 DEF Delivers, vars, relayVars
  <2>6. CASE relay = "broker" /\ ~over
    <3>1. /\ sent' = (IF f.t = "out" THEN f.n ELSE sent) /\ over' = (f.t \in EndFrames)
          /\ relay' = relay
      BY <1>10, <2>6 DEF Delivers
    <3>2. CASE f \in LastFrames
      <4>1. over' BY <3>1, <3>2, FrameFacts
      <4> QED BY <1>1, <4>1
    <3>3. CASE f = OutFrame(sent + 1) /\ Waiting >= 1
      <4>1. sent' = sent + 1 BY <3>1, <3>3 DEF OutFrame
      <4> HIDE DEF q
      <4>2. Waiting' = Waiting - 1 /\ Waiting <= Len(q)
        <5>1. Len(out'[tab]) = Len(q) - 1 /\ Len(q) \in Nat /\ final' = final
          BY <2>1, <2>2, <2>3, <2>4 DEF q
        <5>2. Waiting = IF final = nil THEN Len(q) ELSE Len(q) - 1 BY DEF Waiting, q
        <5>3. Waiting' = IF final = nil THEN Len(q) - 1 ELSE (Len(q) - 1) - 1 BY <5>1 DEF Waiting
        <5> QED BY <5>1, <5>2, <5>3
      <4>3. accepted' = sent' + Waiting' BY <1>3, <2>1, <2>2, <2>6, <4>1, <4>2
      <4>4. ASSUME NEW i \in 1..Waiting' PROVE out'[tab][i] = OutFrame(sent' + i)
        <5>1. i + 1 \in 1..Waiting /\ i \in 1..(Len(q) - 1) BY <1>3, <2>2, <2>6, <4>2
        <5>2. out'[tab][i] = OutFrame(sent + (i + 1))
          BY <1>3, <2>3, <2>4, <2>6, <5>1 DEF q
        <5>3. sent + (i + 1) = sent' + i BY <2>2, <4>1, <5>1
        <5> QED BY <5>2, <5>3
      <4>5. final' # nil => out'[tab] # <<>> /\ out'[tab][Len(out'[tab])] = final'
        <5>1. ASSUME final # nil PROVE Len(q) >= 2 /\ q[Len(q)] = final
          BY <1>3, <2>2, <2>6, <3>3, <5>1 DEF Waiting, q
        <5>2. ASSUME final # nil
              PROVE  /\ Len(q) - 1 \in 1..(Len(q) - 1) /\ (Len(q) - 1) + 1 = Len(q)
                     /\ Len(out'[tab]) = Len(q) - 1 /\ Len(q) - 1 # 0
          BY <2>2, <2>3, <2>4, <5>1, <5>2
        <5>3. ASSUME final # nil PROVE out'[tab][Len(out'[tab])] = final
          BY <2>3, <2>4, <5>1, <5>2, <5>3
        <5>4. ASSUME final # nil PROVE out'[tab] # <<>> BY <5>2, <5>4
        <5> QED BY <2>1, <5>3, <5>4
      <4> QED BY <4>3, <4>4, <4>5 DEF QueueIsTheRest, OutFrame
    <3> QED BY <2>1, <2>6, <3>2, <3>3, HeadOfQueue
  <2>7. relay' = relay BY <1>10 DEF Delivers, vars, relayVars
  <2> QED BY <1>1, <2>5, <2>6, <2>7
<1>11. CASE WriterLeaves
  <2>1. ws' = [ws EXCEPT ![tab] = "shut"] BY <1>11 DEF WriterLeaves, Drained, WriteError
  <2>2. over' BY <1>11, <2>1, FrameFacts DEF WriterLeaves, FeedInv, FeedTypeOK
  <2> QED BY <1>1, <2>2
<1>12. CASE UNCHANGED allVars BY <1>2, <1>12 DEF allVars, vars, relayVars, feedVars, connVars
<1> QED BY <1>4, <1>5, <1>6, <1>7, <1>8, <1>9, <1>10, <1>11, <1>12 DEF FeedNext, WriterStep

\* Only the close event says "disconnected".
LEMMA OtherBanners ==
    ASSUME PageStep \/ UserStep, ~SocketCloses
    PROVE  ended' = ended \/ (ended = "nil" /\ ended' # "nil" /\ ended' # "disconnected")
<1>1. ASSUME NEW cause \in Causes \ {"disconnected"}, Banner(cause) PROVE ended' = ended \/ (ended = "nil" /\ ended' # "nil" /\ ended' # "disconnected")
  BY <1>1 DEF Banner, Causes, EndFrames
<1>2. CASE PromptDeclined BY <1>1, <1>2 DEF PromptDeclined, Causes, EndFrames
<1>3. ASSUME Decrypted PROVE ended' = ended \/ (ended = "nil" /\ ended' # "nil" /\ ended' # "disconnected")
  <2>1. CASE Decrypts(Head(chain)) BY <1>3, <2>1 DEF Decrypted
  <2>2. CASE ~Decrypts(Head(chain)) BY <1>1, <1>3, <2>2 DEF Decrypted, Causes, EndFrames
  <2> QED BY <2>1, <2>2
<1>4. ASSUME NEW f \in Range(chain), HandleEnd(f) PROVE ended' = ended \/ (ended = "nil" /\ ended' # "nil" /\ ended' # "disconnected")
  BY <1>1, <1>4 DEF HandleEnd, Causes, EndFrames
<1>5. ASSUME NEW f \in Range(chain), HandleE2E(f) \/ HandleOut(f) PROVE ended' = ended
  BY <1>5 DEF HandleE2E, HandleOut
<1>6. ASSUME NEW key, PromptAnswered(key) \/ OthersStore(key) PROVE ended' = ended
  BY <1>6 DEF PromptAnswered, OthersStore
<1>7. ASSUME NEW e2e \in BOOLEAN, ProbeAnswered(e2e) PROVE ended' = ended
  BY <1>7 DEF ProbeAnswered
<1>8. KeyImported \/ SocketOpens \/ Receive \/ SendNext \/ Sealed \/ Keystroke => ended' = ended
  BY DEF KeyImported, SocketOpens, Receive, SendNext, Sealed, Keystroke
<1> QED BY <1>2, <1>3, <1>4, <1>5, <1>6, <1>7, <1>8 DEF PageStep, UserStep

(* What closes and shuts the conn closes the page's socket later. *)
LEMMA EndsPreserved ==
    ASSUME FeedInv, FeedTypeOK', IInv, IInv', [FeedNext]_allVars
    PROVE  Ends'
<1> USE FrameFacts DEF FeedTypeOK, connVars
<1>1. Ends /\ FeedTypeOK BY DEF FeedInv
<1>2. relay \in {"broker", "worker"} /\ over \in BOOLEAN BY QueueTypes, <1>1 DEF FeedInv
<1>3. CASE UNCHANGED <<relay, over, sock, ended, closed, ws, final>> /\ (broken => broken')
  BY <1>1, <1>3 DEF Ends
<1>4. CASE PageSteps
  <2>1. /\ UNCHANGED <<relay, closed, ws, final>> /\ (broken => broken')
        /\ sock = "connecting" /\ sock' = "closed" => broken'
        /\ relay = "broker" /\ sock' = "open" => ws[tab] # "none"
    BY <1>4, PageStepsFacts DEF PageSteps
  <2>2. CASE SocketCloses
    <3>1. sock' = "closed" /\ over' = TRUE /\ ended' # "nil"
          /\ (sock \in {"connecting", "closing"} \/ over)
      BY <2>2 DEF SocketCloses, Banner
    <3> QED BY <1>1, <2>1, <3>1 DEF Ends
  <2>3. CASE ~SocketCloses
    <3>1. over' = over BY <1>4, <2>3, PageStepsFacts DEF PageSteps
    <3>2. /\ sock' = "closed" => sock = "closed"
          /\ sock' = "none" => sock = "none"
          /\ sock' = "closing" => sock = "closing" \/ aead # "nil"
          /\ ended # "nil" => ended' # "nil"
          /\ ended' = "disconnected" => ended = "disconnected"
      <4>1. ASSUME PageStep
            PROVE  /\ sock' = "closed" => sock = "closed"
                   /\ sock' = "none" => sock = "none"
                   /\ sock' = "closing" => sock = "closing" \/ aead # "nil"
        <5> USE DEF keyVars, recvVars, sendVars
        <5>1. ASSUME NEW e2e \in BOOLEAN, ProbeAnswered(e2e) PROVE sock' \in {sock, "connecting"}
          BY <5>1 DEF ProbeAnswered
        <5>2. ASSUME KeyImported PROVE sock' \in {sock, "connecting"}
          BY <5>2 DEF KeyImported, Enabled
        <5>3. CASE SocketOpens BY <5>3 DEF SocketOpens
        <5>4. CASE Receive \/ SendNext \/ Sealed BY <5>4 DEF Receive, SendNext, Sealed
        <5>5. ASSUME NEW f \in Range(chain), HandleE2E(f) \/ HandleOut(f) \/ HandleEnd(f)
              PROVE  sock' = sock
          BY <5>5 DEF HandleE2E, HandleOut, HandleEnd
        <5>6. CASE Decrypted
          <6>1. aead # "nil" BY <5>6 DEF Decrypted, IInv, KeyKnown
          <6>2. sock' = sock \/ sock' = "closing" BY <5>6 DEF Decrypted
          <6> QED BY <6>1, <6>2
        <5> QED BY <2>3, <4>1, <5>1, <5>2, <5>3, <5>4, <5>5, <5>6 DEF PageStep
      <4>2. ASSUME UserStep PROVE sock' \in {sock, "connecting"}
        BY <4>2 DEF UserStep, PromptDeclined, Enabled, PromptAnswered, OthersStore, Keystroke
      <4>3. ended' = ended \/ (ended = "nil" /\ ended' # "nil" /\ ended' # "disconnected")
        BY <1>4, <2>3, OtherBanners DEF PageSteps
      <4> QED BY <1>4, <4>1, <4>2, <4>3 DEF PageSteps
    <3>3. relay = "broker" => aead = "nil" BY DEF IInv, PlainRelay
    <3> QED BY <1>1, <2>1, <3>1, <3>2, <3>3 DEF Ends
  <2> QED BY <2>2, <2>3
<1>5. CASE relay = "worker" /\ RelayStep /\ UNCHANGED feedVars
  <2>1. UNCHANGED <<relay, sock, ended, closed, ws, final, broken>> /\ (over => over')
    <3>1. RelayAnnounces => UNCHANGED <<relay, over, sock, ended>>
      BY DEF RelayAnnounces, relayVars
    <3>2. LinkBreaks => UNCHANGED <<relay, sock, ended>> /\ over' BY DEF LinkBreaks
    <3>3. ASSUME NEW ok \in BOOLEAN, RelaySends(ok) PROVE UNCHANGED <<relay, over, sock, ended>>
      BY <3>3 DEF RelaySends
    <3>4. ASSUME NEW t \in EndFrames, RelayEnds(t) PROVE UNCHANGED <<relay, sock, ended>> /\ over'
      BY <3>4 DEF RelayEnds
    <3>5. UNCHANGED <<relay, sock, ended>> /\ (over => over')
      BY <1>5, <3>1, <3>2, <3>3, <3>4 DEF RelayStep
    <3> QED BY <1>5, <3>5 DEF feedVars
  <2> QED BY <1>1, <1>5, <2>1 DEF Ends
<1>6. CASE relay = "broker" /\ LinkBreaks /\ broken' = TRUE /\ UNCHANGED <<connVars, accepted, final>>
  <2>1. UNCHANGED <<relay, sock, ended, closed, ws, final>> /\ over' = TRUE
    BY <1>6 DEF LinkBreaks
  <2> QED BY <1>1, <1>6, <2>1 DEF Ends
<1>7. CASE Upgraded
  <2>1. /\ UNCHANGED <<relay, over, sock, ended, closed, final, broken>> /\ relay = "broker"
        /\ sock = "connecting" /\ ws'[tab] = "open"
    BY <1>1, <1>7 DEF Upgraded, newConn, vars, relayVars
  <2> QED BY <1>1, <2>1 DEF Ends
<1>8. CASE Relays
  <2>1. UNCHANGED <<relay, over, sock, ended, closed, ws, final, broken>>
    BY <1>8 DEF Relays, send, vars, relayVars
  <2> QED BY <1>1, <2>1 DEF Ends
<1>9. ASSUME NEW t \in EndFrames \cup {"gone"}, Closes(t) PROVE Ends'
  <2>1. /\ UNCHANGED <<relay, over, sock, ended, ws, broken>> /\ ws[tab] # "none"
        /\ closed'[tab] = TRUE
    BY <1>1, <1>9 DEF Closes, close, vars, relayVars
  <2> QED BY <1>1, <2>1 DEF Ends
<1>10. CASE Delivers
  <2>1. UNCHANGED <<relay, sock, ended, closed, ws, final, broken>>
    BY <1>10 DEF Delivers, WriteFrame, vars, relayVars
  <2>2. CASE over BY <1>1, <1>10, <2>1, <2>2 DEF Delivers, vars, relayVars, Ends
  <2>3. CASE ~over
    <3>1. relay = "broker" /\ out[tab] # <<>> BY <1>1, <1>2, <1>10 DEF Ends, Delivers, WriteFrame
    <3>2. over' = (Head(out[tab]).t \in EndFrames) BY <1>10, <2>3 DEF Delivers
    <3>3. CASE over'
      <4>1. Head(out[tab]) # OutFrame(sent + 1)
        <5>1. OutFrame(sent + 1).t = "out" BY DEF OutFrame
        <5> QED BY <3>2, <3>3, <5>1 DEF EndFrames
      <4>2. final # nil BY <2>3, <3>1, <4>1, HeadOfQueue
      <4> QED BY <1>1, <2>1, <2>3, <3>3, <4>2 DEF Ends
    <3>4. CASE ~over' BY <1>1, <2>1, <2>3, <3>4 DEF Ends
    <3> QED BY <3>3, <3>4
  <2> QED BY <2>2, <2>3
<1>11. CASE WriterLeaves
  <2>1. /\ ws[tab] = "open" /\ ws' = [ws EXCEPT ![tab] = "shut"] /\ UNCHANGED closed
        /\ closed[tab] \/ broken'
        /\ broken => broken'
    BY <1>11 DEF WriterLeaves, Drained, WriteError
  <2>2. ws'[tab] = "shut" /\ over' = TRUE BY <1>1, <1>11, <2>1 DEF WriterLeaves
  <2>3. UNCHANGED <<relay, sock, ended, final>> BY <1>11 DEF WriterLeaves
  <2> QED BY <1>1, <2>1, <2>2, <2>3 DEF Ends
<1>12. CASE UNCHANGED allVars
  BY <1>1, <1>12 DEF allVars, vars, relayVars, feedVars, Ends
<1> QED BY <1>4, <1>5, <1>6, <1>7, <1>8, <1>9, <1>10, <1>11, <1>12 DEF FeedNext, WriterStep

\* Against a broker only two steps move a frame that has come.
LEMMA BrokerMoves ==
    ASSUME IInv, relay = "broker", PageStep \/ UserStep, ~SocketCloses
    PROVE  \/ UNCHANGED <<inbox, chain>>
           \/ inbox # <<>> /\ inbox' = Tail(inbox) /\ chain' = Append(chain, Head(inbox))
           \/ /\ chain # <<>> /\ chain' = Tail(chain) /\ inbox' = inbox
              /\ Head(chain).t \in EndFrames => ended' # "nil"
<1> USE DEF recvVars
<1>1. aead = "nil" /\ asks = "idle" /\ work = "idle" BY DEF IInv, PlainRelay
<1>2. ~KeyImported /\ ~PromptDeclined /\ ~Decrypted /\ \A key : ~PromptAnswered(key)
  BY <1>1 DEF KeyImported, PromptDeclined, Decrypted, PromptAnswered
<1>3. ASSUME NEW f \in Range(chain), HandleE2E(f) PROVE chain' = Tail(chain) /\ FALSE
  <2>1. chain # <<>> /\ Head(chain).t = "e2e" BY <1>3 DEF HandleE2E, Handles
  <2> QED BY <2>1, QueueFacts DEF IInv, TypeOK, PlainRelay
<1>4. ASSUME NEW f \in Range(chain), HandleOut(f)
      PROVE  chain # <<>> /\ chain' = Tail(chain) /\ inbox' = inbox /\ Head(chain).t \notin EndFrames
  BY <1>1, <1>4 DEF HandleOut, Handles, EndFrames
<1>5. ASSUME NEW f \in Range(chain), HandleEnd(f)
      PROVE  chain # <<>> /\ chain' = Tail(chain) /\ inbox' = inbox /\ ended' # "nil"
  BY <1>5 DEF HandleEnd, Handles, Banner, EndFrames
<1>6. Receive => inbox # <<>> /\ inbox' = Tail(inbox) /\ chain' = Append(chain, Head(inbox))
  BY DEF Receive
<1>7. SocketOpens \/ SendNext \/ Sealed \/ Keystroke => UNCHANGED <<inbox, chain>>
  BY DEF SocketOpens, SendNext, Sealed, Keystroke
<1>8. ASSUME NEW e2e \in BOOLEAN, ProbeAnswered(e2e) PROVE UNCHANGED <<inbox, chain>>
  BY <1>8 DEF ProbeAnswered
<1>9. ASSUME NEW key, OthersStore(key) PROVE UNCHANGED <<inbox, chain>>
  BY <1>9 DEF OthersStore
<1> QED BY <1>2, <1>3, <1>4, <1>5, <1>6, <1>7, <1>8, <1>9 DEF PageStep, UserStep

(* Where a queue has a frame, its head or the rest does. *)
LEMMA HasFacts ==
    ASSUME NEW S, NEW q \in Seq(S)
    PROVE  /\ \A f : q # <<>> /\ Has(q, f) => Head(q) = f \/ Has(Tail(q), f)
           /\ \A x \in S : \A f : Has(Append(q, x), x) /\ (Has(q, f) => Has(Append(q, x), f))
<1>1. ASSUME NEW f, q # <<>>, NEW i \in DOMAIN q, q[i] = f
      PROVE  Head(q) = f \/ Has(Tail(q), f)
  <2>1. CASE i = 1 BY <1>1, <2>1
  <2>2. CASE i # 1
    <3>1. i - 1 \in DOMAIN Tail(q) /\ Tail(q)[i - 1] = q[i] BY <1>1, <2>2
    <3> QED BY <1>1, <3>1 DEF Has
  <2> QED BY <2>1, <2>2
<1>2. ASSUME NEW x \in S
      PROVE  /\ Len(q) + 1 \in DOMAIN Append(q, x) /\ Append(q, x)[Len(q) + 1] = x
             /\ \A i \in DOMAIN q : i \in DOMAIN Append(q, x) /\ Append(q, x)[i] = q[i]
  OBVIOUS
<1> QED BY <1>1, <1>2 DEF Has

(* A final frame is in the conn, on its way through the page, or shown. *)
LEMMA FinalPreserved ==
    ASSUME FeedInv, FeedTypeOK', IInv, IInv', [FeedNext]_allVars
    PROVE  FinalIsComing'
<1> USE DEF connVars
<1>1. Ends /\ FeedTypeOK /\ FinalIsComing BY DEF FeedInv
<1>2. relay \in {"broker", "worker"} /\ over \in BOOLEAN /\ broken \in BOOLEAN
  BY QueueTypes, <1>1 DEF FeedInv, FeedTypeOK
<1>3. inbox \in Seq(PageFrames) /\ chain \in Seq(PageFrames) BY DEF IInv, TypeOK, Queues
<1>4. final # nil => relay = "broker" /\ final \in LastFrames /\ closed[tab]
  BY <1>1, <1>2 DEF Ends, FeedTypeOK
<1>5. CASE UNCHANGED <<final, ended, over, inbox, chain>> /\ (broken => broken')
  <2>1. Has(inbox, final)' = Has(inbox, final) /\ Has(chain, final)' = Has(chain, final)
    BY <1>5 DEF Has
  <2> QED BY <1>1, <1>2, <1>5, <2>1 DEF FinalIsComing
<1>6. CASE final' = nil \/ broken' BY <1>6 DEF FinalIsComing
<1>7. ASSUME final' = final, final # nil, ~broken, ended' # "disconnected",
             over' => ended' # "nil" \/ Has(inbox', final) \/ Has(chain', final)
      PROVE  FinalIsComing'
  BY <1>7 DEF FinalIsComing, Has
<1>8. CASE PageSteps
  <2>1. /\ UNCHANGED final /\ (PageStep \/ UserStep) /\ (broken => broken')
        /\ sock = "connecting" /\ sock' = "closed" => broken'
    BY <1>8 DEF PageSteps
  <2>2. ASSUME final # nil, ~broken' PROVE FinalIsComing'
    <3>1. relay = "broker" /\ ~broken /\ ended # "disconnected" /\ final \in LastFrames
      BY <1>1, <1>2, <1>4, <2>1, <2>2 DEF FinalIsComing
    <3>2. CASE SocketCloses
      <4>1. sock # "connecting" /\ sock # "closing"
        BY <1>1, <2>1, <2>2, <3>1, <3>2 DEF SocketCloses, Ends
      <4>2. over /\ inbox = <<>> /\ Free BY <3>2, <4>1 DEF SocketCloses
      <4>3. chain = <<>> BY <3>1, <4>2 DEF Free, IInv, PlainRelay
      <4>4. ~Has(inbox, final) /\ ~Has(chain, final) BY <4>2, <4>3 DEF Has
      <4>5. ended # "nil" BY <1>1, <2>2, <3>1, <4>2, <4>4 DEF FinalIsComing
      <4>6. ended' = ended BY <3>2, <4>5 DEF SocketCloses, Banner
      <4> QED BY <1>7, <2>1, <2>2, <3>1, <4>5, <4>6
    <3>3. CASE ~SocketCloses
      <4>1. over' = over BY <2>1, <3>3, PageStepsFacts
      <4>2. ended' = ended \/ (ended = "nil" /\ ended' # "nil" /\ ended' # "disconnected")
        BY <2>1, <3>3, OtherBanners
      <4>3. ASSUME over, ended = "nil", Has(inbox, final) \/ Has(chain, final)
            PROVE  ended' # "nil" \/ Has(inbox', final) \/ Has(chain', final)
        <5>1. CASE UNCHANGED <<inbox, chain>> BY <4>3, <5>1
        <5>2. CASE inbox # <<>> /\ inbox' = Tail(inbox) /\ chain' = Append(chain, Head(inbox))
          <6>1. Head(inbox) \in PageFrames BY <1>3, <5>2, TailOf
          <6> QED BY <1>3, <4>3, <5>2, <6>1, HasFacts
        <5>3. CASE /\ chain # <<>> /\ chain' = Tail(chain) /\ inbox' = inbox
                   /\ Head(chain).t \in EndFrames => ended' # "nil"
          <6>1. final.t \in EndFrames BY <3>1, FrameFacts
          <6> QED BY <1>3, <4>3, <5>3, <6>1, HasFacts
        <5> QED BY <2>1, <3>1, <3>3, <5>1, <5>2, <5>3, BrokerMoves
      <4>4. over => ended # "nil" \/ Has(inbox, final) \/ Has(chain, final)
        BY <1>1, <2>2, <3>1 DEF FinalIsComing
      <4> QED BY <1>7, <2>1, <2>2, <3>1, <4>1, <4>2, <4>3, <4>4
    <3> QED BY <3>2, <3>3
  <2> QED BY <1>6, <2>1, <2>2
<1>9. CASE relay = "worker" /\ RelayStep /\ UNCHANGED feedVars
  <2>1. final' = nil BY <1>1, <1>4, <1>9 DEF feedVars
  <2> QED BY <1>6, <2>1
<1>10. CASE LinkBreaks /\ broken' = TRUE BY <1>6, <1>10
<1>11. CASE Upgraded
  BY <1>5, <1>11 DEF Upgraded, vars, recvVars, relayVars
<1>12. CASE Relays BY <1>5, <1>12 DEF Relays, vars, recvVars, relayVars
<1>13. ASSUME NEW t \in EndFrames \cup {"gone"}, Closes(t) PROVE FinalIsComing'
  <2>1. UNCHANGED <<ended, over, inbox, chain, broken>>
    BY <1>13 DEF Closes, vars, recvVars, relayVars
  <2>2. CASE final' = final BY <1>5, <2>1, <2>2
  <2>3. CASE final' # final
    <3>1. Accepts(tab) /\ ws[tab] # "none" BY <1>13, <2>3 DEF Closes
    <3>2. relay = "broker" /\ ~closed[tab] BY <1>1, <1>2, <3>1 DEF Accepts, Ends
    <3>3. CASE broken BY <1>6, <2>1, <3>3
    <3>4. CASE ~broken
      <4>1. ~over /\ ended # "disconnected" BY <1>1, <3>2, <3>4 DEF Ends
      <4> QED BY <2>1, <4>1 DEF FinalIsComing
    <3> QED BY <3>3, <3>4
  <2> QED BY <2>2, <2>3
<1>14. CASE Delivers
  <2>1. UNCHANGED <<final, broken, ended, chain>> /\ out[tab] # <<>> /\ ws[tab] = "open"
    BY <1>14 DEF Delivers, WriteFrame, vars, recvVars
  <2>2. CASE over BY <1>5, <1>14, <2>1, <2>2 DEF Delivers, vars, relayVars
  <2>3. ASSUME ~over, final # nil, ~broken PROVE FinalIsComing'
    <3>1. relay = "broker" /\ sock \in {"connecting", "open"}
      BY <1>1, <1>4, <2>1, <2>3 DEF Ends, IInv, TypeOK, Stages
    <3>2. Arrives(Head(out[tab])) /\ over' = (Head(out[tab]).t \in EndFrames)
      BY <1>14, <2>3 DEF Delivers
    <3>3. inbox' = Append(inbox, Head(out[tab])) BY <3>1, <3>2 DEF Arrives
    <3>4. ended # "disconnected" BY <1>1, <2>3 DEF FinalIsComing
    <3>5. ASSUME over' PROVE Has(inbox', final)
      <4>1. Head(out[tab]) # OutFrame(sent + 1)
        <5>1. OutFrame(sent + 1).t = "out" BY DEF OutFrame
        <5> QED BY <3>2, <3>5, <5>1 DEF EndFrames
      <4>2. Head(out[tab]) = final /\ final \in PageFrames
        BY <2>1, <2>3, <3>1, <4>1, HeadOfQueue, FrameFacts
      <4> QED BY <1>3, <3>3, <4>2, HasFacts
    <3> QED BY <1>7, <2>1, <2>3, <3>4, <3>5
  <2> QED BY <1>2, <1>6, <2>1, <2>2, <2>3
<1>15. CASE WriterLeaves
  <2>1. UNCHANGED <<final, ended, inbox, chain>> BY <1>15 DEF WriterLeaves, recvVars
  <2>2. CASE over
    <3>1. over' = over BY <1>2, <1>15, <2>2 DEF WriterLeaves
    <3>2. broken => broken' BY <1>15 DEF WriterLeaves
    <3> QED BY <1>5, <2>1, <3>1, <3>2
  <2>3. CASE ~over /\ final # nil /\ ~broken'
    <3>1. Drained(tab) BY <1>15, <2>3 DEF WriterLeaves
    <3>2. relay = "broker" BY <1>4, <2>3
    <3> QED BY <2>3, <3>1, <3>2 DEF Drained, FeedInv, QueueIsTheRest
  <2> QED BY <1>2, <1>6, <2>1, <2>2, <2>3
<1>16. CASE UNCHANGED allVars
  BY <1>5, <1>16 DEF allVars, vars, relayVars, recvVars, feedVars
<1> QED BY <1>8, <1>9, <1>10, <1>11, <1>12, <1>13, <1>14, <1>15, <1>16 DEF FeedNext, WriterStep

(* Conn and page start in the invariant. *)
LEMMA FeedInits == ASSUME FeedInit PROVE FeedInv
<1> USE FrameFacts DEF FeedInit, Init, ConnInit
<1>1. /\ out = [c \in Conns |-> <<>>] /\ out[tab] = <<>> /\ ~closed[tab] /\ ws[tab] = "none"
      /\ accepted = 0 /\ sent = 0 /\ final = nil /\ over = FALSE /\ sock = "none"
      /\ ended = "nil" /\ Waiting = 0
  BY DEF Waiting
<1>2. FeedTypeOK
  <2>1. <<>> \in Seq(Frames) /\ 0 \in 0..MaxOut OBVIOUS
  <2> QED BY <1>1, <2>1 DEF FeedTypeOK
<1>3. QueueIsTheRest BY <1>1 DEF QueueIsTheRest
<1>4. Ends BY <1>1 DEF Ends
<1>5. FinalIsComing BY <1>1 DEF FinalIsComing
<1> QED BY <1>2, <1>3, <1>4, <1>5 DEF FeedInv

\* The page's own invariants hold at the end of a conn, because it is a relay.
LEMMA FeedHolds == FeedSpec => [](FeedInv /\ IInv /\ OrderInv)
<1>1. FeedInit => FeedInv /\ IInv /\ OrderInv BY FeedInits, InitIInv, OrderInit DEF FeedInit
<1>2. ASSUME FeedInv, IInv, OrderInv, [FeedNext]_allVars PROVE FeedInv' /\ IInv' /\ OrderInv'
  <2>1. [Next]_vars BY <1>2, FeedStep
  <2>2. IInv' /\ OrderInv' BY <1>2, <2>1, NextIInv, OrderPreserved
  <2>3. FeedTypeOK' BY <1>2, FeedTypesPreserved DEF FeedInv
  <2>4. FeedInv'
    BY <1>2, <2>2, <2>3, QueuePreserved, EndsPreserved, FinalPreserved DEF FeedInv
  <2> QED BY <2>2, <2>4
<1> QED BY <1>1, <1>2, PTL DEF FeedSpec

\* The conn is the relay that TermPage assumes: whatever handlers call send and
\* close in whatever order, the page gets the accepted output in order and
\* without a gap, at most one end frame, and nothing after it.
\* (conn, broker.go:246-292.)
THEOREM ConnIsARelayTheorem == FeedSpec => ConnIsARelay
<1>1. FeedInv /\ IInv /\ [FeedNext]_allVars => [Next]_vars BY FeedStep
<1> QED BY <1>1, FeedHolds, PTL DEF FeedSpec, ConnIsARelay

\* The reason a session ended reaches the user: where close queued it and the
\* socket did not fail, the page does not say "disconnected", though the close
\* event comes right after it.
\* (conn.close, broker.go; ws.onclose and handleFrame, term.js.)
THEOREM FinalFrameIsShownTheorem == FeedSpec => []FinalFrameIsShown
<1>1. FeedInv => FinalFrameIsShown BY DEF FeedInv, FinalIsComing, FinalFrameIsShown
<1> QED BY <1>1, FeedHolds, PTL

\* The page keeps what Viewer promises, across the waits for prompts, keys,
\* decryption and sealing: output is shown in order and keystrokes leave in
\* order, nothing is shown after an exit or err, and the first banner stays.
\* (recvChain, sendChain, handleFrame and banner of term.js.)
THEOREM ImplementsViewerTheorem == FeedSpec => ImplementsViewer
<1>1. FeedInit => View!ViewInit BY ViewInits DEF FeedInit
<1>2. FeedInv /\ IInv /\ OrderInv /\ [FeedNext]_allVars => [View!ViewNext]_View!viewVars
  BY FeedStep, ViewStep
<1> QED BY <1>1, <1>2, FeedHolds, PTL DEF FeedSpec, ImplementsViewer, View!ViewSpec
=============================================================================
