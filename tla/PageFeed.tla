------------------------------ MODULE PageFeed ------------------------------
(***************************************************************************)
(* The terminal page at the end of a broker's conn: what the handlers of    *)
(* the Go broker send a tab (toBrowser, endSession, dropAgent), through the *)
(* conn's bounded queue and writer, the socket, the browser and recvChain,  *)
(* to the screen and the banner.  A Worker writes to its socket directly,   *)
(* so against one the page has the relay TermPage gives it.                 *)
(***************************************************************************)
EXTENDS Conn, TermPage

CONSTANT tab        \* the conn of this page

VARIABLES accepted, \* outputs the conn took
          final,    \* the end frame close took, nil if none
          broken    \* whether the socket failed

feedVars == <<connVars, accepted, final, broken>>
allVars == <<vars, feedVars>>

FeedFrames == [t : {"out"} \cup EndFrames, n : 0..(MaxOut + 1), ok : {TRUE}]

ASSUME FeedAssumption == MaxOut \in Nat /\ tab \in Conns /\ FeedFrames \subseteq Frames

FeedInit == Init /\ ConnInit /\ accepted = 0 /\ final = nil /\ broken = FALSE

\* wsTerm has upgraded the request.
Upgraded ==
    /\ relay = "broker" /\ sock = "connecting" /\ ~over
    /\ newConn(tab)
    /\ UNCHANGED <<vars, accepted, final, broken>>

\* toBrowser.  A conn that is full refuses the frame and is closed by dropSlow;
\* MaxOut bounds the frames it takes.
Relays ==
    LET f == [t |-> "out", n |-> accepted + 1, ok |-> TRUE]
    IN  /\ ws[tab] # "none" /\ (accepted < MaxOut \/ ~HasRoom(tab))
        /\ send(tab, f)
        /\ accepted' = IF Accepts(tab) THEN accepted + 1 ELSE accepted
        /\ UNCHANGED <<vars, final, broken>>

\* Any handler ends the session: with a reason, or none when the tab is gone.
Closes(t) ==
    LET f == IF t = "gone" THEN nil ELSE [t |-> t, n |-> 0, ok |-> TRUE]
    IN  /\ ws[tab] # "none"
        /\ close(tab, f)
        /\ final' = IF Accepts(tab) /\ f # nil THEN f ELSE final
        /\ UNCHANGED <<vars, accepted, broken>>

\* The socket takes a frame to the page, unless it has failed.
Delivers ==
    LET f == Head(out[tab])
    IN  /\ WriteFrame(tab)
        /\ IF over THEN UNCHANGED vars
           ELSE /\ Arrives(f)
                /\ sent' = IF f.t = "out" THEN f.n ELSE sent
                /\ over' = (f.t \in EndFrames)
                /\ UNCHANGED <<relay, keyVars, sock, recvVars, ended, sendVars>>
        /\ UNCHANGED <<accepted, final, broken>>

\* The writer leaves: its queue is closed and drained, or a write failed.
WriterLeaves ==
    /\ \/ Drained(tab) /\ UNCHANGED broken
       \/ WriteError(tab) /\ broken' = TRUE
    /\ over' = (over \/ ws'[tab] = "shut")
    /\ UNCHANGED <<relay, sent, inbox, keyVars, sock, recvVars, ended, sendVars,
                   accepted, final>>

WriterStep == Delivers \/ WriterLeaves

\* The page's own steps; its socket opens once the broker has upgraded it.
PageSteps ==
    /\ PageStep \/ UserStep
    /\ relay = "broker" /\ sock' = "open" => ws[tab] # "none"
    /\ broken' = (broken \/ (sock = "connecting" /\ sock' = "closed"))
    /\ UNCHANGED <<connVars, accepted, final>>

FeedNext ==
    \/ PageSteps
    \/ relay = "worker" /\ RelayStep /\ UNCHANGED feedVars
    \/ relay = "broker" /\ LinkBreaks /\ broken' = TRUE /\ UNCHANGED <<connVars, accepted, final>>
    \/ Upgraded \/ Relays \/ WriterStep
    \/ \E t \in EndFrames \cup {"gone"} : Closes(t)

FeedSpec == FeedInit /\ [][FeedNext]_allVars

\* The probe and the handshake settle, promises that can settle do, tasks that
\* can run do, and so does the writer.  Nobody has to answer a prompt or type.
FeedFairness == WF_allVars(PageSteps /\ PageStep) /\ WF_allVars(WriterStep)

FairFeedSpec == FeedSpec /\ FeedFairness

---------------------------------------------------------------------------
View == INSTANCE Viewer
        WITH Reasons <- {"no key", "decrypt", "disconnected"} \cup EndFrames, Final <- EndFrames,
             seen <- IF shown = <<>> THEN 0 ELSE shown[Len(shown)].n,
             entered <- IF wire = <<>> THEN 0 ELSE wire[Len(wire)].n,
             reason <- IF ended = "nil" THEN {} ELSE {ended}

(* The page keeps what Viewer promises: across the waits for prompts, keys, *)
(* decryption and sealing, recvChain keeps output in order and sendChain    *)
(* keystrokes ("frame order survives the async decrypt", term.js:151;       *)
(* "keystrokes must reach the wire in order", :108), nothing is shown after *)
(* an exit or err, and the first banner stays.                              *)
ImplementsViewer == View!ViewSpec

(* The conn is the relay TermPage assumes: whatever handlers call send and  *)
(* close in whatever order, the page gets the accepted output in order and  *)
(* without a gap, at most one end frame, and nothing after it               *)
(* (conn, broker.go:246-292).                                               *)
ConnIsARelay == [][Next]_vars

(* The reason a session ended reaches the user: where close queued it and   *)
(* the socket did not fail, the page does not say "disconnected", though    *)
(* the close event comes right after it (term.js:33).                       *)
FinalFrameIsShown == final # nil /\ ~broken => ended # "disconnected"

(* What the conn accepted is on the screen in the end, unless the socket    *)
(* fails: a close does not overtake it, in the queue or on the page.        *)
AcceptedIsShown ==
    \A n \in 1..MaxOut : accepted = n ~> (Len(shown) >= n \/ broken)

(* A terminal is never a dead black rectangle (docs/INTEGRATION.md:105):    *)
(* once a handler has closed the conn, or the relay is through with the     *)
(* page, a banner comes, unless the user leaves a prompt unanswered.        *)
EndReachesTheUser ==
    []<>(asks # "prompting") => ((over \/ closed[tab]) ~> ended # "nil")
=============================================================================
