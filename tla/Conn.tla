------------------------------- MODULE Conn -------------------------------
(***************************************************************************)
(* conn of internal/broker/broker.go: a websocket wrapped with a bounded    *)
(* outbound queue that one writer goroutine drains.  Every method body runs *)
(* under c.mu, so send and close are single steps here.                     *)
(*                                                                          *)
(* The module is used twice: PageFeed checks one conn, with callers that    *)
(* may send and close in any order and the terminal page at its end, and    *)
(* Broker has it for the agent and browser sockets of the relay.            *)
(***************************************************************************)
EXTENDS Naturals, Sequences

CONSTANTS Conns,      \* the conn objects; each one is created at most once
          Frames,     \* proto.Msg values that callers may enqueue
          QueueLen,   \* capacity of c.out (256 in the code), counting the
                      \* frame the writer is busy writing
          nil         \* the nil *proto.Msg

ASSUME ConnAssumption == QueueLen \in Nat \ {0} /\ nil \notin Frames

VARIABLES out,        \* c.out, the channel's content, oldest frame first
          closed,     \* c.closed
          ws          \* c.ws: not yet created, open, or shut by the writer

connVars == <<out, closed, ws>>

ConnTypeOK ==
    /\ out \in [Conns -> Seq(Frames)]
    /\ \A c \in Conns : Len(out[c]) <= QueueLen
    /\ closed \in [Conns -> BOOLEAN]
    /\ ws \in [Conns -> {"none", "open", "shut"}]

ConnInit ==
    /\ out = [c \in Conns |-> <<>>]
    /\ closed = [c \in Conns |-> FALSE]
    /\ ws = [c \in Conns |-> "none"]

newConn(c) ==
    /\ ws[c] = "none"
    /\ ws' = [ws EXCEPT ![c] = "open"]
    /\ UNCHANGED <<out, closed>>

HasRoom(c) == Len(out[c]) < QueueLen

\* Mutant of Accepts: a closed queue still takes frames.
AcceptsWhenClosed(c) == HasRoom(c)

\* Whether send enqueues, which is what it returns.
Accepts(c) == ~closed[c] /\ HasRoom(c)

\* Mutant of send: a full queue drops its oldest frame for the new one.
sendDropsOldest(c, f) ==
    /\ out' = CASE Accepts(c) -> [out EXCEPT ![c] = Append(@, f)]
                 [] ~Accepts(c) /\ ~closed[c] -> [out EXCEPT ![c] = Append(Tail(@), f)]
                 [] OTHER -> out
    /\ UNCHANGED <<closed, ws>>

\* The boolean send returns; FALSE leaves the queue as it was.
send(c, f) ==
    /\ out' = IF Accepts(c) THEN [out EXCEPT ![c] = Append(@, f)] ELSE out
    /\ UNCHANGED <<closed, ws>>

\* Mutant of close: the final frame takes the place of those that wait.
closeDropsQueued(c, final) ==
    /\ out' = [out EXCEPT ![c] = IF ws[c] # "shut" /\ final # nil /\ ~closed[c] THEN <<final>> ELSE @]
    /\ closed' = [closed EXCEPT ![c] = TRUE]
    /\ UNCHANGED ws

\* close enqueues a final frame unless it is nil, the queue is full or an
\* earlier close has been here.  Frames that neither a writer nor a sender
\* will ever look at again (the conn is closed, its writer has left) are
\* forgotten.
close(c, final) ==
    /\ out' = CASE ws[c] = "shut" -> [out EXCEPT ![c] = <<>>]
                 [] ws[c] # "shut" /\ final # nil /\ Accepts(c)
                       -> [out EXCEPT ![c] = Append(@, final)]
                 [] OTHER -> out
    /\ closed' = [closed EXCEPT ![c] = TRUE]
    /\ UNCHANGED ws

---------------------------------------------------------------------------
(* The writer goroutine.  It leaves its loop when a write fails (the peer   *)
(* is gone or has not read for 10 s) or when the closed queue has been      *)
(* drained, and then closes the socket; nothing drains the queue after that.*)

WriteFrame(c) ==
    /\ ws[c] = "open" /\ out[c] # <<>>
    /\ out' = [out EXCEPT ![c] = Tail(@)]
    /\ UNCHANGED <<closed, ws>>

WriteError(c) ==
    /\ ws[c] = "open" /\ out[c] # <<>>
    /\ out' = [out EXCEPT ![c] = IF closed[c] THEN <<>> ELSE Tail(@)]
    /\ ws' = [ws EXCEPT ![c] = "shut"]
    /\ UNCHANGED closed

\* Mutant of Drained: the goroutine ends without closing the socket.
DrainedLeavesSocket(c) ==
    /\ ws[c] = "open" /\ closed[c] /\ out[c] = <<>>
    /\ UNCHANGED connVars

Drained(c) ==
    /\ ws[c] = "open" /\ closed[c] /\ out[c] = <<>>
    /\ ws' = [ws EXCEPT ![c] = "shut"]
    /\ UNCHANGED <<out, closed>>

Writer(c) == WriteFrame(c) \/ WriteError(c) \/ Drained(c)
===========================================================================
