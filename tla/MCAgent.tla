------------------------------ MODULE MCAgent ------------------------------
(* Agent with a PTY or two, one sid and a few frames.                        *)
EXTENDS Agent
CONSTANTS p1, p2, s1

\* A bound for the run with liveness.  A behaviour has one of these, not two:
\*   a second shell;
\*   a third frame, which follows a tampered one to the same shell;
\*   a shell that writes more than one chunk, up to MaxOut = 3, so that its
\*   reader can be held up: one with pump, one in the channel, one in hand.
OneAtATime ==
    LET second == opens' > 1
        third == frames' > 2
        much == \E p \in Ptys : made'[p] > 1
    IN  ~(second /\ third) /\ ~(second /\ much) /\ ~(third /\ much)
=============================================================================
