------------------------------- MODULE Viewer -------------------------------
(***************************************************************************)
(* What a terminal promises the person in front of it, without sockets,     *)
(* keys or promises: output appears in the order it was produced, though    *)
(* some of it may be missing; what is typed leaves in the order it was      *)
(* typed; one reason is given for the end, it is never taken back, and no   *)
(* output follows a reason that came from the session itself.  TermPage     *)
(* implements this specification.                                           *)
(***************************************************************************)
EXTENDS Naturals

CONSTANTS Reasons,  \* why a terminal may have ended
          Final     \* those after which the session has nothing more to say

VARIABLES seen,     \* number of the newest output on the screen, 0 if none
          entered,  \* number of the newest keystroke that left, 0 if none
          reason    \* set of at most one reason

viewVars == <<seen, entered, reason>>

ViewInit == seen = 0 /\ entered = 0 /\ reason = {}

Show ==
    /\ reason \cap Final = {}
    /\ seen' \in Nat /\ seen' > seen
    /\ UNCHANGED <<entered, reason>>

Enter ==
    /\ entered' \in Nat /\ entered' > entered
    /\ UNCHANGED <<seen, reason>>

End(why) ==
    /\ reason = {}
    /\ reason' = {why}
    /\ UNCHANGED <<seen, entered>>

ViewNext ==
    \/ Show \/ Enter
    \/ \E why \in Reasons : End(why)

ViewSpec == ViewInit /\ [][ViewNext]_viewVars
=============================================================================
