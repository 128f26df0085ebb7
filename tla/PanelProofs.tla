----------------------------- MODULE PanelProofs -----------------------------
(***************************************************************************)
(* Type correctness of Panel, and its two safety properties, for any set of *)
(* machines, any number of requests under way and any run length.           *)
(***************************************************************************)
EXTENDS Panel, TLAPS

\* The right token is not refused.
RefusedForGood == \A r \in Reqs : req[r].answer = "401" => req[r].tok # secret

\* The prompt is up only while there is no token.
AskedWithout == asking # NoCall => token = ""

\* An answered poll brings a list.
PollsBringLists ==
    \A r \in Reqs : req[r].do = "list" /\ req[r].answer = "ok" => req[r].rows \in Lists

\* The first list is rendered without toasts.
FirstListIsSilent == known = nil => \A m \in Machines : said[m] = nil

IInv ==
    /\ TypeOK /\ ToastsTellTheRows /\ RefusedForGood /\ AskedWithout
    /\ PollsBringLists /\ FirstListIsSilent


---------------------------------------------------------------------------
(* Requests.                                                                *)

(* The calls that are made and the empty request have their types. *)
LEMMA CallTypes ==
  /\ NoCall \in Calls /\ ListCall \in Calls
  /\ Call("load", nil) \in Calls /\ Call("refused", nil) \in Calls
  /\ \A c \in Buttons : c \in Calls /\ c.do \in {"mint", "term", "delete"}
  /\ NoRequest \in Requests /\ NoRequest.answer = "none"
  /\ \A c \in Calls, tok \in {"good", "bad", ""} :
        c.do \in {"none", "list", "mint", "term", "delete"} =>
           Request(c, tok) \in Requests /\ Request(c, tok).answer = "none"
  /\ ListCall.do = "list"
  BY DEF Calls, Requests, Call, NoCall, ListCall, NoRequest, Request, Buttons, MintCall

Fresh(q) == q \in Requests /\ q.answer = "none"

\* What the page does with its requests outside of Serve.
ReqsMove ==
    /\ req' \in [Reqs -> Requests]
    /\ \A r \in Reqs : req'[r] = req[r] \/ req'[r].answer = "none"

(* One request that starts or ends moves the requests. *)
LEMMA Replace ==
  ASSUME TypeOK, NEW r \in Reqs, NEW q \in Requests, q.answer = "none",
         req' = [req EXCEPT ![r] = q]
  PROVE  ReqsMove
  BY DEF TypeOK, ReqsMove

(* So does nothing at all. *)
LEMMA Keep == TypeOK /\ UNCHANGED req => ReqsMove
  BY DEF TypeOK, ReqsMove

(* api makes a request, or holds the call up. *)
LEMMA ApiStep ==
  ASSUME TypeOK, NEW r \in Reqs, NEW c \in Calls, NEW tok \in {"good", "bad", ""},
         c.do \in {"none", "list", "mint", "term", "delete"}, Api(r, c, tok)
  PROVE  ReqsMove /\ asking' \in Calls
<1>1. CASE tok = ""
  BY CallTypes, Replace DEF Api
<1>2. CASE tok # ""
  BY CallTypes, Replace DEF Api
<1> QED
  BY <1>1, <1>2

(* A call that ends moves the requests. *)
LEMMA DoneStep == ASSUME TypeOK, NEW r \in Reqs, Done(r) PROVE ReqsMove
  BY CallTypes, Replace DEF Done

---------------------------------------------------------------------------
(* Steps that neither serve nor render: what the invariant needs of them.   *)
Quiet ==
    /\ ReqsMove /\ asking' \in Calls /\ token' \in {"good", "bad", ""}
    /\ list' \in Lists /\ events' \in 0..MaxEvents
    /\ loaded' \in BOOLEAN /\ cfg' \in BOOLEAN
    /\ UNCHANGED <<secret, e2e, fleetKey, known, said, block>>
    /\ AskedWithout'

(* A quiet step keeps the invariant. *)
LEMMA QuietStep == IInv /\ Quiet => IInv'
<1> SUFFICES ASSUME IInv, Quiet PROVE IInv'
  OBVIOUS
<1>1. TypeOK'
  BY DEF IInv, TypeOK, Quiet, ReqsMove
<1>2. ToastsTellTheRows' /\ FirstListIsSilent'
  BY DEF IInv, Quiet, ToastsTellTheRows, FirstListIsSilent
<1>3. RefusedForGood' /\ PollsBringLists'
  BY DEF IInv, Quiet, ReqsMove, RefusedForGood, PollsBringLists
<1> QED
  BY <1>1, <1>2, <1>3 DEF IInv, Quiet

(* The page starts in the invariant. *)
LEMMA InitIInv == Init => IInv
<1> SUFFICES ASSUME Init PROVE IInv
  OBVIOUS
<1>1. TypeOK
  <2>1. req \in [Reqs -> Requests] /\ asking \in Calls
    BY CallTypes DEF Init
  <2>2. events \in 0..MaxEvents
    <3>1. events = 0
      BY DEF Init
    <3> QED
      BY <3>1, PanelAssumption
  <2> QED
    BY <2>1, <2>2 DEF Init, TypeOK
<1>2. RefusedForGood /\ PollsBringLists
  BY CallTypes DEF Init, RefusedForGood, PollsBringLists
<1> QED
  BY <1>1, <1>2 DEF Init, IInv, AskedWithout, ToastsTellTheRows, FirstListIsSilent

(* An agent that comes or goes keeps it. *)
LEMMA AgentMovesStep == ASSUME IInv, NEW m \in Machines, AgentMoves(m) PROVE IInv'
<1> USE DEF IInv, AgentMoves, relayVars, pageVars, viewVars
<1>1. ReqsMove /\ asking' \in Calls
  BY Keep DEF TypeOK
<1>2. token' \in {"good", "bad", ""} /\ list' \in Lists /\ loaded' \in BOOLEAN
      /\ cfg' \in BOOLEAN /\ UNCHANGED <<secret, e2e, fleetKey, known, said, block>>
  BY DEF TypeOK, Lists
<1>3. events' \in 0..MaxEvents
  <2>1. events \in 0..MaxEvents /\ (events' = events \/ (events < MaxEvents /\ events' = events + 1))
    BY DEF TypeOK
  <2> QED
    BY <2>1, PanelAssumption
<1>4. AskedWithout'
  BY DEF AskedWithout
<1> QED
  BY <1>1, <1>2, <1>3, <1>4, QuietStep DEF Quiet

(* The end of the script keeps it. *)
LEMMA LoadStep == ASSUME IInv, NEW r \in Reqs, Load(r) PROVE IInv'
<1> USE DEF IInv, Load, relayVars, pageVars, viewVars
<1>1. ReqsMove /\ asking' \in Calls
  <2>1. CASE token = ""
    BY <2>1, Keep, CallTypes
  <2>2. CASE token # ""
    <3>1. Api(r, ListCall, token) /\ token \in {"good", "bad", ""}
      BY <2>2 DEF TypeOK
    <3> QED
      BY <3>1, CallTypes, ApiStep
  <2> QED
    BY <2>1, <2>2
<1>2. token' \in {"good", "bad", ""} /\ list' \in Lists /\ loaded' \in BOOLEAN
      /\ cfg' \in BOOLEAN /\ UNCHANGED <<secret, e2e, fleetKey, known, said, block>>
  BY DEF TypeOK
<1>3. events' \in 0..MaxEvents
  <2>1. events \in 0..MaxEvents /\ (events' = events \/ (events < MaxEvents /\ events' = events + 1))
    BY DEF TypeOK
  <2> QED
    BY <2>1
<1>4. AskedWithout'
  BY DEF AskedWithout, Api
<1> QED
  BY <1>1, <1>2, <1>3, <1>4, QuietStep DEF Quiet

(* A tick of the timer keeps it. *)
LEMMA TickStep == ASSUME IInv, NEW r \in Reqs, Tick(r) PROVE IInv'
<1> USE DEF IInv, Tick, relayVars, pageVars, viewVars
<1>1. ReqsMove /\ asking' \in Calls
  <2>1. Api(r, ListCall, token) /\ token \in {"good", "bad", ""}
    BY DEF TypeOK
  <2>2. ListCall \in Calls /\ ListCall.do \in {"none", "list", "mint", "term", "delete"}
    BY CallTypes
  <2> QED
    BY <2>1, <2>2, ApiStep
<1>2. token' \in {"good", "bad", ""} /\ list' \in Lists /\ loaded' \in BOOLEAN
      /\ cfg' \in BOOLEAN /\ UNCHANGED <<secret, e2e, fleetKey, known, said, block>>
  BY DEF TypeOK
<1>3. events' \in 0..MaxEvents
  <2>1. events \in 0..MaxEvents /\ (events' = events \/ (events < MaxEvents /\ events' = events + 1))
    BY DEF TypeOK
  <2> QED
    BY <2>1
<1>4. AskedWithout'
  BY DEF AskedWithout, Api
<1> QED
  BY <1>1, <1>2, <1>3, <1>4, QuietStep DEF Quiet

(* A click keeps it. *)
LEMMA ClickStep == ASSUME IInv, NEW r \in Reqs, NEW c \in Buttons, Click(r, c) PROVE IInv'
<1> USE DEF IInv, Click, relayVars, pageVars, viewVars
<1>1. ReqsMove /\ asking' \in Calls
  <2>1. Api(r, c, token) /\ token \in {"good", "bad", ""}
    BY DEF TypeOK
  <2>2. c \in Calls /\ c.do \in {"none", "list", "mint", "term", "delete"}
    BY CallTypes
  <2> QED
    BY <2>1, <2>2, ApiStep
<1>2. token' \in {"good", "bad", ""} /\ list' \in Lists /\ loaded' \in BOOLEAN
      /\ cfg' \in BOOLEAN /\ UNCHANGED <<secret, e2e, fleetKey, known, said, block>>
  BY DEF TypeOK
<1>3. events' \in 0..MaxEvents
  <2>1. events \in 0..MaxEvents /\ (events' = events \/ (events < MaxEvents /\ events' = events + 1))
    BY DEF TypeOK
  <2> QED
    BY <2>1, PanelAssumption
<1>4. AskedWithout'
  BY DEF AskedWithout, Api
<1> QED
  BY <1>1, <1>2, <1>3, <1>4, QuietStep DEF Quiet

(* An answered prompt keeps it. *)
LEMMA AnswerStep == ASSUME IInv, NEW r \in Reqs, NEW tok \in {"good", "bad", ""}, Answer(r, tok) PROVE IInv'
<1> USE DEF IInv, Answer, relayVars, pageVars, viewVars
<1>1. ReqsMove /\ asking' \in Calls
  <2>1. CASE asking.do = "load"
    BY <2>1, CallTypes, ApiStep
  <2>2. CASE asking.do = "refused"
    BY <2>2, CallTypes, Keep
  <2>3. CASE asking.do \notin {"load", "refused"}
    <3>1. asking \in Calls /\ asking.do \in {"none", "list", "mint", "term", "delete"}
      BY <2>3 DEF TypeOK, Calls
    <3> QED
      BY <3>1, CallTypes, Replace
  <2> QED
    BY <2>1, <2>2, <2>3
<1>2. token' \in {"good", "bad", ""} /\ list' \in Lists /\ loaded' \in BOOLEAN
      /\ cfg' \in BOOLEAN /\ UNCHANGED <<secret, e2e, fleetKey, known, said, block>>
  BY DEF TypeOK
<1>3. events' \in 0..MaxEvents
  <2>1. events \in 0..MaxEvents /\ (events' = events \/ (events < MaxEvents /\ events' = events + 1))
    BY DEF TypeOK
  <2> QED
    BY <2>1
<1>4. AskedWithout'
  BY DEF AskedWithout, Api
<1> QED
  BY <1>1, <1>2, <1>3, <1>4, QuietStep DEF Quiet

(* A refused call keeps it. *)
LEMMA RefusedStep == ASSUME IInv, NEW r \in Reqs, Refused(r) PROVE IInv'
<1> USE DEF IInv, Refused, relayVars, pageVars, viewVars
<1>1. ReqsMove /\ asking' \in Calls
  BY DoneStep, CallTypes
<1>2. token' \in {"good", "bad", ""} /\ list' \in Lists /\ loaded' \in BOOLEAN
      /\ cfg' \in BOOLEAN /\ UNCHANGED <<secret, e2e, fleetKey, known, said, block>>
  BY DEF TypeOK
<1>3. events' \in 0..MaxEvents
  <2>1. events \in 0..MaxEvents /\ (events' = events \/ (events < MaxEvents /\ events' = events + 1))
    BY DEF TypeOK
  <2> QED
    BY <2>1
<1>4. AskedWithout'
  BY DEF AskedWithout
<1> QED
  BY <1>1, <1>2, <1>3, <1>4, QuietStep DEF Quiet

(* A failing call keeps it. *)
LEMMA FailsStep == ASSUME IInv, NEW r \in Reqs, Fails(r) PROVE IInv'
<1> USE DEF IInv, Fails, relayVars, pageVars, viewVars
<1>1. ReqsMove /\ asking' \in Calls
  BY DoneStep DEF TypeOK
<1>2. token' \in {"good", "bad", ""} /\ list' \in Lists /\ loaded' \in BOOLEAN
      /\ cfg' \in BOOLEAN /\ UNCHANGED <<secret, e2e, fleetKey, known, said, block>>
  BY DEF TypeOK
<1>3. events' \in 0..MaxEvents
  <2>1. events \in 0..MaxEvents /\ (events' = events \/ (events < MaxEvents /\ events' = events + 1))
    BY DEF TypeOK
  <2> QED
    BY <2>1
<1>4. AskedWithout'
  BY DEF AskedWithout
<1> QED
  BY <1>1, <1>2, <1>3, <1>4, QuietStep DEF Quiet

(* A lost call keeps it. *)
LEMMA NetworkFailsStep == ASSUME IInv, NEW r \in Reqs, NetworkFails(r) PROVE IInv'
<1> USE DEF IInv, NetworkFails, relayVars, pageVars, viewVars
<1>1. ReqsMove /\ asking' \in Calls
  BY DoneStep DEF TypeOK
<1>2. token' \in {"good", "bad", ""} /\ list' \in Lists /\ loaded' \in BOOLEAN
      /\ cfg' \in BOOLEAN /\ UNCHANGED <<secret, e2e, fleetKey, known, said, block>>
  BY DEF TypeOK
<1>3. events' \in 0..MaxEvents
  <2>1. events \in 0..MaxEvents /\ (events' = events \/ (events < MaxEvents /\ events' = events + 1))
    BY DEF TypeOK
  <2> QED
    BY <2>1, PanelAssumption
<1>4. AskedWithout'
  BY DEF AskedWithout
<1> QED
  BY <1>1, <1>2, <1>3, <1>4, QuietStep DEF Quiet

(* An opened terminal keeps it. *)
LEMMA OpenedStep == ASSUME IInv, NEW r \in Reqs, Opened(r) PROVE IInv'
<1> USE DEF IInv, Opened, relayVars, pageVars, viewVars
<1>1. ReqsMove /\ asking' \in Calls
  BY DoneStep DEF TypeOK
<1>2. token' \in {"good", "bad", ""} /\ list' \in Lists /\ loaded' \in BOOLEAN
      /\ cfg' \in BOOLEAN /\ UNCHANGED <<secret, e2e, fleetKey, known, said, block>>
  BY DEF TypeOK
<1>3. events' \in 0..MaxEvents
  <2>1. events \in 0..MaxEvents /\ (events' = events \/ (events < MaxEvents /\ events' = events + 1))
    BY DEF TypeOK
  <2> QED
    BY <2>1
<1>4. AskedWithout'
  BY DEF AskedWithout
<1> QED
  BY <1>1, <1>2, <1>3, <1>4, QuietStep DEF Quiet

(* The poll after a revocation keeps it. *)
LEMMA RevokedStep == ASSUME IInv, NEW r \in Reqs, Revoked(r) PROVE IInv'
<1> USE DEF IInv, Revoked, relayVars, pageVars, viewVars
<1>1. ReqsMove /\ asking' \in Calls
  <2>1. Api(r, ListCall, token) /\ token \in {"good", "bad", ""}
    BY DEF TypeOK
  <2>2. ListCall \in Calls /\ ListCall.do \in {"none", "list", "mint", "term", "delete"}
    BY CallTypes
  <2> QED
    BY <2>1, <2>2, ApiStep
<1>2. token' \in {"good", "bad", ""} /\ list' \in Lists /\ loaded' \in BOOLEAN
      /\ cfg' \in BOOLEAN /\ UNCHANGED <<secret, e2e, fleetKey, known, said, block>>
  BY DEF TypeOK
<1>3. events' \in 0..MaxEvents
  <2>1. events \in 0..MaxEvents /\ (events' = events \/ (events < MaxEvents /\ events' = events + 1))
    BY DEF TypeOK
  <2> QED
    BY <2>1
<1>4. AskedWithout'
  BY DEF AskedWithout, Api
<1> QED
  BY <1>1, <1>2, <1>3, <1>4, QuietStep DEF Quiet

(* The answered probe keeps it. *)
LEMMA ConfiguredStep == ASSUME IInv, Configured PROVE IInv'
<1> USE DEF IInv, Configured, relayVars, pageVars, viewVars
<1>1. ReqsMove /\ asking' \in Calls
  BY Keep DEF TypeOK
<1>2. token' \in {"good", "bad", ""} /\ list' \in Lists /\ loaded' \in BOOLEAN
      /\ cfg' \in BOOLEAN /\ UNCHANGED <<secret, e2e, fleetKey, known, said, block>>
  BY DEF TypeOK
<1>3. events' \in 0..MaxEvents
  <2>1. events \in 0..MaxEvents /\ (events' = events \/ (events < MaxEvents /\ events' = events + 1))
    BY DEF TypeOK
  <2> QED
    BY <2>1
<1>4. AskedWithout'
  BY DEF AskedWithout
<1> QED
  BY <1>1, <1>2, <1>3, <1>4, QuietStep DEF Quiet

---------------------------------------------------------------------------
(* Steps that serve, show or enroll.                                        *)

(* Without an admin token no outcome is "ok"; a list is served with rows. *)
LEMMA ServeStep == ASSUME IInv, NEW r \in Reqs, Serve(r) PROVE IInv'
<1> USE DEF IInv, Serve, viewVars
<1> DEFINE c == req[r]
           rows == IF c.do = "list" /\ Outcome(c) = "ok" THEN list ELSE nil
<1>1. c \in Requests /\ Outcome(c) \in {"ok", "401", "404", "500"} /\ rows \in Lists \cup {nil}
  BY DEF TypeOK, Outcome, Edge
<1>3. [c EXCEPT !.answer = Outcome(c), !.rows = rows] \in Requests
  BY <1>1 DEF Requests
<1>4. list' \in Lists
  BY DEF TypeOK, Lists
<1>5. TypeOK'
  BY <1>3, <1>4 DEF TypeOK
<1>6. req'[r].answer = Outcome(c) /\ req'[r].do = c.do /\ req'[r].rows = rows
      /\ req'[r].tok = c.tok       /\ \A s \in Reqs \ {r} : req'[s] = req[s]
  <2> DEFINE q == [c EXCEPT !.answer = Outcome(c), !.rows = rows]
  <2>1. q.answer = Outcome(c) /\ q.do = c.do /\ q.rows = rows /\ q.tok = c.tok
    OBVIOUS
  <2>2. req' = [req EXCEPT ![r] = q]
    OBVIOUS
  <2> HIDE DEF q, rows, c
  <2> QED
    BY <2>1, <2>2 DEF TypeOK
<1>7. Outcome(c) = "401" => c.tok # secret
  BY DEF Outcome, Edge, AdminOK
<1>8. RefusedForGood'
  BY <1>6, <1>7 DEF RefusedForGood
<1>9. PollsBringLists'
  <2>1. list \in Lists
    BY DEF TypeOK
  <2>2. req'[r].do = "list" /\ req'[r].answer = "ok" => req'[r].rows \in Lists
    BY <1>6, <2>1
  <2> QED
    BY <1>6, <2>2 DEF PollsBringLists
<1> QED
  BY <1>5, <1>8, <1>9 DEF AskedWithout, ToastsTellTheRows, FirstListIsSilent

(* A toast is about the change it is made for. *)
LEMMA RenderStep == ASSUME IInv, NEW r \in Reqs, Render(r) PROVE IInv'
<1> USE DEF IInv, Render, relayVars
<1>1. ReqsMove
  BY DoneStep
<1>2. known' \in Lists /\ known' # nil
  BY PanelAssumption DEF PollsBringLists, Answered
<1>3. said' \in [Machines -> Toasts \cup {nil}]
  BY DEF TypeOK, Toast, Toasts
<1>4. TypeOK'
  BY <1>1, <1>2, <1>3 DEF TypeOK, ReqsMove
<1>5. RefusedForGood' /\ PollsBringLists'
  BY <1>1 DEF RefusedForGood, PollsBringLists, ReqsMove
<1>7. ToastsTellTheRows'
  <2> SUFFICES ASSUME NEW m \in Machines
               PROVE  /\ said'[m] = "enrolled" => known'[m] # "absent"
                      /\ said'[m] = "online" => known'[m] = "on"
                      /\ said'[m] = "offline" => known'[m] = "off"
                      /\ said'[m] = "removed" => known'[m] = "absent"
    BY DEF ToastsTellTheRows
  <2>1. CASE known = nil
    BY <2>1, PanelAssumption DEF FirstListIsSilent, Toasts
  <2>2. CASE known # nil
    <3>2. known[m] \in {"absent", "off", "on"} /\ known'[m] \in {"absent", "off", "on"}
      BY <2>2, <1>2 DEF TypeOK, Lists
    <3> QED
      BY <2>2, <3>2 DEF Toast, ToastsTellTheRows
  <2> QED
    BY <2>1, <2>2
<1> QED
  BY <1>2, <1>4, <1>5, <1>7 DEF AskedWithout, FirstListIsSilent

(* Only a served mint opens the dialog. *)
LEMMA MintedStep == ASSUME IInv, NEW r \in Reqs, NEW pasted \in BOOLEAN, Minted(r, pasted) PROVE IInv'
<1> USE DEF IInv, Minted, relayVars
<1>1. ReqsMove
  BY DoneStep
<1>2. fleetKey' \in BOOLEAN /\ block' \in {nil, "no key", "key", "placeholder"}
  BY DEF TypeOK, E2EKey
<1>3. TypeOK'
  BY <1>1, <1>2 DEF TypeOK, ReqsMove
<1>4. RefusedForGood' /\ PollsBringLists'
  BY <1>1 DEF RefusedForGood, PollsBringLists, ReqsMove
<1> QED
  BY <1>3, <1>4 DEF AskedWithout, ToastsTellTheRows, FirstListIsSilent

---------------------------------------------------------------------------
(* Every step keeps the invariant. *)
LEMMA NextIInv == IInv /\ [Next]_vars => IInv'
<1> SUFFICES ASSUME IInv, [Next]_vars PROVE IInv'
  OBVIOUS
<1>1. CASE Ticks
  BY <1>1, LoadStep, TickStep DEF Ticks
<1>2. CASE Configured
  BY <1>2, ConfiguredStep
<1>3. CASE \E m \in Machines : AgentMoves(m)
  BY <1>3, AgentMovesStep
<1>4. ASSUME NEW r \in Reqs, Settles(r) PROVE IInv'
  BY <1>4, RefusedStep, FailsStep, RenderStep, RevokedStep, OpenedStep, MintedStep DEF Settles
<1>5. ASSUME NEW r \in Reqs,
             \/ Serve(r) \/ NetworkFails(r)
             \/ \E c \in Buttons : Click(r, c)
             \/ \E tok \in {"good", "bad", ""} : Answer(r, tok)
      PROVE  IInv'
  BY <1>5, ServeStep, NetworkFailsStep, ClickStep, AnswerStep
<1>6. CASE UNCHANGED vars
  <2> USE <1>6 DEF vars, relayVars, pageVars, viewVars, IInv
  <2>1. TypeOK' BY DEF TypeOK
  <2>2. ToastsTellTheRows' BY DEF ToastsTellTheRows
  <2>3. RefusedForGood' /\ AskedWithout' BY DEF RefusedForGood, AskedWithout
  <2>4. PollsBringLists' /\ FirstListIsSilent' BY DEF PollsBringLists, FirstListIsSilent
  <2> QED BY <2>1, <2>2, <2>3, <2>4
<1> QED
  BY <1>1, <1>2, <1>3, <1>4, <1>5, <1>6 DEF Next

(* The invariant holds throughout. *)
LEMMA AlwaysIInv == Spec => []IInv
  BY InitIInv, NextIInv, PTL DEF Spec

(* Every variable of the panel page keeps its type. *)
THEOREM PanelTypeTheorem == Spec => []TypeOK
<1>1. IInv => TypeOK
  BY DEF IInv
<1> QED
  BY <1>1, AlwaysIInv, PTL

(* The last toast about a machine agrees with its row, however many polls   *)
(* overlap and in whatever order they are answered.                         *)
THEOREM ToastsTellTheRowsTheorem == Spec => []ToastsTellTheRows
<1>1. IInv => ToastsTellTheRows
  BY DEF IInv
<1> QED
  BY <1>1, AlwaysIInv, PTL

(* Only a refusal and an answered prompt change the token. *)
LEMMA TokenMoves ==
  ASSUME Next, token' # token
  PROVE  \E r \in Reqs : Refused(r) \/ \E tok \in {"good", "bad", ""} : Answer(r, tok)
<1> USE DEF relayVars, pageVars, viewVars
<1>1. ~Ticks
  BY DEF Ticks, Load, Tick
<1>2. ~Configured /\ \A m \in Machines : ~AgentMoves(m)
  BY DEF Configured, AgentMoves
<1>3. ASSUME NEW r \in Reqs
      PROVE  /\ ~Serve(r) /\ ~NetworkFails(r) /\ \A c \in Buttons : ~Click(r, c)
             /\ Settles(r) => Refused(r)
  BY DEF Serve, NetworkFails, Click, Settles, Fails, Render, Revoked, Opened, Minted
<1> QED
  BY <1>1, <1>2, <1>3 DEF Next

(* The good token is given up only to a 401 that another token earned,      *)
(* however many calls are under way.                                        *)
THEOREM GoodTokenIsKeptTheorem == Spec => GoodTokenIsKept
<1>1. ASSUME IInv, Next, secret = "good", token = "good", token' # "good"
      PROVE  \E r \in Reqs : req[r].answer = "401" /\ req[r].tok # "good"
  <2>1. PICK r \in Reqs : Refused(r) \/ \E tok \in {"good", "bad", ""} : Answer(r, tok)
    BY <1>1, TokenMoves
  <2>2. Refused(r)
    BY <1>1, <2>1 DEF Answer, Free, AskedWithout, IInv
  <2> QED
    BY <1>1, <2>2 DEF Refused, Answered, RefusedForGood, IInv
<1>2. IInv /\ [Next]_vars =>
        [secret = "good" /\ token = "good" /\ token' # "good" =>
            \E r \in Reqs : req[r].answer = "401" /\ req[r].tok # "good"]_vars
  BY <1>1
<1> QED
  BY <1>2, AlwaysIInv, PTL DEF Spec, GoodTokenIsKept

=============================================================================
