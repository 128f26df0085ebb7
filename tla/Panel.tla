------------------------------- MODULE Panel -------------------------------
(***************************************************************************)
(* The panel page, internal/panel/index.js (worker/public/index.js is the   *)
(* same file), and the admin check in front of the Worker, worker/src/      *)
(* index.js.  poll runs every 2 s whether or not the last one was answered, *)
(* and the buttons call the same api function, so several requests are      *)
(* under way and their answers come in any order.  prompt blocks the page.  *)
(*                                                                          *)
(* External: the relay's list of machines, which changes as agents come and *)
(* go; the network, which may fail a request; the user.  A token is "good"  *)
(* (the one the relay was given), "bad", or "" where there is none.         *)
(***************************************************************************)
EXTENDS Naturals

CONSTANTS Machines,
          Reqs,      \* requests under way at once, a bound for TLC
          MaxEvents, \* clicks, failures and changes by agents, for TLC
          nil

Lists == [Machines -> {"absent", "off", "on"}]
Toasts == {"enrolled", "online", "offline", "removed"}

ASSUME PanelAssumption == MaxEvents \in Nat /\ nil \notin Machines \cup Lists \cup Toasts

VARIABLES
    secret,   \* POPFLEET_ADMIN_TOKEN of the relay, "" if it was not set
    e2e,      \* what the relay's /config.json says
    list,     \* the relay's machines
    events,   \* those MaxEvents bounds
    token,    \* sessionStorage popfleet_admin
    asking,   \* the call that the prompt on screen holds up
    req,      \* the requests under way
    loaded,   \* whether the script has run to its end
    cfg,      \* cfg.e2e
    fleetKey, \* whether localStorage has a fleet key
    known,    \* the list last rendered, nil before the first
    said,     \* per machine, the last toast that render made
    block     \* what the enrollment dialog carries for a key

relayVars == <<secret, e2e, list>>
pageVars == <<token, asking, req>>
viewVars == <<loaded, cfg, fleetKey, known, said, block>>
vars == <<relayVars, events, pageVars, viewVars>>

Call(do, id) == [do |-> do, id |-> id]
NoCall == Call("none", nil)
ListCall == Call("list", nil)
MintCall == Call("mint", nil)
Buttons == {MintCall} \cup {Call(do, m) : do \in {"term", "delete"}, m \in Machines}
Calls == [do : {"none", "list", "mint", "term", "delete", "load", "refused"},
          id : Machines \cup {nil}]
Requests == [do : {"none", "list", "mint", "term", "delete"}, id : Machines \cup {nil},
             tok : {"good", "bad", ""}, answer : {"none", "ok", "401", "404", "500"},
             rows : Lists \cup {nil}]

Request(c, tok) == [do |-> c.do, id |-> c.id, tok |-> tok, answer |-> "none", rows |-> nil]
NoRequest == Request(NoCall, "")
Idle(r) == req[r].do = "none"
Answered(r, answer) == ~Idle(r) /\ req[r].answer = answer

Init ==
    /\ secret \in {"good", ""} /\ e2e \in BOOLEAN /\ list \in Lists /\ events = 0
    /\ token \in {"good", "bad", ""} /\ asking = NoCall /\ req = [r \in Reqs |-> NoRequest]
    /\ loaded = FALSE /\ cfg = FALSE /\ fleetKey \in BOOLEAN
    /\ known = nil /\ said = [m \in Machines |-> nil] /\ block = nil

---------------------------------------------------------------------------
(* The Worker's admin check, and the calls it lets through to the Fleet.    *)

\* Without a token the header is "Bearer ", which fetch trims to "Bearer".
AdminOK(tok) == tok # "" /\ tok = secret

Edge(tok) == IF secret = "" THEN "500" ELSE IF AdminOK(tok) THEN "ok" ELSE "401"

Outcome(c) ==
    IF Edge(c.tok) = "ok" /\ c.id # nil /\ list[c.id] = "absent" THEN "404" ELSE Edge(c.tok)

\* The Worker answers request r.
Serve(r) ==
    LET c == req[r]
    IN  /\ Answered(r, "none")
        /\ req' = [req EXCEPT ![r].answer = Outcome(c),
                              ![r].rows = IF c.do = "list" /\ Outcome(c) = "ok" THEN list ELSE nil]
        /\ \/ Outcome(c) = "ok" /\ c.do = "delete" /\ list' = [list EXCEPT ![c.id] = "absent"]
           \/ Outcome(c) = "ok" /\ c.do = "mint"
              /\ \E m \in Machines : list[m] = "absent" /\ list' = [list EXCEPT ![m] = "off"]
           \/ (Outcome(c) # "ok" \/ c.do \in {"list", "term"}) /\ UNCHANGED list
        /\ UNCHANGED <<secret, e2e, events, token, asking, viewVars>>

\* An agent comes or goes.
AgentMoves(m) ==
    /\ events < MaxEvents /\ events' = events + 1
    /\ list[m] # "absent"
    /\ list' = [list EXCEPT ![m] = IF @ = "on" THEN "off" ELSE "on"]
    /\ UNCHANGED <<secret, e2e, pageVars, viewVars>>

---------------------------------------------------------------------------
(* adminToken and api.                                                      *)

\* No prompt is up: the page's next task may run.
Free == asking = NoCall

\* api(c): sent as request r, or held up by the prompt for a token.
Api(r, c, tok) ==
    IF tok = ""
    THEN asking' = c /\ req' = [req EXCEPT ![r] = NoRequest]
    ELSE req' = [req EXCEPT ![r] = Request(c, tok)] /\ asking' = NoCall

\* The script ends with adminToken() and poll().
Load(r) ==
    /\ Free /\ ~loaded
    /\ IF token = "" THEN asking' = Call("load", nil) /\ UNCHANGED req
       ELSE Api(r, ListCall, token)
    /\ loaded' = TRUE
    /\ UNCHANGED <<relayVars, events, token, cfg, fleetKey, known, said, block>>

\* setInterval(poll, 2000).
Tick(r) ==
    /\ Free /\ loaded /\ Idle(r)
    /\ Api(r, ListCall, token)
    /\ UNCHANGED <<relayVars, events, token, viewVars>>

\* "Add machine", and the buttons of a rendered row.
Click(r, c) ==
    /\ events < MaxEvents /\ events' = events + 1
    /\ Free /\ loaded /\ Idle(r)
    /\ c.do = "delete" => known # nil /\ known[c.id] # "absent"
    /\ c.do = "term" => known # nil /\ known[c.id] = "on"
    /\ c.do = "mint" => \E m \in Machines : list[m] = "absent"
    /\ Api(r, c, token)
    /\ UNCHANGED <<relayVars, token, viewVars>>

\* The user answers the prompt, or cancels it (""); a call goes on either way.
Answer(r, tok) ==
    /\ ~Free /\ Idle(r)
    /\ token' = tok
    /\ CASE asking.do = "load" -> Api(r, ListCall, tok)
         [] asking.do = "refused" -> asking' = NoCall /\ UNCHANGED req
         [] OTHER -> req' = [req EXCEPT ![r] = Request(asking, tok)] /\ asking' = NoCall
    /\ UNCHANGED <<relayVars, events, viewVars>>

---------------------------------------------------------------------------
(* What follows an answer.                                                  *)

Done(r) == req' = [req EXCEPT ![r] = NoRequest]

\* Mutant of Refused: the token is kept.
RefusedKeepsToken(r) ==
    /\ Free /\ Answered(r, "401")
    /\ Done(r)
    /\ UNCHANGED <<relayVars, events, token, asking, viewVars>>

\* Mutant of Refused: any failure is taken for a wrong token.
RefusedForAny(r) ==
    /\ Free /\ \E answer \in {"401", "404", "500"} : Answered(r, answer)
    /\ token' = "" /\ asking' = Call("refused", nil)
    /\ Done(r)
    /\ UNCHANGED <<relayVars, events, viewVars>>

\* 401: the token goes, adminToken(true) asks, the call throws.
Refused(r) ==
    /\ Free /\ Answered(r, "401")
    /\ token' = "" /\ asking' = Call("refused", nil)
    /\ Done(r)
    /\ UNCHANGED <<relayVars, events, viewVars>>

\* Any other failure: the call throws and that is all.
Fails(r) ==
    /\ Free
    /\ Answered(r, "404") \/ Answered(r, "500")
    /\ Done(r)
    /\ UNCHANGED <<relayVars, events, token, asking, viewVars>>

\* The network loses the request or its answer: fetch rejects.
NetworkFails(r) ==
    /\ events < MaxEvents /\ events' = events + 1
    /\ Free /\ ~Idle(r)
    /\ Done(r)
    /\ UNCHANGED <<relayVars, token, asking, viewVars>>

\* Mutant of Toast: a machine that was offline is removed without a word.
ToastOnline(m, new) ==
    CASE known[m] = "absent" /\ new # "absent" -> "enrolled"
      [] known[m] = "off" /\ new = "on" -> "online"
      [] known[m] = "on" /\ new = "off" -> "offline"
      [] known[m] = "on" /\ new = "absent" -> "removed"
      [] OTHER -> said[m]

\* The toast for a row that becomes new, or the one before it.
Toast(m, new) ==
    CASE known[m] = "absent" /\ new # "absent" -> "enrolled"
      [] known[m] = "off" /\ new = "on" -> "online"
      [] known[m] = "on" /\ new = "off" -> "offline"
      [] known[m] # "absent" /\ new = "absent" -> "removed"
      [] OTHER -> said[m]

\* Mutant of Render: rows appear, change and go, but only once known is set.
RenderFirst(r) ==
    /\ Free /\ Answered(r, "ok") /\ req[r].do = "list"
    /\ known' = IF known = nil THEN req[r].rows ELSE known
    /\ said' = IF known = nil THEN said ELSE [m \in Machines |-> Toast(m, req[r].rows[m])]
    /\ Done(r)
    /\ UNCHANGED <<relayVars, events, token, asking, loaded, cfg, fleetKey, block>>

\* poll goes on with render.
Render(r) ==
    /\ Free /\ Answered(r, "ok") /\ req[r].do = "list"
    /\ known' = req[r].rows
    /\ said' = IF known = nil THEN said ELSE [m \in Machines |-> Toast(m, req[r].rows[m])]
    /\ Done(r)
    /\ UNCHANGED <<relayVars, events, token, asking, loaded, cfg, fleetKey, block>>

\* Revoke goes on: a toast of its own, and a poll at once.
Revoked(r) ==
    /\ Free /\ Answered(r, "ok") /\ req[r].do = "delete"
    /\ Api(r, ListCall, token)
    /\ UNCHANGED <<relayVars, events, token, viewVars>>

\* Terminal goes on: window.open with the one-time key.
Opened(r) ==
    /\ Free /\ Answered(r, "ok") /\ req[r].do = "term"
    /\ Done(r)
    /\ UNCHANGED <<relayVars, events, token, asking, viewVars>>

\* e2eKey: a missing key is asked for, and the user pastes it or not.
E2EKey(pasted) ==
    /\ fleetKey' = (fleetKey \/ pasted)
    /\ block' = IF fleetKey' THEN "key" ELSE "placeholder"

\* Add machine goes on: the enrollment dialog.
Minted(r, pasted) ==
    /\ Free /\ Answered(r, "ok") /\ req[r].do = "mint"
    /\ IF cfg THEN E2EKey(pasted) ELSE block' = "no key" /\ UNCHANGED fleetKey
    /\ Done(r)
    /\ UNCHANGED <<relayVars, events, token, asking, loaded, cfg, known, said>>

\* GET /config.json, sent when the script starts, is answered.
Configured ==
    /\ Free /\ loaded /\ e2e
    /\ cfg' = TRUE
    /\ UNCHANGED <<relayVars, events, pageVars, loaded, fleetKey, known, said, block>>

---------------------------------------------------------------------------
Settles(r) ==
    \/ Refused(r) \/ Fails(r) \/ Render(r) \/ Revoked(r) \/ Opened(r)
    \/ \E pasted \in BOOLEAN : Minted(r, pasted)

Ticks == \E r \in Reqs : Load(r) \/ Tick(r)

Next ==
    \/ Ticks \/ Configured
    \/ \E m \in Machines : AgentMoves(m)
    \/ \E r \in Reqs :
          \/ Serve(r) \/ Settles(r) \/ NetworkFails(r)
          \/ \E c \in Buttons : Click(r, c)
          \/ \E tok \in {"good", "bad", ""} : Answer(r, tok)

Spec == Init /\ [][Next]_vars

\* The timer ticks, the Worker answers, and an answer runs its callback.  The
\* user does not have to answer a prompt, nor to answer it right.
Fairness ==
    /\ WF_vars(Ticks)
    /\ \A r \in Reqs : WF_vars(Serve(r)) /\ WF_vars(Settles(r))

FairSpec == Spec /\ Fairness

---------------------------------------------------------------------------
TypeOK ==
    /\ secret \in {"good", ""} /\ e2e \in BOOLEAN /\ list \in Lists /\ events \in 0..MaxEvents
    /\ token \in {"good", "bad", ""}
    /\ asking \in Calls
    /\ req \in [Reqs -> Requests]
    /\ loaded \in BOOLEAN /\ cfg \in BOOLEAN /\ fleetKey \in BOOLEAN
    /\ known \in Lists \cup {nil}
    /\ said \in [Machines -> Toasts \cup {nil}]
    /\ block \in {nil, "no key", "key", "placeholder"}

(* Whatever order the answers of overlapping polls come in, the last toast  *)
(* about a machine agrees with the row on screen (index.js:118-129).        *)
ToastsTellTheRows ==
    \A m \in Machines :
       known # nil =>
          /\ said[m] = "enrolled" => known[m] # "absent"
          /\ said[m] = "online" => known[m] = "on"
          /\ said[m] = "offline" => known[m] = "off"
          /\ said[m] = "removed" => known[m] = "absent"

(* The token the relay accepts is given up only to a late 401, earned by    *)
(* one that was sent before it: no prompt, other failure or cancelled       *)
(* request loses it (api and adminToken, index.js:22-43).                   *)
GoodTokenIsKept ==
    [][secret = "good" /\ token = "good" /\ token' # "good" =>
          \E r \in Reqs : req[r].answer = "401" /\ req[r].tok # "good"]_vars

(* "A 401 clears it and re-prompts" (README.md:133): a page never goes on   *)
(* for ever with a wrong token, whichever requests the 401 meets.           *)
WrongTokenIsAskedAgain == (secret = "good" /\ token = "bad") ~> token # "bad"

(* Once the machines and the user's token have settled, so does the table:  *)
(* no late answer, failed poll or prompt leaves a stale row for ever.       *)
Converges == secret = "good" /\ <>[](token = "good") => <>[](known = list)
=============================================================================
