--------------------------- MODULE ResolveEngine ----------------------------
(***************************************************************************)
(* apps/portal/ui-src/src/engine/useResolveEngine.ts and the controls of   *)
(* App.tsx, PortalPane.tsx and AccessibilityHints.tsx that drive it: the   *)
(* React adapter over PaceQueue.                                           *)
(*                                                                         *)
(* Two signals drive the state the page shows: the answer to POST /resolve *)
(* and the events of the trace stream, which PaceQueue spaces out.  They   *)
(* arrive over different connections in any relative order.  React renders *)
(* later: ui is the state as the setters have left it, shown is the status *)
(* of the last render, which statusRef mirrors.  React runs the effects of *)
(* a click or key press before the next task, those of a timer, a message  *)
(* or a fetch in a task of their own, which is the action Render.          *)
(*                                                                         *)
(* The trace bus tells every page of every resolve, so the page also       *)
(* receives the events of resolves that another page has started; and an   *)
(* event may never come: a full channel drops it, a relay was not yet      *)
(* subscribed, or the browser was reconnecting its EventSource.            *)
(***************************************************************************)
EXTENDS PaceQueue, PageView

CONSTANTS
  MaxRuns,    \* bound: resolves started by any page
  MaxOthers,  \* bound: those of them that other pages start
  MaxLost     \* bound: events that never reach the page

ASSUME EngineAssumption ==
  MaxRuns \in Nat \ {0} /\ MaxOthers \in Nat /\ MaxLost \in Nat

VARIABLES
  ui,        \* what the setters and refs of the hook hold
  shown,     \* statusRef, and the status the buttons were rendered with
  carrier,   \* the carrier selected on the page
  runs,      \* resolves started so far; a resolve is named by its number
  others,    \* those of them that other pages started
  current,   \* the latest that this page started, 0 before the first
  ending,    \* per resolve, how it ends
  trail,     \* per resolve, what the trace stream has yet to deliver
  inFlight,  \* this page's resolves whose fetch has not settled
  lost,      \* events that never reached the page
  undisturbed, \* history: no reset since the current resolve started
  alone      \* history: nor was any other resolve under way since then

history == <<undisturbed, alone>>
started == <<runs, others, current, ending>>
engineVars == <<ui, shown, carrier, started, trail, inFlight, lost, history>>
vars == <<pqVars, engineVars>>

Runs == 1 .. MaxRuns

-----------------------------------------------------------------------------
(* What the portal sends for one resolve: an answer, and a trail of events  *)
(* that ends where the handlers of the portal and of the carrier return.    *)

\* A lookup whose call to the agent or to Secrets Manager hangs: the portal gives
\* up, and what the carrier reports of the call it then breaks off is relayed
\* within the grace period.
Hung == {"agent hung", "authn hung", "fetch hung"}

\* How a resolve can end: with a blank or malformed id; for the company's carrier
\* the row delivered or missing, the secret empty or denied, the token denied or no
\* JWT-SVID issued, the lookup hung or the carrier down; for a foreign carrier its
\* certificate rejected, no carrier reached, or the handshake accepted after all.
Endings(c) ==
  {"blank"} \cup
  IF c = "internal"
  THEN {"badid", "granted", "missing", "empty", "unfetched", "denied", "unissued", "down"} \cup Hung
  ELSE {"foreign", "unreached", "admitted"}

\* Only this one is answered 2xx.
AnswersOk(e) == e = "granted"

\* What the carrier emits and the portal relays.  Events of no stage that end
\* nothing are left out: all they do is to take their time in the queue.
Relayed(e) ==
  CASE e \in {"granted", "missing"} ->
         <<"jwt_svid.issued", "sm.authn_jwt.ok", "sm.secret_fetched.ok">>
    [] e = "empty" -> <<"jwt_svid.issued", "sm.authn_jwt.ok", "sm.secret_fetched.empty">>
    [] e \in {"unfetched", "fetch hung"} ->
         <<"jwt_svid.issued", "sm.authn_jwt.ok", "sm.secret_fetched.err">>
    [] e \in {"denied", "authn hung"} -> <<"jwt_svid.issued", "sm.authn_jwt.err">>
    [] e \in {"unissued", "agent hung"} -> <<"jwt_svid.error">>
    [] OTHER -> << >>

\* What the portal emits itself, events of no stage left out again.
Direct(e) ==
  CASE e = "blank" -> << >>
    [] e = "badid" -> <<Requested, "portal.resolve.error">>
    [] e \in Hung \cup {"down"} ->
         <<Requested, "mtls.handshake.start", "mtls.handshake.err", "portal.resolve.error">>
    [] e = "foreign" ->
         <<Requested, "mtls.handshake.start", "mtls.peer_uri_seen", "mtls.handshake.err">>
    [] e = "unreached" -> <<Requested, "mtls.handshake.start", "mtls.handshake.err">>
    [] e = "admitted" -> <<Requested, "mtls.handshake.start">>
    [] OTHER -> <<Requested, "mtls.handshake.start", "mtls.handshake.ok">>

NoTrail == [direct |-> << >>, relayed |-> << >>]

-----------------------------------------------------------------------------
(* The hook's state and what the queue's callbacks do to it.                *)

NoError == [type |-> "none", of |-> 0, uri |-> FALSE, payload |-> FALSE]

\* What run and reset both set.
Cleared(status) ==
  [status |-> status, stage |-> -1, completed |-> 0, result |-> 0,
   error |-> NoError, maxStage |-> -1, peerUri |-> FALSE, ttlOf |-> 0]

Init ==
  /\ PQInit
  /\ ui = Cleared("idle")
  /\ shown = "idle"
  /\ carrier = "internal"
  /\ runs = 0
  /\ others = 0
  /\ current = 0
  /\ ending = [r \in Runs |-> "none"]
  /\ trail = [r \in Runs |-> NoTrail]
  /\ inFlight = {}
  /\ lost = 0
  /\ undisturbed = FALSE
  /\ alone = FALSE

\* Mutant: the stage counts as completed while it is still active.
AdvancePast(u, idx) ==
  IF idx >= 0 /\ idx > u.maxStage
  THEN [u EXCEPT !.maxStage = idx, !.stage = idx, !.completed = idx + 1]
  ELSE u

\* Mutant: the stage follows every event, forward or backward.
AdvanceAnyWay(u, idx) ==
  IF idx >= 0 THEN [u EXCEPT !.maxStage = idx, !.stage = idx, !.completed = idx] ELSE u

\* The stage indicator only moves forward.
Advance(u, idx) ==
  IF idx >= 0 /\ idx > u.maxStage
  THEN [u EXCEPT !.maxStage = idx, !.stage = idx, !.completed = idx]
  ELSE u

\* An error event ends the resolve whatever the status; the URI of the foreign
\* peer, if one was seen, becomes part of the error.
ShowError(u, e) ==
  [u EXCEPT !.error = [type |-> e.type, of |-> e.of, uri |-> u.peerUri, payload |-> TRUE],
            !.stage = -1, !.status = "error"]

\* Refs and the ticker that are set whatever the status.
Noted(u, e) ==
  [u EXCEPT !.peerUri = @ \/ e.type = "mtls.peer_uri_seen",
            !.ttlOf = IF e.type = "jwt_svid.issued" THEN e.of ELSE @]

\* Mutant: no guard on late events.
OnEventUngated(u, e) ==
  LET v == Noted(u, e) IN
  IF IsErr(e.type) THEN ShowError(v, e) ELSE Advance(v, EventToStage(e.type))

\* Mutant: the foreign URI is not kept.
OnEventNoUri(u, e) ==
  IF IsErr(e.type) THEN ShowError(u, e)
  ELSE IF shown # "running" THEN u ELSE Advance(u, EventToStage(e.type))

\* The subscriber of fanned-out events; shown is statusRef.
OnEvent(u, e) ==
  LET v == Noted(u, e) IN
  IF IsErr(e.type) THEN ShowError(v, e)
  ELSE IF shown # "running" THEN v
  ELSE Advance(v, EventToStage(e.type))

\* Mutant: a walk always means that a resolve is running.
OnWalkingAlways(u) == [u EXCEPT !.status = "running"]

\* The subscriber of queue states ignores "idle".
OnWalking(u) ==
  [u EXCEPT !.status = IF @ \in {"done", "error"} THEN @ ELSE "running"]

OnCall(u, c) ==
  CASE c.what = "event"   -> OnEvent(u, c.ev)
    [] c.what = "walking" -> OnWalking(u)
    [] OTHER -> u

\* The hook handles the callbacks of the queue, one after the other, in the task
\* that makes them.
Handled(calls) ==
  LET after[i \in 0 .. Len(calls)] ==
        IF i = 0 THEN ui ELSE OnCall(after[i - 1], calls[i])
  IN  after[Len(calls)]

QueueStep == ui' = Handled(pq'.calls)
                /\ UNCHANGED <<shown, carrier, started, inFlight, history>>

-----------------------------------------------------------------------------
(* Tasks of the event loop.                                                 *)

Unrequested(r) == Requested \in Range(trail[r].direct)

\* The next message of a resolve: the portal's events keep their order and the
\* carrier's keep theirs, the first of all being the portal's.
First(s) == IF s = << >> THEN {} ELSE {Head(s)}
Message(r) ==
  { [type |-> t, frame |-> "", of |-> r] : t \in First(trail[r].direct) } \cup
  { [type |-> Raw, frame |-> t, of |-> r] :
      t \in IF Unrequested(r) THEN {} ELSE First(trail[r].relayed) }

Without(r, m) ==
  IF m.type = Raw THEN [trail EXCEPT ![r].relayed = Tail(@)]
  ELSE [trail EXCEPT ![r].direct = Tail(@)]

\* es.onmessage.  Resolves reach the portal in the order in which they were
\* started, so their first events arrive in that order too.
Deliver(r) ==
  /\ \A q \in Runs : q < r => ~Unrequested(q)
  /\ \E m \in Message(r) : Push(m) /\ trail' = Without(r, m)
  /\ QueueStep
  /\ UNCHANGED lost

\* External: a message that never comes.
Lose(r) ==
  /\ lost < MaxLost
  /\ lost' = lost + 1
  /\ \A q \in Runs : q < r => ~Unrequested(q)
  /\ \E m \in Message(r) : trail' = Without(r, m)
  /\ UNCHANGED <<pqVars, ui, shown, carrier, started, inFlight, history>>

Drains == TimerFires /\ QueueStep /\ UNCHANGED <<trail, lost>>

\* The pace control of the inspector: a click on the pace that is set changes
\* nothing.
ChangePace(v) == SetPace(v) /\ QueueStep /\ UNCHANGED <<trail, lost>>

Starts(e) ==
  /\ runs < MaxRuns
  /\ runs' = runs + 1
  /\ ending' = [ending EXCEPT ![runs + 1] = e]
  /\ trail' = [trail EXCEPT ![runs + 1] = [direct |-> Direct(e), relayed |-> Relayed(e)]]

Quiet == inFlight = {} /\ pq.queue = << >> /\ \A r \in Runs : trail[r] = NoTrail

\* The Resolve button, disabled while it shows a running resolve.
Run(e) ==
  /\ ~Busy(shown)
  /\ Starts(e)
  /\ current' = runs + 1
  /\ ui' = Cleared("running")
  /\ shown' = "running"
  /\ inFlight' = inFlight \cup {runs + 1}
  /\ undisturbed' = TRUE
  /\ alone' = Quiet
  /\ UNCHANGED <<pqVars, carrier, others, lost>>

\* External: somebody resolves in another page.
OtherRuns(e) ==
  /\ others < MaxOthers
  /\ others' = others + 1
  /\ Starts(e)
  /\ alone' = FALSE
  /\ UNCHANGED <<pqVars, ui, shown, carrier, current, inFlight, lost, undisturbed>>

\* Mutant: a failed answer replaces whatever error is shown.
HttpErrorAlways(u) ==
  [u EXCEPT !.error = [NoError EXCEPT !.type = "http.error"], !.status = "error"]

\* A failed answer does not replace an error that carries a payload.
HttpError(u) ==
  [u EXCEPT !.error = IF @.payload THEN @ ELSE [NoError EXCEPT !.type = "http.error"],
            !.status = "error"]

\* The fetch settles.  Nothing ties it to the resolve that is shown.
Answer(r) ==
  /\ r \in inFlight
  /\ inFlight' = inFlight \ {r}
  /\ ui' = IF AnswersOk(ending[r])
           THEN [ui EXCEPT !.result = r, !.status = "done", !.stage = -1, !.completed = 6]
           ELSE HttpError(ui)
  /\ UNCHANGED <<pqVars, shown, carrier, started, trail, lost, history>>

\* The fetch fails, or the body of a good answer is no JSON text.
NetworkFails(r) ==
  /\ r \in inFlight
  /\ inFlight' = inFlight \ {r}
  /\ ui' = [ui EXCEPT !.status = "error", !.error = [NoError EXCEPT !.type = "network.error"]]
  /\ UNCHANGED <<pqVars, shown, carrier, started, trail, lost, history>>

\* reset: the walk is preempted, the fetch goes on.
Reset ==
  /\ Flush
  /\ ui' = Cleared("idle")
  /\ shown' = "idle"
  /\ undisturbed' = FALSE
  /\ alone' = FALSE
  /\ UNCHANGED <<started, trail, inFlight, lost>>

\* Escape anywhere, or the Reset button of the footer.
PressReset == Reset /\ UNCHANGED carrier

\* The carrier control, disabled while a resolve is shown as running; a click on
\* the option that is selected resets the page as well.
PickCarrier(c) ==
  /\ ~Busy(shown)
  /\ carrier' = c
  /\ Reset

\* A render of its own, and the effect that updates statusRef.
Render ==
  /\ shown # ui.status
  /\ shown' = ui.status
  /\ UNCHANGED <<pqVars, ui, carrier, started, trail, inFlight, lost, history>>

Next ==
  \/ \E e \in Endings(carrier) : Run(e)
  \/ \E e \in Endings("internal") \cup Endings("external") : OtherRuns(e)
  \/ \E r \in Runs : Deliver(r) \/ Lose(r) \/ Answer(r) \/ NetworkFails(r)
  \/ Drains
  \/ \E v \in {"off", "paced"} : ChangePace(v)
  \/ PressReset
  \/ \E c \in {"internal", "external"} : PickCarrier(c)
  \/ Render

Spec == Init /\ [][Next]_vars

-----------------------------------------------------------------------------
Statuses == {"idle", "running", "done", "error"}

\* Every variable keeps its type, and the queue its own.
TypeOK ==
  /\ PQTypeOK
  /\ ui.status \in Statuses /\ shown \in Statuses
  /\ ui.stage \in -1 .. 4 /\ ui.maxStage \in -1 .. 4 /\ ui.completed \in 0 .. 6
  /\ ui.result \in 0 .. runs /\ ui.ttlOf \in 0 .. runs
  /\ ui.error.payload \in BOOLEAN /\ ui.error.uri \in BOOLEAN
  /\ runs \in 0 .. MaxRuns /\ others \in 0 .. MaxOthers /\ current \in 0 .. runs
  /\ inFlight \subseteq 1 .. runs /\ lost \in 0 .. MaxLost

\* While one resolve is running the page never steps back, although events of
\* an abandoned resolve and of other pages arrive among its own
\* (useResolveEngine.ts:74).
NeverBackward ==
  [][ (ui.status = "running" /\ ui'.status = "running" /\ current' = current)
      => ui'.completed >= ui.completed ]_vars

\* The error a foreign carrier causes names that carrier's SPIFFE URI, at any
\* pace and among the events of an abandoned resolve, unless the user reset the
\* page in between, an event was lost, or another page's resolve preempted the
\* queue that held the URI.
PeerUriMerged ==
  (undisturbed /\ lost = 0 /\ others = 0 /\ ui.error.type = "mtls.handshake.err"
     /\ ui.error.of = current /\ ending[current] = "foreign")
    => ui.error.uri

\* Once its answer has come, a resolve nobody reset is shown as settled, and
\* no late event, of this page's resolves or another's, puts it back to running.
AnsweredIsSettled ==
  (undisturbed /\ current \notin inFlight) => ui.status \in {"done", "error"}

\* From the render of done on, late events leave the finished diagram alone
\* (useResolveEngine.ts:136-141).
NoRewindOnceShown ==
  [][ (shown = "done" /\ ui.status = "done" /\ ui'.status = "done" /\ current' = current)
      => (ui'.stage = ui.stage /\ ui'.completed = ui.completed)
         \/ (ui'.stage = -1 /\ ui'.completed = 6) ]_vars

\* The answer 502 does not replace an error that the stream explained
\* (useResolveEngine.ts:201-204): only a new resolve, a reset or a failed
\* fetch does.
ExplainedErrorKept ==
  [][ ui.error.payload =>
        \/ ui'.error.payload
        \/ current' # current \/ ui'.status = "idle" \/ ui'.error.type = "network.error" ]_vars

\* "The engine MUST NOT visually rewind after status done, even when late SSE
\* events drain from the pace queue" (useResolveEngine.test.ts:4-5).
DoneStaysComplete == ui.status = "done" => (ui.completed = 6 /\ ui.stage = -1)

\* "The engine resets to its bootstrap state; the Beat 1 flow is ready to run
\* again" (docs/under-the-hood.md:370-371): the page is not left as running, with
\* its button disabled, when no answer and no event can come that would end it.
ReadyAgain ==
  (Busy(ui.status) /\ Busy(shown)) =>
    \/ inFlight # {} \/ Live(pq) > 0
    \/ \E r \in Runs : trail[r] # NoTrail

\* "No JWT-SVID was issued, no Secrets Manager call was made" (swa.ts:139), the
\* evidence PortalPane shows for every error: no event of the resolve that
\* failed had announced a JWT-SVID.
EvidenceIsTrue ==
  ("nothing issued" \in EvidenceShown(ui) /\ ui.error.payload) => ui.ttlOf # ui.error.of
=============================================================================
