# Verification of the SWA demo

TLA+ models of the SWA demo, the TLC configurations that check them on small
instances, and proofs, checked by TLAPS, that the central properties hold for
every value of the constants.  Paths are relative to the root of the repository
(`src/`), module names to this directory.

The demo shows one thing: a portal looks up a shipment through a carrier that
fetches its credential at request time with a workload identity.  A browser page
starts a resolve and follows the identity exchange live over server-sent events.
The logic that can go wrong lies in that path, and it is what is modelled: two
servers, two trace streams, one queue in the browser, a React hook, three views
of its state, a countdown, a small cache, and the start and end of a process.

## Inventory

### The system's parts, their state and their operations

| Part | Code | State | Operations |
| --- | --- | --- | --- |
| Trace bus and SSE handler | `apps/portal/trace.go`, its twin `apps/carrier/trace.go` | mutex, set of subscribed channels, each of `bufSize` | `Emit`, `Subscribe`, `Unsubscribe`, `handleTraceSSE` |
| Resolve handler | `apps/portal/handler.go` | none beyond the request | `POST /resolve`: internal or external path, answer and events |
| Carrier client | `apps/portal/carrier_client.go` | HTTP connections, one goroutine and one cancellation per lookup | `Lookup`, `streamCarrierTrace`, `splitFrames`, `Identity` |
| External carrier client | `apps/portal/external_carrier_client.go` | none | `Resolve`: dial with the standard verifier, report the peer's URI |
| Lookup handler, Secrets Manager client | `apps/carrier/handler.go`, `sm_client.go` | none beyond the request | JWT-SVID, token, secret, row: one event after each |
| Identity aggregator | `apps/portal/identity.go`, `apps/carrier/identity.go` | mutex, cached answer and its time | `GET /identity` |
| Pace queue | `ui-src/src/engine/paceQueue.ts` | queue, timer handle, walking, skip, pace | `push`, `drain`, `skip`, `setPace`, `preemptAndFlush` |
| Event vocabulary | `ui-src/src/engine/stageMap.ts` | none | `eventToStage`, `isErrorEvent` |
| Resolve engine | `ui-src/src/engine/useResolveEngine.ts`, `App.tsx` | status, stage, completed, result, error, refs | `run`, `reset`, event and state subscribers, renders |
| Inspector and portal pane | `ui-src/src/visualizations/*`, `InspectorChrome.tsx`, `PortalPane.tsx` | none: functions of the engine's state | drawing |
| TTL ticker | `ui-src/src/engine/ttlTicker.ts`, `visualizations/ShuffleDigits.tsx` | expiry, one interval; the digits shown and their timers | `setIssuedAndExp`, `freeze`, `tick` |
| Start and shutdown | `apps/portal/main.go`, `apps/carrier/main.go` | servers, shutdown goroutine, exit code | `run` |
| Foreign carrier | `apps/acme-carrier` | none | stands behind a certificate nobody trusts |
| Platform | `platform/`, `scripts/`, `Makefile` | outside the program | Terraform, Kubernetes, shell |

### How they interact

* The browser sends `POST /resolve` and holds `GET /trace` of the portal open.
  The two connections are independent: the answer and the events of one resolve
  arrive in any relative order, and nothing in either says which run of the page
  they belong to.
* The portal's handler emits its own events on its bus.  For an internal resolve
  it starts a goroutine that opens the carrier's trace stream, cuts what it reads
  into frames and emits each on the portal's bus, and in parallel calls the carrier.
* The carrier asks the SWA agent, then Secrets Manager twice, emitting as it goes.
* In the browser every message of the stream goes through the pace queue, whose
  callbacks change the hook's state; React renders some time after that, and only
  the render updates the status that the event handler reads.
* The portal's bus tells every page of every resolve: two pages hear of each other's,
  and nothing in an event says to whom it belongs.  An event may also never come: a
  full channel drops it, a relay subscribed too late, or the browser was reconnecting.
* Kubernetes signals a process; a goroutine shuts its servers down, but the process
  ends as soon as the first of them has stopped accepting.

### What is hard to get right here

* Goroutines that emit, subscribe and leave while a channel is being closed.
* A call and the trace stream that reports on it, opened by two goroutines, and
  cancelled in the right order with the right delay.
* Timeouts that exist on one side only (`SMClient` and the external dial have none).
* Reads that cut a stream wherever the network did.
* A timer whose handle is lost, a queue that must be neither stuck nor reordered.
* Late answers and late events of a resolve that the user has abandoned.
* State read one render too late.
* A mutex held during a network call, and an answer that ages while it travels.
* A clock read late, by an interval that is never stopped.
* Two servers shut down in order by a goroutine that nobody waits for.

`PROJECT.json` lists each as a hazard at its line, with the properties about it.

### What makes each part correct

* **Trace bus**: no send on a closed channel; one order for all clients; no loss
  before a channel is full; an emitter never waits for a client; a client that
  leaves is forgotten.
* **Resolve**: a shipment is handed out only after JWT-SVID, token and secret, in
  that order, and never on the external path; what the browser hears on its two
  connections agrees; the end of a call costs its trail nothing beyond the grace
  period; every internal request is answered; no lookup outlives its request.
* **Frames**: no frame mixes two events, the splitter never panics, and it is back
  in step within one event of a cut.
* **Pace queue**: events leave in order of arrival at any pace, none is skipped
  except by a preemption, none is stranded.
* **Engine and views**: the page never steps back within a resolve, an explained
  error survives the generic one, an answered resolve is shown as settled, a secret
  is shown only after an answer, nothing is claimed that the resolve did not pass, and
  the views, each written by hand, agree with each other and within themselves.
* **Countdown**: never off by more than the lag of the interval, digits that come to
  rest on its value, a frozen countdown runs out.
* **Start and shutdown**: a process that is asked to stop does; one that fails to start
  says so; the trace of a lookup is served as long as the lookup is drained.
* **Identity cache**: what is shown is recent, never older than what was shown
  before, and a failure is not cached.

## Modules

| Module | Models | Builds on |
| --- | --- | --- |
| `TraceBus` | both `trace.go` | |
| `EventTypes` | `stageMap.ts`, the event names | |
| `ResolveSpec` | what `POST /resolve` promises (abstract) | |
| `CarrierLookup` | the carrier's `GET /lookup` and `SMClient` | `EventTypes` |
| `PortalResolve` | handler, carrier client, external client; implements `ResolveSpec` | `CarrierLookup` |
| `FrameSplit` | reads of the trace stream and how they are split | |
| `PaceQueue` | `paceQueue.ts` | `EventTypes` |
| `InspectorProps` | what the views share, `swa.ts` | |
| `PageView` | form, result region, evidence, footer | `InspectorProps` |
| `TopologyView`, `LayersView`, `TraceView` | one view of the inspector each | `InspectorProps` |
| `ResolveEngine` | `useResolveEngine.ts` and the controls | `PaceQueue`, `PageView` |
| `InspectorViews` | the views over the engine's state, composed | `ResolveEngine`, the three views |
| `TtlTicker` | `ttlTicker.ts`, `ShuffleDigits.tsx` | |
| `Lifecycle` | `run` of portal and carrier | |
| `IdentityCache` | `identity.go` | |
| `MC*` | small instances for TLC | the module after `MC` |
| `*_proofs` | TLAPS proofs | the module before `_proofs`; `ResolveEngine_proofs` also on `InspectorViews` |

An operator whose comment starts with "Mutant:" is a variant, with a plausible bug, of
the definition below it (`AdvanceAnyWay` of `Advance`, say).  No specification uses
one; each property has one that breaks it, which shows that it depends on the code.

### How state and actions correspond to the code

**TraceBus.** An emitter is a goroutine in `Emit`; it is idle, waiting for the
mutex, or inside the loop over the subscribers it found (`todo`).  One iteration of
the loop is one action, since a client may take from its channel between two
of them.  A client is one `handleTraceSSE`: header flushed (`Accept`), `Subscribe`,
`Forward`, `Leave`, deferred `Unsubscribe`.  An event is its place in the order of
the mutex, so payload and time stamp are abstracted.

**CarrierLookup and PortalResolve.** Each place where a goroutine waits is a value of
`ppc` (handler), `cpc` (lookup), `spc` (trace stream, at the portal) or `tpc` (the
carrier's handler of that stream).  The call of a request and its stream are
independent, since the goroutine is started first but not waited for, and the call may
find a pooled connection.  The carrier flushes the header of a stream (`StreamArrives`),
with which the portal has it open (`StreamOpens`), before it subscribes it
(`StreamSubscribed`), and unsubscribes it some time after its reader has gone
(`StreamLeft`).  `Disconnect` ends the request's context, which cancels the stream only
while `Lookup` runs (`AfterFunc`).  A failed call ends the context of the lookup at the
carrier.  `GraceOver` is the timer of 500 ms, which fires whatever has been read by then.
The bus of the carrier is abstracted to what `TraceBus` establishes, order and no loss
below 256 events.

`Relay` is one `Read`: any of the events on their way are in it, and any of those are
whole; the others are what `FrameSplit` shows a cut to cost, and go to `lost`, as do those
that the end of the grace period leaves unread.  So a stream may relay nothing of what
it was sent, and the properties say what follows when it does: `TailAccounted`, that nothing
is lost in any third way by the end of a call; `ChannelsAgree`, that a 502 without an
error event is the failure of a call that the carrier answered, whose error event was
lost so, or on a stream that came too late or was broken off.  `lost` and `early` are
history variables.

**FrameSplit.** The text of an event is six tokens: two halves of the prefix, two of
the body, two newlines; a read is any prefix of what has arrived, up to the buffer.
`CutAt` is one turn of the loop of `splitOnDoubleNewline`, including the slice that
panics on a chunk of one byte.

**PaceQueue.** A call of the API and a timer callback are one task of the event loop,
so one action.  The functions of the module are functions on its state `pq`;
callbacks are collected in `pq.calls` in the order they are made.  A timer is held by
`pendingTimer` or has lost its handle (`orphans`), which the replay branch of `push`
causes.  Delays are abstracted: any live timer may fire.

**ResolveEngine.** `ui` is the state as the setters left it, `shown` the status of the
last render, which is `statusRef`.  The effects of a click run before the next task,
those of other tasks in a task of their own (`Render`).  A resolve is a number,
whichever page started it (`Run`, `OtherRuns`); `ending[r]` is how it ends, from which
its events (`Direct`, `Relayed`) and its answer (`AnswersOk`) follow, and `trail[r]` is
what the stream has yet to deliver of it.  The fifteen endings are the returns of
`handleResolve`, `ExternalCarrierClient.Resolve` and `handleLookup`, and a call that hangs at
each of the three places where it can; events that have no stage and end nothing
(`request.received`, `carrier.lookup.ok`, `portal.resolve.rejected` and the like) are left
out, as the hook makes nothing of them and the queue treats them like any other.  The portal's events keep their order and the
relayed ones keep theirs; the two interleave freely.  `Lose` is a message that never
comes.  An event or answer carries the number of its resolve for the properties only:
the code does not look at it.  `undisturbed` and `alone` are history variables.

**Views.** Pure functions of the engine's record and the carrier, one per decision of a
component: the state of a layer, of a card, of a connector, the rows of the log, the
participants of the strip, the result region, the footer.  Of the texts only what they
claim is kept: which gate of the exchange was passed (`Claim`), or that something was
refused (`Refusals`).  A layer at work shows the text it will show when passed, under the
word "verifying"; `LayersVerifying` is what is said so, and `ClaimsBacked` covers it.
`Facts` is how far `handleLookup` came for each ending.

**TtlTicker.** One clock in seconds.  The interval is called at some time after it is
due, at most `MaxLag` late, as browsers do in the background; `exp` of a token is any
second, so that the clocks of issuer and browser may differ.  `ShuffleDigits` is the
component that shows the value: `drawn` is what it was last rendered with, `digits` what
it displays, `settles` its pending timers.

**Lifecycle.** The main goroutine is `phase`; the shutdown goroutine is `stopper`; a
server is the state of its listener, and the goroutine of the trace server is `BindSide`.
A server may also fail while it serves: of the main one (`AcceptFails`) that ends the
process with exit code 1, of the trace server it is logged.
With `Sides = {}` the module is the portal, with `{"trace"}` the carrier.  `Shutdown` is
two steps, closing the listener (`StopBegins`, `StopNext`) and waiting, which ends when
the server's requests have ended or the five seconds are over.

**IdentityCache.** A reader is one request.  A call to the carrier is three steps
(started, answered, stored), with clock and rotation in between; `heldUntil` records
until when the carrier held each SVID.

## Runs

| Run | Instance | Distinct states | Shows |
| --- | --- | --- | --- |
| `trace_bus` | 2 emitters, 2 clients, 2 slots, 3 emits | 66,900 | order, loss only when full, no send after close, emitters return, leavers forgotten |
| `portal_resolve` | 1 request, every kind and failure | 74,984 | refinement of `ResolveSpec`, agreement of what is heard on both connections, the end of a call costs its trail nothing, nothing hangs |
| `frame_split` | 3 events, every way to cut them | 818 | no mixing, no panic, back in step |
| `pace_queue` | 5 messages of 6 kinds, 3 lost timers | 1,505 | arrival order, nothing skipped or stranded |
| `resolve_engine` | 2 resolves of one page or two, 15 endings, 1 lost event, 1 lost timer | 495,070 | what the page still guarantees under any interleaving; the views |
| `identity_cache` | 3 readers, TTL 2, timeout 1, 5 ticks, 2 SVIDs | 82,676 | recent, monotone, no cached failure, no starved reader |
| `ttl_ticker` | 2 tokens, lag 2, 7 seconds | 2,616 | no drift, digits that come true, a frozen countdown runs out |
| `lifecycle` | carrier, 2 requests, 2 starts | 2,140 | stops when asked, exit code, order of shutdown |

### The bounds and why they are enough

* *Trace bus*: loss needs one event more than a channel holds, and reordering needs
  two emitters; 3 emits over 2 slots have both.  Two clients are needed for one to
  leave while the loop is at the other.
* *Portal*: all state is indexed by the request and no action of one reads that of
  another, so a second request adds the product and no behaviour.  The bus they share
  is `TraceBus`.  That two streams each carry the other's events is left out; the page
  ignores the copies (its own stage never moves back).
* *Frames*: a cut can damage the event it falls into and the one behind it; the third
  shows the splitter in step again.  A buffer of 13 tokens holds two events and a bit
  of the third.
* *Pace queue*: 5 messages suffice for a walk, a replay in it, an error behind both and
  what follows.  `MaxTimers` caps timers that have lost their handle.
* *Engine*: an abandoned resolve, or one of another page, and the one after it are all
  that the page can confuse; the page has one slot for each thing it remembers, which
  `run` clears, so a third would be to the second what the second is to the first.
  `MaxPushes` is above the number of messages two resolves can send, so it never cuts a
  behaviour.  `MCResolveEngine` adds bounds that keep the run to minutes, and names them:
  a lost event or a second resolve, not both; when the second starts, at most `MaxLeft`
  message of the first is under way, the portal's own or a relayed one, and falls anywhere
  among those of the second; the endings of two resolves are one of `Pairs`, in which a
  success, a denial and a foreign rejection each come first once, and a failure of each
  kind follows: no JWT-SVID issued, a foreign rejection, a denial; a resolve on its own
  has every ending.  The runs that show a disagreement follow one resolve of a given
  ending (`GrantedSpec`, `DeniedSpec`).  The `VIEW`s leave out the callbacks
  of the last action, which are consumed in it, and in the large run whose token is
  counted down, which no property of it reads.
* *Countdown*: two tokens replace each other in both orders, one outlives the other by as
  much as the lag, and the clock goes on until both have run out.
* *Lifecycle*: one request for each server, or two of the same; the second start has
  the first one's state to be confused with.
* *Identity cache*: the clock outlives two entries; two SVIDs are enough to go back from
  the second to the first.

`FrameSplit.cfg` allows the end of the run, since the goroutine may return and the
carrier fall silent.  The MC modules of the trace bus, the portal, the cache and the
process state what a finished run is, so that ending anywhere else is a deadlock.

### Fairness

Liveness is checked only where the code or its platform gives a reason for it.

* `sync.Mutex` hands the lock to a goroutine that has waited for 1 ms, so a waiter is
  not overtaken for ever: strong fairness on taking it (`EmitLock`, `Unsubscribe`,
  `Hit`/`Miss`).
* Code between two waits runs on: weak fairness on the loop of `Emit`, on the handler
  steps and on `Store`/`CallFails`.
* `http.Client.Timeout` of 15 s ends every call to the carrier: weak fairness on
  `HandlerStep`, which includes the failure of the call.
* The browser runs timers that are due: weak fairness on both timer actions.
* The browser calls its interval, effects and the timers of the digits, and its clock goes
  on: weak fairness on each of these in `TtlTicker`.
* Goroutines run and `Accept` returns once a listener is closed: weak fairness on the main
  goroutine of a process that has been signalled (before, the SVID may never come), on the
  shutdown goroutine and on its deadline.
* None on `Forward` (a browser may stop reading), on the external dial (it has no
  deadline), on the agent or on Secrets Manager (neither must answer), on the arrival
  of requests or their end, on signals, on user actions or on rotation.  The engine's properties are safety only.

## Disagreements between the code and what is said of it

Each is a run that TLC finds violated; the quoted lines are in `PROJECT.json`.

| Run | Statement | What the code does |
| --- | --- | --- |
| `late_rewind` | the engine must not rewind after done | the guard reads the status of the last render; an event before it rewinds |
| `reset_revived` | after a reset the flow is ready to run again | the last event of a resolve that was granted, and answered before the reset, makes the page running, with the button disabled and nothing to end it |
| `false_evidence` | "No JWT-SVID was issued, no Secrets Manager call was made" | shown for every error, also when Secrets Manager denied a JWT-SVID |
| `head_lost` | while the call is in flight its events are forwarded | nothing makes the call wait for the stream, and an open stream is not yet a subscribed one; the head of the trail, or all of it, can be lost |

Further observations, met while modelling and not counted as disagreements:

* `push` drops the handle of the timer that `drain` has just set when it replays
  (`paceQueue.ts:147`): the next message is fanned out at once, beside the hold of that
  timer.  `pace_queue` shows that nothing is lost or stranded by it.
* A frame that spans two reads is relayed cut or not at all (`carrier_client.go:154`);
  `frame_split` bounds the damage.
* The page shows what other pages do: their resolves turn an idle page into a running one,
  and one that starts while a rejection is being walked preempts the queue that holds the
  foreign peer's URI.  `PeerUriMerged` and `ClaimsBacked` except these cases.
* Nothing ties an answer to its resolve: that of an abandoned one ends the one on show
  (`useResolveEngine.ts:190`), and its error event does too, or replaces done
  (`useResolveEngine.ts:110`).  The model does as the code; the properties that hold
  all the same (`AnsweredIsSettled`, `SecretNeedsAnswer`) do not ask whose answer it was.
* Layer 1 shows its text on mutual TLS, under "verifying", from `mtls.handshake.start` on,
  so also while a foreign carrier is being rejected (`LayersInspector.tsx:259-265`).
* `freeze` says that subscribers see zero (`ttlTicker.ts:41`); they keep the old value
  until the next tick, up to a second later (`FrozenRunsOut` says: in the end).
* `run` returns while `Shutdown` still waits, so what a process serves when it is signalled
  is cut, and the five seconds of grace are in practice not waited for.
* If the trace server of the carrier cannot bind, that is only logged (`main.go:117`): the
  carrier goes on without a trace, and its readiness probe stays green.

## Proofs

TLAPS checks these theorems for any number of emitters, clients, requests, readers and
resolves and any size of buffer, TTL, timeout and lag.

* **`TraceBus_proofs`** — `TypeCorrect`, `SendsAreSafe`, `EventsInOrder`,
  `NothingLostEarly`.  None of the last three is inductive.  The argument has three
  layers: `TypeOK`; `Locked`, which says that whoever is in its critical section holds
  the mutex and that what an emitter has still to visit is subscribed, so not closed;
  and `Trail`, which adds to `InOrder` and `NoEarlyLoss` that an event still to be offered
  to a subscriber is newer than anything it was given (`Pending`): without it a send
  could repeat or reorder an event.  Lemmas
  on sequences (`StreamGrows`, `StreamMoves`) say that a send extends a stream and a
  receive does not change it.
* **`PortalResolve_proofs`** — `TypeCorrect` and `PromiseKept`: the specification
  implements `ResolveSpec`.  `Earned` ties what was granted for a lookup to where the
  lookup is and to the code it replied with, `Asked` ties the handler and the lookup to
  the kind of the request; with both, every step is a step of the abstract
  specification or a stutter (`LookupRefines`, `HandlerRefines`).
  `TwoChannels` and `TailSurvives` are about what the browser hears of a resolve, with
  reads that cut up any frame and a grace period that may end too soon.  On top of the
  same invariant, `Told` says that a lookup replies 502 exactly when it has announced an
  error, `Spoken` ties the portal's answer to its own events and to that reply, and
  `Streamed` that nothing is relayed that was not said and that a stream is cancelled under
  a client that is still there only after the call.  Its part `Heard` is about a stream
  that was subscribed in time: what was said is relayed, lost or on its way, and what is on
  its way when the grace period ends is counted as lost.
  `SaidAfter` says what a trail says after it was extended.
* **`PaceQueue_proofs`** — `OrderKept`, `NoneSkipped`, `AlwaysDriven`, for any messages,
  paces and timers.  `Carries` says which events a task fans out: a run of `event`
  callbacks between callbacks of other kinds; one lemma for each function of the module
  says what it fans out and what it leaves queued, an error always leaving nothing.  The
  invariant (`Numbered`) is that the messages queued bear the numbers right before the next
  one.  `DrainDrives` says that `drain` has set a timer for whatever it leaves in the queue,
  `ReplayDrives` that the timer whose handle a replay loses had nothing left to do.
* **`ResolveEngine_proofs`**, the engine — what the page makes of the stream, whoever resolves and
  whatever is lost.  `UsesQueue`: the engine is a client of the queue, every step of it a
  step of the queue's own specification or a stutter, so `NeverFrozen` is `AlwaysDriven`
  carried over.  The page is changed by the callbacks of a task one after the other
  (`Handled`, a recursive function), so the other theorems need induction over them.  It is
  done once, for sets: a set of pages that every callback keeps is kept by a whole task
  (`LeastNatural`, `HandledAlong`), and each property names its set.  `EngineTypeCorrect`;
  `StaysSettled` (settled with its answer); `OnlyForward` (the pages no earlier than this
  one); `NeverRewinds` and `ExplanationStays` (the pages that still show this diagram, this
  error).  `UriNeverDropped` is the deepest: `PeerSeen` says when the page has noted the URI,
  `Shook` when it has been sent, and `PeerInv` that from then on it is noted or
  queued behind nothing that preempts it, since an error is never queued (`Patient`) and
  only the request of another resolve, or a reset, empties the queue; when the rejection
  is fanned out, the URI has been fanned out before it (`QuietEvents`, `LoudEvent`,
  `SplitEvents`, `DeliverMerges`).
* **`ResolveEngine_proofs`**, the views — `ViewsAlwaysAgree`: `ViewsAgree` for every status, stage and
  count (`PropsOK`), reachable or not, with one lemma for each pair of parts that the code
  computes apart; `PropsHold` and `ViewsAgreeAlways` give it for every state of the engine.
  What is claimed rests on the engine.  `Earned` bounds what each view claims by the
  completed count and the status.  `SecretAnswered`: a result is that of a 2xx answer, and
  the last gate counts as completed only with a result (`AnswerInv`).  `NothingInvented`: while
  a resolve is the only one since the reset, every event of it that is still on its way,
  queued or fanned out is one that its ending emits, so neither the count nor the stage
  passes the gate at which it failed (`Reach`, `Fits`, `Backed`); the stage, since the
  layer at work already shows its text (`VerifyingStage`).
* **`FrameSplit_proofs`** — `NoPanic`, `FramesAreEvents`, `SoonInStep`, for any number of
  events, any buffer and any cuts.  `Inv` says where in the stream the reader is (`Behind`),
  that what is left of the wire is the text from there on (`Along`), and that whatever was
  relayed began before it.  The rest is about one read: two newlines in a row stand right
  before the end of an event and nowhere else (`TwoNewlines`), so the loop cuts at every
  such border but one that comes first in the read (`LastCut`, kept by `SplitOn` and
  `SplitCuts`), a chunk that begins like a frame lies within one event (`FrameAt`), and a
  chunk that is cut holds at least the two newlines.  Both loops are recursive functions
  over the bytes and the chunks, taken step by step with `SetInduction`.
* **`IdentityCache_proofs`** — `TypeCorrect`, `ShownIsRecent`, `ShownInOrder`,
  `FailuresAreOwn`.  Only
  the holder of the mutex has a call under way (`Exclusive`); an answer is no older than
  its call, which started at most `Timeout` ago (`Dated`); and what is cached or answered
  is no older than anything shown (`Ordered`) and no newer than what is held (`Held`).

* **`TtlTicker_proofs`** — `TypeCorrect`, `CountsTrue`, `DigitsAreTrue`.  `NoDrift` is not
  inductive: what is shown was right when it was computed, at `ticked`, which is at most
  the lag ago; `Left` and `CountStep` are the arithmetic of a clock that goes on.
* **`Lifecycle_proofs`** — `TypeCorrect`, `CleanExits`, `TraceOutlives`.  `StopInv` says
  that the shutdown goroutine acts on a signal only and that nothing else shuts a listener
  while the process lives; `DrainInv` that the trace server is shut only once the goroutine
  has left the API server behind, drained or late, and that nothing is accepted there after.

Assumptions: `BusAssumption` (a buffer of at least one, emitters and clients distinct),
`CacheAssumption` (a positive TTL), `TtlAssumption` (seconds are natural numbers) and
`LifecycleAssumption` (there is no third server), `PaceAssumption` and `EngineAssumption`
(bounds are natural numbers) and `FrameAssumption` (one event and one token of buffer at
least), all checked by TLC in the runs.  `ViewsAlwaysAgree` assumes of the engine that a
resolve shown as done has a result, which `PropsHold` proves of it.

**Only model-checked.**  The liveness properties (`EmitReturns`, `LeaverForgotten`,
`QueueDrains`, `PortalAnswers`, `CarrierReleased`, `ReadersAnswered`, `FrozenRunsOut`,
`StopsWhenAsked`) with the fairness they need, which are out of the prover's reach, and the
absence of deadlock.  Every invariant and every action property that a run
checks is also the conclusion of a theorem.

## What is not modelled, and why

* JWT parsing and redaction (`apps/carrier/redact.go`, parts of `handler.go`): pure
  functions that fill fields nobody branches on.
* The foreign carrier: it is never reached past its certificate.
* Text, colours, layout, the presentational components.
* Terraform, Kubernetes, Helm, Makefile and scripts: other programs evaluate them, or they
  are sequential shell around external tools.  `scripts/tf-destroy-with-retry.sh`, which
  retries, is among them: what its retries meet is the state of Terraform.
* A signal that comes before `NotifyContext`, and the run of the foreign carrier, which has
  the shape of the portal's.
* The external client keeps the certificate the portal had at its start: the portal itself
  rejects the peer's, so the dial ends the same way whichever it presents.
* A second stream relays the events of overlapping resolves a second time; the lookup model
  keeps the events of a request on its own stream only.
* Two things said of the program that no state could show: the log tag "SKIPPED" of
  `docs/`, and the query `?pace=off` of the README, are not in the code.

## Plan

The order follows importance: the path of a resolve first, then what the page makes of it,
then the periphery.

1. `TraceBus` with proofs — done.
2. `EventTypes`, `PaceQueue`, `ResolveEngine` with proofs — done.
3. `CarrierLookup`, `ResolveSpec`, `PortalResolve` with the refinement proof, and the proofs
   about its two channels — done.
4. `IdentityCache` with proofs — done.
5. The page and the three views over the engine and `FrameSplit` with proofs — done.
6. `TtlTicker` with proofs — done.
7. `Lifecycle` with proofs — done.
8. Composition of `PortalResolve` with `FrameSplit`, so that which frames a read loses is
   what the splitter makes of it, and with `ResolveEngine`, so that `Endings`, `Direct` and
   `Relayed` are derived instead of translated a second time.
9. Overlapping resolves in `CarrierLookup`, with every stream on one bus.
