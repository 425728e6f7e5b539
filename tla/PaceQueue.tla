----------------------------- MODULE PaceQueue ------------------------------
(***************************************************************************)
(* apps/portal/ui-src/src/engine/paceQueue.ts: the queue that spaces out   *)
(* the events of the trace stream so that a person can follow them.        *)
(*                                                                         *)
(* JavaScript runs one task at a time, so each call of the module's API    *)
(* and each timer callback is one action.  The callbacks it makes are      *)
(* recorded, in order, in pq.calls: the adapter that subscribes to the     *)
(* queue handles them in the same task.  A live timer is either the one    *)
(* that pendingTimer holds or one whose handle has been lost.  Delays are  *)
(* abstracted: any live timer may fire next.                               *)
(***************************************************************************)
EXTENDS EventTypes, Sequences, SequencesExt

CONSTANTS
  MaxPushes,   \* bound: messages pushed over the whole run
  MaxTimers    \* bound: timers with a lost handle at one time

ASSUME PaceAssumption == MaxPushes \in Nat /\ MaxTimers \in Nat

VARIABLES
  pq,     \* the module's state, and the callbacks made by the last action
  pace,   \* currentPace: "off" is real time, "paced" is any positive delay
  pushed  \* history: events accepted by push so far

pqVars == <<pq, pace, pushed>>

Call(what, e) == [what |-> what, ev |-> e]
NoEvent == [type |-> Raw, of |-> 0, n |-> 0]

PQInit ==
  /\ pq = [queue |-> << >>, pending |-> FALSE, orphans |-> 0,
           walking |-> FALSE, skip |-> FALSE, calls |-> << >>]
  /\ pace = "paced"
  /\ pushed = 0

\* How many timers will still call drain.
Live(p) == p.orphans + (IF p.pending THEN 1 ELSE 0)

-----------------------------------------------------------------------------
(* The functions of the module, as functions of its state.                  *)

Fanout(p, evs) ==
  [p EXCEPT !.calls = @ \o [i \in DOMAIN evs |-> Call("event", evs[i])]]

\* State subscribers hear of a change only.
SetWalking(p, next) ==
  IF p.walking = next THEN p
  ELSE [p EXCEPT !.walking = next,
                 !.calls = Append(@, Call(IF next THEN "walking" ELSE "idle", NoEvent))]

ClearPending(p) == [p EXCEPT !.pending = FALSE]

PreemptAndFlush(p) == [ClearPending(p) EXCEPT !.queue = << >>]

\* Assigning null to pendingTimer does not cancel the timer it held.
ForgetPending(p) ==
  [p EXCEPT !.orphans = @ + (IF p.pending THEN 1 ELSE 0), !.pending = FALSE]

\* Mutant: stops after one event in real time as well, with no timer.
DrainOneInRealTime(p) ==
  LET f == ForgetPending(p) IN
  IF f.queue = << >> THEN SetWalking([f EXCEPT !.skip = FALSE], FALSE)
  ELSE [Fanout(f, <<Head(f.queue)>>) EXCEPT
          !.queue = Tail(@), !.pending = (pace # "off" /\ ~f.skip)]

\* Fan out everything in real time, or one event and a timer for the next.
Drain(p) ==
  LET f == ForgetPending(p) IN
  IF f.queue = << >> THEN SetWalking([f EXCEPT !.skip = FALSE], FALSE)
  ELSE IF pace = "off" \/ f.skip
  THEN SetWalking([Fanout(f, f.queue) EXCEPT !.queue = << >>, !.skip = FALSE], FALSE)
  ELSE [Fanout(f, <<Head(f.queue)>>) EXCEPT !.queue = Tail(@), !.pending = TRUE]

\* Mutant: decides by walking instead of by the timer.
KickUnlessWalking(p) == IF p.walking THEN p ELSE Drain(SetWalking(p, TRUE))

Kick(p) == IF p.pending THEN p ELSE Drain(SetWalking(p, TRUE))

\* Mutant: the error overtakes what is queued.
ErrorFirst(p, e) ==
  LET f == Fanout(ClearPending(p), <<e>>) IN
  SetWalking([Fanout(f, f.queue) EXCEPT !.queue = << >>], FALSE)

\* Mutant: the error drops what is queued.
ErrorDropsQueue(p, e) ==
  SetWalking([Fanout(ClearPending(p), <<e>>) EXCEPT !.queue = << >>], FALSE)

\* An error first flushes to the subscribers what is still queued.
ErrorPreempts(p, e) ==
  LET f == Fanout(ClearPending(p), p.queue) IN
  SetWalking([Fanout(f, <<e>>) EXCEPT !.queue = << >>], FALSE)

\* A new resolve in the middle of a walk drops what is still queued; the
\* timer that drain has just set loses its handle.
Replay(p, e) ==
  LET d == Drain([PreemptAndFlush(p) EXCEPT !.queue = <<e>>]) IN
  SetWalking(ForgetPending(d), TRUE)

\* push, on the event unwrapped from its envelope.
Accepted(p, e) ==
  IF IsErr(e.type) THEN ErrorPreempts(p, e)
  ELSE IF e.type = Requested /\ p.walking THEN Replay(p, e)
  ELSE Kick([p EXCEPT !.queue = Append(@, e)])

\* Mutant: takes every frame for an event.
UnwrapBlindly(m) == [type |-> IF m.type = Raw THEN m.frame ELSE m.type, of |-> m.of]

\* A frame that is no JSON text leaves the envelope as it is.
Unwrap(m) ==
  [type |-> IF m.type = Raw /\ m.frame \in Types THEN m.frame ELSE m.type,
   of   |-> m.of]

-----------------------------------------------------------------------------
(* The module's entry points, each a task of the event loop.                *)

Fresh == [pq EXCEPT !.calls = << >>]

Push(m) ==
  LET u == Unwrap(m) IN
  /\ pushed < MaxPushes
  /\ pushed' = pushed + 1
  /\ pq' = Accepted(Fresh, [type |-> u.type, of |-> u.of, n |-> pushed + 1])
  /\ UNCHANGED pace

\* The timer that pendingTimer holds fires.
PendingFires ==
  /\ pq.pending
  /\ pq' = Drain(ClearPending(Fresh))
  /\ UNCHANGED <<pace, pushed>>

\* A timer without a handle fires; drain drops the handle of the other one.
OrphanFires ==
  /\ pq.orphans > 0
  /\ pq' = Drain([Fresh EXCEPT !.orphans = @ - 1])
  /\ UNCHANGED <<pace, pushed>>

TimerFires == PendingFires \/ OrphanFires

SetPace(v) ==
  /\ pace # v
  /\ pace' = v
  /\ pq' = Fresh
  /\ UNCHANGED pushed

Skip ==
  /\ pq.walking
  /\ pq' = Drain(ClearPending([Fresh EXCEPT !.skip = TRUE]))
  /\ UNCHANGED <<pace, pushed>>

\* The engine's reset preempts the queue; walking is left as it is.
Flush ==
  /\ pq' = PreemptAndFlush(Fresh)
  /\ UNCHANGED <<pace, pushed>>

\* What the trace stream may deliver; the frame "" is no JSON text.
AnyMessage == [type : Types, frame : Types \cup {""}, of : Int]

\* The module under every sequence of calls of its API.
PQNext(messages) ==
  \/ \E m \in messages : Push(m)
  \/ TimerFires
  \/ \E v \in {"off", "paced"} : SetPace(v)
  \/ Skip
  \/ Flush

PQSpec(messages) == PQInit /\ [][PQNext(messages)]_pqVars

-----------------------------------------------------------------------------
CallTypes == {"event", "walking", "idle"}

\* Every field keeps its type.
PQTypeOK ==
  /\ pq.pending \in BOOLEAN
  /\ pq.orphans \in Nat
  /\ pq.walking \in BOOLEAN
  /\ pq.skip \in BOOLEAN
  /\ pace \in {"off", "paced"}
  /\ pushed \in 0 .. MaxPushes
  /\ \A i \in DOMAIN pq.queue : pq.queue[i].type \in Types
  /\ \A i \in DOMAIN pq.calls : pq.calls[i].what \in CallTypes

\* The calls of the last action that fan out an event.
Fanned == {i \in DOMAIN pq.calls : pq.calls[i].what = "event"}

\* The queue always holds the latest events, in the order of their arrival,
\* and what an action fans out is the run of events just before it: an error
\* never overtakes mtls.peer_uri_seen, at any pace (paceQueue.ts:2-4,122-126).
ArrivalOrder ==
  LET left == pushed - Len(pq.queue) IN
  /\ \A i \in DOMAIN pq.queue : pq.queue[i].n = left + i
  /\ \A i \in Fanned : pq.calls[i].ev.n = left - Cardinality({j \in Fanned : j > i})

\* Whatever is queued has a timer that will fan it out: the inspector cannot
\* freeze in the middle of a resolve.
QueueIsDriven == pq.queue # << >> => Live(pq) > 0

\* Only a preemption drops events: every event that leaves the queue in any
\* other step is fanned out in that step.
Preempts ==
  \/ pushed' = pushed /\ pq' = PreemptAndFlush(Fresh)
  \/ pushed' > pushed /\ pq.walking /\ \E i \in DOMAIN pq'.calls :
        pq'.calls[i].what = "event" /\ pq'.calls[i].ev.type = Requested
NothingSkipped ==
  [][\/ Preempts
     \/ Cardinality(Fanned') = (pushed' - Len(pq'.queue)) - (pushed - Len(pq.queue))]_pqVars

\* Every event is eventually fanned out or preempted.
QueueDrains == pq.queue # << >> ~> pq.queue = << >>
=============================================================================
