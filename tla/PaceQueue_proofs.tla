--------------------------- MODULE PaceQueue_proofs ----------------------------
(***************************************************************************)
(* Proofs about the pace queue, for any messages, any number of them and   *)
(* any number of timers with a lost handle: events leave in the order of   *)
(* their arrival, none is skipped but by a preemption, and what is queued  *)
(* has a timer.  The lemmas follow the functions of the module: each says  *)
(* which events it fans out and what it leaves in the queue.               *)
(***************************************************************************)
EXTENDS PaceQueue, SequenceTheorems, FiniteSetTheorems, TLAPS

Events == [type : Types, of : Int, n : Int]

\* A state of the module paceQueue; its callbacks are left open.
Queue(p) ==
  /\ DOMAIN p = {"queue", "pending", "orphans", "walking", "skip", "calls"}
  /\ p.queue \in Seq(Events)
  /\ p.pending \in BOOLEAN
  /\ p.orphans \in Nat
  /\ p.walking \in BOOLEAN
  /\ p.skip \in BOOLEAN

Driven(p) == p.queue # << >> => p.pending \/ p.orphans > 0

\* The callbacks that fan out the events of a sequence, and those without one.
EventCalls(evs) == [i \in DOMAIN evs |-> Call("event", evs[i])]
StateCalls == {Call("walking", NoEvent), Call("idle", NoEvent)}
Calls == [what : CallTypes, ev : Events]

\* Callbacks that fan out evs, in this order and with no other callback among
\* them, the first of them being the one after position k.
CarriesFrom(calls, evs, k) ==
  /\ k + Len(evs) <= Len(calls)
  /\ \A i \in 1 .. Len(calls) :
       IF k < i /\ i <= k + Len(evs) THEN calls[i] = Call("event", evs[i - k])
                                     ELSE calls[i] \in StateCalls
Carries(calls, evs) ==
  /\ calls \in Seq(Calls) /\ evs \in Seq(Events)
  /\ \E k \in Nat : CarriesFrom(calls, evs, k)

-----------------------------------------------------------------------------
(* Callbacks.                                                               *)

LEMMA NoEventTyped == NoEvent \in Events /\ StateCalls \subseteq Calls
BY DEF NoEvent, Events, StateCalls, Calls, Call, CallTypes, Types

LEMMA EventCallsTyped ==
  ASSUME NEW evs \in Seq(Events)
  PROVE  /\ EventCalls(evs) \in Seq(Calls) /\ Len(EventCalls(evs)) = Len(evs)
         /\ \A i \in 1 .. Len(evs) : EventCalls(evs)[i] = Call("event", evs[i])
<1>1. \A i \in 1 .. Len(evs) : Call("event", evs[i]) \in Calls
  BY DEF Call, Calls, CallTypes
<1>. QED  BY <1>1 DEF EventCalls

LEMMA CarriesNothing ==
  ASSUME NEW calls, calls = << >>
  PROVE  Carries(calls, << >>)
<1>1. CarriesFrom(calls, << >>, 0)
  BY DEF CarriesFrom
<1>. QED  BY <1>1 DEF Carries

\* A callback without an event may come before or after the events.
LEMMA CarriesState ==
  ASSUME NEW calls, NEW evs, Carries(calls, evs), NEW c \in StateCalls
  PROVE  Carries(Append(calls, c), evs)
<1>1. PICK k \in Nat : CarriesFrom(calls, evs, k)
  BY DEF Carries
<1>2. calls \in Seq(Calls) /\ evs \in Seq(Events) /\ c \in Calls
  BY NoEventTyped DEF Carries
<1>. DEFINE d == Append(calls, c)
<1>3. /\ d \in Seq(Calls) /\ Len(d) = Len(calls) + 1 /\ d[Len(calls) + 1] = c
      /\ \A i \in 1 .. Len(calls) : d[i] = calls[i]
  BY <1>2, AppendProperties
<1>. HIDE DEF d
<1>4. Len(calls) \in Nat /\ Len(evs) \in Nat /\ k + Len(evs) <= Len(calls)
  BY <1>1, <1>2 DEF CarriesFrom
<1>5. ASSUME NEW i \in 1 .. Len(calls)
      PROVE  IF k < i /\ i <= k + Len(evs) THEN d[i] = Call("event", evs[i - k])
                                            ELSE d[i] \in StateCalls
  <2>1. d[i] = calls[i]
    BY <1>3
  <2>. QED  BY <1>1, <2>1 DEF CarriesFrom
<1>6. ASSUME NEW i \in 1 .. Len(d), i \notin 1 .. Len(calls)
      PROVE  i = Len(calls) + 1 /\ ~(i <= k + Len(evs))
  BY <1>3, <1>4, <1>6
<1>7. CarriesFrom(d, evs, k)
  <2>1. k + Len(evs) <= Len(d)
    BY <1>3, <1>4
  <2>. QED  BY <1>3, <1>5, <1>6, <2>1 DEF CarriesFrom
<1>. QED  BY <1>2, <1>3, <1>7 DEF Carries, d

\* Events fanned out after callbacks that carry none.
LEMMA CarriesEvents ==
  ASSUME NEW calls, Carries(calls, << >>), NEW evs \in Seq(Events)
  PROVE  Carries(calls \o EventCalls(evs), evs)
<1>1. calls \in Seq(Calls) /\ \A i \in 1 .. Len(calls) : calls[i] \in StateCalls
  <2>1. PICK k \in Nat : CarriesFrom(calls, << >>, k)
    BY DEF Carries
  <2>. QED  BY <2>1 DEF Carries, CarriesFrom
<1>. DEFINE b == EventCalls(evs)
            d == calls \o b
<1>2. /\ b \in Seq(Calls) /\ Len(b) = Len(evs)
      /\ \A i \in 1 .. Len(evs) : b[i] = Call("event", evs[i])
  BY EventCallsTyped
<1>. HIDE DEF b
<1>3. /\ d \in Seq(Calls) /\ Len(d) = Len(calls) + Len(b)
      /\ \A i \in 1 .. Len(calls) + Len(b) :
           d[i] = IF i <= Len(calls) THEN calls[i] ELSE b[i - Len(calls)]
  <2>1. calls \in Seq(Calls) /\ b \in Seq(Calls)
    BY <1>1, <1>2
  <2>. QED  BY <2>1, ConcatProperties
<1>. HIDE DEF d
<1>4. Len(calls) \in Nat /\ Len(evs) \in Nat
  BY <1>1
<1>5. ASSUME NEW i \in 1 .. Len(d), Len(calls) < i
      PROVE  d[i] = Call("event", evs[i - Len(calls)])
  BY <1>2, <1>3, <1>4, <1>5
<1>6. ASSUME NEW i \in 1 .. Len(d), ~(Len(calls) < i)
      PROVE  d[i] \in StateCalls
  BY <1>1, <1>3, <1>4, <1>6
<1>7. Len(calls) + Len(evs) <= Len(d) /\ \A i \in 1 .. Len(d) : i <= Len(calls) + Len(evs)
  BY <1>2, <1>3, <1>4
<1>8. CarriesFrom(d, evs, Len(calls))
  BY <1>5, <1>6, <1>7 DEF CarriesFrom
<1>. QED  BY <1>3, <1>4, <1>8 DEF Carries, d, b

\* Two runs of events, one right after the other.
LEMMA CarriesTwo ==
  ASSUME NEW evs \in Seq(Events), NEW e \in Events
  PROVE  EventCalls(evs) \o EventCalls(<<e>>) = EventCalls(Append(evs, e))
<1>. DEFINE a == EventCalls(evs)
            b == EventCalls(<<e>>)
            t == Append(evs, e)
            c == EventCalls(t)
<1>1. t \in Seq(Events) /\ <<e>> \in Seq(Events) /\ Len(t) = Len(evs) + 1
  OBVIOUS
<1>. HIDE DEF t
<1>2. /\ a \in Seq(Calls) /\ Len(a) = Len(evs)
      /\ \A i \in 1 .. Len(evs) : a[i] = Call("event", evs[i])
  BY EventCallsTyped
<1>3. b \in Seq(Calls) /\ Len(b) = 1 /\ b[1] = Call("event", e)
  <2>. DEFINE y == <<e>>
  <2>1. y \in Seq(Events) /\ Len(y) = 1 /\ y[1] = e
    OBVIOUS
  <2>. HIDE DEF y
  <2>2. Len(EventCalls(y)) = Len(y) /\ EventCalls(y) \in Seq(Calls) /\ EventCalls(y)[1] = Call("event", y[1])
    BY <2>1, EventCallsTyped
  <2>. QED  BY <2>1, <2>2 DEF y
<1>4. /\ c \in Seq(Calls) /\ Len(c) = Len(evs) + 1
      /\ \A i \in 1 .. Len(evs) + 1 : c[i] = Call("event", t[i])
  BY <1>1, EventCallsTyped
<1>. HIDE DEF a, b, c
<1>5. /\ a \o b \in Seq(Calls) /\ Len(a \o b) = Len(a) + Len(b)
      /\ \A i \in 1 .. Len(a) + Len(b) :
           (a \o b)[i] = IF i <= Len(a) THEN a[i] ELSE b[i - Len(a)]
  <2>1. a \in Seq(Calls) /\ b \in Seq(Calls)
    BY <1>2, <1>3
  <2>. QED  BY <2>1, ConcatProperties
<1>6. \A i \in 1 .. Len(evs) + 1 : (a \o b)[i] = c[i]
  <2>1. \A i \in 1 .. Len(evs) : t[i] = evs[i]
    BY DEF t
  <2>2. t[Len(evs) + 1] = e /\ Len(evs) \in Nat
    BY DEF t
  <2>. QED  BY <1>2, <1>3, <1>4, <1>5, <2>1, <2>2
<1>7. a \o b = c
  <2>1. Len(a \o b) = Len(c) /\ \A i \in 1 .. Len(a \o b) : (a \o b)[i] = c[i]
    BY <1>2, <1>3, <1>4, <1>5, <1>6
  <2>. QED  BY <1>4, <1>5, <2>1, SeqEqual
<1>. QED  BY <1>7 DEF a, b, c, t

-----------------------------------------------------------------------------
(* The functions of the module.                                             *)

LEMMA ForgetQueue ==
  ASSUME NEW p, Queue(p)
  PROVE  /\ Queue(ForgetPending(p)) /\ ForgetPending(p).queue = p.queue
         /\ ForgetPending(p).pending = FALSE /\ ForgetPending(p).calls = p.calls
<1>1. CASE p.pending
  BY <1>1 DEF Queue, ForgetPending
<1>2. CASE ~p.pending
  BY <1>2 DEF Queue, ForgetPending
<1>. QED  BY <1>1, <1>2

LEMMA ClearQueue ==
  ASSUME NEW p, Queue(p)
  PROVE  /\ Queue(ClearPending(p)) /\ ClearPending(p).queue = p.queue
         /\ ClearPending(p).calls = p.calls
BY DEF Queue, ClearPending

LEMMA FlushQueue ==
  ASSUME NEW p, Queue(p)
  PROVE  /\ Queue(PreemptAndFlush(p)) /\ PreemptAndFlush(p).queue = << >>
         /\ PreemptAndFlush(p).calls = p.calls
BY DEF Queue, ClearPending, PreemptAndFlush

LEMMA FanoutQueue ==
  ASSUME NEW p, Queue(p), NEW evs
  PROVE  /\ Queue(Fanout(p, evs))
         /\ Fanout(p, evs).queue = p.queue /\ Fanout(p, evs).pending = p.pending
         /\ Fanout(p, evs).orphans = p.orphans
         /\ Fanout(p, evs).calls = p.calls \o EventCalls(evs)
BY DEF Queue, Fanout, EventCalls

LEMMA WalkingQueue ==
  ASSUME NEW p, Queue(p), NEW next \in BOOLEAN
  PROVE  /\ Queue(SetWalking(p, next))
         /\ SetWalking(p, next).queue = p.queue /\ SetWalking(p, next).pending = p.pending
         /\ SetWalking(p, next).orphans = p.orphans
         /\ \A evs : Carries(p.calls, evs) => Carries(SetWalking(p, next).calls, evs)
<1>1. CASE p.walking = next
  BY <1>1 DEF Queue, SetWalking
<1>2. CASE p.walking # next
  <2>. DEFINE c == Call(IF next THEN "walking" ELSE "idle", NoEvent)
  <2>1. c \in StateCalls
    BY DEF StateCalls
  <2>. HIDE DEF c
  <2>2. SetWalking(p, next) = [p EXCEPT !.walking = next, !.calls = Append(p.calls, c)]
    BY <1>2 DEF SetWalking, c
  <2>3. SetWalking(p, next).calls = Append(p.calls, c)
    BY <2>2 DEF Queue
  <2>. QED  BY <2>1, <2>2, <2>3, CarriesState DEF Queue
<1>. QED  BY <1>1, <1>2

\* Drain fans out the events at the front of the queue, and for what it leaves
\* behind them it has set a timer.
LEMMA DrainSends ==
  ASSUME NEW p, Queue(p), Carries(p.calls, << >>)
  PROVE  /\ Queue(Drain(p))
         /\ Drain(p).queue # << >> => Drain(p).pending
         /\ \E evs : /\ Carries(Drain(p).calls, evs)
                     /\ p.queue = evs \o Drain(p).queue
                     /\ p.queue # << >> => evs # << >>
<1>. DEFINE f == ForgetPending(p)
<1>1. Queue(f) /\ f.queue = p.queue /\ f.pending = FALSE /\ f.calls = p.calls
  BY ForgetQueue
<1>2. p.queue \in Seq(Events)
  BY DEF Queue
<1>. HIDE DEF f
<1>3. CASE f.queue = << >>
  <2>. DEFINE g == [f EXCEPT !.skip = FALSE]
  <2>1. Queue(g) /\ g.queue = << >> /\ g.calls = p.calls
    BY <1>1, <1>3 DEF Queue
  <2>2. Drain(p) = SetWalking(g, FALSE)
    BY <1>3 DEF Drain, f
  <2>. HIDE DEF g
  <2>3. Carries(Drain(p).calls, << >>) /\ Queue(Drain(p)) /\ Drain(p).queue = << >>
    BY <2>1, <2>2, WalkingQueue
  <2>. QED  BY <1>1, <1>3, <2>3
<1>4. CASE f.queue # << >> /\ (pace = "off" \/ f.skip)
  <2>. DEFINE h == Fanout(f, f.queue)
              g == [h EXCEPT !.queue = << >>, !.skip = FALSE]
  <2>1. Queue(h) /\ h.calls = p.calls \o EventCalls(p.queue)
    <3>1. Queue(h) /\ h.calls = f.calls \o EventCalls(f.queue)
      BY <1>1, FanoutQueue
    <3>. QED  BY <1>1, <3>1
  <2>2. Drain(p) = SetWalking(g, FALSE)
    BY <1>4 DEF Drain, f
  <2>. HIDE DEF h
  <2>3. Queue(g) /\ g.queue = << >> /\ g.calls = p.calls \o EventCalls(p.queue)
    BY <2>1 DEF Queue
  <2>4. Carries(g.calls, p.queue)
    BY <1>2, <2>3, CarriesEvents
  <2>. HIDE DEF g
  <2>5. Carries(Drain(p).calls, p.queue) /\ Queue(Drain(p)) /\ Drain(p).queue = << >>
    BY <2>2, <2>3, <2>4, WalkingQueue
  <2>6. p.queue = p.queue \o << >>
    BY <1>2, ConcatEmptySeq
  <2>. QED  BY <2>5, <2>6
<1>5. CASE f.queue # << >> /\ ~(pace = "off" \/ f.skip)
  <2>. DEFINE x == <<Head(f.queue)>>
              h == Fanout(f, x)
              g == [h EXCEPT !.queue = Tail(@), !.pending = TRUE]
  <2>1. Queue(h) /\ h.queue = p.queue /\ h.calls = p.calls \o EventCalls(x)
    BY <1>1, FanoutQueue
  <2>2. x \in Seq(Events) /\ Tail(p.queue) \in Seq(Events)
    BY <1>1, <1>2, <1>5
  <2>3. p.queue = x \o Tail(p.queue)
    BY <1>1, <1>2, <1>5
  <2>4. Drain(p) = g
    BY <1>5 DEF Drain, f
  <2>5. x # << >>
    OBVIOUS
  <2>. HIDE DEF h, x
  <2>6. Queue(g) /\ g.queue = Tail(p.queue) /\ g.pending = TRUE /\ g.calls = p.calls \o EventCalls(x)
    BY <2>1, <2>2 DEF Queue
  <2>7. Carries(g.calls, x)
    BY <2>2, <2>6, CarriesEvents
  <2>. QED  BY <2>3, <2>4, <2>5, <2>6, <2>7
<1>. QED  BY <1>3, <1>4, <1>5

\* A new resolve in the middle of a walk: the first event of the new one is
\* fanned out at once, and nothing is queued.
LEMMA ReplaySends ==
  ASSUME NEW p, Queue(p), Carries(p.calls, << >>), NEW e \in Events
  PROVE  /\ Queue(Replay(p, e)) /\ Replay(p, e).queue = << >>
         /\ Carries(Replay(p, e).calls, <<e>>)
<1>. DEFINE f == PreemptAndFlush(p)
            q == [f EXCEPT !.queue = <<e>>]
<1>1. Queue(f) /\ f.calls = p.calls
  BY FlushQueue
<1>. HIDE DEF f
<1>2. Queue(q) /\ q.queue = <<e>> /\ q.calls = p.calls
  BY <1>1 DEF Queue
<1>3. Replay(p, e) = SetWalking(ForgetPending(Drain(q)), TRUE)
  BY DEF Replay, q, f
<1>. HIDE DEF q
<1>4. PICK evs : /\ Carries(Drain(q).calls, evs) /\ Queue(Drain(q))
                 /\ q.queue = evs \o Drain(q).queue /\ evs # << >>
  BY <1>2, DrainSends
<1>5. evs = <<e>> /\ Drain(q).queue = << >>
  <2>1. evs \in Seq(Events) /\ Drain(q).queue \in Seq(Events)
    BY <1>4 DEF Carries, Queue
  <2>2. Len(evs) + Len(Drain(q).queue) = 1 /\ Len(evs) > 0
    BY <1>2, <1>4, <2>1, ConcatProperties
  <2>3. Len(evs) = 1 /\ Len(Drain(q).queue) = 0
    <3>. DEFINE m == Len(evs)
                n == Len(Drain(q).queue)
    <3>1. m \in Nat /\ n \in Nat
      BY <2>1, LenProperties
    <3>2. m + n = 1 /\ m > 0
      BY <2>2
    <3>. HIDE DEF m, n
    <3>3. m = 1 /\ n = 0
      BY <3>1, <3>2
    <3>. QED  BY <3>3 DEF m, n
  <2>4. evs[1] = e
    BY <1>2, <1>4, <2>1, <2>3
  <2>. QED  BY <2>1, <2>3, <2>4
<1>6. /\ Queue(ForgetPending(Drain(q))) /\ ForgetPending(Drain(q)).queue = << >>
      /\ Carries(ForgetPending(Drain(q)).calls, <<e>>)
  BY <1>4, <1>5, ForgetQueue
<1>. QED  BY <1>3, <1>6, WalkingQueue

\* An error sends what is queued before it.
LEMMA ErrorSends ==
  ASSUME NEW p, Queue(p), p.calls = << >>, NEW e \in Events
  PROVE  /\ Queue(ErrorPreempts(p, e)) /\ ErrorPreempts(p, e).queue = << >>
         /\ Carries(ErrorPreempts(p, e).calls, Append(p.queue, e))
<1>. DEFINE c == ClearPending(p)
            f == Fanout(c, p.queue)
            h == Fanout(f, <<e>>)
            g == [h EXCEPT !.queue = << >>]
<1>1. Queue(c) /\ c.calls = << >>
  BY ClearQueue
<1>. HIDE DEF c
<1>2. Queue(f) /\ f.calls = << >> \o EventCalls(p.queue)
  <2>1. f.calls = c.calls \o EventCalls(p.queue) /\ Queue(f)
    BY <1>1, FanoutQueue
  <2>. QED  BY <1>1, <2>1
<1>. HIDE DEF f
<1>3. Queue(h) /\ h.calls = f.calls \o EventCalls(<<e>>)
  BY <1>2, FanoutQueue
<1>4. p.queue \in Seq(Events)
  BY DEF Queue
<1>5. h.calls = << >> \o EventCalls(Append(p.queue, e)) /\ Append(p.queue, e) \in Seq(Events)
  <2>1. EventCalls(p.queue) \in Seq(Calls) /\ EventCalls(Append(p.queue, e)) \in Seq(Calls)
    <3>1. Append(p.queue, e) \in Seq(Events)
      BY <1>4
    <3>. QED  BY <1>4, <3>1, EventCallsTyped
  <2>2. f.calls = EventCalls(p.queue)
    BY <1>2, <2>1, ConcatEmptySeq
  <2>3. h.calls = EventCalls(Append(p.queue, e))
    BY <1>3, <1>4, <2>2, CarriesTwo
  <2>. QED  BY <1>4, <2>1, <2>3, ConcatEmptySeq
<1>6. ErrorPreempts(p, e) = SetWalking(g, FALSE)
  BY DEF ErrorPreempts, h, f, c
<1>. HIDE DEF h
<1>7. Queue(g) /\ g.queue = << >> /\ g.calls = h.calls
  <2>1. Queue(h)
    BY <1>3
  <2>. QED  BY <2>1 DEF Queue
<1>8. Carries(g.calls, Append(p.queue, e))
  BY <1>5, <1>7, CarriesNothing, CarriesEvents
<1>. HIDE DEF g
<1>. QED  BY <1>6, <1>7, <1>8, WalkingQueue

\* What push does with an event that it has numbered: everything queued goes out
\* in front of it, or it replaces what was queued.
LEMMA AcceptedSends ==
  ASSUME NEW p, Queue(p), Driven(p), p.calls = << >>, NEW e \in Events
  PROVE  /\ Queue(Accepted(p, e)) /\ Driven(Accepted(p, e))
         /\ IsErr(e.type) => Accepted(p, e).queue = << >>
         /\ \E evs : /\ Carries(Accepted(p, e).calls, evs)
                     /\ \/ Append(p.queue, e) = evs \o Accepted(p, e).queue
                        \/ /\ e.type = Requested /\ p.walking
                           /\ evs = <<e>> /\ Accepted(p, e).queue = << >>
<1>1. p.queue \in Seq(Events) /\ Append(p.queue, e) \in Seq(Events)
  BY DEF Queue
<1>2. Carries(p.calls, << >>)
  BY CarriesNothing
<1>3. CASE IsErr(e.type)
  <2>1. Accepted(p, e) = ErrorPreempts(p, e)
    BY <1>3 DEF Accepted
  <2>2. /\ Queue(Accepted(p, e)) /\ Accepted(p, e).queue = << >>
        /\ Carries(Accepted(p, e).calls, Append(p.queue, e))
    BY <2>1, ErrorSends
  <2>3. Append(p.queue, e) = Append(p.queue, e) \o << >>
    BY <1>1, ConcatEmptySeq
  <2>. QED  BY <2>2, <2>3 DEF Driven
<1>4. CASE ~IsErr(e.type) /\ e.type = Requested /\ p.walking
  <2>1. Accepted(p, e) = Replay(p, e)
    BY <1>4 DEF Accepted
  <2>. QED  BY <1>2, <1>4, <2>1, ReplaySends DEF Driven
<1>5. CASE ~IsErr(e.type) /\ ~(e.type = Requested /\ p.walking)
  <2>. DEFINE q == [p EXCEPT !.queue = Append(@, e)]
  <2>1. Accepted(p, e) = Kick(q)
    BY <1>5 DEF Accepted
  <2>2. Queue(q) /\ q.queue = Append(p.queue, e) /\ q.calls = << >>
    BY <1>1 DEF Queue
  <2>. HIDE DEF q
  <2>3. CASE q.pending
    <3>1. Accepted(p, e) = q
      BY <2>1, <2>3 DEF Kick
    <3>2. Append(p.queue, e) = << >> \o q.queue
      BY <1>1, <2>2, ConcatEmptySeq
    <3>. QED  BY <1>5, <2>2, <2>3, <3>1, <3>2, CarriesNothing DEF Driven
  <2>4. CASE ~q.pending
    <3>. DEFINE w == SetWalking(q, TRUE)
    <3>1. Carries(q.calls, << >>)
      BY <2>2, CarriesNothing
    <3>2. Queue(w) /\ w.queue = q.queue /\ Carries(w.calls, << >>)
      BY <2>2, <3>1, WalkingQueue
    <3>3. Accepted(p, e) = Drain(w)
      BY <2>1, <2>4 DEF Kick
    <3>. HIDE DEF w
    <3>4. PICK evs : Carries(Drain(w).calls, evs) /\ w.queue = evs \o Drain(w).queue
      BY <3>2, DrainSends
    <3>5. Queue(Drain(w)) /\ Driven(Drain(w))
      BY <3>2, DrainSends DEF Driven
    <3>. QED  BY <1>5, <2>2, <3>2, <3>3, <3>4, <3>5
  <2>. QED  BY <2>3, <2>4
<1>. QED  BY <1>3, <1>4, <1>5

-----------------------------------------------------------------------------
(* The entry points of the module.                                          *)

\* The events of a sequence are the latest n, in the order of their arrival.
Numbered(s, n) == \A i \in 1 .. Len(s) : s[i].n = n - Len(s) + i

\* The state between two tasks: what was just fanned out and what is queued
\* behind it are the latest events.
PQInv ==
  /\ Queue(pq) /\ Driven(pq)
  /\ pace \in {"off", "paced"}
  /\ pushed \in 0 .. MaxPushes
  /\ \E evs : Carries(pq.calls, evs) /\ Numbered(evs \o pq.queue, pushed)

Numbers(m) == [type |-> Unwrap(m).type, of |-> Unwrap(m).of, n |-> pushed + 1]

\* The queue once the callbacks of the last action are forgotten.
LEMMA FreshQueue ==
  ASSUME Queue(pq)
  PROVE  /\ Queue(Fresh) /\ Fresh.queue = pq.queue /\ Fresh.walking = pq.walking
         /\ Fresh.pending = pq.pending /\ Fresh.orphans = pq.orphans
         /\ Fresh.calls = << >>
BY DEF Queue, Fresh

LEMMA UnwrapTyped ==
  ASSUME NEW m \in AnyMessage
  PROVE  Unwrap(m).type \in Types /\ Unwrap(m).of = m.of
BY DEF AnyMessage, Unwrap, Types

LEMMA PushSends ==
  ASSUME Queue(pq), Driven(pq), pushed \in Nat, NEW m \in AnyMessage, Push(m)
  PROVE  /\ Queue(pq') /\ Driven(pq') /\ Numbers(m) \in Events
         /\ IsErr(Numbers(m).type) => pq'.queue = << >>
         /\ \E evs : /\ Carries(pq'.calls, evs)
                     /\ \/ Append(pq.queue, Numbers(m)) = evs \o pq'.queue
                        \/ /\ Numbers(m).type = Requested /\ pq.walking
                           /\ evs = <<Numbers(m)>> /\ pq'.queue = << >>
<1>. DEFINE e == Numbers(m)
<1>1. e \in Events
  <2>1. Unwrap(m).type \in Types /\ Unwrap(m).of = m.of
    BY UnwrapTyped
  <2>2. m.of \in Int
    BY DEF AnyMessage
  <2>. QED  BY <2>1, <2>2 DEF Events, Numbers
<1>2. pq' = Accepted(Fresh, e)
  BY DEF Push, Numbers
<1>. HIDE DEF e
<1>3. Queue(Fresh) /\ Driven(Fresh) /\ Fresh.calls = << >> /\ Fresh.queue = pq.queue
      /\ Fresh.walking = pq.walking
  BY FreshQueue DEF Driven
<1>4. PICK evs : /\ Carries(Accepted(Fresh, e).calls, evs)
                 /\ \/ Append(Fresh.queue, e) = evs \o Accepted(Fresh, e).queue
                    \/ /\ e.type = Requested /\ Fresh.walking
                       /\ evs = <<e>> /\ Accepted(Fresh, e).queue = << >>
  BY <1>1, <1>3, AcceptedSends
<1>5. Queue(pq') /\ Driven(pq') /\ (IsErr(e.type) => pq'.queue = << >>)
  BY <1>1, <1>2, <1>3, AcceptedSends
<1>. QED  BY <1>1, <1>2, <1>3, <1>4, <1>5 DEF e

\* A timer fires, the user skips, or the pace changes.
LEMMA DrainsSend ==
  ASSUME Queue(pq), Driven(pq),
         TimerFires \/ Skip \/ \E v \in {"off", "paced"} : SetPace(v)
  PROVE  /\ Queue(pq') /\ Driven(pq') /\ pushed' = pushed
         /\ \E evs : Carries(pq'.calls, evs) /\ pq.queue = evs \o pq'.queue
<1>1. Queue(Fresh) /\ Driven(Fresh) /\ Fresh.calls = << >> /\ Fresh.queue = pq.queue
  BY FreshQueue DEF Driven
<1>2. Carries(Fresh.calls, << >>)
  BY <1>1, CarriesNothing
<1>3. ASSUME NEW p, Queue(p), p.calls = << >>, p.queue = pq.queue, pq' = Drain(p)
      PROVE  /\ Queue(pq') /\ Driven(pq')
             /\ \E evs : Carries(pq'.calls, evs) /\ pq.queue = evs \o pq'.queue
  <2>1. Carries(p.calls, << >>)
    BY <1>3, CarriesNothing
  <2>. QED  BY <1>3, <2>1, DrainSends DEF Driven
<1>4. CASE PendingFires
  <2>1. Queue(ClearPending(Fresh)) /\ ClearPending(Fresh).queue = pq.queue
        /\ ClearPending(Fresh).calls = << >>
    BY <1>1, ClearQueue
  <2>. QED  BY <1>3, <1>4, <2>1 DEF PendingFires
<1>5. CASE OrphanFires
  <2>. DEFINE q == [Fresh EXCEPT !.orphans = @ - 1]
  <2>1. Queue(q) /\ q.queue = pq.queue /\ q.calls = << >>
    BY <1>1, <1>5, FreshQueue DEF Queue, OrphanFires
  <2>2. pq' = Drain(q) /\ pushed' = pushed
    BY <1>5 DEF OrphanFires
  <2>. HIDE DEF q
  <2>. QED  BY <1>3, <2>1, <2>2
<1>6. CASE Skip
  <2>. DEFINE f == [Fresh EXCEPT !.skip = TRUE]
              q == ClearPending(f)
  <2>1. Queue(f) /\ f.queue = pq.queue /\ f.calls = << >>
    BY <1>1 DEF Queue
  <2>2. pq' = Drain(q) /\ pushed' = pushed
    BY <1>6 DEF Skip
  <2>. HIDE DEF f
  <2>3. Queue(q) /\ q.queue = pq.queue /\ q.calls = << >>
    BY <2>1, ClearQueue
  <2>. HIDE DEF q
  <2>. QED  BY <1>3, <2>2, <2>3
<1>7. CASE \E v \in {"off", "paced"} : SetPace(v)
  <2>1. pq' = Fresh /\ pushed' = pushed
    BY <1>7 DEF SetPace
  <2>2. pq.queue = << >> \o pq.queue
    BY ConcatEmptySeq DEF Queue
  <2>. QED  BY <1>1, <1>2, <2>1, <2>2
<1>. QED  BY <1>4, <1>5, <1>6, <1>7 DEF TimerFires

LEMMA FlushSends ==
  ASSUME Queue(pq), Flush
  PROVE  /\ Queue(pq') /\ Driven(pq') /\ pushed' = pushed
         /\ pq'.queue = << >> /\ Carries(pq'.calls, << >>)
<1>1. Queue(Fresh) /\ Fresh.calls = << >>
  BY FreshQueue
<1>. QED  BY <1>1, FlushQueue, CarriesNothing DEF Flush, Driven

\* Numbers of what is still queued, of one more, and of the latest alone.
LEMMA StillNumbered ==
  ASSUME NEW evs \in Seq(Events), NEW s \in Seq(Events), NEW n \in Nat, Numbered(evs \o s, n)
  PROVE  Numbered(s, n)
<1>. DEFINE a == Len(evs)
            b == Len(s)
            t == evs \o s
<1>1. /\ t \in Seq(Events) /\ Len(t) = a + b
      /\ \A i \in 1 .. a + b : t[i] = IF i <= a THEN evs[i] ELSE s[i - a]
  BY ConcatProperties
<1>2. a \in Nat /\ b \in Nat /\ \A i \in 1 .. b : s[i] \in Events
  OBVIOUS
<1>3. \A i \in 1 .. a + b : t[i].n = n - (a + b) + i
  BY <1>1 DEF Numbered
<1>. HIDE DEF t, a, b
<1>4. ASSUME NEW i \in 1 .. b PROVE s[i].n = n - b + i
  <2>1. t[a + i] = s[i] /\ a + i \in 1 .. a + b
    BY <1>1, <1>2
  <2>2. s[i].n = n - (a + b) + (a + i)
    BY <1>3, <2>1
  <2>. QED  BY <1>2, <2>2
<1>. QED  BY <1>4 DEF Numbered, b

LEMMA OneMoreNumbered ==
  ASSUME NEW s \in Seq(Events), NEW n \in Nat, Numbered(s, n), NEW e \in Events, e.n = n + 1
  PROVE  Numbered(Append(s, e), n + 1) /\ Numbered(<<e>>, n + 1)
<1>. DEFINE t == Append(s, e)
            b == Len(s)
<1>1. Len(t) = b + 1 /\ t[b + 1] = e /\ b \in Nat /\ \A i \in 1 .. b : t[i] = s[i]
  OBVIOUS
<1>2. \A i \in 1 .. b : s[i].n = n - b + i
  BY DEF Numbered
<1>. HIDE DEF t, b
<1>3. \A i \in 1 .. b + 1 : t[i].n = (n + 1) - (b + 1) + i
  <2>1. ASSUME NEW i \in 1 .. b PROVE t[i].n = (n + 1) - (b + 1) + i
    BY <1>1, <1>2
  <2>2. t[b + 1].n = (n + 1) - (b + 1) + (b + 1)
    BY <1>1
  <2>. QED  BY <1>1, <2>1, <2>2
<1>4. Numbered(t, n + 1)
  BY <1>1, <1>3 DEF Numbered
<1>5. Numbered(<<e>>, n + 1)
  BY DEF Numbered
<1>. QED  BY <1>4, <1>5 DEF t

\* Every call of the API, and every timer, keeps the invariant.
LEMMA QueueSteps ==
  ASSUME PQInv, NEW messages \in SUBSET AnyMessage, PQNext(messages)
  PROVE  PQInv'
<1>1. Queue(pq) /\ Driven(pq) /\ pushed \in 0 .. MaxPushes /\ pushed \in Nat
  BY DEF PQInv
<1>2. Numbered(pq.queue, pushed) /\ pq.queue \in Seq(Events)
  <2>1. PICK evs : Carries(pq.calls, evs) /\ Numbered(evs \o pq.queue, pushed)
    BY DEF PQInv
  <2>. QED  BY <1>1, <2>1, StillNumbered DEF Carries, Queue
<1>3. ASSUME NEW m \in AnyMessage, Push(m) PROVE PQInv'
  <2>1. pushed' = pushed + 1 /\ pushed' \in 0 .. MaxPushes /\ pace' = pace
    BY <1>1, <1>3, PaceAssumption DEF Push
  <2>2. PICK evs : /\ Carries(pq'.calls, evs)
                   /\ \/ Append(pq.queue, Numbers(m)) = evs \o pq'.queue
                      \/ evs = <<Numbers(m)>> /\ pq'.queue = << >>
    BY <1>1, <1>3, PushSends
  <2>3. Queue(pq') /\ Driven(pq') /\ Numbers(m) \in Events /\ Numbers(m).n = pushed + 1
    BY <1>1, <1>3, PushSends DEF Numbers
  <2>4. Numbered(Append(pq.queue, Numbers(m)), pushed + 1) /\ Numbered(<<Numbers(m)>>, pushed + 1)
    BY <1>1, <1>2, <2>3, OneMoreNumbered
  <2>5. <<Numbers(m)>> \o << >> = <<Numbers(m)>>
    BY <2>3
  <2>6. Numbered(evs \o pq'.queue, pushed')
    BY <2>1, <2>2, <2>4, <2>5
  <2>. QED  BY <2>1, <2>2, <2>3, <2>6 DEF PQInv
<1>4. CASE TimerFires \/ Skip \/ \E v \in {"off", "paced"} : SetPace(v)
  <2>1. PICK evs : Carries(pq'.calls, evs) /\ pq.queue = evs \o pq'.queue
    BY <1>1, <1>4, DrainsSend
  <2>2. Queue(pq') /\ Driven(pq') /\ pushed' = pushed
    BY <1>1, <1>4, DrainsSend
  <2>3. pace' \in {"off", "paced"}
    BY <1>4 DEF PQInv, TimerFires, PendingFires, OrphanFires, Skip, SetPace
  <2>4. Numbered(evs \o pq'.queue, pushed')
    BY <1>2, <2>1, <2>2
  <2>. QED  BY <1>1, <2>1, <2>2, <2>3, <2>4 DEF PQInv
<1>5. CASE Flush
  <2>1. /\ Queue(pq') /\ Driven(pq') /\ pushed' = pushed /\ pace' = pace
        /\ pq'.queue = << >> /\ Carries(pq'.calls, << >>)
    BY <1>1, <1>5, FlushSends DEF Flush
  <2>2. Numbered(<< >> \o << >>, pushed')
    BY DEF Numbered
  <2>. QED  BY <1>1, <2>1, <2>2 DEF PQInv
<1>. QED  BY <1>3, <1>4, <1>5 DEF PQNext

-----------------------------------------------------------------------------
(* What holds in every state of the queue, and what no step does.           *)

LEMMA IntervalSize ==
  ASSUME NEW k \in Int, NEW l \in Nat
  PROVE  Cardinality(k + 1 .. k + l) = l
<1>. DEFINE a == k + 1
            b == k + l
<1>1. a \in Int /\ b \in Int
  OBVIOUS
<1>. HIDE DEF a, b
<1>2. Cardinality(a .. b) = IF a > b THEN 0 ELSE b - a + 1
  BY <1>1, FS_Interval
<1>. QED  BY <1>2 DEF a, b

\* Where among the callbacks the events are.
EventsOf(calls) == {i \in DOMAIN calls : calls[i].what = "event"}

\* The calls with events are as many as the events, one after the other.
LEMMA FannedBlock ==
  ASSUME NEW calls, NEW evs, Carries(calls, evs), NEW k \in Nat, CarriesFrom(calls, evs, k)
  PROVE  /\ Cardinality(EventsOf(calls)) = Len(evs)
         /\ EventsOf(calls) = k + 1 .. k + Len(evs)
         /\ \A i \in EventsOf(calls) : calls[i] = Call("event", evs[i - k])
<1>. DEFINE F == EventsOf(calls)
<1>0. F = {i \in DOMAIN calls : calls[i].what = "event"}
  BY DEF EventsOf
<1>. HIDE DEF F
<1>1. calls \in Seq(Calls) /\ evs \in Seq(Events) /\ Len(evs) \in Nat /\ DOMAIN calls = 1 .. Len(calls)
  BY DEF Carries
<1>2. \A c \in StateCalls : c.what # "event"
  BY DEF StateCalls, Call
<1>3. \A ev : Call("event", ev).what = "event"
  BY DEF Call
<1>4. F = k + 1 .. k + Len(evs)
  <2>1. ASSUME NEW i \in 1 .. Len(calls) PROVE i \in F <=> i \in k + 1 .. k + Len(evs)
    BY <1>0, <1>1, <1>2, <1>3 DEF CarriesFrom
  <2>2. k + 1 .. k + Len(evs) \subseteq 1 .. Len(calls)
    BY <1>1 DEF CarriesFrom
  <2>. QED  BY <1>0, <1>1, <2>1, <2>2
<1>5. ASSUME NEW i \in F PROVE calls[i] = Call("event", evs[i - k])
  <2>1. i \in 1 .. Len(calls) /\ k < i /\ i <= k + Len(evs)
    BY <1>1, <1>4 DEF CarriesFrom
  <2>. QED  BY <2>1 DEF CarriesFrom
<1>6. Cardinality(F) = Len(evs)
  <2>. DEFINE l == Len(evs)
  <2>1. l \in Nat /\ k \in Int /\ F = k + 1 .. k + l
    BY <1>1, <1>4
  <2>. HIDE DEF l
  <2>2. Cardinality(k + 1 .. k + l) = l
    BY <2>1, IntervalSize
  <2>. QED  BY <2>1, <2>2 DEF l
<1>. QED  BY <1>4, <1>5, <1>6 DEF F

LEMMA InvOrders == PQInv => ArrivalOrder
<1>. SUFFICES ASSUME PQInv PROVE ArrivalOrder
  OBVIOUS
<1>. DEFINE q == pq.queue
            b == Len(q)
<1>1. PICK evs : Carries(pq.calls, evs) /\ Numbered(evs \o q, pushed)
  BY DEF PQInv
<1>2. evs \in Seq(Events) /\ q \in Seq(Events) /\ pushed \in Nat
  BY <1>1 DEF PQInv, Carries, Queue
<1>. DEFINE a == Len(evs)
            t == evs \o q
<1>3. /\ Len(t) = a + b /\ a \in Nat /\ b \in Nat /\ DOMAIN q = 1 .. b
      /\ \A i \in 1 .. a : t[i] = evs[i]
  BY <1>2
<1>4. Numbered(q, pushed)
  BY <1>1, <1>2, StillNumbered
<1>5. PICK k \in Nat : CarriesFrom(pq.calls, evs, k)
  BY <1>1 DEF Carries
<1>6. /\ Fanned = k + 1 .. k + a
      /\ \A i \in Fanned : pq.calls[i] = Call("event", evs[i - k])
  <2>. DEFINE c == pq.calls
  <2>1. Carries(c, evs) /\ CarriesFrom(c, evs, k) /\ Fanned = EventsOf(c)
    BY <1>1, <1>5 DEF Fanned, EventsOf
  <2>. HIDE DEF c
  <2>2. /\ EventsOf(c) = k + 1 .. k + Len(evs)
        /\ \A i \in EventsOf(c) : c[i] = Call("event", evs[i - k])
    BY <2>1, FannedBlock
  <2>. QED  BY <2>1, <2>2 DEF c
<1>7. \A i \in 1 .. a + b : t[i].n = pushed - (a + b) + i
  BY <1>1, <1>3 DEF Numbered
<1>. HIDE DEF t, a, b
<1>8. \A i \in 1 .. a : evs[i].n = pushed - (a + b) + i
  <2>. SUFFICES ASSUME NEW i \in 1 .. a PROVE evs[i].n = pushed - (a + b) + i
    OBVIOUS
  <2>1. i \in 1 .. a + b
    BY <1>3
  <2>. QED  BY <1>3, <1>7, <2>1
<1>9. ASSUME NEW i \in DOMAIN q PROVE q[i].n = (pushed - b) + i
  <2>1. q[i].n = pushed - b + i
    BY <1>3, <1>4 DEF Numbered, b
  <2>. QED  BY <2>1
<1>10. ASSUME NEW i \in Fanned
       PROVE  pq.calls[i].ev.n = (pushed - b) - Cardinality({j \in Fanned : j > i})
  <2>. DEFINE l == (k + a) - i
  <2>1. i \in Int /\ l \in Nat /\ i - k \in 1 .. a /\ i + l = k + a
    BY <1>3, <1>6
  <2>2. {j \in Fanned : j > i} = i + 1 .. k + a
    BY <1>3, <1>6, <2>1
  <2>. HIDE DEF l
  <2>3. Cardinality(i + 1 .. i + l) = l
    BY <2>1, IntervalSize
  <2>4. Cardinality({j \in Fanned : j > i}) = l
    BY <2>1, <2>2, <2>3
  <2>5. pq.calls[i].ev = evs[i - k]
    <3>1. pq.calls[i] = Call("event", evs[i - k])
      BY <1>6
    <3>2. Call("event", evs[i - k]).ev = evs[i - k]
      BY DEF Call
    <3>. QED  BY <3>1, <3>2
  <2>6. evs[i - k].n = pushed - (a + b) + (i - k)
    BY <1>8, <2>1
  <2>7. pushed - (a + b) + (i - k) = (pushed - b) - l
    BY <1>2, <1>3, <2>1
  <2>. QED  BY <2>4, <2>5, <2>6, <2>7
<1>. QED  BY <1>9, <1>10 DEF ArrivalOrder, b

LEMMA InvDrives == PQInv => QueueIsDriven
BY DEF PQInv, Queue, Driven, QueueIsDriven, Live

LEMMA InvTypes == PQInv => PQTypeOK
<1>. SUFFICES ASSUME PQInv PROVE PQTypeOK
  OBVIOUS
<1>1. Queue(pq) /\ pace \in {"off", "paced"} /\ pushed \in 0 .. MaxPushes
  BY DEF PQInv
<1>2. pq.calls \in Seq(Calls)
  BY DEF PQInv, Carries
<1>3. ASSUME NEW i \in DOMAIN pq.calls PROVE pq.calls[i].what \in CallTypes
  <2>1. pq.calls[i] \in Calls
    BY <1>2
  <2>. QED  BY <2>1 DEF Calls
<1>4. ASSUME NEW i \in DOMAIN pq.queue PROVE pq.queue[i].type \in Types
  <2>1. pq.queue[i] \in Events
    BY <1>1 DEF Queue
  <2>. QED  BY <2>1 DEF Events
<1>. QED  BY <1>1, <1>3, <1>4 DEF Queue, PQTypeOK

\* No step but a preemption lets an event leave unseen.
LEMMA StepSkipsNothing ==
  ASSUME PQInv, NEW messages \in SUBSET AnyMessage, PQNext(messages)
  PROVE  \/ Preempts
         \/ Cardinality(Fanned') = (pushed' - Len(pq'.queue)) - (pushed - Len(pq.queue))
<1>1. /\ Queue(pq) /\ Driven(pq) /\ pushed \in Nat /\ pq.queue \in Seq(Events)
      /\ Len(pq.queue) \in Nat
  BY DEF PQInv, Queue
<1>2. ASSUME NEW evs, Carries(pq'.calls, evs)
      PROVE  Cardinality(Fanned') = Len(evs)
  <2>. DEFINE calls == pq'.calls
  <2>1. Fanned' = EventsOf(calls)
    BY DEF Fanned, EventsOf
  <2>. HIDE DEF calls
  <2>2. Carries(calls, evs) /\ \E k \in Nat : CarriesFrom(calls, evs, k)
    BY <1>2 DEF calls, Carries
  <2>3. Cardinality(EventsOf(calls)) = Len(evs)
    BY <2>2, FannedBlock
  <2>. QED  BY <2>1, <2>3
<1>3. ASSUME NEW m \in AnyMessage, Push(m)
      PROVE  \/ Preempts
             \/ Cardinality(Fanned') = (pushed' - Len(pq'.queue)) - (pushed - Len(pq.queue))
  <2>1. pushed' = pushed + 1
    BY <1>3 DEF Push
  <2>2. Queue(pq') /\ Numbers(m) \in Events /\ Len(pq'.queue) \in Nat
    BY <1>1, <1>3, PushSends DEF Queue
  <2>3. PICK evs : /\ Carries(pq'.calls, evs)
                   /\ \/ Append(pq.queue, Numbers(m)) = evs \o pq'.queue
                      \/ /\ Numbers(m).type = Requested /\ pq.walking
                         /\ evs = <<Numbers(m)>> /\ pq'.queue = << >>
    BY <1>1, <1>3, PushSends
  <2>4. CASE Append(pq.queue, Numbers(m)) = evs \o pq'.queue
    <3>1. Len(pq.queue) + 1 = Len(evs) + Len(pq'.queue) /\ Len(evs) \in Nat
      <4>1. evs \in Seq(Events) /\ pq'.queue \in Seq(Events)
        BY <2>2, <2>3 DEF Carries, Queue
      <4>2. Len(evs \o pq'.queue) = Len(evs) + Len(pq'.queue) /\ Len(evs) \in Nat
        BY <4>1, ConcatProperties
      <4>3. Len(Append(pq.queue, Numbers(m))) = Len(pq.queue) + 1
        BY <1>1, <2>2
      <4>. QED  BY <2>4, <4>2, <4>3
    <3>2. Cardinality(Fanned') = Len(evs)
      BY <1>2, <2>3
    <3>. DEFINE a == Len(evs)
                b == Len(pq.queue)
                c == Len(pq'.queue)
    <3>3. b + 1 = a + c /\ a \in Nat /\ b \in Nat /\ c \in Nat
      BY <1>1, <2>2, <3>1
    <3>. HIDE DEF a, b, c
    <3>4. a = (pushed' - c) - (pushed - b)
      BY <1>1, <2>1, <3>3
    <3>. QED  BY <3>2, <3>4 DEF a, b, c
  <2>5. CASE /\ Numbers(m).type = Requested /\ pq.walking
             /\ evs = <<Numbers(m)>>
    <3>1. \E i \in DOMAIN pq'.calls : pq'.calls[i] = Call("event", Numbers(m))
      <4>1. PICK k \in Nat : CarriesFrom(pq'.calls, <<Numbers(m)>>, k)
        BY <2>3, <2>5 DEF Carries
      <4>2. k + 1 <= Len(pq'.calls) /\ Len(pq'.calls) \in Nat /\ DOMAIN pq'.calls = 1 .. Len(pq'.calls)
        BY <2>3, <4>1 DEF CarriesFrom, Carries
      <4>3. pq'.calls[k + 1] = Call("event", <<Numbers(m)>>[(k + 1) - k])
        BY <4>1, <4>2 DEF CarriesFrom
      <4>4. (k + 1) - k = 1
        OBVIOUS
      <4>. QED  BY <4>2, <4>3, <4>4
    <3>2. \E i \in DOMAIN pq'.calls : pq'.calls[i].what = "event" /\ pq'.calls[i].ev.type = Requested
      BY <2>5, <3>1 DEF Call
    <3>3. pushed' > pushed
      BY <1>1, <2>1
    <3>. QED  BY <2>5, <3>2, <3>3 DEF Preempts
  <2>. QED  BY <2>3, <2>4, <2>5
<1>4. CASE TimerFires \/ Skip \/ \E v \in {"off", "paced"} : SetPace(v)
  <2>1. PICK evs : Carries(pq'.calls, evs) /\ pq.queue = evs \o pq'.queue
    BY <1>1, <1>4, DrainsSend
  <2>2. Queue(pq') /\ pushed' = pushed
    BY <1>1, <1>4, DrainsSend
  <2>3. evs \in Seq(Events) /\ pq'.queue \in Seq(Events)
    BY <2>1, <2>2 DEF Carries, Queue
  <2>4. Len(pq.queue) = Len(evs) + Len(pq'.queue) /\ Len(evs) \in Nat /\ Len(pq'.queue) \in Nat
    BY <2>1, <2>3, ConcatProperties
  <2>. QED  BY <1>1, <1>2, <2>1, <2>2, <2>4
<1>5. CASE Flush
  BY <1>5 DEF Flush, Preempts
<1>. QED  BY <1>3, <1>4, <1>5 DEF PQNext

\* The invariant and its steps, for any set of messages.
LEMMA Inductive ==
  ASSUME NEW messages \in SUBSET AnyMessage
  PROVE  /\ PQInit => PQInv
         /\ PQInv /\ [PQNext(messages)]_pqVars => PQInv'
<1>1. PQInit => PQInv
  <2>. SUFFICES ASSUME PQInit PROVE PQInv
    OBVIOUS
  <2>1. Queue(pq) /\ Driven(pq)
    BY DEF PQInit, Queue, Driven
  <2>2. pq.calls = << >> /\ pq.queue = << >> /\ pushed = 0 /\ pace = "paced"
    BY DEF PQInit
  <2>3. Carries(pq.calls, << >>)
    BY <2>2, CarriesNothing
  <2>4. Numbered(<< >> \o << >>, 0)
    BY DEF Numbered
  <2>. QED  BY <2>1, <2>2, <2>3, <2>4, PaceAssumption DEF PQInv
<1>2. PQInv /\ UNCHANGED pqVars => PQInv'
  BY DEF PQInv, pqVars
<1>. QED  BY <1>1, <1>2, QueueSteps

\* Under any messages, events are fanned out in the order of their arrival: an
\* error never overtakes the URI of the peer (paceQueue.ts:122-126).
THEOREM OrderKept ==
  ASSUME NEW messages \in SUBSET AnyMessage
  PROVE  PQSpec(messages) => []ArrivalOrder
<1>1. PQInit => PQInv
  BY Inductive
<1>2. PQInv /\ [PQNext(messages)]_pqVars => PQInv'
  BY Inductive
<1>. QED  BY <1>1, <1>2, InvOrders, PTL DEF PQSpec

\* Under any messages, only a preemption drops an event.
THEOREM NoneSkipped ==
  ASSUME NEW messages \in SUBSET AnyMessage
  PROVE  PQSpec(messages) => NothingSkipped
<1>1. PQInit => PQInv
  BY Inductive
<1>2. PQInv /\ [PQNext(messages)]_pqVars => PQInv'
  BY Inductive
<1>3. PQInv /\ [PQNext(messages)]_pqVars =>
        [\/ Preempts
         \/ Cardinality(Fanned') = (pushed' - Len(pq'.queue)) - (pushed - Len(pq.queue))]_pqVars
  BY StepSkipsNothing
<1>. QED  BY <1>1, <1>2, <1>3, PTL DEF PQSpec, NothingSkipped

\* Whatever is queued has a timer that will fan it out.
THEOREM AlwaysDriven ==
  ASSUME NEW messages \in SUBSET AnyMessage
  PROVE  PQSpec(messages) => []QueueIsDriven
<1>1. PQInit => PQInv
  BY Inductive
<1>2. PQInv /\ [PQNext(messages)]_pqVars => PQInv'
  BY Inductive
<1>. QED  BY <1>1, <1>2, InvDrives, PTL DEF PQSpec

\* Every field keeps its type.
THEOREM TypeCorrect ==
  ASSUME NEW messages \in SUBSET AnyMessage
  PROVE  PQSpec(messages) => []PQTypeOK
<1>1. PQInit => PQInv
  BY Inductive
<1>2. PQInv /\ [PQNext(messages)]_pqVars => PQInv'
  BY Inductive
<1>. QED  BY <1>1, <1>2, InvTypes, PTL DEF PQSpec
=============================================================================
