------------------------ MODULE ResolveEngine_proofs -------------------------
(***************************************************************************)
(* Proofs about the engine and the views over it, for any number of        *)
(* resolves of this page and of others, of lost events and of lost timers. *)
(* The engine is a client of the pace queue, so what PaceQueue_proofs      *)
(* shows of the queue holds under it.  What the hook makes of the          *)
(* callbacks of one task is a recursion over their sequence; a set of      *)
(* states that every callback keeps is kept by all of them, which is       *)
(* proved once, by induction over their number.  Settled resolves, the     *)
(* stage and the peer's URI are such sets.                                 *)
(* The last four sections are about the views: that they agree with each   *)
(* other does not rest on what the engine does, and is shown for every     *)
(* status, stage and count that the hook could hand them; what they claim  *)
(* does, and is shown of every behaviour of the engine.                    *)
(***************************************************************************)
EXTENDS InspectorViews, PaceQueue_proofs, WellFoundedInduction

-----------------------------------------------------------------------------
(* Induction, and the recursion of Handled.                                 *)

LEMMA LeastNatural ==
  ASSUME NEW T \in SUBSET Nat, T # {}
  PROVE  \E x \in T : \A y \in T : x <= y
<1>. DEFINE R == OpToRel(<, Nat)
<1>1. IsWellFoundedOn(R, Nat)
  BY NatLessThanWellFounded
<1>2. \A x, y \in Nat : <<y, x>> \in R <=> y < x
  BY DEF OpToRel
<1>. HIDE DEF R
<1>3. PICK x \in T : \A y \in T : ~ (<<y, x>> \in R)
  BY <1>1, WFMin
<1>4. ASSUME NEW y \in T PROVE x <= y
  <2>1. x \in Nat /\ y \in Nat /\ ~(y < x)
    BY <1>2, <1>3
  <2>. QED  BY <2>1
<1>. QED  BY <1>4

LEMMA SetInduction ==
  ASSUME NEW S, 0 \in S, \A n \in Nat : n \in S => n + 1 \in S
  PROVE  \A n \in Nat : n \in S
<1>. SUFFICES ASSUME Nat \ S # {} PROVE FALSE
  OBVIOUS
<1>1. PICK n \in Nat \ S : \A m \in Nat \ S : n <= m
  BY LeastNatural
<1>2. n - 1 \in Nat /\ n - 1 \in S
  BY <1>1
<1>. QED  BY <1>1, <1>2

\* The states between the callbacks of one task.
Between(a, calls, n) ==
  a = [i \in 0 .. n |-> IF i = 0 THEN ui ELSE OnCall(a[i - 1], calls[i])]

LEMMA HandledSteps ==
  ASSUME NEW calls, Len(calls) \in Nat
  PROVE  \E a : Between(a, calls, Len(calls)) /\ Handled(calls) = a[Len(calls)]
<1>. DEFINE S == {n \in Nat : \E a : Between(a, calls, n)}
<1>1. 0 \in S
  <2>1. Between([i \in 0 .. 0 |-> ui], calls, 0)
    BY DEF Between
  <2>. QED  BY <2>1
<1>2. ASSUME NEW n \in Nat, n \in S PROVE n + 1 \in S
  <2>1. PICK a : Between(a, calls, n)
    BY <1>2
  <2>. DEFINE b == [i \in 0 .. n + 1 |-> IF i <= n THEN a[i] ELSE OnCall(a[n], calls[n + 1])]
  <2>2. ASSUME NEW i \in 0 .. n + 1
        PROVE  b[i] = IF i = 0 THEN ui ELSE OnCall(b[i - 1], calls[i])
    <3>1. CASE i <= n
      BY <2>1, <3>1 DEF Between
    <3>2. CASE i = n + 1
      BY <3>2
    <3>. QED  BY <3>1, <3>2
  <2>3. b = [i \in 0 .. n + 1 |-> b[i]]
    OBVIOUS
  <2>. HIDE DEF b
  <2>4. Between(b, calls, n + 1)
    BY <2>2, <2>3 DEF Between
  <2>. QED  BY <2>4
<1>. HIDE DEF S
<1>3. Len(calls) \in S
  BY <1>1, <1>2, SetInduction
<1>. DEFINE g == CHOOSE a : Between(a, calls, Len(calls))
<1>4. Between(g, calls, Len(calls))
  BY <1>3 DEF S
<1>5. Handled(calls) = g[Len(calls)]
  BY DEF Handled, Between
<1>. QED  BY <1>4, <1>5

\* What each callback hands to the next, the last one hands to the page.
LEMMA HandledThrough ==
  ASSUME NEW calls, Len(calls) \in Nat, NEW I, ui \in I[0],
         \A i \in 1 .. Len(calls) : \A u \in I[i - 1] : OnCall(u, calls[i]) \in I[i]
  PROVE  Handled(calls) \in I[Len(calls)]
<1>1. PICK a : Between(a, calls, Len(calls)) /\ Handled(calls) = a[Len(calls)]
  BY HandledSteps
<1>. DEFINE T == {i \in Nat : i <= Len(calls) => a[i] \in I[i]}
<1>2. 0 \in T
  BY <1>1 DEF Between
<1>3. ASSUME NEW n \in Nat, n \in T PROVE n + 1 \in T
  <2>. SUFFICES ASSUME n + 1 <= Len(calls) PROVE a[n + 1] \in I[n + 1]
    OBVIOUS
  <2>1. a[n] \in I[n]
    BY <1>3
  <2>2. a[n + 1] = OnCall(a[n], calls[n + 1])
    BY <1>1 DEF Between
  <2>3. n + 1 \in 1 .. Len(calls) /\ (n + 1) - 1 = n
    OBVIOUS
  <2>. QED  BY <2>1, <2>2, <2>3
<1>4. \A n \in Nat : n \in T
  <2>. HIDE DEF T
  <2>. QED  BY <1>2, <1>3, SetInduction
<1>. QED  BY <1>1, <1>4

\* The same, counting the events only: a callback without one keeps the set.
LEMMA HandledAlong ==
  ASSUME NEW calls, NEW evs, Carries(calls, evs), NEW J, ui \in J[0],
         \A i \in 0 .. Len(evs) : \A u \in J[i] : OnWalking(u) \in J[i],
         \A i \in 1 .. Len(evs) : \A u \in J[i - 1] : OnEvent(u, evs[i]) \in J[i]
  PROVE  Handled(calls) \in J[Len(evs)]
<1>1. calls \in Seq(Calls) /\ evs \in Seq(Events) /\ Len(calls) \in Nat /\ Len(evs) \in Nat
  BY DEF Carries
<1>2. PICK k \in Nat : CarriesFrom(calls, evs, k)
  BY DEF Carries
<1>. DEFINE Past(i) == IF i <= k THEN 0 ELSE IF i <= k + Len(evs) THEN i - k ELSE Len(evs)
            I == [i \in 0 .. Len(calls) |-> J[Past(i)]]
<1>3. ASSUME NEW i \in 1 .. Len(calls), NEW u \in J[Past(i - 1)]
      PROVE  OnCall(u, calls[i]) \in J[Past(i)]
  <2>1. CASE k < i /\ i <= k + Len(evs)
    <3>1. calls[i] = Call("event", evs[i - k]) /\ i - k \in 1 .. Len(evs)
      BY <1>1, <1>2, <2>1 DEF CarriesFrom
    <3>2. OnCall(u, calls[i]) = OnEvent(u, evs[i - k])
      BY <3>1 DEF OnCall, Call
    <3>3. Past(i) = i - k /\ Past(i - 1) = (i - k) - 1
      BY <1>1, <2>1
    <3>4. u \in J[(i - k) - 1]
      BY <3>3
    <3>5. OnEvent(u, evs[i - k]) \in J[i - k]
      BY <3>1, <3>4
    <3>. QED  BY <3>2, <3>3, <3>5
  <2>2. CASE ~(k < i /\ i <= k + Len(evs))
    <3>1. calls[i] \in StateCalls
      BY <1>2, <2>2 DEF CarriesFrom
    <3>2. OnCall(u, calls[i]) \in {u, OnWalking(u)}
      BY <3>1 DEF OnCall, StateCalls, Call
    <3>3. Past(i - 1) = Past(i) /\ Past(i) \in 0 .. Len(evs)
      BY <1>1, <2>2
    <3>4. u \in J[Past(i)]
      BY <3>3
    <3>. HIDE DEF Past
    <3>. QED  BY <3>2, <3>3, <3>4
  <2>. QED  BY <2>1, <2>2
<1>4. Past(0) = 0 /\ Past(Len(calls)) = Len(evs)
  BY <1>1, <1>2 DEF CarriesFrom
<1>. HIDE DEF Past
<1>5. Handled(calls) \in I[Len(calls)]
  <2>1. ui \in I[0] /\ \A i \in 1 .. Len(calls) : \A u \in I[i - 1] : OnCall(u, calls[i]) \in I[i]
    BY <1>1, <1>3, <1>4
  <2>. HIDE DEF I
  <2>. QED  BY <1>1, <2>1, HandledThrough
<1>. QED  BY <1>1, <1>4, <1>5

\* A set of states that each of the callbacks keeps.
LEMMA HandledKeeps ==
  ASSUME NEW calls, NEW evs, Carries(calls, evs), NEW S, ui \in S,
         \A u \in S : OnWalking(u) \in S,
         \A i \in 1 .. Len(evs) : \A u \in S : OnEvent(u, evs[i]) \in S
  PROVE  Handled(calls) \in S
<1>. DEFINE J == [i \in 0 .. Len(evs) |-> S]
<1>1. Len(evs) \in Nat
  BY DEF Carries
<1>2. /\ ui \in J[0] /\ J[Len(evs)] = S
      /\ \A i \in 0 .. Len(evs) : \A u \in J[i] : OnWalking(u) \in J[i]
      /\ \A i \in 1 .. Len(evs) : \A u \in J[i - 1] : OnEvent(u, evs[i]) \in J[i]
  BY <1>1
<1>. HIDE DEF J
<1>3. Handled(calls) \in J[Len(evs)]
  BY <1>2, HandledAlong
<1>. QED  BY <1>2, <1>3

-----------------------------------------------------------------------------
(* The trace stream, and the queue it feeds.                                *)

Trails == [direct : Seq(PortalTypes), relayed : Seq(CarrierTypes)]

LEMMA HeadTyped ==
  ASSUME NEW S, NEW s \in Seq(S), NEW t \in First(s)
  PROVE  t \in S /\ Tail(s) \in Seq(S)
<1>1. s # << >> /\ t = Head(s)
  BY DEF First
<1>. QED  BY <1>1, HeadTailProperties

\* The next message of a resolve, unwrapped, is the head of one of its trails.
Heads(r, t, rest) ==
  \/ /\ trail[r].direct # << >> /\ t = Head(trail[r].direct)
     /\ rest = [direct |-> Tail(trail[r].direct), relayed |-> trail[r].relayed]
  \/ /\ trail[r].relayed # << >> /\ ~Unrequested(r) /\ t = Head(trail[r].relayed)
     /\ rest = [direct |-> trail[r].direct, relayed |-> Tail(trail[r].relayed)]

LEMMA RestOfTrail ==
  ASSUME NEW x \in Trails, NEW y
  PROVE  /\ [x EXCEPT !.direct = y] = [direct |-> y, relayed |-> x.relayed]
         /\ [x EXCEPT !.relayed = y] = [direct |-> x.direct, relayed |-> y]
BY DEF Trails

LEMMA MessageTyped ==
  ASSUME trail \in [Runs -> Trails], NEW r \in Runs, NEW m \in Message(r)
  PROVE  /\ m \in AnyMessage /\ Unwrap(m).type \in Types /\ Unwrap(m).of = r
         /\ \E rest \in Trails : /\ Heads(r, Unwrap(m).type, rest)
                                 /\ Without(r, m) = [trail EXCEPT ![r] = rest]
         /\ Without(r, m) \in [Runs -> Trails]
<1>. DEFINE d == trail[r].direct
            c == trail[r].relayed
<1>1. d \in Seq(PortalTypes) /\ c \in Seq(CarrierTypes) /\ trail[r] = [direct |-> d, relayed |-> c]
  BY DEF Trails
<1>2. r \in Int
  BY DEF Runs
<1>3. Raw \notin PortalTypes
  BY DEF Raw, PortalTypes, Requested
<1>4. CASE m \in { [type |-> t, frame |-> "", of |-> r] : t \in First(d) }
  <2>1. PICK t \in First(d) : m = [type |-> t, frame |-> "", of |-> r]
    BY <1>4
  <2>2. t \in PortalTypes /\ Tail(d) \in Seq(PortalTypes) /\ d # << >> /\ t = Head(d)
    <3>1. t \in PortalTypes /\ Tail(d) \in Seq(PortalTypes)
      BY <1>1, HeadTyped
    <3>. QED  BY <3>1 DEF First
  <2>3. m.type = t /\ m.type # Raw /\ m.of = r
    BY <1>3, <2>1, <2>2
  <2>4. t \in Types /\ m \in AnyMessage
    BY <1>2, <2>1, <2>2 DEF Types, AnyMessage
  <2>5. Unwrap(m) = [type |-> t, of |-> r]
    BY <2>3 DEF Unwrap
  <2>. DEFINE rest == [direct |-> Tail(d), relayed |-> c]
  <2>6. rest \in Trails /\ Heads(r, t, rest)
    BY <1>1, <2>2 DEF Trails, Heads
  <2>7. Without(r, m) = [trail EXCEPT ![r] = [trail[r] EXCEPT !.direct = Tail(d)]]
    BY <2>3 DEF Without
  <2>8. [trail[r] EXCEPT !.direct = Tail(d)] = rest
    <3>1. trail[r] \in Trails
      OBVIOUS
    <3>. QED  BY <3>1, RestOfTrail
  <2>. HIDE DEF rest
  <2>9. Without(r, m) = [trail EXCEPT ![r] = rest] /\ Without(r, m) \in [Runs -> Trails]
    BY <2>6, <2>7, <2>8
  <2>10. Unwrap(m).type = t /\ Unwrap(m).of = r
    BY <2>5
  <2>. QED  BY <2>4, <2>6, <2>9, <2>10
<1>5. CASE m \in { [type |-> Raw, frame |-> t, of |-> r] :
                     t \in IF Unrequested(r) THEN {} ELSE First(c) }
  <2>1. PICK t \in First(c) : ~Unrequested(r) /\ m = [type |-> Raw, frame |-> t, of |-> r]
    BY <1>5
  <2>2. t \in CarrierTypes /\ Tail(c) \in Seq(CarrierTypes) /\ c # << >> /\ t = Head(c)
    <3>1. t \in CarrierTypes /\ Tail(c) \in Seq(CarrierTypes)
      BY <1>1, HeadTyped
    <3>. QED  BY <3>1 DEF First
  <2>3. m.type = Raw /\ m.frame = t /\ m.of = r
    BY <2>1
  <2>4. t \in Types /\ Raw \in Types
    BY <2>2 DEF Types
  <2>5. m \in AnyMessage
    BY <1>2, <2>1, <2>4 DEF AnyMessage
  <2>6. Unwrap(m) = [type |-> t, of |-> r]
    BY <2>3, <2>4 DEF Unwrap
  <2>. DEFINE rest == [direct |-> d, relayed |-> Tail(c)]
  <2>7. rest \in Trails /\ Heads(r, t, rest)
    BY <1>1, <2>1, <2>2 DEF Trails, Heads
  <2>8. Without(r, m) = [trail EXCEPT ![r] = [trail[r] EXCEPT !.relayed = Tail(c)]]
    BY <2>3 DEF Without
  <2>9. [trail[r] EXCEPT !.relayed = Tail(c)] = rest
    <3>1. trail[r] \in Trails
      OBVIOUS
    <3>. QED  BY <3>1, RestOfTrail
  <2>. HIDE DEF rest
  <2>10. Without(r, m) = [trail EXCEPT ![r] = rest] /\ Without(r, m) \in [Runs -> Trails]
    BY <2>7, <2>8, <2>9
  <2>11. Unwrap(m).type = t /\ Unwrap(m).of = r
    BY <2>6
  <2>. QED  BY <2>4, <2>5, <2>7, <2>10, <2>11
<1>. QED
  <2>1. m \in { [type |-> t, frame |-> "", of |-> r] : t \in First(d) }
          \cup { [type |-> Raw, frame |-> t, of |-> r] :
                   t \in IF Unrequested(r) THEN {} ELSE First(c) }
    BY DEF Message
  <2>. QED  BY <1>4, <1>5, <2>1

LEMMA DirectTyped == ASSUME NEW e PROVE Direct(e) \in Seq(PortalTypes)
<1>. USE DEF PortalTypes, Requested
<1>1. /\ << >> \in Seq(PortalTypes)
      /\ <<Requested, "portal.resolve.error">> \in Seq(PortalTypes)
      /\ <<Requested, "mtls.handshake.start">> \in Seq(PortalTypes)
      /\ <<Requested, "mtls.handshake.start", "mtls.handshake.ok">> \in Seq(PortalTypes)
      /\ <<Requested, "mtls.handshake.start", "mtls.handshake.err">> \in Seq(PortalTypes)
  OBVIOUS
<1>2. <<Requested, "mtls.handshake.start", "mtls.handshake.err", "portal.resolve.error">>
        \in Seq(PortalTypes)
  OBVIOUS
<1>3. <<Requested, "mtls.handshake.start", "mtls.peer_uri_seen", "mtls.handshake.err">>
        \in Seq(PortalTypes)
  OBVIOUS
<1>. QED  BY <1>1, <1>2, <1>3 DEF Direct

LEMMA RelayedTyped == ASSUME NEW e PROVE Relayed(e) \in Seq(CarrierTypes)
<1>1. /\ <<"jwt_svid.issued", "sm.authn_jwt.ok", "sm.secret_fetched.ok">> \in Seq(CarrierTypes)
      /\ <<"jwt_svid.issued", "sm.authn_jwt.ok", "sm.secret_fetched.err">> \in Seq(CarrierTypes)
      /\ <<"jwt_svid.issued", "sm.authn_jwt.ok", "sm.secret_fetched.empty">> \in Seq(CarrierTypes)
      /\ <<"jwt_svid.issued", "sm.authn_jwt.err">> \in Seq(CarrierTypes)
      /\ <<"jwt_svid.error">> \in Seq(CarrierTypes)
      /\ << >> \in Seq(CarrierTypes)
  BY DEF CarrierTypes
<1>. QED  BY <1>1 DEF Relayed

LEMMA StartTyped ==
  ASSUME trail \in [Runs -> Trails], NEW e, Starts(e)
  PROVE  trail' \in [Runs -> Trails]
BY DirectTyped, RelayedTyped DEF Starts, Trails

LEMMA TrailSteps ==
  ASSUME trail \in [Runs -> Trails], Next
  PROVE  trail' \in [Runs -> Trails]
<1>1. ASSUME NEW r \in Runs, Deliver(r) \/ Lose(r) PROVE trail' \in [Runs -> Trails]
  <2>1. PICK m \in Message(r) : trail' = Without(r, m)
    BY <1>1 DEF Deliver, Lose
  <2>. QED  BY <2>1, MessageTyped
<1>2. ASSUME NEW e, Run(e) \/ OtherRuns(e) PROVE trail' \in [Runs -> Trails]
  <2>1. Starts(e)
    BY <1>2 DEF Run, OtherRuns
  <2>. QED  BY <2>1, StartTyped
<1>3. ASSUME NEW r \in Runs, Answer(r) \/ NetworkFails(r) PROVE trail' = trail
  BY <1>3 DEF Answer, NetworkFails
<1>4. ASSUME NEW v, ChangePace(v) PROVE trail' = trail
  BY <1>4 DEF ChangePace
<1>5. Drains \/ Render \/ Reset => trail' = trail
  BY DEF Drains, Render, Reset
<1>. QED  BY <1>1, <1>2, <1>3, <1>4, <1>5 DEF Next, PressReset, PickCarrier

\* Every task of the page is a call of the queue's API, a timer of it, or
\* leaves the queue alone.
LEMMA EngineCallsQueue ==
  ASSUME trail \in [Runs -> Trails], Next
  PROVE  PQNext(AnyMessage) \/ UNCHANGED pqVars
<1>1. ASSUME NEW r \in Runs, Deliver(r) PROVE PQNext(AnyMessage)
  <2>1. PICK m \in Message(r) : Push(m)
    BY <1>1 DEF Deliver
  <2>2. m \in AnyMessage
    BY MessageTyped
  <2>. QED  BY <2>1, <2>2 DEF PQNext
<1>2. ASSUME NEW e, Run(e) \/ OtherRuns(e) PROVE UNCHANGED pqVars
  BY <1>2 DEF Run, OtherRuns
<1>3. ASSUME NEW r \in Runs, Lose(r) \/ Answer(r) \/ NetworkFails(r) PROVE UNCHANGED pqVars
  BY <1>3 DEF Lose, Answer, NetworkFails
<1>4. ASSUME NEW v \in {"off", "paced"}, ChangePace(v) PROVE PQNext(AnyMessage)
  BY <1>4 DEF ChangePace, PQNext
<1>5. Drains => PQNext(AnyMessage)
  BY DEF Drains, PQNext
<1>6. Reset => PQNext(AnyMessage)
  BY DEF Reset, PQNext
<1>7. Render => UNCHANGED pqVars
  BY DEF Render
<1>. QED  BY <1>1, <1>2, <1>3, <1>4, <1>5, <1>6, <1>7 DEF Next, PressReset, PickCarrier

TrailTyped == trail \in [Runs -> Trails]

LEMMA TrailAlwaysTyped == Spec => []TrailTyped
<1>1. Init => TrailTyped
  BY DEF Init, TrailTyped, Trails, NoTrail
<1>2. TrailTyped /\ [Next]_vars => TrailTyped'
  BY TrailSteps DEF TrailTyped, vars, engineVars
<1>. QED  BY <1>1, <1>2, PTL DEF Spec

\* The engine uses the queue as its API allows: whatever holds of the queue under
\* any messages holds of it under the engine.
THEOREM UsesQueue == Spec => PQSpec(AnyMessage)
<1>1. Init => PQInit
  BY DEF Init
<1>2. TrailTyped /\ [Next]_vars => [PQNext(AnyMessage)]_pqVars
  BY EngineCallsQueue DEF TrailTyped, vars
<1>. QED  BY <1>1, <1>2, TrailAlwaysTyped, PTL DEF Spec, PQSpec

\* Whatever is queued has a timer that will fan it out, under any number of
\* resolves of this page and of others, with events lost and timers orphaned.
THEOREM NeverFrozen == Spec => []QueueIsDriven
<1>1. PQSpec(AnyMessage) => []QueueIsDriven
  BY AlwaysDriven
<1>. QED  BY <1>1, UsesQueue, PTL

-----------------------------------------------------------------------------
(* Typing.                                                                  *)

\* Events of the first n resolves, and what the page can show of them.
Stream(n) == {e \in Events : e.of \in 1 .. n}
ErrorNames == Types \cup {"none", "http.error", "network.error"}
Errors(n) == [type : ErrorNames, of : 0 .. n, uri : BOOLEAN, payload : BOOLEAN]
Pages(n) ==
  [status : Statuses, stage : -1 .. 4, completed : 0 .. 6, result : 0 .. n,
   error : Errors(n), maxStage : -1 .. 4, peerUri : BOOLEAN, ttlOf : 0 .. n]

EndingNames == Endings("internal") \cup Endings("external")

EngineInv ==
  /\ TrailTyped /\ PQInv
  /\ ending \in [Runs -> EndingNames \cup {"none"}]
  /\ \A i \in 1 .. Len(pq.queue) : pq.queue[i] \in Stream(runs)
  /\ ui \in Pages(runs) /\ shown \in Statuses
  /\ runs \in 0 .. MaxRuns /\ others \in 0 .. MaxOthers /\ current \in 0 .. runs
  /\ inFlight \subseteq 1 .. runs /\ lost \in 0 .. MaxLost
  /\ \A r \in Runs : r > runs => trail[r] = NoTrail

LEMMA StageTyped ==
  ASSUME NEW t
  PROVE  EventToStage(t) \in -1 .. 4
BY DEF EventToStage

LEMMA NotedTyped ==
  ASSUME NEW n \in Nat, NEW u \in Pages(n), NEW e \in Stream(n)
  PROVE  Noted(u, e) \in Pages(n)
<1>. DEFINE b == u.peerUri \/ e.type = "mtls.peer_uri_seen"
            c == IF e.type = "jwt_svid.issued" THEN e.of ELSE u.ttlOf
<1>1. b \in BOOLEAN
  OBVIOUS
<1>2. c \in 0 .. n
  BY DEF Stream, Pages
<1>3. Noted(u, e) = [u EXCEPT !.peerUri = b, !.ttlOf = c]
  BY DEF Noted
<1>. HIDE DEF b, c
<1>. QED  BY <1>1, <1>2, <1>3 DEF Pages

LEMMA AdvanceTyped ==
  ASSUME NEW n \in Nat, NEW u \in Pages(n), NEW idx \in -1 .. 4
  PROVE  Advance(u, idx) \in Pages(n)
<1>1. CASE idx >= 0 /\ idx > u.maxStage
  <2>1. Advance(u, idx) = [u EXCEPT !.maxStage = idx, !.stage = idx, !.completed = idx]
    BY <1>1 DEF Advance
  <2>2. idx \in 0 .. 6
    BY <1>1
  <2>. QED  BY <2>1, <2>2 DEF Pages
<1>2. CASE ~(idx >= 0 /\ idx > u.maxStage)
  BY <1>2 DEF Advance
<1>. QED  BY <1>1, <1>2

LEMMA ShowErrorTyped ==
  ASSUME NEW n \in Nat, NEW u \in Pages(n), NEW e \in Stream(n)
  PROVE  ShowError(u, e) \in Pages(n)
<1>. DEFINE x == [type |-> e.type, of |-> e.of, uri |-> u.peerUri, payload |-> TRUE]
<1>1. x \in Errors(n)
  BY DEF Stream, Events, Pages, Errors, ErrorNames
<1>2. ShowError(u, e) = [u EXCEPT !.error = x, !.stage = -1, !.status = "error"]
  BY DEF ShowError
<1>. HIDE DEF x
<1>3. "error" \in Statuses /\ -1 \in -1 .. 4
  BY DEF Statuses
<1>. QED  BY <1>1, <1>2, <1>3 DEF Pages

LEMMA OnEventTyped ==
  ASSUME NEW n \in Nat, NEW u \in Pages(n), NEW e \in Stream(n)
  PROVE  OnEvent(u, e) \in Pages(n)
BY NotedTyped, AdvanceTyped, ShowErrorTyped, StageTyped DEF OnEvent

LEMMA OnWalkingTyped ==
  ASSUME NEW n \in Nat, NEW u \in Pages(n)
  PROVE  OnWalking(u) \in Pages(n)
BY DEF OnWalking, Pages, Statuses

LEMMA PagesGrow ==
  ASSUME NEW n \in Nat, NEW u \in Pages(n)
  PROVE  u \in Pages(n + 1)
BY DEF Pages, Errors

-----------------------------------------------------------------------------
(* A task that the queue starts: its callbacks change the page.             *)

QueueTask ==
  \/ \E r \in Runs : Deliver(r)
  \/ Drains
  \/ \E v \in {"off", "paced"} : ChangePace(v)

LEMMA PartsOf ==
  ASSUME NEW s \in Seq(Events), NEW t \in Seq(Events), NEW S,
         \A i \in 1 .. Len(s \o t) : (s \o t)[i] \in S
  PROVE  /\ \A i \in 1 .. Len(s) : s[i] \in S
         /\ \A i \in 1 .. Len(t) : t[i] \in S
<1>. DEFINE a == Len(s)
            b == Len(t)
            u == s \o t
<1>1. /\ Len(u) = a + b /\ a \in Nat /\ b \in Nat
      /\ \A i \in 1 .. a + b : u[i] = IF i <= a THEN s[i] ELSE t[i - a]
  BY ConcatProperties
<1>. HIDE DEF u, a, b
<1>2. \A i \in 1 .. a + b : u[i] \in S
  BY <1>1 DEF u
<1>3. ASSUME NEW i \in 1 .. a PROVE s[i] \in S
  BY <1>1, <1>2
<1>4. ASSUME NEW i \in 1 .. b PROVE t[i] \in S
  <2>1. u[a + i] = t[i] /\ a + i \in 1 .. a + b
    BY <1>1
  <2>. QED  BY <1>2, <2>1
<1>. QED  BY <1>3, <1>4 DEF a, b

\* The resolve of a message has been started.
LEMMA MessageStarted ==
  ASSUME EngineInv, NEW r \in Runs, NEW m \in Message(r)
  PROVE  r \in 1 .. runs
<1>1. trail \in [Runs -> Trails]
  BY DEF EngineInv, TrailTyped
<1>2. trail[r].direct # << >> \/ trail[r].relayed # << >>
  BY <1>1, MessageTyped DEF Heads
<1>3. trail[r] # NoTrail
  BY <1>2 DEF NoTrail
<1>. QED  BY <1>3 DEF EngineInv, Runs

\* A message that is delivered is the next of its resolve; it goes out behind what
\* is queued, or, when it starts a new resolve, in place of it.
LEMMA DeliverSends ==
  ASSUME EngineInv, NEW r \in Runs, Deliver(r)
  PROVE  \E e \in Stream(runs) : \E evs : \E rest \in Trails :
           /\ e.of = r /\ r \in 1 .. runs
           /\ Heads(r, e.type, rest) /\ trail' = [trail EXCEPT ![r] = rest]
           /\ Carries(pq'.calls, evs) /\ Queue(pq')
           /\ \/ Append(pq.queue, e) = evs \o pq'.queue
              \/ e.type = Requested /\ evs = <<e>> /\ pq'.queue = << >>
           /\ IsErr(e.type) => pq'.queue = << >>
<1>1. Queue(pq) /\ Driven(pq) /\ pushed \in Nat /\ trail \in [Runs -> Trails]
  BY DEF EngineInv, PQInv, TrailTyped
<1>2. PICK m \in Message(r) : Push(m) /\ trail' = Without(r, m)
  BY DEF Deliver
<1>3. m \in AnyMessage /\ Numbers(m).of = r /\ Numbers(m).type = Unwrap(m).type /\ r \in 1 .. runs
  BY <1>1, MessageTyped, MessageStarted DEF Numbers
<1>4. PICK rest \in Trails : Heads(r, Unwrap(m).type, rest) /\ Without(r, m) = [trail EXCEPT ![r] = rest]
  BY <1>1, MessageTyped
<1>. DEFINE e == Numbers(m)
<1>5. Queue(pq') /\ e \in Events /\ (IsErr(e.type) => pq'.queue = << >>)
  BY <1>1, <1>2, <1>3, PushSends
<1>6. PICK evs : /\ Carries(pq'.calls, evs)
                 /\ \/ Append(pq.queue, e) = evs \o pq'.queue
                    \/ e.type = Requested /\ evs = <<e>> /\ pq'.queue = << >>
  BY <1>1, <1>2, <1>3, PushSends
<1>7. e \in Stream(runs) /\ e.of = r /\ Heads(r, e.type, rest)
  BY <1>3, <1>4, <1>5 DEF Stream
<1>. HIDE DEF e
<1>. QED  BY <1>2, <1>3, <1>4, <1>5, <1>6, <1>7

\* A set that has whatever is queued or next on some trail.
Feeds(E) ==
  /\ \A i \in 1 .. Len(pq.queue) : pq.queue[i] \in E
  /\ \A e \in Stream(runs) :
       e.of \in Runs /\ (\E rest \in Trails : Heads(e.of, e.type, rest)) => e \in E

\* What a task fans out, and what it leaves in the queue.
LEMMA TaskSendsIn ==
  ASSUME EngineInv, QueueTask, NEW E, Feeds(E)
  PROVE  /\ ui' = Handled(pq'.calls)
         /\ UNCHANGED <<shown, carrier, started, inFlight, history>>
         /\ \A i \in 1 .. Len(pq'.queue) : pq'.queue[i] \in E
         /\ \E evs : /\ Carries(pq'.calls, evs)
                     /\ \A i \in 1 .. Len(evs) : evs[i] \in E
<1>1. QueueStep
  BY DEF QueueTask, Deliver, Drains, ChangePace
<1>2. /\ Queue(pq) /\ Driven(pq) /\ pq.queue \in Seq(Events)
      /\ \A i \in 1 .. Len(pq.queue) : pq.queue[i] \in E
  BY DEF EngineInv, PQInv, Queue, Feeds
<1>3. ASSUME NEW r \in Runs, Deliver(r)
      PROVE  /\ \A i \in 1 .. Len(pq'.queue) : pq'.queue[i] \in E
             /\ \E evs : /\ Carries(pq'.calls, evs)
                         /\ \A i \in 1 .. Len(evs) : evs[i] \in E
  <2>0. PICK e \in Stream(runs) : \E evs : \E rest \in Trails :
          /\ e.of = r /\ Heads(r, e.type, rest) /\ Carries(pq'.calls, evs) /\ Queue(pq')
          /\ \/ Append(pq.queue, e) = evs \o pq'.queue
             \/ evs = <<e>> /\ pq'.queue = << >>
    BY <1>3, DeliverSends
  <2>1. PICK evs : \E rest \in Trails :
          /\ e.of = r /\ Heads(r, e.type, rest) /\ Carries(pq'.calls, evs) /\ Queue(pq')
          /\ \/ Append(pq.queue, e) = evs \o pq'.queue
             \/ evs = <<e>> /\ pq'.queue = << >>
    BY <2>0
  <2>2. e \in Events /\ e \in E
    BY <2>1 DEF Stream, Feeds
  <2>3. CASE Append(pq.queue, e) = evs \o pq'.queue
    <3>1. evs \in Seq(Events) /\ pq'.queue \in Seq(Events)
      BY <2>1 DEF Carries, Queue
    <3>2. ASSUME NEW i \in 1 .. Len(Append(pq.queue, e)) PROVE Append(pq.queue, e)[i] \in E
      BY <1>2, <2>2, AppendProperties
    <3>3. \A i \in 1 .. Len(evs \o pq'.queue) : (evs \o pq'.queue)[i] \in E
      BY <2>3, <3>2
    <3>. QED  BY <2>1, <3>1, <3>3, PartsOf
  <2>4. CASE evs = <<e>> /\ pq'.queue = << >>
    BY <2>1, <2>2, <2>4
  <2>. QED  BY <2>1, <2>3, <2>4
<1>4. CASE Drains \/ \E v \in {"off", "paced"} : ChangePace(v)
  <2>1. TimerFires \/ \E v \in {"off", "paced"} : SetPace(v)
    BY <1>4 DEF Drains, ChangePace
  <2>2. PICK evs : Carries(pq'.calls, evs) /\ pq.queue = evs \o pq'.queue
    BY <1>2, <2>1, DrainsSend
  <2>3. evs \in Seq(Events) /\ pq'.queue \in Seq(Events)
    BY <1>2, <2>1, <2>2, DrainsSend DEF Carries, Queue
  <2>4. \A i \in 1 .. Len(evs \o pq'.queue) : (evs \o pq'.queue)[i] \in E
    BY <1>2, <2>2
  <2>5. /\ \A i \in 1 .. Len(evs) : evs[i] \in E
        /\ \A i \in 1 .. Len(pq'.queue) : pq'.queue[i] \in E
    BY <2>3, <2>4, PartsOf
  <2>. QED  BY <1>1, <2>2, <2>5 DEF QueueStep
<1>. QED  BY <1>1, <1>3, <1>4 DEF QueueTask, QueueStep

LEMMA TaskSends ==
  ASSUME EngineInv, QueueTask
  PROVE  /\ ui' = Handled(pq'.calls)
         /\ UNCHANGED <<shown, carrier, started, inFlight, history>>
         /\ \A i \in 1 .. Len(pq'.queue) : pq'.queue[i] \in Stream(runs)
         /\ \E evs : /\ Carries(pq'.calls, evs)
                     /\ \A i \in 1 .. Len(evs) : evs[i] \in Stream(runs)
<1>1. Feeds(Stream(runs))
  BY DEF EngineInv, Feeds
<1>. DEFINE E == Stream(runs)
<1>2. Feeds(E)
  BY <1>1
<1>. HIDE DEF E
<1>3. /\ ui' = Handled(pq'.calls)
      /\ UNCHANGED <<shown, carrier, started, inFlight, history>>
      /\ \A i \in 1 .. Len(pq'.queue) : pq'.queue[i] \in E
      /\ \E evs : /\ Carries(pq'.calls, evs)
                  /\ \A i \in 1 .. Len(evs) : evs[i] \in E
  BY <1>2, TaskSendsIn
<1>. QED  BY <1>3 DEF E

\* A set of pages that every callback keeps is kept by the whole task.
LEMMA TaskKeepsIn ==
  ASSUME EngineInv, QueueTask, NEW E, Feeds(E), NEW S, ui \in S,
         \A u \in S : OnWalking(u) \in S,
         \A u \in S : \A e \in E : OnEvent(u, e) \in S
  PROVE  ui' \in S
<1>1. PICK evs : /\ Carries(pq'.calls, evs)
                 /\ \A i \in 1 .. Len(evs) : evs[i] \in E
  BY TaskSendsIn
<1>. DEFINE calls == pq'.calls
<1>2. Carries(calls, evs) /\ ui' = Handled(calls)
  BY <1>1, TaskSendsIn
<1>. HIDE DEF calls
<1>3. Handled(calls) \in S
  BY <1>1, <1>2, HandledKeeps
<1>. QED  BY <1>2, <1>3

LEMMA TaskKeeps ==
  ASSUME EngineInv, QueueTask, NEW S, ui \in S,
         \A u \in S : OnWalking(u) \in S,
         \A u \in S : \A e \in Stream(runs) : OnEvent(u, e) \in S
  PROVE  ui' \in S
<1>. DEFINE E == Stream(runs)
<1>1. Feeds(E) /\ \A u \in S : \A e \in E : OnEvent(u, e) \in S
  BY DEF EngineInv, Feeds
<1>. HIDE DEF E
<1>. QED  BY <1>1, TaskKeepsIn

\* The counters, and what they bound.
Counted ==
  /\ runs \in 0 .. MaxRuns /\ others \in 0 .. MaxOthers /\ current \in 0 .. runs
  /\ inFlight \subseteq 1 .. runs /\ lost \in 0 .. MaxLost
  /\ ending \in [Runs -> EndingNames \cup {"none"}]
  /\ \A r \in Runs : r > runs => trail[r] = NoTrail

LEMMA CountedSteps ==
  ASSUME EngineInv, Next
  PROVE  Counted' /\ (runs' = runs \/ runs' = runs + 1)
<1>1. Counted /\ trail \in [Runs -> Trails] /\ runs \in Nat
  BY DEF EngineInv, Counted, TrailTyped
<1>2. ASSUME NEW r \in Runs, Deliver(r) \/ Lose(r)
      PROVE  Counted' /\ runs' = runs
  <2>1. PICK m \in Message(r) : trail' = Without(r, m)
    BY <1>2 DEF Deliver, Lose
  <2>2. r \in 1 .. runs
    BY MessageStarted
  <2>3. \E rest \in Trails : trail' = [trail EXCEPT ![r] = rest]
    BY <1>1, <2>1, MessageTyped
  <2>4. \A q \in Runs : q > runs => trail'[q] = NoTrail
    BY <1>1, <2>2, <2>3 DEF Counted, Runs
  <2>5. UNCHANGED <<started, inFlight>> /\ lost' \in 0 .. MaxLost
    BY <1>1, <1>2, EngineAssumption DEF Deliver, Lose, QueueStep, Counted
  <2>. QED  BY <1>1, <2>4, <2>5 DEF Counted, started
<1>3. ASSUME NEW e \in EndingNames, Run(e) \/ OtherRuns(e)
      PROVE  Counted' /\ runs' = runs + 1
  <2>1. Starts(e) /\ runs' = runs + 1 /\ runs + 1 \in Runs
    BY <1>1, <1>3, EngineAssumption DEF Run, OtherRuns, Starts, Runs
  <2>2. ending' \in [Runs -> EndingNames \cup {"none"}]
    BY <1>1, <2>1 DEF Starts, Counted
  <2>3. \A q \in Runs : q > runs' => trail'[q] = NoTrail
    BY <1>1, <2>1 DEF Starts, Counted, Runs
  <2>4. /\ runs' \in 0 .. MaxRuns /\ others' \in 0 .. MaxOthers /\ current' \in 0 .. runs'
        /\ inFlight' \subseteq 1 .. runs' /\ lost' \in 0 .. MaxLost
    <3>1. /\ runs \in 0 .. MaxRuns /\ others \in 0 .. MaxOthers /\ current \in 0 .. runs
          /\ inFlight \subseteq 1 .. runs /\ lost \in 0 .. MaxLost
          /\ MaxRuns \in Nat /\ MaxOthers \in Nat /\ runs + 1 <= MaxRuns
      BY <1>1, <2>1, EngineAssumption DEF Counted, Runs
    <3>2. CASE Run(e)
      <4>1. /\ current' = runs + 1 /\ inFlight' = inFlight \cup {runs + 1}
            /\ others' = others /\ lost' = lost
        BY <3>2 DEF Run
      <4>. QED  BY <1>1, <2>1, <3>1, <4>1
    <3>3. CASE OtherRuns(e)
      <4>1. /\ current' = current /\ inFlight' = inFlight
            /\ others' = others + 1 /\ others < MaxOthers /\ lost' = lost
        BY <3>3 DEF OtherRuns
      <4>. QED  BY <1>1, <2>1, <3>1, <4>1
    <3>. QED  BY <1>3, <3>2, <3>3
  <2>. QED  BY <2>1, <2>2, <2>3, <2>4 DEF Counted
<1>4. ASSUME NEW r \in Runs, Answer(r) \/ NetworkFails(r)
      PROVE  Counted' /\ runs' = runs
  BY <1>1, <1>4 DEF Answer, NetworkFails, Counted, started
<1>5. ASSUME NEW v \in {"off", "paced"}, ChangePace(v)
      PROVE  Counted' /\ runs' = runs
  BY <1>1, <1>5 DEF ChangePace, QueueStep, Counted, started
<1>6. CASE Drains \/ Reset
  BY <1>1, <1>6 DEF Drains, QueueStep, Reset, Counted, started
<1>7. CASE Render
  BY <1>1, <1>7 DEF Render, Counted, started
<1>8. Endings(carrier) \subseteq EndingNames
  BY DEF Endings, EndingNames
<1>. QED
  BY <1>2, <1>3, <1>4, <1>5, <1>6, <1>7, <1>8 DEF Next, PressReset, PickCarrier, EndingNames

LEMMA ClearedTyped ==
  ASSUME NEW n \in Nat, NEW s \in Statuses
  PROVE  Cleared(s) \in Pages(n)
<1>1. NoError \in Errors(n)
  BY DEF NoError, Errors, ErrorNames
<1>. QED  BY <1>1 DEF Cleared, Pages

LEMMA FailureTyped ==
  ASSUME NEW n \in Nat, NEW u \in Pages(n), NEW t \in {"http.error", "network.error"},
         NEW x \in {u.error, [NoError EXCEPT !.type = t]}
  PROVE  [u EXCEPT !.error = x, !.status = "error"] \in Pages(n)
<1>1. [NoError EXCEPT !.type = t] \in Errors(n)
  <2>1. NoError \in Errors(n)
    BY DEF NoError, Errors, ErrorNames
  <2>2. t \in ErrorNames
    BY DEF ErrorNames
  <2>. QED  BY <2>1, <2>2 DEF Errors
<1>2. x \in Errors(n) /\ "error" \in Statuses
  BY <1>1 DEF Pages, Statuses
<1>. QED  BY <1>2 DEF Pages

\* The page keeps its type, and so does what is queued for it.
LEMMA PageSteps ==
  ASSUME EngineInv, Next
  PROVE  /\ ui' \in Pages(runs') /\ shown' \in Statuses
         /\ \A i \in 1 .. Len(pq'.queue) : pq'.queue[i] \in Stream(runs')
<1>1. /\ ui \in Pages(runs) /\ shown \in Statuses /\ runs \in Nat
      /\ \A i \in 1 .. Len(pq.queue) : pq.queue[i] \in Stream(runs)
      /\ Queue(pq)
  BY DEF EngineInv, PQInv
<1>2. ui.status \in Statuses
  BY <1>1 DEF Pages
<1>3. CASE QueueTask
  <2>1. ui' \in Pages(runs)
    BY <1>1, <1>3, OnEventTyped, OnWalkingTyped, TaskKeeps
  <2>2. /\ \A i \in 1 .. Len(pq'.queue) : pq'.queue[i] \in Stream(runs)
        /\ shown' = shown /\ runs' = runs
    BY <1>3, TaskSends DEF started
  <2>. QED  BY <1>1, <2>1, <2>2
<1>4. ASSUME NEW e, Run(e) \/ OtherRuns(e)
      PROVE  /\ ui' \in Pages(runs') /\ shown' \in Statuses
             /\ \A i \in 1 .. Len(pq'.queue) : pq'.queue[i] \in Stream(runs')
  <2>1. runs' = runs + 1 /\ pq' = pq
    BY <1>4 DEF Run, OtherRuns, Starts, pqVars
  <2>2. \/ ui' = ui /\ shown' = shown
        \/ ui' = Cleared("running") /\ shown' = "running"
    BY <1>4 DEF Run, OtherRuns
  <2>3. "running" \in Statuses
    BY DEF Statuses
  <2>4. ui' \in Pages(runs + 1) /\ shown' \in Statuses
    BY <1>1, <2>2, <2>3, PagesGrow, ClearedTyped
  <2>5. \A x \in Stream(runs) : x \in Stream(runs + 1)
    BY <1>1 DEF Stream
  <2>. QED  BY <1>1, <2>1, <2>4, <2>5
<1>5. ASSUME NEW r \in Runs, Answer(r)
      PROVE  ui' \in Pages(runs)
  <2>1. r \in 0 .. runs
    BY <1>1, <1>5 DEF Answer, EngineInv
  <2>2. [ui EXCEPT !.result = r, !.status = "done", !.stage = -1, !.completed = 6] \in Pages(runs)
    <3>1. "done" \in Statuses /\ -1 \in -1 .. 4 /\ 6 \in 0 .. 6
      BY DEF Statuses
    <3>. QED  BY <1>1, <2>1, <3>1 DEF Pages
  <2>3. HttpError(ui) \in Pages(runs)
    BY <1>1, FailureTyped DEF HttpError
  <2>. QED  BY <1>5, <2>2, <2>3 DEF Answer
<1>6. ASSUME NEW r \in Runs, NetworkFails(r)
      PROVE  ui' \in Pages(runs)
  <2>. DEFINE x == [NoError EXCEPT !.type = "network.error"]
  <2>1. [ui EXCEPT !.error = x, !.status = "error"] \in Pages(runs)
    BY <1>1, FailureTyped
  <2>2. ui' = [ui EXCEPT !.status = "error", !.error = x]
    BY <1>6 DEF NetworkFails
  <2>. HIDE DEF x
  <2>3. [ui EXCEPT !.status = "error", !.error = x] = [ui EXCEPT !.error = x, !.status = "error"]
    BY <1>1 DEF Pages
  <2>. QED  BY <2>1, <2>2, <2>3
<1>7. ASSUME Reset
      PROVE  /\ ui' \in Pages(runs') /\ shown' \in Statuses
             /\ \A i \in 1 .. Len(pq'.queue) : pq'.queue[i] \in Stream(runs')
  <2>1. pq'.queue = << >>
    BY <1>1, <1>7, FlushSends DEF Reset
  <2>2. runs' = runs /\ ui' = Cleared("idle") /\ shown' = "idle" /\ "idle" \in Statuses
    BY <1>7 DEF Reset, started, Statuses
  <2>. QED  BY <1>1, <2>1, <2>2, ClearedTyped
<1>8. ASSUME NEW r \in Runs, Lose(r)
      PROVE  UNCHANGED <<ui, shown, runs, pq>>
  BY <1>8 DEF Lose, pqVars, started
<1>9. ASSUME NEW r \in Runs, Answer(r) \/ NetworkFails(r)
      PROVE  UNCHANGED <<shown, runs, pq>>
  BY <1>9 DEF Answer, NetworkFails, pqVars, started
<1>10. ASSUME Render
       PROVE  UNCHANGED <<ui, runs, pq>> /\ shown' = ui.status
  BY <1>10 DEF Render, pqVars, started
<1>. QED
  BY <1>1, <1>2, <1>3, <1>4, <1>5, <1>6, <1>7, <1>8, <1>9, <1>10
  DEF Next, PressReset, PickCarrier, QueueTask

LEMMA EngineSteps ==
  ASSUME EngineInv, Next
  PROVE  EngineInv'
<1>1. TrailTyped'
  BY TrailSteps DEF EngineInv, TrailTyped
<1>2. PQInv'
  <2>1. PQNext(AnyMessage) \/ UNCHANGED pqVars
    BY EngineCallsQueue DEF EngineInv, TrailTyped
  <2>2. UNCHANGED pqVars => PQInv'
    BY DEF EngineInv, PQInv, pqVars
  <2>. QED  BY <2>1, <2>2, QueueSteps DEF EngineInv
<1>. QED  BY <1>1, <1>2, CountedSteps, PageSteps DEF EngineInv, Counted

LEMMA EngineStarts == Init => EngineInv
<1>. SUFFICES ASSUME Init PROVE EngineInv
  OBVIOUS
<1>1. PQInv
  BY Inductive DEF Init
<1>2. TrailTyped /\ \A r \in Runs : trail[r] = NoTrail
  BY DEF Init, TrailTyped, Trails, NoTrail
<1>3. ui \in Pages(0) /\ shown \in Statuses
  <2>1. "idle" \in Statuses
    BY DEF Statuses
  <2>. QED  BY <2>1, ClearedTyped DEF Init
<1>4. pq.queue = << >> /\ runs = 0 /\ others = 0 /\ current = 0 /\ inFlight = {} /\ lost = 0
  BY DEF Init, PQInit
<1>5. ending \in [Runs -> EndingNames \cup {"none"}]
  BY DEF Init
<1>. QED  BY <1>1, <1>2, <1>3, <1>4, <1>5, EngineAssumption DEF EngineInv

LEMMA EngineStutters == EngineInv /\ UNCHANGED vars => EngineInv'
BY DEF EngineInv, TrailTyped, PQInv, vars, pqVars, engineVars, started

\* Every variable of the engine keeps its type, and the queue its own, whatever
\* the stream delivers, loses or brings from other pages.
THEOREM EngineTypeCorrect == Spec => []TypeOK
<1>1. EngineInv /\ [Next]_vars => EngineInv'
  BY EngineSteps, EngineStutters
<1>2. EngineInv => TypeOK
  <2>. SUFFICES ASSUME EngineInv PROVE TypeOK
    OBVIOUS
  <2>1. PQTypeOK
    BY InvTypes DEF EngineInv
  <2>2. ui \in Pages(runs) /\ ui.error \in Errors(runs)
    BY DEF EngineInv, Pages
  <2>. QED  BY <2>1, <2>2 DEF EngineInv, TypeOK, Pages, Errors
<1>. QED  BY <1>1, <1>2, EngineStarts, PTL DEF Spec

-----------------------------------------------------------------------------
(* What one callback does to the page.                                      *)

LEMMA NotedEffect ==
  ASSUME NEW n \in Nat, NEW u \in Pages(n), NEW e \in Stream(n)
  PROVE  /\ Noted(u, e).status = u.status /\ Noted(u, e).stage = u.stage
         /\ Noted(u, e).completed = u.completed /\ Noted(u, e).maxStage = u.maxStage
         /\ Noted(u, e).result = u.result /\ Noted(u, e).error = u.error
         /\ u.peerUri \/ e.type = "mtls.peer_uri_seen" => Noted(u, e).peerUri
BY DEF Noted, Pages

LEMMA UriNoted ==
  ASSUME NEW n \in Nat, NEW u \in Pages(n), NEW e \in Stream(n)
  PROVE  Noted(u, e).peerUri = (u.peerUri \/ e.type = "mtls.peer_uri_seen")
BY DEF Noted, Pages

\* An error event ends the resolve; any other leaves everything but the stage.
LEMMA ErrorEffect ==
  ASSUME NEW n \in Nat, NEW u \in Pages(n), NEW e \in Stream(n), IsErr(e.type)
  PROVE  /\ OnEvent(u, e).status = "error" /\ OnEvent(u, e).stage = -1
         /\ OnEvent(u, e).completed = u.completed /\ OnEvent(u, e).maxStage = u.maxStage
         /\ OnEvent(u, e).result = u.result
         /\ OnEvent(u, e).error = [type |-> e.type, of |-> e.of,
                                   uri |-> Noted(u, e).peerUri, payload |-> TRUE]
         /\ OnEvent(u, e).peerUri = Noted(u, e).peerUri
<1>. DEFINE v == Noted(u, e)
            x == [type |-> e.type, of |-> e.of, uri |-> v.peerUri, payload |-> TRUE]
<1>1. v \in Pages(n) /\ v.completed = u.completed /\ v.maxStage = u.maxStage /\ v.result = u.result
  BY NotedTyped, NotedEffect
<1>2. OnEvent(u, e) = [v EXCEPT !.error = x, !.stage = -1, !.status = "error"]
  BY DEF OnEvent, ShowError
<1>. HIDE DEF v, x
<1>3. /\ OnEvent(u, e).status = "error" /\ OnEvent(u, e).stage = -1
      /\ OnEvent(u, e).completed = v.completed /\ OnEvent(u, e).maxStage = v.maxStage
      /\ OnEvent(u, e).result = v.result /\ OnEvent(u, e).error = x
      /\ OnEvent(u, e).peerUri = v.peerUri
  BY <1>1, <1>2 DEF Pages
<1>. QED  BY <1>1, <1>3 DEF v, x

LEMMA StageEffect ==
  ASSUME NEW n \in Nat, NEW u \in Pages(n), NEW e \in Stream(n), ~IsErr(e.type)
  PROVE  /\ OnEvent(u, e).status = u.status
         /\ OnEvent(u, e).result = u.result /\ OnEvent(u, e).error = u.error
         /\ OnEvent(u, e).peerUri = Noted(u, e).peerUri
         /\ \/ /\ OnEvent(u, e).stage = u.stage /\ OnEvent(u, e).completed = u.completed
               /\ OnEvent(u, e).maxStage = u.maxStage
            \/ /\ shown = "running" /\ EventToStage(e.type) > u.maxStage /\ EventToStage(e.type) >= 0
               /\ OnEvent(u, e).stage = EventToStage(e.type)
               /\ OnEvent(u, e).completed = EventToStage(e.type)
               /\ OnEvent(u, e).maxStage = EventToStage(e.type)
<1>. DEFINE v == Noted(u, e)
            k == EventToStage(e.type)
<1>1. /\ v \in Pages(n) /\ v.status = u.status /\ v.stage = u.stage /\ v.completed = u.completed
      /\ v.maxStage = u.maxStage /\ v.result = u.result /\ v.error = u.error
  BY NotedTyped, NotedEffect
<1>2. OnEvent(u, e) = IF shown # "running" THEN v ELSE Advance(v, k)
  BY DEF OnEvent
<1>. HIDE DEF v, k
<1>3. CASE shown # "running" \/ ~(k >= 0 /\ k > v.maxStage)
  <2>1. OnEvent(u, e) = v
    BY <1>2, <1>3 DEF Advance
  <2>. QED  BY <1>1, <2>1 DEF v, k
<1>4. CASE shown = "running" /\ k >= 0 /\ k > v.maxStage
  <2>1. OnEvent(u, e) = [v EXCEPT !.maxStage = k, !.stage = k, !.completed = k]
    BY <1>2, <1>4 DEF Advance
  <2>2. /\ OnEvent(u, e).stage = k /\ OnEvent(u, e).completed = k /\ OnEvent(u, e).maxStage = k
        /\ OnEvent(u, e).status = v.status /\ OnEvent(u, e).result = v.result
        /\ OnEvent(u, e).error = v.error /\ OnEvent(u, e).peerUri = v.peerUri
    BY <1>1, <2>1 DEF Pages
  <2>. QED  BY <1>1, <1>4, <2>2 DEF v, k
<1>. QED  BY <1>3, <1>4

LEMMA WalkingEffect ==
  ASSUME NEW n \in Nat, NEW u \in Pages(n)
  PROVE  /\ OnWalking(u).status = IF u.status \in {"done", "error"} THEN u.status ELSE "running"
         /\ OnWalking(u).stage = u.stage /\ OnWalking(u).completed = u.completed
         /\ OnWalking(u).maxStage = u.maxStage /\ OnWalking(u).result = u.result
         /\ OnWalking(u).error = u.error /\ OnWalking(u).peerUri = u.peerUri
BY DEF OnWalking, Pages

-----------------------------------------------------------------------------
(* The answer is never undone.                                              *)

LEMMA AnsweredSteps ==
  ASSUME EngineInv, AnsweredIsSettled, Next
  PROVE  AnsweredIsSettled'
<1>1. /\ ui \in Pages(runs) /\ runs \in Nat /\ current \in 0 .. runs
  BY DEF EngineInv
<1>. DEFINE Settled == {"done", "error"}
<1>2. ASSUME QueueTask PROVE AnsweredIsSettled'
  <2>1. UNCHANGED <<current, inFlight, undisturbed>>
    BY <1>2, TaskSends DEF started, history
  <2>2. CASE ui.status \in Settled
    <3>. DEFINE S == {u \in Pages(runs) : u.status \in Settled}
    <3>1. ASSUME NEW u \in S PROVE OnWalking(u) \in S
      BY <1>1, OnWalkingTyped, WalkingEffect
    <3>2. ASSUME NEW u \in S, NEW e \in Stream(runs) PROVE OnEvent(u, e) \in S
      BY <1>1, OnEventTyped, ErrorEffect, StageEffect
    <3>3. ui \in S
      BY <1>1, <2>2
    <3>4. ui' \in S
      <4>. HIDE DEF S
      <4>. QED  BY <1>2, <3>1, <3>2, <3>3, TaskKeeps
    <3>. QED  BY <3>4 DEF AnsweredIsSettled
  <2>. QED  BY <2>1, <2>2 DEF AnsweredIsSettled
<1>3. ASSUME NEW e, Run(e) PROVE AnsweredIsSettled'
  BY <1>3 DEF Run, AnsweredIsSettled
<1>4. ASSUME NEW e, OtherRuns(e) PROVE AnsweredIsSettled'
  BY <1>4 DEF OtherRuns, AnsweredIsSettled
<1>5. ASSUME NEW r \in Runs, Answer(r) \/ NetworkFails(r) PROVE AnsweredIsSettled'
  <2>1. ui'.status \in Settled
    BY <1>1, <1>5 DEF Answer, NetworkFails, HttpError, Pages
  <2>. QED  BY <2>1 DEF AnsweredIsSettled
<1>6. ASSUME Reset PROVE AnsweredIsSettled'
  BY <1>6 DEF Reset, AnsweredIsSettled
<1>7. ASSUME NEW r \in Runs, Lose(r) PROVE AnsweredIsSettled'
  BY <1>7 DEF Lose, AnsweredIsSettled, started, history
<1>8. CASE Render
  BY <1>8 DEF Render, AnsweredIsSettled, started, history
<1>. QED
  BY <1>2, <1>3, <1>4, <1>5, <1>6, <1>7, <1>8 DEF Next, QueueTask, PressReset, PickCarrier

\* A resolve whose answer has come stays settled, whatever events of any resolve
\* come later, for any number of resolves and in any order.
THEOREM StaysSettled == Spec => []AnsweredIsSettled
<1>1. Init => AnsweredIsSettled
  BY DEF Init, AnsweredIsSettled
<1>2. EngineInv /\ AnsweredIsSettled /\ [Next]_vars => AnsweredIsSettled'
  <2>1. AnsweredIsSettled /\ UNCHANGED vars => AnsweredIsSettled'
    BY DEF AnsweredIsSettled, vars, engineVars, started, history
  <2>. QED  BY <2>1, AnsweredSteps
<1>3. EngineInv /\ [Next]_vars => EngineInv'
  BY EngineSteps, EngineStutters
<1>. QED  BY <1>1, <1>2, <1>3, EngineStarts, PTL DEF Spec

-----------------------------------------------------------------------------
(* The page never steps back.                                               *)

\* Until the resolve has settled, completed is the furthest stage seen.
CountsStages ==
  ui.status \in {"idle", "running"} =>
    ui.completed = IF ui.maxStage < 0 THEN 0 ELSE ui.maxStage

\* What the callbacks of one task do to a page that is not settled: if it is still
\* not settled, it has not stepped back.
LEMMA TaskForward ==
  ASSUME EngineInv, CountsStages, QueueTask
  PROVE  /\ CountsStages'
         /\ ui.status \in {"idle", "running"} /\ ui'.status \in {"idle", "running"}
              => ui'.completed >= ui.completed
<1>1. ui \in Pages(runs) /\ runs \in Nat /\ ui.maxStage \in -1 .. 4
  BY DEF EngineInv, Pages
<1>. DEFINE Open == {"idle", "running"}
            Count(u) == IF u.maxStage < 0 THEN 0 ELSE u.maxStage
            S == {u \in Pages(runs) : u.status \in Open =>
                    /\ u.completed = Count(u)
                    /\ ui.status \in Open /\ u.maxStage >= ui.maxStage}
<1>2. ASSUME NEW u \in S PROVE OnWalking(u) \in S
  <2>1. OnWalking(u) \in Pages(runs) /\ u.status \in Statuses
    BY <1>1, OnWalkingTyped DEF Pages
  <2>2. OnWalking(u).status \in Open => u.status \in Open
    BY <1>1, <2>1, WalkingEffect DEF Statuses
  <2>. QED  BY <1>1, <2>1, <2>2, WalkingEffect
<1>3. ASSUME NEW u \in S, NEW e \in Stream(runs) PROVE OnEvent(u, e) \in S
  <2>1. OnEvent(u, e) \in Pages(runs) /\ u.maxStage \in -1 .. 4
    BY <1>1, OnEventTyped DEF Pages
  <2>2. CASE IsErr(e.type)
    BY <1>1, <2>1, <2>2, ErrorEffect
  <2>3. CASE ~IsErr(e.type)
    <3>1. EventToStage(e.type) \in -1 .. 4
      BY StageTyped
    <3>. QED  BY <1>1, <2>1, <2>3, <3>1, StageEffect
  <2>. QED  BY <2>2, <2>3
<1>4. CASE ui.status \in Open
  <2>1. ui \in S
    BY <1>1, <1>4 DEF CountsStages
  <2>2. ui' \in S
    <3>. HIDE DEF S
    <3>. QED  BY <1>2, <1>3, <2>1, TaskKeeps
  <2>3. ui'.maxStage \in -1 .. 4
    BY <2>2 DEF Pages
  <2>. QED  BY <1>1, <1>4, <2>2, <2>3 DEF CountsStages
<1>5. CASE ui.status \notin Open
  <2>1. ui \in S
    BY <1>1, <1>5
  <2>2. ui' \in S
    <3>. HIDE DEF S
    <3>. QED  BY <1>2, <1>3, <2>1, TaskKeeps
  <2>. QED  BY <1>5, <2>2 DEF CountsStages
<1>. QED  BY <1>4, <1>5

LEMMA ForwardSteps ==
  ASSUME EngineInv, CountsStages, Next
  PROVE  /\ CountsStages'
         /\ (ui.status = "running" /\ ui'.status = "running" /\ current' = current)
              => ui'.completed >= ui.completed
<1>1. ui \in Pages(runs) /\ ui.completed \in 0 .. 6 /\ runs \in Nat /\ current \in 0 .. runs
  BY DEF EngineInv, Pages
<1>2. CASE QueueTask
  BY <1>2, TaskForward
<1>3. ASSUME NEW e, Run(e)
      PROVE  CountsStages' /\ current' # current
  <2>1. ui' = Cleared("running") /\ current' = runs + 1
    BY <1>3 DEF Run
  <2>2. current' # current
    BY <1>1, <2>1
  <2>. QED  BY <2>1, <2>2 DEF CountsStages, Cleared
<1>4. ASSUME NEW r \in Runs, Answer(r) \/ NetworkFails(r)
      PROVE  ui'.status \in {"done", "error"}
  BY <1>1, <1>4 DEF Answer, NetworkFails, HttpError, Pages
<1>5. Reset => ui'.status = "idle" /\ CountsStages'
  BY DEF Reset, Cleared, CountsStages
<1>6. ASSUME NEW r \in Runs, Lose(r) PROVE ui' = ui
  BY <1>6 DEF Lose
<1>7. ASSUME NEW e, OtherRuns(e) PROVE ui' = ui
  BY <1>7 DEF OtherRuns
<1>8. Render => ui' = ui
  BY DEF Render
<1>9. ui' = ui => CountsStages' /\ ui'.completed >= ui.completed
  BY <1>1 DEF CountsStages
<1>10. ui'.status \in {"done", "error"} => CountsStages' /\ ui'.status # "running"
  BY DEF CountsStages
<1>. QED
  BY <1>2, <1>3, <1>4, <1>5, <1>6, <1>7, <1>8, <1>9, <1>10
  DEF Next, QueueTask, PressReset, PickCarrier

\* While a resolve is running, no event of any resolve moves the page backward.
THEOREM OnlyForward == Spec => NeverBackward
<1>1. Init => CountsStages
  BY DEF Init, CountsStages, Cleared
<1>2. EngineInv /\ CountsStages /\ [Next]_vars => CountsStages'
  <2>1. CountsStages /\ UNCHANGED vars => CountsStages'
    BY DEF CountsStages, vars, engineVars
  <2>. QED  BY <2>1, ForwardSteps
<1>3. EngineInv /\ CountsStages /\ [Next]_vars =>
        [ (ui.status = "running" /\ ui'.status = "running" /\ current' = current)
            => ui'.completed >= ui.completed ]_vars
  BY ForwardSteps
<1>4. EngineInv /\ [Next]_vars => EngineInv'
  BY EngineSteps, EngineStutters
<1>. QED  BY <1>1, <1>2, <1>3, <1>4, EngineStarts, PTL DEF Spec, NeverBackward

-----------------------------------------------------------------------------
(* A finished diagram stays, and so does an explained error.                *)

LEMMA NoRewindSteps ==
  ASSUME EngineInv, Next, shown = "done", ui.status = "done", ui'.status = "done",
         current' = current
  PROVE  (ui'.stage = ui.stage /\ ui'.completed = ui.completed)
           \/ (ui'.stage = -1 /\ ui'.completed = 6)
<1>1. ui \in Pages(runs) /\ runs \in Nat /\ current \in 0 .. runs
  BY DEF EngineInv
<1>2. ASSUME QueueTask PROVE ui'.stage = ui.stage /\ ui'.completed = ui.completed
  <2>. DEFINE S == {u \in Pages(runs) :
                      \/ u.status = "error"
                      \/ u.status = "done" /\ u.stage = ui.stage /\ u.completed = ui.completed}
  <2>1. ASSUME NEW u \in S PROVE OnWalking(u) \in S
    BY <1>1, OnWalkingTyped, WalkingEffect
  <2>2. ASSUME NEW u \in S, NEW e \in Stream(runs) PROVE OnEvent(u, e) \in S
    <3>1. CASE IsErr(e.type)
      BY <1>1, <3>1, OnEventTyped, ErrorEffect
    <3>2. CASE ~IsErr(e.type)
      BY <1>1, <3>2, OnEventTyped, StageEffect
    <3>. QED  BY <3>1, <3>2
  <2>3. ui \in S
    BY <1>1
  <2>4. ui' \in S
    <3>. HIDE DEF S
    <3>. QED  BY <1>2, <2>1, <2>2, <2>3, TaskKeeps
  <2>. QED  BY <2>4
<1>3. ASSUME NEW e, Run(e) PROVE FALSE
  <2>1. current' = runs + 1
    BY <1>3 DEF Run
  <2>. QED  BY <1>1, <2>1
<1>4. ASSUME NEW r \in Runs, Answer(r) PROVE ui'.stage = -1 /\ ui'.completed = 6
  <2>1. CASE AnswersOk(ending[r])
    BY <1>1, <1>4, <2>1 DEF Answer, Pages
  <2>2. CASE ~AnswersOk(ending[r])
    BY <1>1, <1>4, <2>2 DEF Answer, HttpError, Pages
  <2>. QED  BY <2>1, <2>2
<1>5. ASSUME NEW r \in Runs, NetworkFails(r) PROVE FALSE
  BY <1>1, <1>5 DEF NetworkFails, Pages
<1>6. Reset => FALSE
  BY DEF Reset, Cleared
<1>7. ASSUME NEW r \in Runs, Lose(r) PROVE ui' = ui
  BY <1>7 DEF Lose
<1>8. ASSUME NEW e, OtherRuns(e) PROVE ui' = ui
  BY <1>8 DEF OtherRuns
<1>9. Render => ui' = ui
  BY DEF Render
<1>. QED
  BY <1>2, <1>3, <1>4, <1>5, <1>6, <1>7, <1>8, <1>9 DEF Next, QueueTask, PressReset, PickCarrier

\* Once done has been rendered, late events leave the finished diagram alone
\* (useResolveEngine.ts:136-141).
THEOREM NeverRewinds == Spec => NoRewindOnceShown
<1>1. EngineInv /\ [Next]_vars => EngineInv'
  BY EngineSteps, EngineStutters
<1>2. EngineInv /\ [Next]_vars =>
        [ (shown = "done" /\ ui.status = "done" /\ ui'.status = "done" /\ current' = current)
            => (ui'.stage = ui.stage /\ ui'.completed = ui.completed)
               \/ (ui'.stage = -1 /\ ui'.completed = 6) ]_vars
  BY NoRewindSteps
<1>. QED  BY <1>1, <1>2, EngineStarts, PTL DEF Spec, NoRewindOnceShown

LEMMA ExplainedSteps ==
  ASSUME EngineInv, Next, ui.error.payload
  PROVE  \/ ui'.error.payload
         \/ current' # current \/ ui'.status = "idle" \/ ui'.error.type = "network.error"
<1>1. ui \in Pages(runs) /\ runs \in Nat /\ current \in 0 .. runs
  BY DEF EngineInv
<1>2. ASSUME QueueTask PROVE ui'.error.payload
  <2>. DEFINE S == {u \in Pages(runs) : u.error.payload}
  <2>1. ASSUME NEW u \in S PROVE OnWalking(u) \in S
    BY <1>1, OnWalkingTyped, WalkingEffect
  <2>2. ASSUME NEW u \in S, NEW e \in Stream(runs) PROVE OnEvent(u, e) \in S
    <3>1. CASE IsErr(e.type)
      <4>1. OnEvent(u, e).error = [type |-> e.type, of |-> e.of, uri |-> Noted(u, e).peerUri, payload |-> TRUE]
        BY <1>1, <3>1, ErrorEffect
      <4>2. OnEvent(u, e).error.payload
        BY <4>1
      <4>3. OnEvent(u, e) \in Pages(runs)
        BY <1>1, OnEventTyped
      <4>. QED  BY <4>2, <4>3
    <3>2. CASE ~IsErr(e.type)
      BY <1>1, <3>2, OnEventTyped, StageEffect
    <3>. QED  BY <3>1, <3>2
  <2>3. ui \in S
    BY <1>1
  <2>4. ui' \in S
    <3>. HIDE DEF S
    <3>. QED  BY <1>2, <2>1, <2>2, <2>3, TaskKeeps
  <2>. QED  BY <2>4
<1>3. ASSUME NEW e, Run(e) PROVE current' # current
  <2>1. current' = runs + 1
    BY <1>3 DEF Run
  <2>. QED  BY <1>1, <2>1
<1>4. ASSUME NEW r \in Runs, Answer(r) PROVE ui'.error = ui.error
  <2>1. CASE AnswersOk(ending[r])
    BY <1>1, <1>4, <2>1 DEF Answer, Pages
  <2>2. CASE ~AnswersOk(ending[r])
    BY <1>1, <1>4, <2>2 DEF Answer, HttpError, Pages
  <2>. QED  BY <2>1, <2>2
<1>5. ASSUME NEW r \in Runs, NetworkFails(r) PROVE ui'.error.type = "network.error"
  BY <1>1, <1>5 DEF NetworkFails, Pages, NoError
<1>6. Reset => ui'.status = "idle"
  BY DEF Reset, Cleared
<1>7. ASSUME NEW r \in Runs, Lose(r) PROVE ui' = ui
  BY <1>7 DEF Lose
<1>8. ASSUME NEW e, OtherRuns(e) PROVE ui' = ui
  BY <1>8 DEF OtherRuns
<1>9. Render => ui' = ui
  BY DEF Render
<1>. QED
  BY <1>2, <1>3, <1>4, <1>5, <1>6, <1>7, <1>8, <1>9 DEF Next, QueueTask, PressReset, PickCarrier

\* A failed answer never replaces an error that the stream explained
\* (useResolveEngine.ts:201-204).
THEOREM ExplanationStays == Spec => ExplainedErrorKept
<1>1. EngineInv /\ [Next]_vars => EngineInv'
  BY EngineSteps, EngineStutters
<1>2. EngineInv /\ [Next]_vars =>
        [ ui.error.payload =>
            \/ ui'.error.payload
            \/ current' # current \/ ui'.status = "idle" \/ ui'.error.type = "network.error" ]_vars
  BY ExplainedSteps
<1>. QED  BY <1>1, <1>2, EngineStarts, PTL DEF Spec, ExplainedErrorKept

-----------------------------------------------------------------------------
(* The URI of a foreign peer.                                               *)

PeerSeen == "mtls.peer_uri_seen"
Shook == "mtls.handshake.err"

\* What the portal sends of a rejected foreign carrier.
Begins == "mtls.handshake.start"
Rejection == <<Requested, Begins, PeerSeen, Shook>>
Begun == <<Begins, PeerSeen, Shook>>

Patient(s) == \A i \in 1 .. Len(s) : ~IsErr(s[i].type)
Tells(s) == \E i \in 1 .. Len(s) : s[i].type = PeerSeen

\* The current resolve is one PeerUriMerged speaks of.
Watched == undisturbed /\ lost = 0 /\ others = 0 /\ ending[current] = "foreign"

\* Up to its error, what the portal told of the current resolve: once the URI has
\* come it is noted or queued, where no new resolve can drop it any more.
Merging ==
  /\ trail[current].relayed = << >>
  /\ trail[current].direct \in {Rejection, Begun, <<PeerSeen, Shook>>, <<Shook>>, << >>}
  /\ trail[current].direct # Rejection => \A q \in Runs : ~Unrequested(q)
  /\ trail[current].direct = <<Shook>> => (ui.peerUri \/ Tells(pq.queue))
  /\ trail[current].direct # << >> => ui.error.of # current
  /\ (ui.error.type = Shook /\ ui.error.of = current) => ui.error.uri

\* Errors are never queued, a page that is alone started the latest resolve.
PeerInv ==
  /\ EngineInv
  /\ Patient(pq.queue)
  /\ others = 0 => current = runs
  /\ undisturbed => current # 0
  /\ Watched => Merging

\* Fanning out events that are no errors keeps the error, and notes the URI.
LEMMA QuietEvents ==
  ASSUME EngineInv, NEW calls, NEW evs, Carries(calls, evs),
         \A i \in 1 .. Len(evs) : evs[i] \in Stream(runs), Patient(evs)
  PROVE  /\ Handled(calls).error = ui.error
         /\ ui.peerUri \/ Tells(evs) => Handled(calls).peerUri
<1>. DEFINE J == [i \in 0 .. Len(evs) |->
             {u \in Pages(runs) :
                /\ u.error = ui.error
                /\ ui.peerUri \/ (\E j \in 1 .. i : evs[j].type = PeerSeen) => u.peerUri}]
<1>1. Len(evs) \in Nat /\ ui \in Pages(runs) /\ runs \in Nat
  BY DEF Carries, EngineInv
<1>2. ui \in J[0]
  BY <1>1
<1>3. ASSUME NEW i \in 0 .. Len(evs), NEW u \in J[i] PROVE OnWalking(u) \in J[i]
  <2>1. u \in Pages(runs)
    OBVIOUS
  <2>2. OnWalking(u) \in Pages(runs) /\ OnWalking(u).error = u.error /\ OnWalking(u).peerUri = u.peerUri
    BY <1>1, <2>1, OnWalkingTyped, WalkingEffect
  <2>. QED  BY <2>2
<1>4. ASSUME NEW i \in 1 .. Len(evs), NEW u \in J[i - 1] PROVE OnEvent(u, evs[i]) \in J[i]
  <2>. DEFINE e == evs[i]
  <2>1. u \in Pages(runs) /\ e \in Stream(runs) /\ ~IsErr(e.type) /\ u.error = ui.error
    BY <1>1 DEF Patient
  <2>2. ui.peerUri \/ (\E j \in 1 .. i - 1 : evs[j].type = PeerSeen) => u.peerUri
    BY <1>1
  <2>3. OnEvent(u, e) \in Pages(runs) /\ OnEvent(u, e).error = u.error
        /\ OnEvent(u, e).peerUri = Noted(u, e).peerUri
    BY <1>1, <2>1, OnEventTyped, StageEffect
  <2>4. Noted(u, e).peerUri = (u.peerUri \/ e.type = PeerSeen)
    BY <1>1, <2>1, UriNoted DEF PeerSeen
  <2>5. ASSUME ui.peerUri \/ \E j \in 1 .. i : evs[j].type = PeerSeen
        PROVE  OnEvent(u, e).peerUri
    <3>1. CASE e.type = PeerSeen
      BY <2>3, <2>4, <3>1
    <3>2. CASE e.type # PeerSeen
      <4>1. ui.peerUri \/ \E j \in 1 .. i - 1 : evs[j].type = PeerSeen
        BY <1>1, <2>5, <3>2
      <4>. QED  BY <2>2, <2>3, <2>4, <4>1
    <3>. QED  BY <3>1, <3>2
  <2>. QED  BY <1>1, <2>1, <2>3, <2>5
<1>. HIDE DEF J
<1>5. Handled(calls) \in J[Len(evs)]
  BY <1>2, <1>3, <1>4, HandledAlong
<1>. QED  BY <1>1, <1>5 DEF J, Tells

\* An error that goes out behind what was queued has the URI, if that told it.
LEMMA LoudEvent ==
  ASSUME EngineInv, NEW s \in Seq(Events), NEW e \in Stream(runs), IsErr(e.type),
         NEW calls, Carries(calls, Append(s, e)),
         \A i \in 1 .. Len(s) : s[i] \in Stream(runs), Patient(s)
  PROVE  /\ Handled(calls).error.type = e.type /\ Handled(calls).error.of = e.of
         /\ ui.peerUri \/ Tells(s) => Handled(calls).error.uri /\ Handled(calls).peerUri
<1>. DEFINE evs == Append(s, e)
            n == Len(s)
            Known(i) == ui.peerUri \/ \E j \in 1 .. i : s[j].type = PeerSeen
            J == [i \in 0 .. n + 1 |->
             {u \in Pages(runs) :
                /\ i <= n => (Known(i) => u.peerUri)
                /\ i = n + 1 => /\ u.error.type = e.type /\ u.error.of = e.of
                                /\ Known(n) => u.error.uri /\ u.peerUri}]
<1>1. n \in Nat /\ ui \in Pages(runs) /\ runs \in Nat
  BY DEF EngineInv
<1>2. /\ Len(evs) = n + 1 /\ evs[n + 1] = e
      /\ \A i \in 1 .. n : evs[i] = s[i]
  <2>1. e \in Events
    BY DEF Stream
  <2>. QED  BY <2>1, AppendProperties
<1>3. Carries(calls, evs)
  OBVIOUS
<1>. HIDE DEF evs, n
<1>4. ui \in J[0]
  BY <1>1
<1>5. ASSUME NEW i \in 0 .. n + 1, NEW u \in J[i] PROVE OnWalking(u) \in J[i]
  <2>1. u \in Pages(runs)
    OBVIOUS
  <2>2. OnWalking(u) \in Pages(runs) /\ OnWalking(u).error = u.error /\ OnWalking(u).peerUri = u.peerUri
    BY <1>1, <2>1, OnWalkingTyped, WalkingEffect
  <2>. QED  BY <2>2
<1>6. ASSUME NEW i \in 1 .. n, NEW u \in J[i - 1] PROVE OnEvent(u, s[i]) \in J[i]
  <2>1. u \in Pages(runs) /\ s[i] \in Stream(runs) /\ ~IsErr(s[i].type)
    BY <1>1 DEF Patient, n
  <2>2. Known(i - 1) => u.peerUri
    BY <1>1
  <2>3. OnEvent(u, s[i]) \in Pages(runs) /\ OnEvent(u, s[i]).peerUri = Noted(u, s[i]).peerUri
    BY <1>1, <2>1, OnEventTyped, StageEffect
  <2>4. Noted(u, s[i]).peerUri = (u.peerUri \/ s[i].type = PeerSeen)
    BY <1>1, <2>1, UriNoted DEF PeerSeen
  <2>5. ASSUME Known(i) PROVE OnEvent(u, s[i]).peerUri
    <3>1. CASE s[i].type = PeerSeen
      BY <2>3, <2>4, <3>1
    <3>2. CASE s[i].type # PeerSeen
      <4>1. Known(i - 1)
        BY <1>1, <2>5, <3>2
      <4>. QED  BY <2>2, <2>3, <2>4, <4>1
    <3>. QED  BY <3>1, <3>2
  <2>6. i \in 0 .. n + 1 /\ i # n + 1
    BY <1>1
  <2>. HIDE DEF Known
  <2>. QED  BY <2>3, <2>5, <2>6
<1>7. ASSUME NEW u \in J[n] PROVE OnEvent(u, e) \in J[n + 1]
  <2>1. u \in Pages(runs) /\ (Known(n) => u.peerUri)
    BY <1>1
  <2>2. OnEvent(u, e) \in Pages(runs) /\
        OnEvent(u, e).error = [type |-> e.type, of |-> e.of, uri |-> Noted(u, e).peerUri, payload |-> TRUE]
    BY <1>1, <2>1, OnEventTyped, ErrorEffect
  <2>3. OnEvent(u, e).error.type = e.type /\ OnEvent(u, e).error.of = e.of
        /\ OnEvent(u, e).error.uri = Noted(u, e).peerUri
        /\ OnEvent(u, e).peerUri = Noted(u, e).peerUri
    BY <1>1, <2>1, <2>2, ErrorEffect
  <2>4. Noted(u, e).peerUri = (u.peerUri \/ e.type = PeerSeen)
    BY <1>1, <2>1, UriNoted DEF PeerSeen
  <2>5. Known(n) => OnEvent(u, e).error.uri /\ OnEvent(u, e).peerUri
    BY <2>1, <2>3, <2>4
  <2>6. n + 1 \in 0 .. n + 1 /\ ~(n + 1 <= n)
    BY <1>1
  <2>. HIDE DEF Known
  <2>. QED  BY <2>2, <2>3, <2>5, <2>6
<1>. HIDE DEF J
<1>8. Handled(calls) \in J[Len(evs)]
  <2>1. \A i \in 0 .. Len(evs) : \A u \in J[i] : OnWalking(u) \in J[i]
    BY <1>2, <1>5
  <2>2. ASSUME NEW i \in 1 .. Len(evs), NEW u \in J[i - 1] PROVE OnEvent(u, evs[i]) \in J[i]
    <3>1. CASE i = n + 1
      <4>1. i - 1 = n
        BY <1>1, <3>1
      <4>. QED  BY <1>2, <1>7, <3>1, <4>1
    <3>2. CASE i # n + 1
      <4>1. i \in 1 .. n
        BY <1>1, <1>2, <3>2
      <4>. QED  BY <1>2, <1>6, <4>1
    <3>. QED  BY <3>1, <3>2
  <2>. QED  BY <1>3, <1>4, <2>1, <2>2, HandledAlong
<1>9. Tells(s) => Known(n)
  BY DEF Tells, n
<1>10. Handled(calls).error.type = e.type /\ Handled(calls).error.of = e.of
       /\ (Known(n) => Handled(calls).error.uri /\ Handled(calls).peerUri)
  <2>. HIDE DEF Known
  <2>. QED  BY <1>1, <1>2, <1>8 DEF J
<1>. QED  BY <1>9, <1>10

\* What holds of the parts of a sequence of events, and of one longer by an event.
LEMMA SplitEvents ==
  ASSUME NEW s \in Seq(Events), NEW t \in Seq(Events)
  PROVE  /\ Patient(s \o t) => Patient(s) /\ Patient(t)
         /\ Tells(s \o t) => Tells(s) \/ Tells(t)
<1>. DEFINE a == Len(s)
            b == Len(t)
            u == s \o t
<1>1. /\ Len(u) = a + b /\ a \in Nat /\ b \in Nat
      /\ \A i \in 1 .. a + b : u[i] = IF i <= a THEN s[i] ELSE t[i - a]
  BY ConcatProperties
<1>. HIDE DEF u, a, b
<1>2. ASSUME Patient(u) PROVE Patient(s) /\ Patient(t)
  <2>. DEFINE S == {x \in Events : ~IsErr(x.type)}
  <2>1. \A i \in 1 .. Len(u) : u[i] \in Events
    <3>1. u \in Seq(Events)
      BY DEF u
    <3>. QED  BY <3>1
  <2>2. \A i \in 1 .. Len(s \o t) : (s \o t)[i] \in S
    BY <1>2, <2>1 DEF Patient, u
  <2>. HIDE DEF S
  <2>3. /\ \A i \in 1 .. Len(s) : s[i] \in S
        /\ \A i \in 1 .. Len(t) : t[i] \in S
    BY <2>2, PartsOf
  <2>. QED  BY <2>3 DEF S, Patient
<1>3. ASSUME Tells(u) PROVE Tells(s) \/ Tells(t)
  <2>1. PICK i \in 1 .. a + b : u[i].type = PeerSeen
    BY <1>1, <1>3 DEF Tells
  <2>2. CASE i <= a
    <3>1. i \in 1 .. a /\ s[i].type = PeerSeen
      BY <1>1, <2>1, <2>2
    <3>. QED  BY <3>1 DEF Tells, a
  <2>3. CASE ~(i <= a)
    <3>1. i - a \in 1 .. b /\ t[i - a].type = PeerSeen
      BY <1>1, <2>1, <2>3
    <3>. QED  BY <3>1 DEF Tells, b
  <2>. QED  BY <2>2, <2>3
<1>. QED  BY <1>2, <1>3 DEF u

LEMMA OneMoreEvent ==
  ASSUME NEW s \in Seq(Events), NEW e \in Events
  PROVE  /\ Append(s, e) \in Seq(Events)
         /\ Patient(s) /\ ~IsErr(e.type) => Patient(Append(s, e))
         /\ Tells(s) \/ e.type = PeerSeen => Tells(Append(s, e))
<1>. DEFINE n == Len(s)
            t == Append(s, e)
<1>1. /\ t \in Seq(Events) /\ n \in Nat /\ Len(t) = n + 1 /\ t[n + 1] = e
      /\ \A i \in 1 .. n : t[i] = s[i]
  BY AppendProperties
<1>. HIDE DEF t, n
<1>2. ASSUME Patient(s), ~IsErr(e.type) PROVE Patient(t)
  <2>1. ASSUME NEW i \in 1 .. n + 1 PROVE ~IsErr(t[i].type)
    <3>1. CASE i = n + 1
      BY <1>1, <1>2, <3>1
    <3>2. CASE i # n + 1
      <4>1. i \in 1 .. n
        BY <1>1, <3>2
      <4>. QED  BY <1>1, <1>2, <4>1 DEF Patient, n
    <3>. QED  BY <3>1, <3>2
  <2>. QED  BY <1>1, <2>1 DEF Patient
<1>3. ASSUME Tells(s) PROVE Tells(t)
  <2>1. PICK i \in 1 .. n : s[i].type = PeerSeen
    BY <1>3 DEF Tells, n
  <2>2. i \in 1 .. Len(t) /\ t[i].type = PeerSeen
    BY <1>1, <2>1
  <2>. QED  BY <2>2 DEF Tells
<1>4. ASSUME e.type = PeerSeen PROVE Tells(t)
  <2>1. n + 1 \in 1 .. Len(t)
    BY <1>1
  <2>. QED  BY <1>1, <1>4, <2>1 DEF Tells
<1>. QED  BY <1>1, <1>2, <1>3, <1>4 DEF t

\* A resolve whose request was delivered stays requested.
LEMMA StaysRequested ==
  ASSUME TrailTyped, NEW r \in Runs, NEW t, NEW rest \in Trails, Heads(r, t, rest),
         trail' = [trail EXCEPT ![r] = rest], NEW q \in Runs, ~Unrequested(q)
  PROVE  ~Unrequested(q)'
<1>1. CASE q # r
  BY <1>1 DEF TrailTyped, Unrequested
<1>2. CASE q = r
  <2>. DEFINE d == trail[r].direct
  <2>1. d \in Seq(PortalTypes)
    BY DEF TrailTyped, Trails
  <2>2. rest.direct = d \/ (d # << >> /\ rest.direct = Tail(d))
    <3>. DEFINE y == Tail(d)
                z == Tail(trail[r].relayed)
    <3>1. \/ d # << >> /\ rest = [direct |-> y, relayed |-> trail[r].relayed]
          \/ rest = [direct |-> d, relayed |-> z]
      BY DEF Heads
    <3>. HIDE DEF y, z, d
    <3>2. rest.direct = d \/ (d # << >> /\ rest.direct = y)
      BY <3>1
    <3>. QED  BY <3>2 DEF y
  <2>3. trail'[r].direct = rest.direct
    BY DEF TrailTyped
  <2>. HIDE DEF d
  <2>4. ASSUME d # << >>, NEW i \in DOMAIN Tail(d) PROVE Tail(d)[i] \in Range(d)
    <3>1. Len(d) \in Nat /\ Len(d) # 0 /\ Len(Tail(d)) = Len(d) - 1 /\ Tail(d)[i] = d[i + 1]
      BY <2>1, <2>4
    <3>2. i \in 1 .. Len(d) - 1
      BY <2>1, <2>4, <3>1
    <3>3. i + 1 \in DOMAIN d
      BY <2>1, <3>1, <3>2
    <3>. QED  BY <3>1, <3>3 DEF Range
  <2>5. Requested \notin Range(d)
    BY <1>2 DEF Unrequested, d
  <2>6. Requested \notin Range(rest.direct)
    BY <2>2, <2>4, <2>5 DEF Range
  <2>. QED  BY <1>2, <2>3, <2>6 DEF Unrequested
<1>. QED  BY <1>1, <1>2

\* The request of a resolve is the portal's to announce.
LEMMA RequestIsDirect ==
  ASSUME TrailTyped, NEW r \in Runs, NEW rest, Heads(r, Requested, rest)
  PROVE  Unrequested(r)
<1>1. trail[r].direct \in Seq(PortalTypes) /\ trail[r].relayed \in Seq(CarrierTypes)
  BY DEF TrailTyped, Trails
<1>2. Requested \notin CarrierTypes
  BY DEF Requested, CarrierTypes
<1>3. CASE trail[r].relayed # << >> /\ Requested = Head(trail[r].relayed)
  <2>1. Head(trail[r].relayed) \in CarrierTypes
    BY <1>1, <1>3, HeadTailProperties
  <2>. QED  BY <1>2, <1>3, <2>1
<1>4. CASE trail[r].direct # << >> /\ Requested = Head(trail[r].direct)
  <2>1. 1 \in DOMAIN trail[r].direct /\ trail[r].direct[1] = Requested
    BY <1>1, <1>4
  <2>. QED  BY <2>1 DEF Unrequested, Range
<1>. QED  BY <1>3, <1>4 DEF Heads

\* What a message does to the queue and to what the page knows of the peer.
LEMMA QuietDelivery ==
  ASSUME EngineInv, Patient(pq.queue), NEW e \in Stream(runs), ~IsErr(e.type), NEW evs,
         Carries(pq'.calls, evs), Queue(pq'), ui' = Handled(pq'.calls),
         \/ Append(pq.queue, e) = evs \o pq'.queue
         \/ e.type = Requested /\ evs = <<e>> /\ pq'.queue = << >>
  PROVE  /\ Patient(pq'.queue) /\ ui'.error = ui.error /\ (ui.peerUri => ui'.peerUri)
         /\ e.type # Requested /\ (Tells(pq.queue) \/ e.type = PeerSeen)
              => (ui'.peerUri \/ Tells(pq'.queue))
<1>1. /\ pq.queue \in Seq(Events) /\ pq'.queue \in Seq(Events) /\ evs \in Seq(Events)
      /\ e \in Events /\ \A i \in 1 .. Len(pq.queue) : pq.queue[i] \in Stream(runs)
  BY DEF EngineInv, PQInv, Queue, Carries, Stream
<1>. DEFINE calls == pq'.calls
            rest == pq'.queue
<1>2. Carries(calls, evs) /\ ui' = Handled(calls)
  OBVIOUS
<1>. HIDE DEF calls, rest
<1>3. CASE Append(pq.queue, e) = evs \o rest
  <2>1. /\ Patient(Append(pq.queue, e))
        /\ Tells(pq.queue) \/ e.type = PeerSeen => Tells(Append(pq.queue, e))
    BY <1>1, OneMoreEvent
  <2>2. /\ Patient(evs) /\ Patient(rest)
        /\ Tells(pq.queue) \/ e.type = PeerSeen => Tells(evs) \/ Tells(rest)
    <3>1. rest \in Seq(Events)
      BY <1>1 DEF rest
    <3>. QED  BY <1>1, <1>3, <2>1, <3>1, SplitEvents
  <2>3. \A i \in 1 .. Len(evs) : evs[i] \in Stream(runs)
    <3>1. ASSUME NEW i \in 1 .. Len(Append(pq.queue, e)) PROVE Append(pq.queue, e)[i] \in Stream(runs)
      BY <1>1, AppendProperties
    <3>2. \A i \in 1 .. Len(evs \o rest) : (evs \o rest)[i] \in Stream(runs)
      BY <1>3, <3>1
    <3>. QED  BY <1>1, <3>2, PartsOf DEF rest
  <2>4. Handled(calls).error = ui.error /\ (ui.peerUri \/ Tells(evs) => Handled(calls).peerUri)
    BY <1>2, <2>2, <2>3, QuietEvents
  <2>. QED  BY <1>2, <2>2, <2>4 DEF rest
<1>4. CASE e.type = Requested /\ evs = <<e>> /\ rest = << >>
  <2>1. Patient(evs) /\ Patient(rest) /\ \A i \in 1 .. Len(evs) : evs[i] \in Stream(runs)
    BY <1>4 DEF Patient
  <2>2. Handled(calls).error = ui.error /\ (ui.peerUri \/ Tells(evs) => Handled(calls).peerUri)
    BY <1>2, <2>1, QuietEvents
  <2>. QED  BY <1>2, <1>4, <2>1, <2>2 DEF rest
<1>. QED  BY <1>3, <1>4 DEF rest

LEMMA LoudDelivery ==
  ASSUME EngineInv, Patient(pq.queue), NEW e \in Stream(runs), IsErr(e.type), NEW evs,
         Carries(pq'.calls, evs), Queue(pq'), ui' = Handled(pq'.calls),
         Append(pq.queue, e) = evs \o pq'.queue, pq'.queue = << >>
  PROVE  /\ ui'.error.type = e.type /\ ui'.error.of = e.of
         /\ ui.peerUri \/ Tells(pq.queue) => ui'.error.uri /\ ui'.peerUri
<1>1. /\ pq.queue \in Seq(Events) /\ evs \in Seq(Events)
      /\ \A i \in 1 .. Len(pq.queue) : pq.queue[i] \in Stream(runs)
  BY DEF EngineInv, PQInv, Queue, Carries
<1>2. evs = Append(pq.queue, e)
  BY <1>1, ConcatEmptySeq
<1>. DEFINE calls == pq'.calls
<1>3. Carries(calls, Append(pq.queue, e)) /\ ui' = Handled(calls)
  BY <1>2
<1>. HIDE DEF calls
<1>4. /\ Handled(calls).error.type = e.type /\ Handled(calls).error.of = e.of
      /\ ui.peerUri \/ Tells(pq.queue) => Handled(calls).error.uri /\ Handled(calls).peerUri
  BY <1>1, <1>3, LoudEvent
<1>. QED  BY <1>3, <1>4

\* A message that a watched page hears, of the current resolve or of an earlier one.
LEMMA DeliverMerges ==
  ASSUME PeerInv, NEW r \in Runs, Deliver(r)
  PROVE  Patient(pq'.queue) /\ (Watched => Merging')
<1>1. EngineInv /\ TrailTyped /\ Patient(pq.queue) /\ runs \in Nat /\ Queue(pq)
  BY DEF PeerInv, EngineInv, PQInv
<1>2. ui' = Handled(pq'.calls) /\ current' = current /\ \A q \in Runs : q < r => ~Unrequested(q)
  BY DEF Deliver, QueueStep, started
<1>3. PICK e \in Stream(runs) : \E evs : \E rest \in Trails :
           /\ e.of = r /\ r \in 1 .. runs
           /\ Heads(r, e.type, rest) /\ trail' = [trail EXCEPT ![r] = rest]
           /\ Carries(pq'.calls, evs) /\ Queue(pq')
           /\ \/ Append(pq.queue, e) = evs \o pq'.queue
              \/ e.type = Requested /\ evs = <<e>> /\ pq'.queue = << >>
           /\ IsErr(e.type) => pq'.queue = << >>
  BY <1>1, DeliverSends
<1>4. PICK evs : \E rest \in Trails :
           /\ e.of = r /\ r \in 1 .. runs
           /\ Heads(r, e.type, rest) /\ trail' = [trail EXCEPT ![r] = rest]
           /\ Carries(pq'.calls, evs) /\ Queue(pq')
           /\ \/ Append(pq.queue, e) = evs \o pq'.queue
              \/ e.type = Requested /\ evs = <<e>> /\ pq'.queue = << >>
           /\ IsErr(e.type) => pq'.queue = << >>
  BY <1>3
<1>5. PICK rest \in Trails :
           /\ e.of = r /\ r \in 1 .. runs
           /\ Heads(r, e.type, rest) /\ trail' = [trail EXCEPT ![r] = rest]
           /\ Carries(pq'.calls, evs) /\ Queue(pq')
           /\ \/ Append(pq.queue, e) = evs \o pq'.queue
              \/ e.type = Requested /\ evs = <<e>> /\ pq'.queue = << >>
           /\ IsErr(e.type) => pq'.queue = << >>
  BY <1>4
<1>6. ASSUME ~IsErr(e.type)
      PROVE  /\ Patient(pq'.queue) /\ ui'.error = ui.error /\ (ui.peerUri => ui'.peerUri)
             /\ e.type # Requested /\ (Tells(pq.queue) \/ e.type = PeerSeen)
                  => (ui'.peerUri \/ Tells(pq'.queue))
  BY <1>1, <1>2, <1>5, <1>6, QuietDelivery
<1>7. ASSUME IsErr(e.type)
      PROVE  /\ Patient(pq'.queue) /\ ui'.error.type = e.type /\ ui'.error.of = e.of
             /\ ui.peerUri \/ Tells(pq.queue) => ui'.error.uri /\ ui'.peerUri
  <2>1. e.type # Requested
    BY <1>7 DEF IsErr, ErrTypes, Requested
  <2>2. Append(pq.queue, e) = evs \o pq'.queue /\ pq'.queue = << >>
    BY <1>5, <1>7, <2>1
  <2>3. Patient(pq'.queue)
    BY <2>2 DEF Patient
  <2>. QED  BY <1>1, <1>2, <1>5, <1>7, <2>2, <2>3, LoudDelivery
<1>8. ASSUME NEW q \in Runs, ~Unrequested(q) PROVE ~Unrequested(q)'
  BY <1>1, <1>5, <1>8, StaysRequested
<1>9. e.type = Requested => Unrequested(r)
  BY <1>1, <1>5, RequestIsDirect
<1>. SUFFICES ASSUME Watched PROVE Merging'
  BY <1>6, <1>7
<1>10. Merging /\ current = runs /\ current # 0
  BY DEF PeerInv, Watched
<1>11. CASE r # current
  <2>1. trail'[current] = trail[current]
    BY <1>1, <1>5, <1>11 DEF TrailTyped
  <2>2. trail[current].direct # Rejection => \A q \in Runs : ~Unrequested(q)'
    BY <1>8, <1>10 DEF Merging
  <2>3. trail[current].direct = <<Shook>> => (ui'.peerUri \/ Tells(pq'.queue))
    <3>. SUFFICES ASSUME trail[current].direct = <<Shook>> PROVE ui'.peerUri \/ Tells(pq'.queue)
      OBVIOUS
    <3>1. ui.peerUri \/ Tells(pq.queue)
      BY <1>10 DEF Merging
    <3>2. e.type # Requested
      <4>1. trail[current].direct # Rejection
        BY DEF Rejection
      <4>. QED  BY <1>9, <1>10, <4>1 DEF Merging
    <3>. QED  BY <1>6, <1>7, <3>1, <3>2
  <2>4. trail[current].direct # << >> => ui'.error.of # current
    BY <1>5, <1>6, <1>7, <1>10, <1>11 DEF Merging
  <2>5. (ui'.error.type = Shook /\ ui'.error.of = current) => ui'.error.uri
    BY <1>5, <1>6, <1>7, <1>10, <1>11 DEF Merging
  <2>6. trail[current].relayed = << >>
        /\ trail[current].direct \in {Rejection, Begun, <<PeerSeen, Shook>>, <<Shook>>, << >>}
    BY <1>10 DEF Merging
  <2>. QED  BY <1>2, <2>1, <2>2, <2>3, <2>4, <2>5, <2>6 DEF Merging
<1>12. CASE r = current
  <2>. DEFINE d == trail[current].direct
  <2>1. d # << >> /\ e.type = Head(d) /\ trail'[current] = [direct |-> Tail(d), relayed |-> << >>]
    <3>1. trail'[r] = rest
      BY <1>1, <1>5 DEF TrailTyped
    <3>2. trail[r].relayed = << >>
      BY <1>10, <1>12 DEF Merging
    <3>. QED  BY <1>5, <1>12, <3>1, <3>2 DEF Heads
  <2>2. trail'[current].direct = Tail(d) /\ trail'[current].relayed = << >>
    BY <2>1
  <2>3. ui.error.of # current
    BY <1>10, <2>1 DEF Merging
  <2>4. CASE d = Rejection
    <3>1. e.type = Requested /\ Tail(d) = Begun
      BY <2>1, <2>4 DEF Rejection, Begun
    <3>2. ~IsErr(e.type)
      BY <3>1 DEF IsErr, ErrTypes, Requested
    <3>3. \A q \in Runs : ~Unrequested(q)'
      <4>1. ASSUME NEW q \in Runs, q < current PROVE ~Unrequested(q)'
        BY <1>2, <1>8, <1>12, <4>1
      <4>2. ~Unrequested(current)'
        <5>1. Requested \notin Range(Begun)
          BY DEF Requested, Begins, PeerSeen, Shook, Begun, Range
        <5>. QED  BY <1>2, <2>2, <3>1, <5>1 DEF Unrequested
      <4>3. ASSUME NEW q \in Runs, q > current PROVE ~Unrequested(q)'
        <5>1. trail[q] = NoTrail
          BY <1>1, <1>10, <4>3 DEF EngineInv
        <5>2. ~Unrequested(q)
          BY <5>1 DEF Unrequested, NoTrail, Range
        <5>. QED  BY <1>8, <5>2
      <4>4. ASSUME NEW q \in Runs PROVE q < current \/ q = current \/ q > current
        BY <1>1, <1>10, EngineAssumption DEF Runs
      <4>. QED  BY <1>2, <4>1, <4>2, <4>3, <4>4
    <3>4. Begun # <<Shook>> /\ ui'.error = ui.error
      BY <1>6, <3>2 DEF Begun
    <3>. QED  BY <1>2, <2>2, <2>3, <3>1, <3>3, <3>4 DEF Merging
  <2>7. CASE d = Begun
    <3>1. e.type = Begins /\ Tail(d) = <<PeerSeen, Shook>>
      BY <2>1, <2>7 DEF Begun
    <3>2. ~IsErr(e.type)
      BY <3>1 DEF IsErr, ErrTypes, Begins
    <3>3. <<PeerSeen, Shook>> # <<Shook>> /\ ui'.error = ui.error
      BY <1>6, <3>2
    <3>4. \A q \in Runs : ~Unrequested(q)'
      <4>1. d # Rejection
        BY <2>7 DEF Rejection, Begun
      <4>. QED  BY <1>8, <1>10, <4>1 DEF Merging
    <3>. QED  BY <1>2, <2>2, <2>3, <3>1, <3>3, <3>4 DEF Merging
  <2>5. CASE d = <<PeerSeen, Shook>>
    <3>1. e.type = PeerSeen /\ Tail(d) = <<Shook>>
      BY <2>1, <2>5
    <3>2. ~IsErr(e.type) /\ e.type # Requested
      BY <3>1 DEF IsErr, ErrTypes, Requested, PeerSeen
    <3>3. ui'.error = ui.error /\ (ui'.peerUri \/ Tells(pq'.queue))
      BY <1>6, <3>1, <3>2
    <3>4. \A q \in Runs : ~Unrequested(q)'
      <4>1. d # Rejection
        BY <2>5 DEF Rejection
      <4>. QED  BY <1>8, <1>10, <4>1 DEF Merging
    <3>. QED  BY <1>2, <2>2, <2>3, <3>1, <3>3, <3>4 DEF Merging
  <2>6. CASE d = <<Shook>>
    <3>1. e.type = Shook /\ Tail(d) = << >>
      BY <2>1, <2>6
    <3>2. IsErr(e.type)
      BY <3>1 DEF IsErr, ErrTypes, Shook
    <3>3. ui'.error.uri
      BY <1>7, <1>10, <2>6, <3>2 DEF Merging
    <3>4. \A q \in Runs : ~Unrequested(q)'
      <4>1. d # Rejection
        BY <2>6 DEF Rejection
      <4>. QED  BY <1>8, <1>10, <4>1 DEF Merging
    <3>. QED  BY <1>2, <2>2, <3>1, <3>3, <3>4 DEF Merging
  <2>. QED  BY <1>10, <2>1, <2>4, <2>5, <2>6, <2>7 DEF Merging
<1>. QED  BY <1>11, <1>12

\* A timer, or a change of pace: the URI is noted as it leaves the queue.
LEMMA DrainMerges ==
  ASSUME PeerInv, Drains \/ \E v \in {"off", "paced"} : ChangePace(v)
  PROVE  Patient(pq'.queue) /\ (Watched => Merging')
<1>1. /\ EngineInv /\ Patient(pq.queue) /\ Queue(pq) /\ Driven(pq) /\ pq.queue \in Seq(Events)
      /\ \A i \in 1 .. Len(pq.queue) : pq.queue[i] \in Stream(runs)
  BY DEF PeerInv, EngineInv, PQInv, Queue
<1>2. ui' = Handled(pq'.calls) /\ current' = current /\ trail' = trail
  BY DEF Drains, ChangePace, QueueStep, started
<1>3. TimerFires \/ \E v \in {"off", "paced"} : SetPace(v)
  BY DEF Drains, ChangePace
<1>4. PICK evs : Carries(pq'.calls, evs) /\ pq.queue = evs \o pq'.queue
  BY <1>1, <1>3, DrainsSend
<1>. DEFINE calls == pq'.calls
            rest == pq'.queue
<1>5. Carries(calls, evs) /\ evs \in Seq(Events) /\ rest \in Seq(Events) /\ pq.queue = evs \o rest
      /\ ui' = Handled(calls)
  BY <1>1, <1>2, <1>3, <1>4, DrainsSend DEF Carries, Queue
<1>. HIDE DEF calls, rest
<1>6. Patient(evs) /\ Patient(rest) /\ (Tells(pq.queue) => Tells(evs) \/ Tells(rest))
  BY <1>1, <1>5, SplitEvents
<1>7. \A i \in 1 .. Len(evs) : evs[i] \in Stream(runs)
  <2>1. \A i \in 1 .. Len(evs \o rest) : (evs \o rest)[i] \in Stream(runs)
    BY <1>1, <1>5
  <2>. QED  BY <1>5, <2>1, PartsOf
<1>8. Handled(calls).error = ui.error /\ (ui.peerUri \/ Tells(evs) => Handled(calls).peerUri)
  BY <1>1, <1>5, <1>6, <1>7, QuietEvents
<1>9. ui'.error = ui.error /\ (ui.peerUri \/ Tells(pq.queue) => ui'.peerUri \/ Tells(pq'.queue))
  BY <1>5, <1>6, <1>8 DEF rest
<1>. QED  BY <1>2, <1>6, <1>9 DEF PeerInv, Merging, Unrequested, rest

LEMMA PeerSteps ==
  ASSUME PeerInv, Next
  PROVE  PeerInv'
<1>1. /\ EngineInv /\ Patient(pq.queue) /\ runs \in Nat /\ Queue(pq) /\ Counted
      /\ ui \in Pages(runs) /\ trail \in [Runs -> Trails]
  BY DEF PeerInv, EngineInv, PQInv, Counted, TrailTyped
<1>2. EngineInv'
  BY <1>1, EngineSteps
<1>3. ASSUME QueueTask
      PROVE  /\ UNCHANGED <<started, history>> /\ (lost' = lost)
             /\ Patient(pq'.queue) /\ (Watched => Merging')
  <2>1. UNCHANGED <<started, history>> /\ lost' = lost
    BY <1>3 DEF QueueTask, Deliver, Drains, ChangePace, QueueStep
  <2>2. ASSUME NEW r \in Runs, Deliver(r) PROVE Patient(pq'.queue) /\ (Watched => Merging')
    BY <2>2, DeliverMerges
  <2>3. CASE Drains \/ \E v \in {"off", "paced"} : ChangePace(v)
    BY <2>1, <2>3, DrainMerges
  <2>. QED  BY <1>3, <2>1, <2>2, <2>3 DEF QueueTask
<1>4. CASE QueueTask
  BY <1>2, <1>3, <1>4 DEF PeerInv, Watched, started, history
<1>5. ASSUME NEW e, Run(e) PROVE PeerInv'
  <2>1. /\ pq' = pq /\ current' = runs + 1 /\ runs' = runs + 1 /\ others' = others
        /\ ui' = Cleared("running") /\ runs + 1 \in Runs
        /\ ending' = [ending EXCEPT ![runs + 1] = e]
        /\ trail' = [trail EXCEPT ![runs + 1] = [direct |-> Direct(e), relayed |-> Relayed(e)]]
    BY <1>1, <1>5, EngineAssumption DEF Run, Starts, pqVars, Runs
  <2>2. ASSUME Watched' PROVE Merging'
    <3>1. e = "foreign"
      BY <1>1, <2>1, <2>2 DEF Watched, Counted
    <3>2. Direct(e) = Rejection /\ Relayed(e) = << >>
      BY <3>1 DEF Direct, Relayed, Hung, Rejection, Begins, PeerSeen, Shook
    <3>3. trail'[current'] = [direct |-> Rejection, relayed |-> << >>]
      BY <1>1, <2>1, <3>2
    <3>4. ui'.error.of = 0 /\ ui'.error.type = "none" /\ current' # 0
      BY <1>1, <2>1 DEF Cleared, NoError
    <3>5. Rejection # <<Shook>>
      BY DEF Rejection
    <3>. QED  BY <3>3, <3>4, <3>5 DEF Merging, Shook
  <2>. QED  BY <1>1, <1>2, <2>1, <2>2 DEF PeerInv
<1>6. ASSUME NEW e, OtherRuns(e) PROVE PeerInv'
  <2>1. /\ pq' = pq /\ others' = others + 1 /\ others \in Nat /\ current' = current
        /\ undisturbed' = undisturbed
    BY <1>1, <1>6 DEF OtherRuns, pqVars, Counted
  <2>. QED  BY <1>1, <1>2, <2>1 DEF PeerInv, Watched
<1>7. ASSUME NEW r \in Runs, Lose(r) PROVE PeerInv'
  <2>1. /\ pq' = pq /\ lost' = lost + 1 /\ lost \in Nat
        /\ UNCHANGED <<started, undisturbed>>
    BY <1>1, <1>7 DEF Lose, pqVars, history, Counted
  <2>. QED  BY <1>1, <1>2, <2>1 DEF PeerInv, Watched, started
<1>8. ASSUME NEW r \in Runs, Answer(r) \/ NetworkFails(r) PROVE PeerInv'
  <2>1. /\ pq' = pq /\ trail' = trail /\ lost' = lost /\ UNCHANGED <<started, history>>
    BY <1>8 DEF Answer, NetworkFails, pqVars
  <2>2. ui'.peerUri = ui.peerUri
        /\ (ui'.error = ui.error \/ (ui'.error.of = 0 /\ ui'.error.type # Shook))
    <3>1. CASE Answer(r) /\ AnswersOk(ending[r])
      BY <1>1, <3>1 DEF Answer, Pages
    <3>2. CASE Answer(r) /\ ~AnswersOk(ending[r])
      BY <1>1, <3>2 DEF Answer, HttpError, Pages, NoError, Shook
    <3>3. CASE NetworkFails(r)
      BY <1>1, <3>3 DEF NetworkFails, Pages, NoError, Shook
    <3>. QED  BY <1>8, <3>1, <3>2, <3>3
  <2>3. Watched => Merging'
    <3>. SUFFICES ASSUME Watched PROVE Merging'
      OBVIOUS
    <3>1. Merging /\ current # 0
      BY DEF PeerInv, Watched
    <3>2. current' = current /\ \A q \in Runs : Unrequested(q)' = Unrequested(q)
      BY <2>1 DEF started, Unrequested
    <3>3. /\ trail[current].direct # << >> => ui'.error.of # current
          /\ (ui'.error.type = Shook /\ ui'.error.of = current) => ui'.error.uri
      BY <2>2, <3>1 DEF Merging
    <3>. QED  BY <2>1, <2>2, <3>1, <3>2, <3>3 DEF Merging
  <2>. QED  BY <1>1, <1>2, <2>1, <2>3 DEF PeerInv, Watched, started, history
<1>9. ASSUME Reset PROVE PeerInv'
  <2>1. pq'.queue = << >> /\ undisturbed' = FALSE /\ UNCHANGED started
    BY <1>1, <1>9, FlushSends DEF Reset
  <2>2. Patient(pq'.queue)
    BY <2>1 DEF Patient
  <2>. QED  BY <1>2, <2>1, <2>2 DEF PeerInv, Watched, started
<1>10. ASSUME Render PROVE PeerInv'
  <2>1. UNCHANGED <<pq, ui, trail, lost, runs, others, current, ending, undisturbed>>
    BY <1>10 DEF Render, pqVars, started, history
  <2>. QED  BY <1>2, <2>1 DEF PeerInv, Watched, Merging, Unrequested
<1>. QED
  BY <1>4, <1>5, <1>6, <1>7, <1>8, <1>9, <1>10 DEF Next, PressReset, PickCarrier, QueueTask

\* The error that a foreign carrier causes names that carrier's URI, at any pace
\* and among the events of any number of abandoned resolves.
THEOREM UriNeverDropped == Spec => []PeerUriMerged
<1>1. Init => PeerInv
  <2>. SUFFICES ASSUME Init PROVE PeerInv
    OBVIOUS
  <2>1. pq.queue = << >> /\ current = 0 /\ runs = 0 /\ undisturbed = FALSE
    BY DEF Init, PQInit
  <2>. QED  BY <2>1, EngineStarts DEF PeerInv, Patient, Watched
<1>2. PeerInv /\ [Next]_vars => PeerInv'
  <2>1. PeerInv /\ UNCHANGED vars => PeerInv'
    <3>. SUFFICES ASSUME PeerInv, UNCHANGED vars PROVE PeerInv'
      OBVIOUS
    <3>1. EngineInv'
      BY EngineStutters DEF PeerInv
    <3>2. UNCHANGED <<pq, ui, trail, lost, runs, others, current, ending, undisturbed>>
      BY DEF vars, pqVars, engineVars, started, history
    <3>. QED  BY <3>1, <3>2 DEF PeerInv, Watched, Merging, Unrequested
  <2>. QED  BY <2>1, PeerSteps
<1>3. PeerInv => PeerUriMerged
  BY DEF PeerInv, Watched, Merging, PeerUriMerged, Shook
<1>. QED  BY <1>1, <1>2, <1>3, PTL DEF Spec

-----------------------------------------------------------------------------
(* What the views show of each gate.                                        *)


\* Props of the types that the hook declares; a resolve shown as done has a result.
PropsOK(u) ==
  /\ u.status \in Statuses
  /\ u.stage \in Int
  /\ u.completed \in Nat
  /\ u.status = "done" => u.result # 0

\* Both diagrams give a gate the same state.
LEMMA DiagramsAgree ==
  ASSUME NEW u, PropsOK(u), NEW c, NEW i \in Gates
  PROVE  SameGate(Layer(u, i), Topology(u, c, i))
<1>1. CASE i = 0
  <2>1. Layer(u, i) = IF u.completed > 0 THEN "passed" ELSE IF u.stage = 0 THEN "active" ELSE "locked"
    BY <1>1 DEF Layer, Errored
  <2>2. Topology(u, c, i) = WorkloadState(u)
    BY <1>1 DEF Topology, PortalCard, NodeCard
  <2>. QED  BY <2>1, <2>2 DEF PropsOK, WorkloadState, SameGate
<1>2. CASE i = 1
  BY <1>2 DEF PropsOK, SameGate, Layer, Topology, Bracket, MtlsState, Errored
<1>3. CASE i = 2
  BY <1>3 DEF PropsOK, SameGate, Layer, Topology, JwtCard, NodeCard, CardState, Errored
<1>4. CASE i = 3
  BY <1>4 DEF PropsOK, SameGate, Layer, Topology, SmCard, NodeCard, CardState, Errored
<1>5. CASE i = 4
  BY <1>5 DEF PropsOK, SameGate, Layer, Topology, SecretCard, NodeCard, CardState, Errored
<1>. QED  BY <1>1, <1>2, <1>3, <1>4, <1>5 DEF Gates

\* The log tells of a gate exactly what a resolve that has not failed has passed.
LEMMA LogAgrees ==
  ASSUME NEW u, PropsOK(u), ~Errored(u), NEW i \in Gates
  PROVE  i \in TracePassed(u, "internal") <=> Layer(u, i) = "passed"
<1>1. Layer(u, i) = "passed" <=> u.completed > i
  BY DEF Layer, Errored, Gates, PropsOK
<1>2. TraceLines("internal") = [s : 0 .. 5, k : {"req", "res"}, err : {FALSE}]
  BY DEF TraceLines
<1>3. ASSUME NEW e \in TraceLines("internal")
      PROVE  /\ e.s \in 0 .. 5 /\ e.k \in {"req", "res"} /\ e.err = FALSE
             /\ TraceRow(e) = IF e.k = "req" THEN "" ELSE Claim[e.s]
  <2>1. e \in [s : 0 .. 5, k : {"req", "res"}, err : {FALSE}]
    BY <1>2
  <2>2. e.s \in 0 .. 5 /\ e.k \in {"req", "res"} /\ e.err \in {FALSE}
    BY ONLY <2>1
  <2>3. e.err = FALSE /\ ~e.err
    BY ONLY <2>2
  <2>4. TraceRow(e) = IF e.k = "req" THEN "" ELSE Claim[e.s]
    BY <2>3, Zenon DEF TraceRow
  <2>. QED  BY <2>2, <2>3, <2>4
<1>4. \A g, h \in 0 .. 5 : Claim[g] # "" /\ (Claim[g] = Claim[h] => g = h)
  <2>1. /\ Claim[0] = "attested" /\ Claim[1] = "peer verified" /\ Claim[2] = "JWT-SVID issued"
        /\ Claim[3] = "token granted" /\ Claim[4] = "secret returned" /\ Claim[5] = "delivered"
    BY DEF Claim
  <2>2. \A g \in 0 .. 5 : g = 0 \/ g = 1 \/ g = 2 \/ g = 3 \/ g = 4 \/ g = 5
    OBVIOUS
  <2>. QED  BY <2>1, <2>2
<1>5. ASSUME u.completed > i PROVE i \in TracePassed(u, "internal")
  <2>. DEFINE e == [s |-> i, k |-> "res", err |-> FALSE]
  <2>1. e \in TraceLines("internal")
    <3>1. i \in 0 .. 5 /\ "res" \in {"req", "res"} /\ FALSE \in {FALSE}
      BY DEF Gates
    <3>. QED  BY <1>2, <3>1, Zenon
  <2>2. e \in TraceVisible(u, "internal")
    BY <1>5, <2>1 DEF TraceVisible
  <2>3. TraceRow(e) = Claim[i]
    BY DEF TraceRow
  <2>. HIDE DEF e
  <2>. QED  BY <2>2, <2>3 DEF TracePassed
<1>6. ASSUME i \in TracePassed(u, "internal") PROVE u.completed > i
  <2>1. PICK e \in TraceVisible(u, "internal") : Claim[i] = TraceRow(e)
    BY <1>6 DEF TracePassed
  <2>2. e \in TraceLines("internal")
    BY DEF TraceVisible
  <2>3. e.s \in 0 .. 5 /\ e.k \in {"req", "res"}
    BY <1>3, <2>2
  <2>4. TraceRow(e) = IF e.k = "req" THEN "" ELSE Claim[e.s]
    BY <1>3, <2>2
  <2>5. i \in 0 .. 5
    BY DEF Gates
  <2>6. e.k = "res"
    BY <1>4, <2>1, <2>3, <2>4, <2>5
  <2>7. e.s = i
    BY <1>4, <2>1, <2>3, <2>4, <2>5, <2>6
  <2>. QED  BY <1>3, <2>2, <2>6, <2>7 DEF TraceVisible
<1>. QED  BY <1>1, <1>5, <1>6

\* The rail counts the layers it passes.
LEMMA RailCounts ==
  ASSUME NEW u, PropsOK(u)
  PROVE  RailAgrees(u)
<1>. SUFFICES ASSUME ~Errored(u) PROVE RailAgrees(u)
  BY DEF RailAgrees
<1>1. PassedCount(u) = Cardinality({ i \in Gates : Layer(u, i) = "passed" })
  <2>1. \A i \in Gates : Layer(u, i) = "passed" <=> u.completed > i
    BY DEF Layer, Errored, Gates, PropsOK
  <2>2. PassedCount(u) \in 0 .. 5
    BY DEF PassedCount, PropsOK
  <2>3. \A i \in Gates : u.completed > i <=> i < PassedCount(u)
    BY DEF PassedCount, PropsOK, Gates
  <2>4. { i \in Gates : Layer(u, i) = "passed" } = 0 .. (PassedCount(u) - 1)
    BY <2>1, <2>2, <2>3 DEF Gates
  <2>5. Cardinality(0 .. (PassedCount(u) - 1)) = PassedCount(u)
    BY <2>2, FS_Interval
  <2>. QED  BY <2>4, <2>5
<1>2. ASSUME NEW i \in Gates, LayerRow(u, i).bars.shimmer PROVE DotPos(u) = i
  <2>1. Layer(u, i) = "active"
    BY <1>2 DEF LayerRow, Curtain
  <2>2. u.stage = i
    BY <2>1 DEF Layer, Errored, Gates, PropsOK
  <2>. QED  BY <2>2 DEF DotPos, Errored, Gates
<1>. QED  BY <1>1, <1>2 DEF RailAgrees

\* No line of the strip leads to a participant from one that is dark.
LEMMA StripLights ==
  ASSUME NEW u, PropsOK(u)
  PROVE  StripAgrees(u)
<1>. SUFFICES ASSUME NEW i \in 2 .. 5, StripNode(u, TraceNodes[i]).line
              PROVE  /\ NodeLit(u, TraceNodes[i - 1])
                     /\ StripNode(u, TraceNodes[i]).frame # "plain"
  BY DEF StripAgrees
<1>1. NodeLit(u, TraceNodes[i])
  BY DEF StripNode
<1>2. StripNode(u, TraceNodes[i]).frame # "plain"
  BY <1>1 DEF StripNode
<1>3. NodeLit(u, TraceNodes[i - 1])
  <2>1. /\ TraceNodes[1] = "portal" /\ TraceNodes[2] = "carrier" /\ TraceNodes[3] = "agent"
        /\ TraceNodes[4] = "sm" /\ TraceNodes[5] = "secret"
    BY DEF TraceNodes
  <2>2. NodeLit(u, "portal") <=> NodeLit(u, "carrier")
    BY DEF NodeLit
  <2>3. NodeLit(u, "carrier") <=> u.status # "idle" /\ (u.completed > 0 \/ u.stage >= 0)
    BY DEF NodeLit
  <2>4. NodeLit(u, "agent") <=> u.status # "idle" /\ u.completed > 2
    BY DEF NodeLit
  <2>5. NodeLit(u, "sm") <=> u.status # "idle" /\ u.completed > 3
    BY DEF NodeLit
  <2>6. NodeLit(u, "secret") <=> u.status # "idle" /\ u.completed > 4
    BY DEF NodeLit
  <2>7. i = 2 \/ i = 3 \/ i = 4 \/ i = 5
    OBVIOUS
  <2>. QED  BY <1>1, <2>1, <2>2, <2>3, <2>4, <2>5, <2>6, <2>7 DEF PropsOK
<1>. QED  BY <1>2, <1>3

LEMMA LinksMatch ==
  ASSUME NEW u, PropsOK(u), NEW c
  PROVE  LinksAgree(u, c)
<1>1. ASSUME NEW k \in 2 .. 4 PROVE Link(u, k) = VLink(Topology(u, c, k))
  <2>1. Topology(u, c, k) = CardState(u, k)
    BY DEF Topology, JwtCard, SmCard, SecretCard, NodeCard
  <2>2. Link(u, k) = VLink(CardState(u, k))
    BY DEF Link, CardState
  <2>. QED  BY <2>1, <2>2
<1>2. HLink(u).filled <=> Bracket(u).says = {Claim[1]}
  <2>1. HLink(u).filled <=> MtlsState(u) = "done"
    BY DEF HLink, VLink
  <2>2. Claim[1] = "peer verified"
    BY DEF Claim
  <2>. QED  BY <2>1, <2>2 DEF Bracket
<1>3. CarrierCard(u, c).state = PortalCard(u).state
  BY DEF CarrierCard, PortalCard, NodeCard
<1>. QED  BY <1>1, <1>2, <1>3 DEF LinksAgree

LEMMA PanesMatch ==
  ASSUME NEW u, PropsOK(u)
  PROVE  PanesAgree(u)
<1>1. CASE u.status = "idle"
  BY <1>1 DEF PanesAgree, Form, Busy, Phase, PhaseIcon, PortalShows, Errored, ResetShown
<1>2. CASE u.status = "running"
  BY <1>2 DEF PanesAgree, Form, Busy, Phase, PhaseIcon, PortalShows, Errored, ResetShown
<1>3. CASE u.status = "done"
  BY <1>3 DEF PropsOK, PanesAgree, Form, Busy, Phase, PhaseIcon, PortalShows, Errored, ResetShown
<1>4. CASE u.status = "error"
  BY <1>4 DEF PanesAgree, Form, Busy, Phase, PhaseIcon, PortalShows, Errored, ResetShown
<1>. QED  BY <1>1, <1>2, <1>3, <1>4 DEF PropsOK, Statuses

\* Whatever status, stage and count the engine hands them, the three views, and
\* within each the parts that are computed apart, show the same state of every gate.
THEOREM ViewsAlwaysAgree ==
  ASSUME PropsOK(ui)
  PROVE  ViewsAgree
<1>1. ASSUME NEW i \in Gates
      PROVE  SameGate(Layer(ui, i), Topology(ui, carrier, i))
  BY DiagramsAgree
<1>2. ASSUME NEW i \in Gates, ~Errored(ui), carrier = "internal"
      PROVE  i \in TracePassed(ui, carrier) <=> Layer(ui, i) = "passed"
  BY <1>2, LogAgrees
<1>3. LinksAgree(ui, carrier) /\ RailAgrees(ui) /\ StripAgrees(ui) /\ PanesAgree(ui)
  BY LinksMatch, RailCounts, StripLights, PanesMatch
<1>. QED  BY <1>1, <1>2, <1>3 DEF ViewsAgree

-----------------------------------------------------------------------------
(* What the views claim.                                                    *)

\* A claim, in whichever view, is earned by a count that has passed its gate, by
\* the first stage, or by a resolve that is done.
Earned(u, x) ==
  \/ x = Claim[0]
  \/ u.status = "done" /\ \E g \in 0 .. 5 : x = Claim[g]
  \/ \E g \in 0 .. 5 : x = Claim[g] /\ u.completed > g

LEMMA TopologyEarned ==
  ASSUME NEW u, PropsOK(u), NEW c, NEW x \in TopologySays(u, c), x \notin Refusals
  PROVE  Earned(u, x)
<1>1. CASE x \in Bracket(u).says
  <2>1. CASE MtlsState(u) = "rejected"
    BY <1>1, <2>1 DEF Bracket, Refusals
  <2>2. CASE MtlsState(u) = "done"
    <3>1. x = Claim[1]
      BY <1>1, <2>2 DEF Bracket
    <3>2. u.completed > 1
      BY <2>2 DEF MtlsState
    <3>. QED  BY <3>1, <3>2 DEF Earned
  <2>3. CASE MtlsState(u) \notin {"rejected", "done"}
    BY <1>1, <2>3 DEF Bracket
  <2>. QED  BY <2>1, <2>2, <2>3
<1>2. CASE x \in Bands(u)
  <2>1. x = Claim[5] /\ u.status = "done"
    BY <1>2 DEF Bands, Refusals
  <2>. QED  BY <2>1 DEF Earned
<1>3. ASSUME NEW k \in 2 .. 4, CardState(u, k) = "done" PROVE Earned(u, Claim[k])
  <2>1. u.completed > k /\ k \in 0 .. 5
    BY <1>3 DEF CardState
  <2>. QED  BY <2>1 DEF Earned
<1>4. CASE x \in { card.tag : card \in { k \in {JwtCard(u, c), SmCard(u), SecretCard(u)} : k.green } }
  <2>1. PICK card \in {JwtCard(u, c), SmCard(u), SecretCard(u)} : card.green /\ x = card.tag
    BY <1>4
  <2>2. CASE card = JwtCard(u, c)
    <3>1. CardState(u, 2) = "done"
      BY <2>1, <2>2 DEF JwtCard, NodeCard
    <3>2. card.tag = Claim[2]
      BY <2>2, <3>1 DEF JwtCard, NodeCard
    <3>. QED  BY <1>3, <2>1, <3>1, <3>2
  <2>3. CASE card = SmCard(u)
    <3>1. CardState(u, 3) = "done"
      BY <2>1, <2>3 DEF SmCard, NodeCard
    <3>2. card.tag = Claim[3]
      BY <2>3, <3>1 DEF SmCard, NodeCard
    <3>. QED  BY <1>3, <2>1, <3>1, <3>2
  <2>4. CASE card = SecretCard(u)
    <3>1. CardState(u, 4) = "done"
      BY <2>1, <2>4 DEF SecretCard, NodeCard
    <3>2. card.tag = Claim[4]
      BY <2>4, <3>1 DEF SecretCard, NodeCard
    <3>. QED  BY <1>3, <2>1, <3>1, <3>2
  <2>. QED  BY <2>1, <2>2, <2>3, <2>4
<1>5. CASE x = Claim[0]
  BY <1>5 DEF Earned
<1>. QED  BY <1>1, <1>2, <1>4, <1>5 DEF TopologySays

LEMMA LayersEarned ==
  ASSUME NEW u, PropsOK(u), NEW x \in LayersSay(u), x \notin Refusals
  PROVE  Earned(u, x)
<1>1. ASSUME NEW i \in Gates, LayerRow(u, i).word \in {"cleared", "rejected"}, x = LayerRow(u, i).says
      PROVE  Earned(u, x)
  <2>1. CASE Layer(u, i) = "rejected"
    BY <1>1, <2>1 DEF LayerRow, Refusals
  <2>2. CASE Layer(u, i) = "passed"
    <3>1. x = Claim[i]
      BY <1>1, <2>2 DEF LayerRow, LayerText
    <3>2. u.completed > i /\ i \in 0 .. 5
      BY <2>2 DEF Layer, Gates
    <3>. QED  BY <3>1, <3>2 DEF Earned
  <2>3. CASE Layer(u, i) \notin {"rejected", "passed"}
    <3>1. LayerRow(u, i).word \in {"verifying", "waiting"}
      BY <2>3 DEF LayerRow
    <3>. QED  BY <1>1, <3>1
  <2>. QED  BY <2>1, <2>2, <2>3
<1>2. CASE x \in Boundary(u)
  BY <1>2 DEF Boundary, Refusals
<1>3. ASSUME Headline(u) = "every gate cleared", NEW g \in Gates, x = Claim[g]
      PROVE  Earned(u, x)
  <2>1. u.status = "done"
    BY <1>3 DEF Headline, Errored
  <2>2. g \in 0 .. 5
    BY DEF Gates
  <2>. QED  BY <1>3, <2>1, <2>2 DEF Earned
<1>. QED  BY <1>1, <1>2, <1>3 DEF LayersSay

\* Only the stage at work is "verifying".
LEMMA VerifyingStage ==
  ASSUME NEW u, NEW x \in LayersVerifying(u)
  PROVE  \E g \in Gates : x = Claim[g] /\ u.stage = g
<1>1. PICK i \in Gates : LayerRow(u, i).word = "verifying" /\ x = LayerRow(u, i).says
  BY DEF LayersVerifying
<1>2. Layer(u, i) = "active"
  <2>1. Layer(u, i) \in {"rejected", "locked", "passed", "active"}
    BY DEF Layer
  <2>. QED  BY <1>1, <2>1 DEF LayerRow
<1>3. u.stage = i
  BY <1>2 DEF Layer
<1>4. x = Claim[i]
  BY <1>1, <1>2 DEF LayerRow, LayerText
<1>. QED  BY <1>3, <1>4

LEMMA TraceEarned ==
  ASSUME NEW u, PropsOK(u), NEW c, NEW x \in TraceSays(u, c), x \notin Refusals
  PROVE  Earned(u, x)
<1>1. ASSUME NEW e \in TraceVisible(u, c), x = TraceRow(e), x # ""
      PROVE  Earned(u, x)
  <2>1. e \in TraceLines(c) /\ IF e.k = "req" THEN e.s <= u.completed \/ u.stage >= e.s
                               ELSE (Errored(u) /\ e.err) \/ u.completed > e.s
    BY DEF TraceVisible
  <2>2. e.k # "req" /\ ~e.err
    BY <1>1 DEF TraceRow, Refusals
  <2>3. x = Claim[e.s] /\ u.completed > e.s
    BY <1>1, <2>1, <2>2 DEF TraceRow
  <2>4. e.s \in 0 .. 5
    <3>1. CASE e \in [s : {0}, k : {"req", "res"}, err : {FALSE}]
      BY <3>1
    <3>2. CASE e = [s |-> 1, k |-> "req", err |-> FALSE] \/ e = [s |-> 1, k |-> "res", err |-> TRUE]
      BY <3>2
    <3>3. CASE e \in [s : 0 .. 5, k : {"req", "res"}, err : {FALSE}]
      BY <3>3
    <3>. QED  BY <2>1, <3>1, <3>2, <3>3 DEF TraceLines
  <2>. QED  BY <2>3, <2>4 DEF Earned
<1>2. CASE x \in TokenFoot(u)
  <2>1. x = Claim[2] /\ u.status = "done"
    BY <1>2 DEF TokenFoot
  <2>. QED  BY <2>1 DEF Earned
<1>3. CASE x \in ErrorFoot(u)
  BY <1>3 DEF ErrorFoot, Refusals
<1>. QED  BY <1>1, <1>2, <1>3 DEF TraceSays

LEMMA PageEarned ==
  ASSUME NEW u, PropsOK(u), NEW x \in PageSays(u), x \notin Refusals
  PROVE  Earned(u, x)
<1>1. u.status = "done" /\ \E g \in 0 .. 5 : x = Claim[g]
  <2>1. CASE x \in EvidenceShown(u)
    <3>1. PortalShows(u) = "manifest" /\ x \in {Claim[1], Claim[4], Claim[5]}
      BY <2>1 DEF EvidenceShown, Evidence
    <3>2. u.status = "done"
      BY <3>1 DEF PortalShows, Errored
    <3>. QED  BY <3>1, <3>2
  <2>2. CASE x \notin EvidenceShown(u)
    <3>1. Phase(u) = "delivered" /\ x = Claim[5]
      BY <2>2 DEF PageSays, Refusals
    <3>2. u.status = "done"
      BY <3>1 DEF Phase
    <3>. QED  BY <3>1, <3>2
  <2>. QED  BY <2>1, <2>2
<1>. QED  BY <1>1 DEF Earned

LEMMA SaysEarned ==
  ASSUME NEW u, PropsOK(u), NEW c, NEW x \in Says(u, c), x \notin Refusals
  PROVE  Earned(u, x)
BY TopologyEarned, LayersEarned, TraceEarned, PageEarned DEF Says

LEMMA ClaimsDiffer ==
  /\ \A g, h \in 0 .. 5 : Claim[g] = Claim[h] => g = h
  /\ \A g \in 0 .. 5 : Claim[g] \notin Refusals
<1>1. /\ Claim[0] = "attested" /\ Claim[1] = "peer verified" /\ Claim[2] = "JWT-SVID issued"
      /\ Claim[3] = "token granted" /\ Claim[4] = "secret returned" /\ Claim[5] = "delivered"
  BY DEF Claim
<1>2. \A g \in 0 .. 5 : g = 0 \/ g = 1 \/ g = 2 \/ g = 3 \/ g = 4 \/ g = 5
  OBVIOUS
<1>. QED  BY <1>1, <1>2 DEF Refusals

-----------------------------------------------------------------------------
(* A secret needs an answer.                                                *)

\* The result on the page is one the portal granted, and only such an answer takes
\* the count past the fourth gate or the status to done.
AnswerInv ==
  /\ EngineInv
  /\ ui.result # 0 => AnswersOk(ending[ui.result])
  /\ ui.completed > 4 => ui.result # 0
  /\ ui.status = "done" => ui.result # 0

LEMMA AnswerSteps ==
  ASSUME AnswerInv, Next
  PROVE  AnswerInv'
<1>1. /\ EngineInv /\ ui \in Pages(runs) /\ runs \in Nat /\ Counted
  BY DEF AnswerInv, EngineInv, Counted
<1>2. EngineInv'
  BY <1>1, EngineSteps
<1>3. CASE QueueTask
  <2>. DEFINE S == {u \in Pages(runs) :
                      /\ u.result = ui.result
                      /\ u.completed > 4 => u.result # 0
                      /\ u.status = "done" => u.result # 0}
  <2>1. ASSUME NEW u \in S PROVE OnWalking(u) \in S
    BY <1>1, OnWalkingTyped, WalkingEffect
  <2>2. ASSUME NEW u \in S, NEW e \in Stream(runs) PROVE OnEvent(u, e) \in S
    <3>1. CASE IsErr(e.type)
      BY <1>1, <3>1, OnEventTyped, ErrorEffect
    <3>2. CASE ~IsErr(e.type)
      BY <1>1, <3>2, OnEventTyped, StageEffect, StageTyped
    <3>. QED  BY <3>1, <3>2
  <2>3. ui \in S
    BY <1>1 DEF AnswerInv
  <2>4. ui' \in S
    <3>. HIDE DEF S
    <3>. QED  BY <1>1, <1>3, <2>1, <2>2, <2>3, TaskKeeps
  <2>5. ending' = ending
    BY <1>1, <1>3, TaskSends DEF started
  <2>. QED  BY <1>2, <2>4, <2>5 DEF AnswerInv
<1>4. ASSUME NEW e, Run(e) PROVE AnswerInv'
  BY <1>2, <1>4 DEF Run, Cleared, AnswerInv
<1>5. ASSUME NEW e, OtherRuns(e) PROVE AnswerInv'
  <2>1. ui' = ui /\ ending' = [ending EXCEPT ![runs + 1] = e] /\ ui.result \in 0 .. runs
    BY <1>1, <1>5 DEF OtherRuns, Starts, Pages
  <2>2. ui.result # 0 => ending'[ui.result] = ending[ui.result]
    BY <1>1, <2>1, EngineAssumption DEF Counted, Runs
  <2>. QED  BY <1>2, <2>1, <2>2 DEF AnswerInv
<1>6. ASSUME NEW r \in Runs, Answer(r) PROVE AnswerInv'
  <2>1. ending' = ending /\ r # 0
    BY <1>6, EngineAssumption DEF Answer, started, Runs
  <2>2. CASE AnswersOk(ending[r])
    <3>1. ui'.result = r
      BY <1>1, <1>6, <2>2 DEF Answer, Pages
    <3>. QED  BY <1>2, <2>1, <2>2, <3>1 DEF AnswerInv
  <2>3. CASE ~AnswersOk(ending[r])
    <3>1. ui'.result = ui.result /\ ui'.completed = ui.completed /\ ui'.status = "error"
      BY <1>1, <1>6, <2>3 DEF Answer, HttpError, Pages
    <3>. QED  BY <1>2, <2>1, <3>1 DEF AnswerInv
  <2>. QED  BY <2>2, <2>3
<1>7. ASSUME NEW r \in Runs, NetworkFails(r) PROVE AnswerInv'
  <2>1. ui'.result = ui.result /\ ui'.completed = ui.completed /\ ui'.status = "error" /\ ending' = ending
    BY <1>1, <1>7 DEF NetworkFails, Pages, started
  <2>. QED  BY <1>2, <2>1 DEF AnswerInv
<1>8. ASSUME Reset PROVE AnswerInv'
  BY <1>2, <1>8 DEF Reset, Cleared, AnswerInv
<1>9. ASSUME Render \/ \E r \in Runs : Lose(r) PROVE AnswerInv'
  <2>1. ui' = ui /\ ending' = ending
    BY <1>9 DEF Render, Lose, started
  <2>. QED  BY <1>2, <2>1 DEF AnswerInv
<1>. QED
  BY <1>3, <1>4, <1>5, <1>6, <1>7, <1>8, <1>9 DEF Next, PressReset, PickCarrier, QueueTask

LEMMA AnswerAlways == Spec => []AnswerInv
<1>1. Init => AnswerInv
  BY EngineStarts DEF Init, Cleared, AnswerInv
<1>2. AnswerInv /\ UNCHANGED vars => AnswerInv'
  <2>. SUFFICES ASSUME AnswerInv, UNCHANGED vars PROVE AnswerInv'
    OBVIOUS
  <2>1. EngineInv'
    BY EngineStutters DEF AnswerInv
  <2>2. ui' = ui /\ ending' = ending
    BY DEF vars, engineVars, started
  <2>. QED  BY <2>1, <2>2 DEF AnswerInv
<1>. QED  BY <1>1, <1>2, AnswerSteps, PTL DEF Spec

\* What the views need of the engine, it gives them.
LEMMA PropsHold == AnswerInv => PropsOK(ui)
BY DEF AnswerInv, EngineInv, Pages, PropsOK

\* The three views, and within each the parts that are computed apart, show the
\* same state of every gate in every state of the page.
THEOREM ViewsAgreeAlways == Spec => []ViewsAgree
<1>1. AnswerInv => ViewsAgree
  BY PropsHold, ViewsAlwaysAgree
<1>. QED  BY <1>1, AnswerAlways, PTL

\* The page says in no view that the secret was returned, nor shows a manifest,
\* unless the portal answered 2xx since the last reset; and whatever is shown as
\* done has a manifest.
THEOREM SecretAnswered == Spec => []SecretNeedsAnswer
<1>1. AnswerInv => SecretNeedsAnswer
  <2>. SUFFICES ASSUME AnswerInv PROVE SecretNeedsAnswer
    OBVIOUS
  <2>1. PropsOK(ui) /\ ui.completed \in Nat
    BY PropsHold DEF PropsOK
  <2>2. ASSUME NEW g \in {4, 5}, Claim[g] \in Says(ui, carrier) PROVE ui.result # 0
    <3>1. Claim[g] \notin Refusals /\ Claim[g] # Claim[0] /\ \A h \in 0 .. 5 : Claim[h] = Claim[g] => h = g
      BY ClaimsDiffer
    <3>2. Earned(ui, Claim[g])
      BY <2>1, <2>2, <3>1, SaysEarned
    <3>3. ui.status = "done" \/ ui.completed > 4
      BY <2>1, <3>1, <3>2 DEF Earned
    <3>. QED  BY <3>3 DEF AnswerInv
  <2>3. NodeLit(ui, "secret") => ui.result # 0
    <3>1. NodeLit(ui, "secret") => ui.completed > 4
      BY DEF NodeLit
    <3>. QED  BY <3>1 DEF AnswerInv
  <2>4. PortalShows(ui) # "nothing"
    BY <2>1 DEF PropsOK, Statuses, PortalShows, Errored
  <2>. QED  BY <2>2, <2>3, <2>4 DEF SecretNeedsAnswer, AnswerInv
<1>. QED  BY <1>1, AnswerAlways, PTL

-----------------------------------------------------------------------------
(* What is claimed was so.                                                  *)

\* The last gate that a resolve with this ending passes.
Reach(e) ==
  CASE e = "granted" -> 5 [] e = "missing" -> 4
    [] e \in {"empty", "unfetched", "fetch hung"} -> 3
    [] e \in {"denied", "authn hung"} -> 2
    [] e \in {"unissued", "agent hung"} -> 1 [] OTHER -> 0

\* An event that a resolve with this ending can send: from the JWT-SVID on, the
\* stage it announces is a gate that the resolve has passed.
Fits(t, e) == IsErr(t) \/ EventToStage(t) <= 1 \/ EventToStage(t) <= Reach(e)

LEMMA FactsReach ==
  ASSUME NEW e
  PROVE  Facts(e) = { Claim[g] : g \in 0 .. Reach(e) } /\ Reach(e) \in 0 .. 5
<1>1. Reach(e) \in 0 .. 5
  BY DEF Reach
<1>2. 0 .. 0 = {0}
  OBVIOUS
<1>. QED  BY <1>1, <1>2 DEF Facts, Reach

\* The portal's own events get no further than the handshake.
LEMMA DirectFits ==
  ASSUME NEW e \in EndingNames, NEW i \in 1 .. Len(Direct(e))
  PROVE  Fits(Direct(e)[i], e)
<1>1. Direct(e)[i] \in PortalTypes
  BY DirectTyped
<1>2. ASSUME NEW t \in PortalTypes PROVE IsErr(t) \/ EventToStage(t) <= 1
  BY <1>2 DEF PortalTypes, Requested, IsErr, ErrTypes, EventToStage
<1>. QED  BY <1>1, <1>2 DEF Fits

\* What the carrier's events announce.
LEMMA CarrierFits ==
  ASSUME NEW e
  PROVE  /\ Reach(e) >= 2 => Fits("jwt_svid.issued", e)
         /\ Reach(e) >= 3 => Fits("sm.authn_jwt.ok", e)
         /\ Reach(e) >= 4 => Fits("sm.secret_fetched.ok", e)
         /\ \A t \in ErrTypes : Fits(t, e)
<1>1. /\ EventToStage("jwt_svid.issued") = 2 /\ EventToStage("sm.authn_jwt.ok") = 3
      /\ EventToStage("sm.secret_fetched.ok") = 4
  BY DEF EventToStage, Requested
<1>2. Reach(e) \in Int
  BY FactsReach
<1>. QED  BY <1>1, <1>2 DEF Fits, IsErr

LEMMA RelayedFits ==
  ASSUME NEW e \in EndingNames, NEW i \in 1 .. Len(Relayed(e))
  PROVE  Fits(Relayed(e)[i], e)
<1>0. {"jwt_svid.error", "sm.authn_jwt.err", "sm.secret_fetched.err", "sm.secret_fetched.empty"}
        \subseteq ErrTypes
  BY DEF ErrTypes
<1>1. CASE e \in {"granted", "missing"}
  <2>1. Relayed(e) = <<"jwt_svid.issued", "sm.authn_jwt.ok", "sm.secret_fetched.ok">>
    BY <1>1 DEF Relayed
  <2>2. Reach(e) = 5 \/ Reach(e) = 4
    BY <1>1 DEF Reach
  <2>3. i = 1 \/ i = 2 \/ i = 3
    BY <2>1
  <2>4. /\ Relayed(e)[1] = "jwt_svid.issued"
        /\ Relayed(e)[2] = "sm.authn_jwt.ok"
        /\ Relayed(e)[3] = "sm.secret_fetched.ok"
    BY <2>1
  <2>5. Fits("jwt_svid.issued", e) /\ Fits("sm.authn_jwt.ok", e) /\ Fits("sm.secret_fetched.ok", e)
    BY <1>0, <2>2, FactsReach, CarrierFits
  <2>. QED  BY <2>3, <2>4, <2>5
<1>2. CASE e = "empty"
  <2>1. Relayed(e) = <<"jwt_svid.issued", "sm.authn_jwt.ok", "sm.secret_fetched.empty">>
    BY <1>2 DEF Relayed
  <2>2. Reach(e) = 3
    BY <1>2 DEF Reach
  <2>3. i = 1 \/ i = 2 \/ i = 3
    BY <2>1
  <2>4. /\ Relayed(e)[1] = "jwt_svid.issued"
        /\ Relayed(e)[2] = "sm.authn_jwt.ok"
        /\ Relayed(e)[3] = "sm.secret_fetched.empty"
    BY <2>1
  <2>5. Fits("jwt_svid.issued", e) /\ Fits("sm.authn_jwt.ok", e) /\ Fits("sm.secret_fetched.empty", e)
    BY <1>0, <2>2, FactsReach, CarrierFits
  <2>. QED  BY <2>3, <2>4, <2>5
<1>3. CASE e \in {"unfetched", "fetch hung"}
  <2>1. Relayed(e) = <<"jwt_svid.issued", "sm.authn_jwt.ok", "sm.secret_fetched.err">>
    BY <1>3 DEF Relayed
  <2>2. Reach(e) = 3
    BY <1>3 DEF Reach
  <2>3. i = 1 \/ i = 2 \/ i = 3
    BY <2>1
  <2>4. /\ Relayed(e)[1] = "jwt_svid.issued"
        /\ Relayed(e)[2] = "sm.authn_jwt.ok"
        /\ Relayed(e)[3] = "sm.secret_fetched.err"
    BY <2>1
  <2>5. Fits("jwt_svid.issued", e) /\ Fits("sm.authn_jwt.ok", e) /\ Fits("sm.secret_fetched.err", e)
    BY <1>0, <2>2, FactsReach, CarrierFits
  <2>. QED  BY <2>3, <2>4, <2>5
<1>4. CASE e \in {"denied", "authn hung"}
  <2>1. Relayed(e) = <<"jwt_svid.issued", "sm.authn_jwt.err">>
    BY <1>4 DEF Relayed
  <2>2. Reach(e) = 2
    BY <1>4 DEF Reach
  <2>3. i = 1 \/ i = 2
    BY <2>1
  <2>4. /\ Relayed(e)[1] = "jwt_svid.issued"
        /\ Relayed(e)[2] = "sm.authn_jwt.err"
    BY <2>1
  <2>5. Fits("jwt_svid.issued", e) /\ Fits("sm.authn_jwt.err", e)
    BY <1>0, <2>2, FactsReach, CarrierFits
  <2>. QED  BY <2>3, <2>4, <2>5
<1>5. CASE e \in {"unissued", "agent hung"}
  <2>1. Relayed(e) = <<"jwt_svid.error">>
    BY <1>5 DEF Relayed
  <2>2. i = 1 /\ Relayed(e)[i] = "jwt_svid.error"
    BY <2>1
  <2>. QED  BY <1>0, <2>2, CarrierFits
<1>6. CASE e \in {"blank", "badid", "down", "foreign", "unreached", "admitted"}
  <2>1. Relayed(e) = << >>
    BY <1>6 DEF Relayed
  <2>. QED  BY <2>1
<1>. QED  BY <1>1, <1>2, <1>3, <1>4, <1>5, <1>6 DEF EndingNames, Endings, Hung

FitsAll(s, e) == \A i \in 1 .. Len(s) : Fits(s[i], e)

\* A resolve that nothing disturbs: the stream, the queue and the fetch are its
\* own, and the page has got no further than it did.
Backed ==
  /\ current # 0 /\ inFlight \subseteq {current}
  /\ \A r \in Runs : r # current => trail[r] = NoTrail
  /\ \A i \in 1 .. Len(pq.queue) : Fits(pq.queue[i].type, ending[current])
  /\ FitsAll(trail[current].direct, ending[current])
  /\ FitsAll(trail[current].relayed, ending[current])
  /\ ui.status = "done" => ending[current] = "granted"
  /\ ui.completed <= Reach(ending[current]) + 1
  /\ ui.stage <= 1 \/ ui.stage <= Reach(ending[current])

BackedInv == EngineInv /\ (alone => Backed)

LEMMA TailFits ==
  ASSUME NEW S, NEW s \in Seq(S), s # << >>, NEW e, FitsAll(s, e)
  PROVE  Fits(Head(s), e) /\ FitsAll(Tail(s), e)
<1>1. Len(s) \in Nat /\ Len(s) >= 1 /\ Head(s) = s[1] /\ Len(Tail(s)) = Len(s) - 1
  OBVIOUS
<1>2. Fits(Head(s), e)
  BY <1>1 DEF FitsAll
<1>3. ASSUME NEW i \in 1 .. Len(Tail(s)) PROVE Fits(Tail(s)[i], e)
  <2>1. Tail(s)[i] = s[i + 1] /\ i + 1 \in 1 .. Len(s)
    BY <1>1
  <2>. QED  BY <2>1 DEF FitsAll
<1>. QED  BY <1>2, <1>3 DEF FitsAll

\* While nothing disturbs, the next message is one of the current resolve.
LEMMA NextFits ==
  ASSUME BackedInv, alone, NEW r \in Runs, NEW t, NEW rest \in Trails, Heads(r, t, rest)
  PROVE  /\ r = current /\ Fits(t, ending[current])
         /\ FitsAll(rest.direct, ending[current]) /\ FitsAll(rest.relayed, ending[current])
<1>1. Backed /\ trail[r] \in Trails
  BY DEF BackedInv, EngineInv, TrailTyped
<1>2. r = current
  <2>1. trail[r] # NoTrail
    BY DEF Heads, NoTrail
  <2>. QED  BY <1>1, <2>1 DEF Backed
<1>. DEFINE d == trail[r].direct
            c == trail[r].relayed
            x == ending[current]
<1>3. /\ d \in Seq(PortalTypes) /\ c \in Seq(CarrierTypes) /\ FitsAll(d, x) /\ FitsAll(c, x)
      /\ \/ d # << >> /\ t = Head(d) /\ rest = [direct |-> Tail(d), relayed |-> c]
         \/ c # << >> /\ t = Head(c) /\ rest = [direct |-> d, relayed |-> Tail(c)]
  BY <1>1, <1>2 DEF Trails, Backed, Heads
<1>. HIDE DEF d, c, x
<1>4. CASE d # << >> /\ t = Head(d) /\ rest = [direct |-> Tail(d), relayed |-> c]
  <2>1. Fits(Head(d), x) /\ FitsAll(Tail(d), x)
    BY <1>3, <1>4, TailFits
  <2>2. rest.direct = Tail(d) /\ rest.relayed = c
    BY <1>4
  <2>. QED  BY <1>2, <1>3, <1>4, <2>1, <2>2 DEF x
<1>5. CASE c # << >> /\ t = Head(c) /\ rest = [direct |-> d, relayed |-> Tail(c)]
  <2>1. Fits(Head(c), x) /\ FitsAll(Tail(c), x)
    BY <1>3, <1>5, TailFits
  <2>2. rest.direct = d /\ rest.relayed = Tail(c)
    BY <1>5
  <2>. QED  BY <1>2, <1>3, <1>5, <2>1, <2>2 DEF x
<1>. QED  BY <1>3, <1>4, <1>5

\* A task of the queue shows no more than the resolve has passed.
LEMMA TaskBacked ==
  ASSUME BackedInv, alone, QueueTask
  PROVE  /\ \A i \in 1 .. Len(pq'.queue) : Fits(pq'.queue[i].type, ending[current])
         /\ ui'.status = "done" => ending[current] = "granted"
         /\ ui'.completed <= Reach(ending[current]) + 1
         /\ ui'.stage <= 1 \/ ui'.stage <= Reach(ending[current])
<1>. DEFINE x == ending[current]
            E == {e \in Stream(runs) : Fits(e.type, x)}
            S == {u \in Pages(runs) :
                    /\ u.status = "done" => x = "granted"
                    /\ u.completed <= Reach(x) + 1
                    /\ u.stage <= 1 \/ u.stage <= Reach(x)}
<1>1. /\ EngineInv /\ Backed /\ ui \in Pages(runs) /\ runs \in Nat
      /\ \A i \in 1 .. Len(pq.queue) : pq.queue[i] \in Stream(runs)
  BY DEF BackedInv, EngineInv
<1>2. Reach(x) \in 0 .. 5
  BY FactsReach
<1>3. Feeds(E)
  <2>1. \A i \in 1 .. Len(pq.queue) : pq.queue[i] \in E
    BY <1>1 DEF Backed
  <2>2. ASSUME NEW e \in Stream(runs), e.of \in Runs, NEW rest \in Trails, Heads(e.of, e.type, rest)
        PROVE  e \in E
    BY <2>2, NextFits
  <2>. QED  BY <2>1, <2>2 DEF Feeds
<1>4. ui \in S
  BY <1>1 DEF Backed
<1>5. ASSUME NEW u \in S PROVE OnWalking(u) \in S
  BY <1>1, OnWalkingTyped, WalkingEffect
<1>6. ASSUME NEW u \in S, NEW e \in E PROVE OnEvent(u, e) \in S
  <2>1. u \in Pages(runs) /\ e \in Stream(runs) /\ OnEvent(u, e) \in Pages(runs)
    BY <1>1, OnEventTyped
  <2>2. CASE IsErr(e.type)
    <3>1. /\ OnEvent(u, e).status = "error" /\ OnEvent(u, e).stage = -1
          /\ OnEvent(u, e).completed = u.completed
      BY <1>1, <2>1, <2>2, ErrorEffect
    <3>. QED  BY <2>1, <3>1
  <2>3. CASE ~IsErr(e.type)
    <3>1. EventToStage(e.type) <= 1 \/ EventToStage(e.type) <= Reach(x)
      BY <2>3 DEF Fits
    <3>2. /\ OnEvent(u, e).status = u.status
          /\ \/ OnEvent(u, e).completed = u.completed /\ OnEvent(u, e).stage = u.stage
             \/ /\ OnEvent(u, e).completed = EventToStage(e.type)
                /\ OnEvent(u, e).stage = EventToStage(e.type)
      BY <1>1, <2>1, <2>3, StageEffect
    <3>3. EventToStage(e.type) \in Int
      BY DEF EventToStage
    <3>. QED  BY <1>2, <2>1, <3>1, <3>2, <3>3
  <2>. QED  BY <2>2, <2>3
<1>7. ui' \in S
  <2>. HIDE DEF S, E
  <2>. QED  BY <1>1, <1>3, <1>4, <1>5, <1>6, TaskKeepsIn
<1>8. \A i \in 1 .. Len(pq'.queue) : pq'.queue[i] \in E
  <2>. HIDE DEF E
  <2>. QED  BY <1>1, <1>3, TaskSendsIn
<1>. QED  BY <1>7, <1>8

LEMMA BackedSteps ==
  ASSUME BackedInv, Next
  PROVE  BackedInv'
<1>1. /\ EngineInv /\ ui \in Pages(runs) /\ runs \in Nat /\ Counted /\ trail \in [Runs -> Trails]
      /\ (alone => Backed) /\ current \in 0 .. runs
  BY DEF BackedInv, EngineInv, Counted, TrailTyped
<1>2. EngineInv'
  BY <1>1, EngineSteps
<1>3. ASSUME QueueTask, alone PROVE Backed'
  <2>1. UNCHANGED <<started, inFlight>>
    BY <1>1, <1>3, TaskSends
  <2>2. /\ \A i \in 1 .. Len(pq'.queue) : Fits(pq'.queue[i].type, ending[current])
        /\ ui'.status = "done" => ending[current] = "granted"
        /\ ui'.completed <= Reach(ending[current]) + 1
        /\ ui'.stage <= 1 \/ ui'.stage <= Reach(ending[current])
    BY <1>3, TaskBacked
  <2>3. /\ \A r \in Runs : r # current => trail'[r] = NoTrail
        /\ FitsAll(trail'[current].direct, ending[current])
        /\ FitsAll(trail'[current].relayed, ending[current])
    <3>1. CASE \E r \in Runs : Deliver(r)
      <4>1. PICK r \in Runs : Deliver(r)
        BY <3>1
      <4>2. PICK rest \in Trails : (\E t : Heads(r, t, rest)) /\ trail' = [trail EXCEPT ![r] = rest]
        BY <1>1, <4>1, DeliverSends
      <4>3. r = current
            /\ FitsAll(rest.direct, ending[current]) /\ FitsAll(rest.relayed, ending[current])
        BY <1>3, <4>2, NextFits
      <4>4. trail'[current] = rest
        BY <1>1, <4>2, <4>3
      <4>. QED  BY <1>1, <1>3, <4>2, <4>3, <4>4 DEF Backed
    <3>2. CASE trail' = trail
      BY <1>1, <1>3, <3>2 DEF Backed
    <3>. QED  BY <1>3, <3>1, <3>2 DEF QueueTask, Drains, ChangePace
  <2>. QED  BY <1>1, <1>3, <2>1, <2>2, <2>3 DEF Backed, started
<1>4. ASSUME NEW e \in EndingNames, Run(e), Quiet PROVE Backed'
  <2>1. /\ pq' = pq /\ pq.queue = << >> /\ inFlight = {} /\ inFlight' = {runs + 1}
        /\ current' = runs + 1 /\ ui' = Cleared("running") /\ runs + 1 \in Runs
        /\ ending' = [ending EXCEPT ![runs + 1] = e] /\ \A r \in Runs : trail[r] = NoTrail
        /\ trail' = [trail EXCEPT ![runs + 1] = [direct |-> Direct(e), relayed |-> Relayed(e)]]
    BY <1>1, <1>4, EngineAssumption DEF Run, Quiet, Starts, pqVars, Runs
  <2>2. ending'[current'] = e /\ trail'[current'] = [direct |-> Direct(e), relayed |-> Relayed(e)]
    BY <1>1, <2>1 DEF Counted
  <2>3. FitsAll(trail'[current'].direct, e) /\ FitsAll(trail'[current'].relayed, e)
    BY <2>2, DirectFits, RelayedFits DEF FitsAll
  <2>4. ui'.status = "running" /\ ui'.completed = 0 /\ ui'.stage = -1 /\ Reach(e) \in 0 .. 5
    BY <2>1, FactsReach DEF Cleared
  <2>5. \A r \in Runs : r # current' => trail'[r] = NoTrail
    BY <1>1, <2>1
  <2>6. current' # 0 /\ inFlight' \subseteq {current'}
    BY <1>1, <2>1
  <2>7. \A i \in 1 .. Len(pq'.queue) : Fits(pq'.queue[i].type, ending'[current'])
    BY <2>1
  <2>. QED  BY <2>2, <2>3, <2>4, <2>5, <2>6, <2>7 DEF Backed
<1>5. ASSUME NEW r \in Runs, Lose(r), alone PROVE Backed'
  <2>1. UNCHANGED <<pq, ui, started, inFlight>>
    BY <1>5 DEF Lose, pqVars
  <2>2. PICK m \in Message(r) : trail' = Without(r, m)
    BY <1>5 DEF Lose
  <2>3. PICK rest \in Trails : (\E t : Heads(r, t, rest)) /\ trail' = [trail EXCEPT ![r] = rest]
    BY <1>1, <2>2, MessageTyped
  <2>4. r = current
        /\ FitsAll(rest.direct, ending[current]) /\ FitsAll(rest.relayed, ending[current])
    BY <1>5, <2>3, NextFits
  <2>5. trail'[current] = rest /\ \A q \in Runs : q # current => trail'[q] = NoTrail
    BY <1>1, <1>5, <2>3, <2>4 DEF Backed
  <2>. QED  BY <1>1, <1>5, <2>1, <2>4, <2>5 DEF Backed, started
<1>6. ASSUME NEW r \in Runs, Answer(r) \/ NetworkFails(r), alone PROVE Backed'
  <2>1. UNCHANGED <<pq, trail, started>> /\ inFlight' = inFlight \ {r} /\ r \in inFlight
    BY <1>6 DEF Answer, NetworkFails, pqVars
  <2>2. r = current /\ Backed
    BY <1>1, <1>6, <2>1 DEF Backed
  <2>3. /\ ui'.status = "done" => ending[current] = "granted"
        /\ ui'.completed <= Reach(ending[current]) + 1
        /\ ui'.stage <= 1 \/ ui'.stage <= Reach(ending[current])
    <3>1. CASE Answer(r) /\ AnswersOk(ending[r])
      <4>1. ui'.completed = 6 /\ ui'.stage = -1 /\ ending[current] = "granted"
        BY <1>1, <2>2, <3>1 DEF Answer, AnswersOk, Pages
      <4>2. Reach(ending[current]) = 5
        BY <4>1 DEF Reach
      <4>. QED  BY <4>1, <4>2
    <3>2. CASE Answer(r) /\ ~AnswersOk(ending[r])
      <4>1. ui'.completed = ui.completed /\ ui'.stage = ui.stage /\ ui'.status = "error"
        BY <1>1, <3>2 DEF Answer, HttpError, Pages
      <4>. QED  BY <2>2, <4>1 DEF Backed
    <3>3. CASE NetworkFails(r)
      <4>1. ui'.completed = ui.completed /\ ui'.stage = ui.stage /\ ui'.status = "error"
        BY <1>1, <3>3 DEF NetworkFails, Pages
      <4>. QED  BY <2>2, <4>1 DEF Backed
    <3>. QED  BY <1>6, <3>1, <3>2, <3>3
  <2>. QED  BY <2>1, <2>2, <2>3 DEF Backed, started
<1>7. ASSUME Render, alone PROVE Backed'
  <2>1. UNCHANGED <<pq, ui, trail, started, inFlight>>
    BY <1>7 DEF Render, pqVars
  <2>. QED  BY <1>1, <1>7, <2>1 DEF Backed, started
<1>8. CASE QueueTask
  <2>1. alone' = alone
    BY <1>1, <1>8, TaskSends DEF history
  <2>. QED  BY <1>2, <1>3, <1>8, <2>1 DEF BackedInv
<1>9. ASSUME NEW e \in Endings(carrier), Run(e) PROVE BackedInv'
  <2>1. e \in EndingNames /\ alone' = Quiet
    BY <1>9 DEF Run, Endings, EndingNames
  <2>. QED  BY <1>2, <1>4, <1>9, <2>1 DEF BackedInv
<1>10. ASSUME Reset \/ \E e \in EndingNames : OtherRuns(e) PROVE BackedInv'
  <2>1. alone' = FALSE
    BY <1>10 DEF Reset, OtherRuns
  <2>. QED  BY <1>2, <2>1 DEF BackedInv
<1>11. ASSUME NEW r \in Runs, Lose(r) \/ Answer(r) \/ NetworkFails(r) PROVE BackedInv'
  <2>1. alone' = alone
    BY <1>11 DEF Lose, Answer, NetworkFails, history
  <2>. QED  BY <1>2, <1>5, <1>6, <1>11, <2>1 DEF BackedInv
<1>12. ASSUME Render PROVE BackedInv'
  <2>1. alone' = alone
    BY <1>12 DEF Render, history
  <2>. QED  BY <1>2, <1>7, <1>12, <2>1 DEF BackedInv
<1>. QED
  BY <1>8, <1>9, <1>10, <1>11, <1>12 DEF Next, PressReset, PickCarrier, QueueTask, EndingNames

\* No view says that a gate was passed that this resolve did not pass, unless the
\* user reset the page or events of another resolve were under way.
THEOREM NothingInvented == Spec => []ClaimsBacked
<1>1. Init => BackedInv
  <2>1. Init => alone = FALSE
    BY DEF Init
  <2>. QED  BY <2>1, EngineStarts DEF BackedInv
<1>2. BackedInv /\ [Next]_vars => BackedInv'
  <2>1. BackedInv /\ UNCHANGED vars => BackedInv'
    <3>. SUFFICES ASSUME BackedInv, UNCHANGED vars PROVE BackedInv'
      OBVIOUS
    <3>1. EngineInv'
      BY EngineStutters DEF BackedInv
    <3>2. UNCHANGED <<pq, ui, trail, inFlight, current, ending, alone>>
      BY DEF vars, pqVars, engineVars, started, history
    <3>. QED  BY <3>1, <3>2 DEF BackedInv, Backed
  <2>. QED  BY <2>1, BackedSteps
<1>3. AnswerInv /\ BackedInv => ClaimsBacked
  <2>. SUFFICES ASSUME AnswerInv, BackedInv, alone,
                       NEW y \in (Says(ui, carrier) \ Refusals)
                                   \cup (LayersVerifying(ui) \ {Claim[1]})
                PROVE  y \in Facts(ending[current])
    BY DEF ClaimsBacked
  <2>. DEFINE x == ending[current]
  <2>1. Facts(x) = { Claim[g] : g \in 0 .. Reach(x) } /\ Reach(x) \in 0 .. 5
    BY FactsReach
  <2>2. PropsOK(ui) /\ ui.completed \in Nat
    BY PropsHold DEF PropsOK
  <2>3. /\ ui.completed <= Reach(x) + 1 /\ (ui.status = "done" => Reach(x) = 5)
        /\ ui.stage <= 1 \/ ui.stage <= Reach(x)
    BY DEF BackedInv, Backed, Reach
  <2>. HIDE DEF x
  <2>4. ASSUME y \in Says(ui, carrier), y \notin Refusals
        PROVE  \E g \in 0 .. Reach(x) : y = Claim[g]
    <3>. Earned(ui, y)
      BY <2>2, <2>4, SaysEarned
    <3>1. CASE y = Claim[0]
      BY <2>1, <3>1
    <3>2. CASE ui.status = "done" /\ \E g \in 0 .. 5 : y = Claim[g]
      BY <2>3, <3>2
    <3>3. ASSUME NEW g \in 0 .. 5, y = Claim[g], ui.completed > g PROVE g \in 0 .. Reach(x)
      BY <2>1, <2>2, <2>3, <3>3
    <3>. QED  BY <3>1, <3>2, <3>3 DEF Earned
  <2>5. ASSUME y \in LayersVerifying(ui), y # Claim[1]
        PROVE  \E g \in 0 .. Reach(x) : y = Claim[g]
    <3>1. PICK g \in Gates : y = Claim[g] /\ ui.stage = g
      BY <2>5, VerifyingStage
    <3>2. g # 1 /\ g \in 0 .. 4
      BY <2>5, <3>1 DEF Gates
    <3>. QED  BY <2>1, <2>3, <3>1, <3>2
  <2>. QED  BY <2>1, <2>4, <2>5 DEF x
<1>. QED  BY <1>1, <1>2, <1>3, AnswerAlways, PTL DEF Spec
=============================================================================
