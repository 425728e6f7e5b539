------------------------ MODULE IdentityCache_proofs -------------------------
(***************************************************************************)
(* Proofs about IdentityCache, for any number of readers and rotations and *)
(* any values of the cache's lifetime and of the client's timeout.         *)
(*                                                                         *)
(* The mutex makes the calls to the carrier follow one another (Exclusive), *)
(* so an answer is no older than its call (Dated) and no older an SVID     *)
(* than anything told before it (Ordered).                                 *)
(***************************************************************************)
EXTENDS IdentityCache, TLAPS

InCall(c) == rpc[c] \in {"calling", "answered"}

\* Only the holder of the mutex has a call under way.
Exclusive == \A c \in Readers : InCall(c) => mu = c

\* How far each SVID that was seen, cached or shown can be out of date.
Dated ==
  /\ heldUntil[svid] = now
  /\ \A v \in SVIDs : heldUntil[v] <= now
  /\ \A c \in Readers : InCall(c) => now <= since[c] + Timeout /\ since[c] <= now
  /\ \A c \in Readers : rpc[c] = "answered" =>
       seen[c] \in SVIDs /\ since[c] <= heldUntil[seen[c]]
  /\ cached # None => cachedAt <= heldUntil[cached] + Timeout

\* What was told before is no newer than what is cached, seen or held.
Ordered ==
  \A c \in Readers :
    /\ shownAt[c] <= now
    /\ shown[c] \in SVIDs =>
         /\ shown[c] <= svid
         /\ cached # None => shown[c] <= cached
         /\ \A d \in Readers : rpc[d] = "answered" => shown[c] <= seen[d]

\* Nothing is cached or seen that the carrier has not held yet.
Held ==
  /\ cached <= svid
  /\ \A c \in Readers : rpc[c] = "answered" => seen[c] <= svid

Inv == TypeOK /\ Exclusive /\ Dated /\ Ordered /\ Held /\ Recent /\ NoStepBack

-----------------------------------------------------------------------------
\* Nothing is cached or shown at the start.
LEMMA InitInvariant == Init => Inv
<1>. SUFFICES ASSUME Init PROVE Inv
  OBVIOUS
<1>. USE CacheAssumption DEF Init, SVIDs, None, Failed, InCall
<1>1. TypeOK
  BY DEF TypeOK
<1>2. Exclusive /\ Ordered /\ Held /\ Recent /\ NoStepBack
  BY DEF Exclusive, Ordered, Held, Recent, NoStepBack
<1>3. Dated
  BY DEF Dated
<1>. QED  BY <1>1, <1>2, <1>3 DEF Inv

\* Time passes: a call under way has time left, nothing else is dated anew.
LEMMA TickInvariant == ASSUME Inv, Tick PROVE Inv'
<1>. USE CacheAssumption DEF Tick, cacheVars, Inv, TypeOK, InCall, SVIDs, None, Failed
<1>1. TypeOK'
  BY DEF Tick
<1>2. Exclusive'
  BY DEF Tick, Exclusive
<1>3. Dated'
  BY DEF Tick, Dated, Exclusive
<1>4. Ordered'
  BY DEF Tick, Ordered, Held, Exclusive
<1>5. Held'
  BY DEF Tick, Held
<1>6. Recent'
  BY DEF Tick, Recent, Dated
<1>7. NoStepBack'
  BY DEF Tick, NoStepBack, Ordered, Held
<1>. QED  BY <1>1, <1>2, <1>3, <1>4, <1>5, <1>6, <1>7 DEF Inv

\* The carrier's next SVID is newer than any that was seen.
LEMMA RotateInvariant == ASSUME Inv, Rotate PROVE Inv'
BY CacheAssumption DEF Rotate, cacheVars, Inv, TypeOK, Exclusive, Dated, Ordered, Held,
   Recent, NoStepBack, InCall, SVIDs, None, Failed

\* The step of a reader.
LEMMA ReaderInvariant == ASSUME Inv, NEW c \in Readers, ReaderStep(c) PROVE Inv'
<1>. USE CacheAssumption DEF worldVars, cacheVars, Inv, TypeOK, InCall, SVIDs, None,
     Failed, Tells
<1>1. CASE Refuse(c)
  BY <1>1 DEF Refuse, Exclusive, Dated, Ordered, Held, Recent, NoStepBack
<1>2. CASE Arrive(c)
  BY <1>2 DEF Arrive, Exclusive, Dated, Ordered, Held, Recent, NoStepBack
<1>3. CASE Hit(c)
  <2>1. TypeOK'
    BY <1>3 DEF Hit, Fresh
  <2>2. Exclusive'
    BY <1>3 DEF Hit, Fresh, Exclusive
  <2>3. Dated'
    BY <1>3 DEF Hit, Fresh, Dated, Exclusive
  <2>4. Ordered'
    BY <1>3 DEF Hit, Fresh, Ordered, Held, Exclusive
  <2>5. Held'
    BY <1>3 DEF Hit, Fresh, Held
  <2>6. Recent'
    BY <1>3 DEF Hit, Fresh, Recent, Dated
  <2>7. NoStepBack'
    BY <1>3 DEF Hit, Fresh, NoStepBack, Ordered, Held
  <2>. QED  BY <2>1, <2>2, <2>3, <2>4, <2>5, <2>6, <2>7 DEF Inv
<1>4. CASE Miss(c)
  BY <1>4, SMTT(30) DEF Miss, Exclusive, Dated, Ordered, Held, Recent, NoStepBack
<1>5. CASE CarrierAnswers(c)
  <2>1. TypeOK'
    BY <1>5 DEF CarrierAnswers
  <2>2. Exclusive'
    BY <1>5 DEF CarrierAnswers, Exclusive
  <2>3. Dated'
    BY <1>5 DEF CarrierAnswers, Dated, Exclusive
  <2>4. Ordered'
    BY <1>5 DEF CarrierAnswers, Ordered, Held, Exclusive
  <2>5. Held'
    BY <1>5 DEF CarrierAnswers, Held
  <2>6. Recent'
    BY <1>5 DEF CarrierAnswers, Recent, Dated
  <2>7. NoStepBack'
    BY <1>5 DEF CarrierAnswers, NoStepBack, Ordered, Held
  <2>. QED  BY <2>1, <2>2, <2>3, <2>4, <2>5, <2>6, <2>7 DEF Inv
<1>6. CASE Store(c)
  <2>1. TypeOK'
    BY <1>6 DEF Store
  <2>2. Exclusive'
    BY <1>6 DEF Store, Exclusive
  <2>3. Dated'
    BY <1>6 DEF Store, Dated, Exclusive
  <2>4. Ordered'
    BY <1>6 DEF Store, Ordered, Held, Exclusive
  <2>5. Held'
    BY <1>6 DEF Store, Held
  <2>6. Recent'
    BY <1>6 DEF Store, Recent, Dated
  <2>7. NoStepBack'
    BY <1>6 DEF Store, NoStepBack, Ordered, Held
  <2>. QED  BY <2>1, <2>2, <2>3, <2>4, <2>5, <2>6, <2>7 DEF Inv
<1>7. CASE CallFails(c)
  <2>1. TypeOK'
    BY <1>7 DEF CallFails
  <2>2. Exclusive'
    BY <1>7 DEF CallFails, Exclusive
  <2>3. Dated'
    BY <1>7 DEF CallFails, Dated, Exclusive
  <2>4. Ordered'
    BY <1>7 DEF CallFails, Ordered, Held, Exclusive
  <2>5. Held'
    BY <1>7 DEF CallFails, Held
  <2>6. Recent'
    BY <1>7 DEF CallFails, Recent, Dated
  <2>7. NoStepBack'
    BY <1>7 DEF CallFails, NoStepBack, Ordered, Held
  <2>. QED  BY <2>1, <2>2, <2>3, <2>4, <2>5, <2>6, <2>7 DEF Inv
<1>. QED  BY <1>1, <1>2, <1>3, <1>4, <1>5, <1>6, <1>7 DEF ReaderStep

\* The invariant holds in every reachable state.
LEMMA Invariance == Spec => []Inv
<1>1. Inv /\ [Next]_vars => Inv'
  <2>. SUFFICES ASSUME Inv, [Next]_vars PROVE Inv'
    OBVIOUS
  <2>1. CASE Next
    BY <2>1, TickInvariant, RotateInvariant, ReaderInvariant DEF Next
  <2>2. CASE UNCHANGED vars
    BY <2>2 DEF vars, Inv, TypeOK, Exclusive, Dated, Ordered, Held, Recent, NoStepBack,
       InCall
  <2>. QED  BY <2>1, <2>2
<1>. QED  BY <1>1, InitInvariant, PTL DEF Spec

\* Every variable keeps its type, and the mutex is held for a call only.
THEOREM TypeCorrect == Spec => []TypeOK
<1>1. Inv => TypeOK
  BY DEF Inv
<1>. QED  BY <1>1, Invariance, PTL

\* GET /identity never shows an SVID of the carrier that it had given up longer
\* ago than the cache's lifetime and the client's timeout together.
THEOREM ShownIsRecent == Spec => []Recent
<1>1. Inv => Recent
  BY DEF Inv
<1>. QED  BY <1>1, Invariance, PTL

\* GET /identity never goes back to an older SVID of the carrier.
THEOREM ShownInOrder == Spec => []NoStepBack
<1>1. Inv => NoStepBack
  BY DEF Inv
<1>. QED  BY <1>1, Invariance, PTL

\* GET /identity answers a failure to the reader only whose own call it was.
THEOREM FailuresAreOwn == Spec => FailureNotCached
<1>1. TypeOK /\ [Next]_vars =>
        [\A c \in Readers :
           (shown'[c] = Failed /\ shown[c] # Failed) => rpc[c] \in {"calling", "answered"}]_vars
  <2>. SUFFICES ASSUME TypeOK, Next, NEW c \in Readers,
                       shown'[c] = Failed, shown[c] # Failed
                PROVE  rpc[c] \in {"calling", "answered"}
    OBVIOUS
  <2>1. ~Tick /\ ~Rotate
    BY DEF Tick, Rotate
  <2>2. PICK d \in Readers : ReaderStep(d)
    BY <2>1 DEF Next
  <2>3. ~Refuse(d) /\ ~Arrive(d) /\ ~Miss(d) /\ ~CarrierAnswers(d)
    BY DEF Refuse, Arrive, Miss, CarrierAnswers
  <2>4. CASE Hit(d)
    <3>1. cached # None /\ shown' = [shown EXCEPT ![d] = cached]
      BY <2>4 DEF Hit, Fresh, Tells
    <3>. QED  BY <3>1 DEF TypeOK, SVIDs, Failed
  <2>5. CASE Store(d) \/ CallFails(d)
    <3>1. c = d
      BY <2>5 DEF Store, CallFails, Tells, TypeOK
    <3>. QED  BY <2>5, <3>1 DEF Store, CallFails
  <2>. QED  BY <2>2, <2>3, <2>4, <2>5 DEF ReaderStep
<1>. QED  BY <1>1, TypeCorrect, PTL DEF Spec, FailureNotCached
=============================================================================
