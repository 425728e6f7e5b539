-------------------------- MODULE Lifecycle_proofs ---------------------------
(***************************************************************************)
(* Theorems about Lifecycle, for the portal as for the carrier, for any    *)
(* requests and any number of restarts.                                    *)
(***************************************************************************)
EXTENDS Lifecycle, TLAPS

\* Every step keeps every variable within its type.
THEOREM TypeCorrect == Spec => []TypeOK
<1> USE LifecycleAssumption DEF TypeOK, Servers, Phases
<1>1. Init => TypeOK
  <2> SUFFICES ASSUME Init PROVE TypeOK
    OBVIOUS
  <2>1. signalled \in BOOLEAN /\ late \in BOOLEAN
    BY DEF Init
  <2>2. listener \in [Servers -> {"new", "open", "failed", "shut"}]
    BY DEF Init, Unbound
  <2>3. req \in [Requests -> {"none", "answered", "cut"} \cup Servers]
    BY DEF Init
  <2>4. starts \in 1 .. MaxStarts
    BY SMT DEF Init
  <2> QED
    BY <2>1, <2>2, <2>3, <2>4 DEF Init
<1>2. TypeOK /\ [Next]_vars => TypeOK'
  <2> SUFFICES ASSUME TypeOK, [Next]_vars PROVE TypeOK'
    OBVIOUS
  <2>1. CASE MainStep
    <3>1. CASE Obtain
      BY <3>1 DEF Obtain
    <3>2. CASE ObtainFails \/ BindFails \/ ServeReturns
      BY <3>2 DEF ObtainFails, BindFails, ServeReturns, Return
    <3>3. CASE Bind
      BY <3>3 DEF Bind
    <3>4. CASE Exit
      BY <3>4 DEF Exit
    <3> QED
      BY <2>1, <3>1, <3>2, <3>3, <3>4 DEF MainStep
  <2>2. CASE StopBegins
    BY <2>2 DEF StopBegins
  <2>3. CASE StopNext
    <3>1. CASE stopper = "api" /\ Sides # {}
      <4>1. "trace" \in Servers
        BY <3>1
      <4>2. stopper' = "trace" /\ listener' = [listener EXCEPT !["trace"] = "shut"]
        BY <2>3, <3>1 DEF StopNext
      <4> QED
        BY <2>3, <4>1, <4>2 DEF StopNext
    <3>2. CASE ~(stopper = "api" /\ Sides # {})
      BY <2>3, <3>2 DEF StopNext
    <3> QED
      BY <3>1, <3>2
  <2>4. CASE DeadlinePasses
    BY <2>4 DEF DeadlinePasses
  <2>5. ASSUME NEW s \in Sides, NEW how \in {"open", "failed"}, BindSide(s, how)
        PROVE  TypeOK'
    BY <2>5 DEF BindSide
  <2>6. ASSUME NEW r \in Requests, Answer(r) PROVE TypeOK'
    BY <2>6 DEF Answer
  <2>7. ASSUME NEW r \in Requests, NEW s \in Servers, Accept(r, s) PROVE TypeOK'
    BY <2>7 DEF Accept
  <2>8. CASE Signal
    BY <2>8 DEF Signal
  <2>9. CASE Restart
    <3>1. signalled' \in BOOLEAN /\ late' \in BOOLEAN
      BY <2>9 DEF Restart
    <3>2. listener' \in [Servers -> {"new", "open", "failed", "shut"}]
      BY <2>9 DEF Restart, Unbound
    <3>3. starts' \in 1 .. MaxStarts
      BY <2>9, SMT DEF Restart
    <3> QED
      BY <2>9, <3>1, <3>2, <3>3 DEF Restart
  <2>10. CASE UNCHANGED vars
    BY <2>10 DEF vars
  <2>11. CASE AcceptFails
    BY <2>11 DEF AcceptFails, Return
  <2> QED
    BY <2>1, <2>2, <2>3, <2>4, <2>5, <2>6, <2>7, <2>8, <2>9, <2>10, <2>11 DEF Next
<1> QED
  BY <1>1, <1>2, PTL DEF Spec

-----------------------------------------------------------------------------
\* The shutdown goroutine acts on a signal only, and while the process lives a
\* listener is shut by nothing else.
StopInv ==
  /\ stopper # "waiting" => signalled
  /\ (phase # "exited" /\ listener["api"] = "shut") => stopper # "waiting"
  /\ (phase \in {"returned", "exited"} /\ code = 0) => signalled

LEMMA StopStep == TypeOK /\ StopInv /\ [Next]_vars => StopInv'
<1> SUFFICES ASSUME TypeOK, StopInv, [Next]_vars PROVE StopInv'
  OBVIOUS
<1> USE LifecycleAssumption DEF TypeOK, Servers, Phases, StopInv
<1>1. CASE Obtain \/ Bind
  BY <1>1 DEF Obtain, Bind
<1>2. CASE ObtainFails \/ BindFails \/ ServeReturns
  BY <1>2 DEF ObtainFails, BindFails, ServeReturns, Return
<1>3. CASE Exit \/ AcceptFails
  BY <1>3 DEF Exit, AcceptFails, Return
<1>4. CASE StopBegins \/ DeadlinePasses
  BY <1>4 DEF StopBegins, DeadlinePasses
<1>5. CASE StopNext
  BY <1>5 DEF StopNext
<1>6. ASSUME NEW s \in Sides, NEW how \in {"open", "failed"}, BindSide(s, how)
      PROVE  StopInv'
  BY <1>6 DEF BindSide
<1>7. CASE Signal
  BY <1>7 DEF Signal
<1>8. CASE Restart
  BY <1>8 DEF Restart, Unbound
<1>9. CASE UNCHANGED <<phase, code, signalled, listener, stopper>>
  BY <1>9
<1> QED
  BY <1>1, <1>2, <1>3, <1>4, <1>5, <1>6, <1>7, <1>8, <1>9
     DEF Next, MainStep, Answer, Accept, vars

\* Exit code 0 is never given to a process that nobody asked to stop.
THEOREM CleanExits == Spec => []CleanExitIsAsked
<1>1. Init => StopInv
  BY LifecycleAssumption DEF Init, StopInv, Unbound, Servers
<1>2. StopInv => CleanExitIsAsked
  BY DEF StopInv, CleanExitIsAsked
<1> QED
  BY <1>1, <1>2, StopStep, TypeCorrect, PTL DEF Spec

-----------------------------------------------------------------------------
\* From the first Shutdown on nothing is accepted by the API server, and the
\* goroutine goes on to the next server only when it is drained or late.
DrainInv ==
  phase # "exited" =>
    /\ stopper # "waiting" => listener["api"] = "shut"
    /\ stopper \in {"trace", "done"} => (Active("api") = {} \/ late)
    /\ (Sides # {} /\ listener["trace"] = "shut") => stopper \in {"trace", "done"}

\* A process has the second server or it has not.
LEMMA TwoKinds == Sides = {} \/ Sides = {"trace"}
BY LifecycleAssumption

LEMMA DrainStep == TypeOK /\ DrainInv /\ [Next]_vars => DrainInv'
<1> SUFFICES ASSUME TypeOK, DrainInv, [Next]_vars PROVE DrainInv'
  OBVIOUS
<1> USE LifecycleAssumption DEF TypeOK, Servers, Phases, DrainInv, Active
<1>1. CASE Obtain
  BY <1>1 DEF Obtain
<1>2. CASE Bind
  <2>1. stopper = "waiting"
    BY <1>2 DEF Bind
  <2>2. CASE Sides = {}
    BY <1>2, <2>1, <2>2 DEF Bind
  <2>3. CASE Sides = {"trace"}
    BY <1>2, <2>1, <2>3 DEF Bind
  <2> QED
    BY <2>2, <2>3, TwoKinds
<1>3. CASE ObtainFails \/ BindFails \/ ServeReturns
  BY <1>3 DEF ObtainFails, BindFails, ServeReturns, Return
<1>4. CASE Exit
  BY <1>4 DEF Exit
<1>5. CASE StopBegins
  BY <1>5 DEF StopBegins
<1>6. CASE StopNext
  <2>1. CASE stopper = "api"
    BY <1>6, <2>1 DEF StopNext
  <2>2. CASE stopper # "api"
    BY <1>6, <2>2 DEF StopNext
  <2> QED
    BY <2>1, <2>2
<1>7. CASE DeadlinePasses
  BY <1>7 DEF DeadlinePasses
<1>8. ASSUME NEW s \in Sides, NEW how \in {"open", "failed"}, BindSide(s, how)
      PROVE  DrainInv'
  BY <1>8 DEF BindSide
<1>9. ASSUME NEW r \in Requests, Answer(r) PROVE DrainInv'
  BY <1>9 DEF Answer
<1>10. ASSUME NEW r \in Requests, NEW s \in Servers, Accept(r, s) PROVE DrainInv'
  BY <1>10 DEF Accept
<1>11. CASE Signal
  BY <1>11 DEF Signal
<1>12. CASE Restart
  <2>1. stopper' = "waiting" /\ listener' = [s \in Servers |-> "new"]
    BY <1>12 DEF Restart, Unbound
  <2>2. CASE Sides = {}
    BY <2>1, <2>2
  <2>3. CASE Sides = {"trace"}
    BY <2>1, <2>3
  <2> QED
    BY <2>2, <2>3, TwoKinds
<1>13. CASE UNCHANGED vars
  BY <1>13 DEF vars
<1>14. CASE AcceptFails
  BY <1>14 DEF AcceptFails, Return
<1> QED
  BY <1>1, <1>2, <1>3, <1>4, <1>5, <1>6, <1>7, <1>8, <1>9, <1>10, <1>11, <1>12, <1>13, <1>14
     DEF Next, MainStep

\* The carrier's trace stream outlasts the lookups it reports on.
THEOREM TraceOutlives == Spec => []TraceOutlivesLookups
<1>1. Init => DrainInv
  BY LifecycleAssumption DEF Init, DrainInv, Unbound, Servers
<1>2. DrainInv => TraceOutlivesLookups
  BY DEF DrainInv, TraceOutlivesLookups
<1> QED
  BY <1>1, <1>2, DrainStep, TypeCorrect, PTL DEF Spec
=============================================================================
