-------------------------- MODULE TtlTicker_proofs ---------------------------
(***************************************************************************)
(* Theorems about TtlTicker, for every set of tokens and every lag.        *)
(***************************************************************************)
EXTENDS TtlTicker, TLAPS

\* Seconds left are never negative, and those left earlier exceed those left
\* later by no more than the time between.
LEMMA Left ==
  ASSUME NEW e \in Nat, NEW t \in Nat, NEW d \in Nat
  PROVE  /\ AtLeast0(e - t) \in Nat
         /\ AtLeast0(e - t) \in AtLeast0(e - (t + d)) .. AtLeast0(e - (t + d)) + d
BY SMT DEF AtLeast0

\* Every step keeps every variable within its type.
THEOREM TypeCorrect == Spec => []TypeOK
<1>1. Init => TypeOK
  <2> SUFFICES ASSUME Init PROVE TypeOK
    OBVIOUS
  <2>1. issued \in BOOLEAN /\ timer \in BOOLEAN /\ frozen \in BOOLEAN
    BY DEF Init
  <2>2. /\ now \in Nat /\ ticked \in Nat /\ ticked <= now /\ exp \in Nat
        /\ ttl \in Nat /\ drawn \in Nat /\ digits \in Nat /\ settles = {}
    BY DEF Init
  <2> QED
    BY <2>1, <2>2 DEF TypeOK
<1>2. TypeOK /\ [Next]_vars => TypeOK'
  <2> SUFFICES ASSUME TypeOK, [Next]_vars PROVE TypeOK'
    OBVIOUS
  <2> USE DEF TypeOK
  <2>1. CASE IntervalTicks
    BY <2>1, Left DEF IntervalTicks, Tick, AtLeast0, shuffleVars
  <2>2. CASE Passes
    BY <2>2 DEF Passes, shuffleVars
  <2>3. CASE Freeze
    BY <2>3 DEF Freeze, shuffleVars
  <2>4. ASSUME NEW e \in Tokens, Issue(e) PROVE TypeOK'
    <3>1. e \in Nat /\ AtLeast0(e - now) \in Nat
      BY TtlAssumption, SMT DEF AtLeast0
    <3>2. /\ ticked' = now /\ now' = now /\ ttl' = AtLeast0(e - now)
          /\ exp' = e /\ UNCHANGED shuffleVars
      BY <2>4 DEF Issue, Tick
    <3>3. issued' \in BOOLEAN /\ timer' \in BOOLEAN /\ frozen' \in BOOLEAN
      BY <2>4 DEF Issue
    <3> QED
      BY <3>1, <3>2, <3>3 DEF shuffleVars
  <2>5. CASE Redraw
    BY <2>5 DEF Redraw, Shuffled, tickVars
  <2>6. CASE Mount
    BY <2>6 DEF Mount, tickVars
  <2>7. ASSUME NEW n \in settles, Settle(n) PROVE TypeOK'
    BY <2>7 DEF Settle, tickVars
  <2>8. CASE UNCHANGED vars
    BY <2>8 DEF vars, tickVars, shuffleVars
  <2> QED
    BY <2>1, <2>2, <2>3, <2>4, <2>5, <2>6, <2>7, <2>8 DEF Next
<1> QED
  BY <1>1, <1>2, PTL DEF Spec

-----------------------------------------------------------------------------
\* Why the countdown cannot drift: what is shown is what was left at the last
\* tick, and that was not long ago.
CountInv ==
  /\ issued => timer
  /\ timer => now - ticked <= MaxLag + 1
  /\ (issued /\ ~frozen) => ttl = AtLeast0(exp - ticked)

LEMMA CountStep == TypeOK /\ TypeOK' /\ CountInv /\ [Next]_vars => CountInv'
<1> SUFFICES ASSUME TypeOK, TypeOK', CountInv, [Next]_vars PROVE CountInv'
  OBVIOUS
<1> USE TtlAssumption DEF TypeOK, CountInv
<1>1. CASE IntervalTicks
  BY <1>1 DEF IntervalTicks, Tick
<1>2. CASE Passes
  BY <1>2 DEF Passes
<1>3. CASE Freeze
  BY <1>3 DEF Freeze
<1>4. ASSUME NEW e \in Tokens, Issue(e) PROVE CountInv'
  BY <1>4 DEF Issue, Tick
<1>5. CASE UNCHANGED tickVars
  BY <1>5 DEF tickVars
<1> QED
  BY <1>1, <1>2, <1>3, <1>4, <1>5 DEF Next, Redraw, Mount, Settle, vars

\* The countdown never shows more than the token has left and the lag of the
\* interval together, and never less than it has left.
THEOREM CountsTrue == Spec => []NoDrift
<1>1. Init => CountInv
  BY DEF Init, CountInv
<1>2. TypeOK /\ CountInv => NoDrift
  <2> SUFFICES ASSUME TypeOK, CountInv, issued, ~frozen
               PROVE  LET left == AtLeast0(exp - now)
                      IN  ttl \in left .. left + MaxLag + 1
    BY DEF NoDrift
  <2> DEFINE d == now - ticked
  <2>1. d \in Nat /\ d <= MaxLag + 1 /\ now = ticked + d
    BY TtlAssumption DEF TypeOK, CountInv
  <2>2. ttl = AtLeast0(exp - ticked) /\ exp \in Nat /\ ticked \in Nat
    BY DEF TypeOK, CountInv
  <2>3. ttl \in AtLeast0(exp - now) .. AtLeast0(exp - now) + d
    BY <2>1, <2>2, Left
  <2> QED
    BY <2>1, <2>3, TtlAssumption, SMT DEF AtLeast0, TypeOK
<1>3. TypeOK /\ TypeOK' /\ CountInv /\ [Next]_vars => CountInv'
  BY CountStep
<1> QED
  BY <1>1, <1>2, <1>3, TypeCorrect, PTL DEF Spec

\* The digits on the page come to rest on the value they were last given.
THEOREM DigitsAreTrue == Spec => []DigitsComeTrue
<1>1. Init => DigitsComeTrue
  BY DEF Init, DigitsComeTrue
<1>2. DigitsComeTrue /\ [Next]_vars => DigitsComeTrue'
  <2> SUFFICES ASSUME DigitsComeTrue, [Next]_vars PROVE DigitsComeTrue'
    OBVIOUS
  <2> USE DEF DigitsComeTrue
  <2>1. CASE Redraw
    BY <2>1 DEF Redraw
  <2>2. CASE Mount
    BY <2>2 DEF Mount
  <2>3. ASSUME NEW n \in settles, Settle(n) PROVE DigitsComeTrue'
    BY <2>3 DEF Settle
  <2>4. CASE UNCHANGED shuffleVars
    BY <2>4 DEF shuffleVars
  <2> QED
    BY <2>1, <2>2, <2>3, <2>4 DEF Next, IntervalTicks, Passes, Freeze, Issue, vars
<1> QED
  BY <1>1, <1>2, PTL DEF Spec
=============================================================================
