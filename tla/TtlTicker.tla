------------------------------ MODULE TtlTicker ------------------------------
(***************************************************************************)
(* The countdown of the JWT-SVID: engine/ttlTicker.ts, one timer of 1 Hz   *)
(* that recomputes the seconds left from the browser's clock; the hook     *)
(* that starts and freezes it (useResolveEngine.ts); and ShuffleDigits.tsx,*)
(* which shows a new value after a moment of random digits.                *)
(*                                                                         *)
(* A browser calls an interval late when the page is in the background, so *)
(* a tick may lag.  The clocks of browser and issuer differ: exp of a      *)
(* token is any second.  The fraction that a tick also computes from iat   *)
(* is shown nowhere and left out.                                          *)
(***************************************************************************)
EXTENDS Integers, FiniteSets

CONSTANTS
  Tokens,   \* when the JWT-SVIDs that may be issued expire, in seconds
  MaxLag,   \* how late the interval is called, in seconds
  MaxTime   \* bound: the clock

ASSUME TtlAssumption ==
  /\ Tokens \subseteq Nat
  /\ MaxLag \in Nat /\ MaxTime \in Nat

VARIABLES
  now,     \* the browser's clock, in seconds
  issued,  \* iatEpoch is not null
  exp,     \* expEpoch
  timer,   \* the interval runs
  ticked,  \* when tick last told its subscribers
  ttl,     \* jwtTtl, the seconds the page shows
  frozen,  \* history: freeze was called since the last token
  drawn,   \* ShuffleDigits: the value it was last rendered with
  digits,  \* ShuffleDigits: what it displays
  settles  \* ShuffleDigits: the values its pending timers will display

tickVars == <<now, issued, exp, timer, ticked, ttl, frozen>>
shuffleVars == <<drawn, digits, settles>>
vars == <<tickVars, shuffleVars>>

\* Mutant: an expired token counts on.
Unclamped(n) == n

AtLeast0(n) == IF n > 0 THEN n ELSE 0

\* Random digits, which show no value.
Shuffled == -1

Init ==
  /\ now = 0
  /\ issued = FALSE
  /\ exp = 0
  /\ timer = FALSE
  /\ ticked = 0
  /\ ttl = 0
  /\ frozen = FALSE
  /\ drawn = 0
  /\ digits = 0
  /\ settles = {}

-----------------------------------------------------------------------------
(* The ticker.                                                              *)

\* Mutant: counts the seconds itself instead of reading the clock.
TickByCounting(e) ==
  ticked' = now /\ ttl' = IF e = exp THEN AtLeast0(ttl - 1) ELSE AtLeast0(e - now)

\* tick, told to the page.
Tick(e) == ticked' = now /\ ttl' = AtLeast0(e - now)

\* The interval calls tick, which tells nothing before the first token.
IntervalTicks ==
  /\ timer /\ issued /\ ticked < now
  /\ Tick(exp)
  /\ UNCHANGED <<now, issued, exp, timer, frozen, shuffleVars>>

\* A second passes; the interval is never later than MaxLag.
Passes ==
  /\ now < MaxTime
  /\ timer => now - ticked <= MaxLag
  /\ now' = now + 1
  /\ UNCHANGED <<issued, exp, timer, ticked, ttl, frozen, shuffleVars>>

\* setIssuedAndExp, from an event jwt_svid.issued that carries iat and exp.
Issue(e) ==
  /\ issued' = TRUE
  /\ exp' = e
  /\ timer' = TRUE
  /\ Tick(e)
  /\ frozen' = FALSE
  /\ UNCHANGED <<now, shuffleVars>>

\* Mutant: the interval is stopped as well.
FreezeForGood ==
  /\ exp' = now
  /\ timer' = FALSE
  /\ frozen' = TRUE
  /\ UNCHANGED <<now, issued, ticked, ttl, shuffleVars>>

\* freeze, from run and from reset: the page hears of it with the next tick.
Freeze ==
  /\ exp' = now
  /\ frozen' = TRUE
  /\ UNCHANGED <<now, issued, timer, ticked, ttl, shuffleVars>>

-----------------------------------------------------------------------------
(* ShuffleDigits.                                                           *)

\* Mutant: the timers of the value before stay.
RedrawKeeping ==
  /\ drawn # ttl
  /\ drawn' = ttl
  /\ digits' = Shuffled
  /\ settles' = settles \cup {ttl}
  /\ UNCHANGED tickVars

\* The effect on a new value: the timers of the one before are cleared.
Redraw ==
  /\ drawn # ttl
  /\ drawn' = ttl
  /\ digits' = Shuffled
  /\ settles' = {ttl}
  /\ UNCHANGED tickVars

\* The timer of 60 ms; that of 20 ms before it shuffles once more.
Settle(n) ==
  /\ n \in settles
  /\ digits' = n
  /\ settles' = settles \ {n}
  /\ UNCHANGED <<drawn, tickVars>>

\* Another view, or the card again: the component is mounted anew.
Mount ==
  /\ drawn' = ttl
  /\ digits' = ttl
  /\ settles' = {}
  /\ UNCHANGED tickVars

Next ==
  \/ IntervalTicks \/ Passes \/ Freeze
  \/ \E e \in Tokens : Issue(e)
  \/ Redraw \/ Mount
  \/ \E n \in settles : Settle(n)

Spec == Init /\ [][Next]_vars

\* The browser calls an interval, an effect and a timer in the end, and its clock
\* goes on; it promises nothing of tokens, resets and views.
Fairness ==
  /\ WF_vars(IntervalTicks) /\ WF_vars(Passes)
  /\ WF_vars(Redraw) /\ WF_vars(\E n \in settles : Settle(n))

FairSpec == Spec /\ Fairness

-----------------------------------------------------------------------------
\* Every variable keeps its type.
TypeOK ==
  /\ now \in Nat /\ ticked \in Nat /\ ticked <= now
  /\ exp \in Nat /\ issued \in BOOLEAN
  /\ timer \in BOOLEAN /\ frozen \in BOOLEAN
  /\ ttl \in Nat /\ drawn \in Nat
  /\ digits \in Nat \cup {Shuffled}
  /\ settles \subseteq Nat

\* The countdown cannot drift: as long as no resolve or reset has frozen it, the
\* seconds shown exceed those the token has left by no more than the lag of the
\* interval, however many ticks were late (ttlTicker.ts:2-4).
NoDrift ==
  (issued /\ ~frozen) =>
    LET left == AtLeast0(exp - now) IN ttl \in left .. left + MaxLag + 1

\* Once the digits have come to rest they show the value the page holds for them;
\* while they are random, a timer is pending that ends it.
DigitsComeTrue ==
  /\ settles = {} => digits = drawn
  /\ settles \subseteq {drawn}

\* "Called when a new resolve starts: ... Subscribers see remaining=0"
\* (ttlTicker.ts:40-41): a frozen countdown goes to zero, if only with the next
\* tick, and the page shows it, unless another token is issued.
FrozenRunsOut ==
  (frozen /\ issued) ~> (~frozen \/ (ttl = 0 /\ digits = 0))
=============================================================================
