---------------------------- MODULE IdentityCache ----------------------------
(***************************************************************************)
(* apps/portal/identity.go: the portal's GET /identity, which shows the    *)
(* X.509-SVIDs of portal and carrier and keeps the carrier's for 30s.      *)
(*                                                                         *)
(* A reader is one request.  It holds the mutex while it asks the carrier, *)
(* which the 15s of the shared http.Client bound.  Time is counted in      *)
(* ticks; an SVID is named by its number in the order of rotation.  What   *)
(* the carrier reports is the SVID it holds when it answers, and time may  *)
(* pass before the portal stores it.                                       *)
(***************************************************************************)
EXTENDS Integers

CONSTANTS
  Readers,   \* requests for /identity
  NoOne,     \* the mutex is free
  TTL,       \* carrierCacheTTL
  Timeout,   \* of http.Client
  MaxTime,   \* bound: ticks of the clock
  MaxSVIDs   \* bound: SVIDs the carrier holds one after the other

ASSUME CacheAssumption ==
  /\ NoOne \notin Readers
  /\ TTL \in Nat \ {0} /\ Timeout \in Nat
  /\ MaxTime \in Nat /\ MaxSVIDs \in Nat \ {0}

None == 0      \* a nil answer: no SVID has this number
Failed == -1   \* the warning "carrier unreachable"

VARIABLES
  now,       \* the clock
  svid,      \* the SVID the carrier holds
  heldUntil, \* history: per SVID, the last tick at which the carrier held it
  mu,        \* holder of the mutex, or NoOne
  cached,    \* cachedResp
  cachedAt,
  rpc,       \* where each reader is in snapshot
  since,     \* when each reader's call to the carrier started
  seen,      \* the SVID in the carrier's answer to each reader
  shown,     \* what each reader was told of the carrier
  shownAt    \* history: when

vars == <<now, svid, heldUntil, mu, cached, cachedAt, rpc, since, seen, shown, shownAt>>
cacheVars == <<mu, cached, cachedAt>>
worldVars == <<now, svid, heldUntil>>

Init ==
  /\ now = 0
  /\ svid = 1
  /\ heldUntil = [v \in 1 .. MaxSVIDs |-> 0]
  /\ mu = NoOne
  /\ cached = None
  /\ cachedAt = 0
  /\ rpc = [c \in Readers |-> "new"]
  /\ since = [c \in Readers |-> 0]
  /\ seen = [c \in Readers |-> None]
  /\ shown = [c \in Readers |-> None]
  /\ shownAt = [c \in Readers |-> 0]

-----------------------------------------------------------------------------
(* External: the clock, and the agent that rotates the carrier's SVID.      *)

\* A call to the carrier is over when its 15s are.
Tick ==
  /\ now < MaxTime
  /\ \A c \in Readers : rpc[c] \in {"calling", "answered"} => now < since[c] + Timeout
  /\ now' = now + 1
  /\ heldUntil' = [heldUntil EXCEPT ![svid] = now + 1]
  /\ UNCHANGED <<svid, cacheVars, rpc, since, seen, shown, shownAt>>

Rotate ==
  /\ svid < MaxSVIDs
  /\ svid' = svid + 1
  /\ heldUntil' = [heldUntil EXCEPT ![svid + 1] = now]
  /\ UNCHANGED <<now, cacheVars, rpc, since, seen, shown, shownAt>>

-----------------------------------------------------------------------------
(* snapshot and carrierCached.                                              *)

\* The reader is told of v; its call is forgotten.
Tells(c, v) ==
  /\ rpc' = [rpc EXCEPT ![c] = "done"]
  /\ since' = [since EXCEPT ![c] = 0]
  /\ seen' = [seen EXCEPT ![c] = None]
  /\ shown' = [shown EXCEPT ![c] = v]
  /\ shownAt' = [shownAt EXCEPT ![c] = now]

\* The portal cannot read its own SVID: 503, the carrier is not asked.
Refuse(c) ==
  /\ rpc[c] = "new"
  /\ rpc' = [rpc EXCEPT ![c] = "done"]
  /\ UNCHANGED <<worldVars, cacheVars, since, seen, shown, shownAt>>

Arrive(c) ==
  /\ rpc[c] = "new"
  /\ rpc' = [rpc EXCEPT ![c] = "waiting"]
  /\ UNCHANGED <<worldVars, cacheVars, since, seen, shown, shownAt>>

\* Mutants: a failure counts as fresh as well; an entry never ages.
FreshAnyAnswer == cachedAt > 0 /\ now - cachedAt < TTL
FreshForEver == cached # None

Fresh == cached # None /\ now - cachedAt < TTL

\* A fresh entry is returned under the mutex.
Hit(c) ==
  /\ rpc[c] = "waiting" /\ mu = NoOne
  /\ Fresh
  /\ Tells(c, IF cached = None THEN Failed ELSE cached)
  /\ UNCHANGED <<worldVars, cacheVars>>

\* Mutant: the mutex is not held during the call.
MissUnlocked(c) ==
  /\ rpc[c] = "waiting" /\ mu = NoOne
  /\ ~Fresh
  /\ rpc' = [rpc EXCEPT ![c] = "calling"]
  /\ since' = [since EXCEPT ![c] = now]
  /\ UNCHANGED <<worldVars, cacheVars, seen, shown, shownAt>>

\* Anything else is asked of the carrier, and the mutex stays locked.
Miss(c) ==
  /\ rpc[c] = "waiting" /\ mu = NoOne
  /\ ~Fresh
  /\ mu' = c
  /\ rpc' = [rpc EXCEPT ![c] = "calling"]
  /\ since' = [since EXCEPT ![c] = now]
  /\ UNCHANGED <<worldVars, cached, cachedAt, seen, shown, shownAt>>

\* External: the carrier answers with the SVID it holds.
CarrierAnswers(c) ==
  /\ rpc[c] = "calling"
  /\ rpc' = [rpc EXCEPT ![c] = "answered"]
  /\ seen' = [seen EXCEPT ![c] = svid]
  /\ UNCHANGED <<worldVars, cacheVars, since, shown, shownAt>>

Store(c) ==
  /\ rpc[c] = "answered"
  /\ cached' = seen[c]
  /\ cachedAt' = now
  /\ mu' = NoOne
  /\ Tells(c, seen[c])
  /\ UNCHANGED worldVars

\* Mutant: the failing path does not unlock.
CallFailsLocked(c) ==
  /\ rpc[c] \in {"calling", "answered"}
  /\ cached' = None
  /\ cachedAt' = now
  /\ Tells(c, Failed)
  /\ UNCHANGED <<worldVars, mu>>

\* The call fails, times out or is cancelled with its reader's request; a nil
\* answer takes the place of the entry.
CallFails(c) ==
  /\ rpc[c] \in {"calling", "answered"}
  /\ cached' = None
  /\ cachedAt' = now
  /\ mu' = NoOne
  /\ Tells(c, Failed)
  /\ UNCHANGED worldVars

ReaderStep(c) ==
  \/ Refuse(c) \/ Arrive(c)
  \/ Hit(c) \/ Miss(c)
  \/ CarrierAnswers(c) \/ Store(c) \/ CallFails(c)

Next == Tick \/ Rotate \/ \E c \in Readers : ReaderStep(c)

Spec == Init /\ [][Next]_vars

\* sync.Mutex does not starve a waiter, and http.Client ends every call.
Fairness ==
  \A c \in Readers :
    /\ SF_vars(Hit(c) \/ Miss(c))
    /\ WF_vars(Store(c) \/ CallFails(c))

FairSpec == Spec /\ Fairness

-----------------------------------------------------------------------------
SVIDs == 1 .. MaxSVIDs

\* Every variable keeps its type, and the mutex is held for a call only.
TypeOK ==
  /\ now \in Nat /\ svid \in SVIDs
  /\ heldUntil \in [SVIDs -> Nat]
  /\ mu \in Readers \cup {NoOne}
  /\ mu # NoOne => rpc[mu] \in {"calling", "answered"}
  /\ cached \in SVIDs \cup {None} /\ cachedAt \in Nat
  /\ rpc \in [Readers -> {"new", "waiting", "calling", "answered", "done"}]
  /\ since \in [Readers -> Nat]
  /\ seen \in [Readers -> SVIDs \cup {None}]
  /\ shown \in [Readers -> SVIDs \cup {None, Failed}]
  /\ shownAt \in [Readers -> Nat]

\* The identity page never shows an SVID that the carrier had given up longer
\* ago than the age of a cache entry and the duration of a call together.
Recent ==
  \A c \in Readers :
    shown[c] \in SVIDs => shownAt[c] < heldUntil[shown[c]] + TTL + Timeout

\* The page never goes back to an older SVID: whoever is told later is told
\* of the same SVID or a newer one.
NoStepBack ==
  \A c, d \in Readers :
    (shown[c] \in SVIDs /\ shown[d] \in SVIDs /\ shownAt[c] < shownAt[d])
      => shown[c] <= shown[d]

\* A failure is only ever the reader's own: it is not kept for the next one,
\* who asks the carrier again (identity.go:113).
FailureNotCached ==
  [][ \A c \in Readers :
        (shown'[c] = Failed /\ shown[c] # Failed) => rpc[c] \in {"calling", "answered"} ]_vars

\* Every reader is answered, though all of them wait for one another's calls.
ReadersAnswered == \A c \in Readers : rpc[c] = "waiting" ~> rpc[c] = "done"
=============================================================================
