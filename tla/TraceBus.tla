------------------------------ MODULE TraceBus ------------------------------
(***************************************************************************)
(* apps/portal/trace.go and its pasted twin apps/carrier/trace.go: the     *)
(* in-process event bus and the SSE handlers that read it.                 *)
(*                                                                         *)
(* An emitter is a goroutine calling TraceBus.Emit, a client is one        *)
(* request being served by handleTraceSSE; the channel it subscribes with  *)
(* is identified with it.  An event is identified with its place in the    *)
(* order in which Emit took the mutex, so payload and time stamp are       *)
(* abstracted.  Receiving from a channel takes no lock, so it interleaves  *)
(* with the sends of an Emit that is half way through its subscribers.     *)
(***************************************************************************)
EXTENDS Integers, Sequences, FiniteSets

CONSTANTS
  Emitters,   \* goroutines that call Emit
  Clients,    \* requests served by handleTraceSSE, one channel each
  NoOne,      \* the mutex is free
  BufSize,    \* bufSize, at least 1 because NewTraceBus clamps it
  MaxEmits    \* bound: calls of Emit over the whole run

ASSUME BusAssumption ==
  /\ BufSize \in Nat \ {0}
  /\ MaxEmits \in Nat
  /\ Emitters \cap Clients = {}
  /\ NoOne \notin Emitters \cup Clients

VARIABLES
  mu,       \* holder of TraceBus.mu, or NoOne
  subs,     \* TraceBus.subs
  buf,      \* buffered contents of each client's channel
  closed,   \* channels that have been closed
  epc,      \* where each emitter is in Emit
  todo,     \* subscribers an emitter's loop has still to visit
  ev,       \* the event an emitter is sending
  hpc,      \* where each client's handler is in handleTraceSSE
  gone,     \* clients whose request context is done
  emitted,  \* history: events that have taken their place in the order
  joined,   \* history: value of emitted when the client subscribed
  wrote     \* history: events written to each client

vars == <<mu, subs, buf, closed, epc, todo, ev, hpc, gone, emitted, joined, wrote>>

emitterVars == <<epc, todo, ev, emitted>>
clientVars  == <<hpc, gone, joined, wrote>>

Init ==
  /\ mu = NoOne
  /\ subs = {}
  /\ buf = [c \in Clients |-> << >>]
  /\ closed = {}
  /\ epc = [e \in Emitters |-> "idle"]
  /\ todo = [e \in Emitters |-> {}]
  /\ ev = [e \in Emitters |-> 0]
  /\ hpc = [c \in Clients |-> "new"]
  /\ gone = {}
  /\ emitted = 0
  /\ joined = [c \in Clients |-> 0]
  /\ wrote = [c \in Clients |-> << >>]

-----------------------------------------------------------------------------
(* Emit: lock, offer the event to every subscriber without blocking, unlock. *)

\* Number of Emit calls made so far.
Calls == emitted + Cardinality({e \in Emitters : epc[e] = "waiting"})

EmitCall(e) ==
  /\ epc[e] = "idle"
  /\ Calls < MaxEmits
  /\ epc' = [epc EXCEPT ![e] = "waiting"]
  /\ UNCHANGED <<mu, subs, buf, closed, todo, ev, emitted, clientVars>>

\* The body of Emit's critical section entry, shared with the mutant below.
EnterEmit(e) ==
  /\ epc[e] = "waiting"
  /\ mu' = e
  /\ epc' = [epc EXCEPT ![e] = "sending"]
  /\ todo' = [todo EXCEPT ![e] = subs]
  /\ ev' = [ev EXCEPT ![e] = emitted + 1]
  /\ emitted' = emitted + 1
  /\ UNCHANGED <<subs, buf, closed, clientVars>>

\* Mutant: Emit under a read lock, so that two emitters run their loops together.
EmitLockShared(e) == mu \notin Clients /\ EnterEmit(e)

EmitLock(e) == mu = NoOne /\ EnterEmit(e)

\* Mutants: one slot too few, and a channel without a capacity.
RoomOffByOne(c) == Len(buf[c]) < BufSize - 1
RoomUnbounded(c) == c \in Clients

\* The send case of Emit's select can proceed.
Room(c) == Len(buf[c]) < BufSize

\* Mutant: a plain `ch <- ev`, which blocks on a full channel.
EmitSendBlocking(e, c) ==
  /\ epc[e] = "sending"
  /\ c \in todo[e]
  /\ Room(c)
  /\ todo' = [todo EXCEPT ![e] = @ \ {c}]
  /\ buf' = [buf EXCEPT ![c] = Append(@, ev[e])]
  /\ UNCHANGED <<mu, subs, closed, epc, ev, emitted, clientVars>>

\* One iteration of the loop over subs: deliver, or drop on a slow consumer.
EmitSend(e, c) ==
  /\ epc[e] = "sending"
  /\ c \in todo[e]
  /\ todo' = [todo EXCEPT ![e] = @ \ {c}]
  /\ buf' = [buf EXCEPT ![c] = IF Room(c) THEN Append(@, ev[e]) ELSE @]
  /\ UNCHANGED <<mu, subs, closed, epc, ev, emitted, clientVars>>

EmitUnlock(e) ==
  /\ epc[e] = "sending"
  /\ todo[e] = {}
  /\ mu' = NoOne
  /\ epc' = [epc EXCEPT ![e] = "idle"]
  /\ UNCHANGED <<subs, buf, closed, todo, ev, emitted, clientVars>>

-----------------------------------------------------------------------------
(* handleTraceSSE: answer 200, subscribe, forward until the request ends.   *)

\* The response header is flushed before the channel exists: the client can
\* see the stream open and still miss what is emitted before Subscribe.
Accept(c) ==
  /\ hpc[c] = "new"
  /\ hpc' = [hpc EXCEPT ![c] = "connected"]
  /\ UNCHANGED <<mu, subs, buf, closed, emitterVars, gone, joined, wrote>>

Subscribe(c) ==
  /\ hpc[c] = "connected"
  /\ mu = NoOne
  /\ subs' = subs \cup {c}
  /\ joined' = [joined EXCEPT ![c] = emitted]
  /\ hpc' = [hpc EXCEPT ![c] = "streaming"]
  /\ UNCHANGED <<mu, buf, closed, emitterVars, gone, wrote>>

\* The receive case of the select.  It may also be taken when the context is
\* done: a select with two ready cases picks either.
Forward(c) ==
  /\ hpc[c] = "streaming"
  /\ buf[c] # << >>
  /\ wrote' = [wrote EXCEPT ![c] = Append(@, Head(buf[c]))]
  /\ buf' = [buf EXCEPT ![c] = Tail(@)]
  /\ UNCHANGED <<mu, subs, closed, emitterVars, hpc, gone, joined>>

\* External: the client goes away, or the server cancels the request.
Hangup(c) ==
  /\ hpc[c] \in {"connected", "streaming"}
  /\ c \notin gone
  /\ gone' = gone \cup {c}
  /\ UNCHANGED <<mu, subs, buf, closed, emitterVars, hpc, joined, wrote>>

\* Mutant: the handler returns without its deferred Unsubscribe.
LeaveForGood(c) ==
  /\ hpc[c] = "streaming"
  /\ c \in gone
  /\ hpc' = [hpc EXCEPT ![c] = "done"]
  /\ UNCHANGED <<mu, subs, buf, closed, emitterVars, gone, joined, wrote>>

\* The Done case of the select; the deferred Unsubscribe is still to run.
Leave(c) ==
  /\ hpc[c] = "streaming"
  /\ c \in gone
  /\ hpc' = [hpc EXCEPT ![c] = "leaving"]
  /\ UNCHANGED <<mu, subs, buf, closed, emitterVars, gone, joined, wrote>>

\* Mutant: Unsubscribe does not take the mutex.
UnsubscribeUnlocked(c) ==
  /\ hpc[c] = "leaving"
  /\ subs' = subs \ {c}
  /\ closed' = closed \cup (subs \cap {c})
  /\ hpc' = [hpc EXCEPT ![c] = "done"]
  /\ UNCHANGED <<mu, buf, emitterVars, gone, joined, wrote>>

\* Delete and close, only if the channel is still subscribed.
Unsubscribe(c) ==
  /\ hpc[c] = "leaving"
  /\ mu = NoOne
  /\ subs' = subs \ {c}
  /\ closed' = closed \cup (subs \cap {c})
  /\ hpc' = [hpc EXCEPT ![c] = "done"]
  /\ UNCHANGED <<mu, buf, emitterVars, gone, joined, wrote>>

-----------------------------------------------------------------------------
EmitterStep(e) ==
  \/ EmitCall(e)
  \/ EmitLock(e)
  \/ \E c \in Clients : EmitSend(e, c)
  \/ EmitUnlock(e)

ClientStep(c) ==
  \/ Accept(c)
  \/ Subscribe(c)
  \/ Forward(c)
  \/ Hangup(c)
  \/ Leave(c)
  \/ Unsubscribe(c)

Next ==
  \/ \E e \in Emitters : EmitterStep(e)
  \/ \E c \in Clients : ClientStep(c)

Spec == Init /\ [][Next]_vars

\* sync.Mutex hands the lock to a goroutine that has waited for 1ms, so a
\* waiter is never overtaken for ever: strong fairness on the lock steps.
\* No fairness on Forward: a client may stop reading for good.
Fairness ==
  /\ \A e \in Emitters :
       /\ SF_vars(EmitLock(e))
       /\ WF_vars((\E c \in Clients : EmitSend(e, c)) \/ EmitUnlock(e))
  /\ \A c \in Clients : WF_vars(Leave(c)) /\ SF_vars(Unsubscribe(c))

FairSpec == Spec /\ Fairness

-----------------------------------------------------------------------------
\* What a client has been given so far, in channel order.
Stream(c) == wrote[c] \o buf[c]

\* Events whose Emit has already visited this subscriber.
Offered(c) ==
  emitted - joined[c] - (IF \E e \in Emitters : c \in todo[e] THEN 1 ELSE 0)

\* Every variable keeps its type, and a channel never exceeds its capacity.
TypeOK ==
  /\ mu \in Emitters \cup {NoOne}
  /\ subs \subseteq Clients
  /\ buf \in [Clients -> Seq(Nat)]
  /\ \A c \in Clients : Len(buf[c]) <= BufSize
  /\ closed \subseteq Clients
  /\ epc \in [Emitters -> {"idle", "waiting", "sending"}]
  /\ todo \in [Emitters -> SUBSET Clients]
  /\ ev \in [Emitters -> Nat]
  /\ hpc \in [Clients -> {"new", "connected", "streaming", "leaving", "done"}]
  /\ gone \subseteq Clients
  /\ emitted \in Nat
  /\ joined \in [Clients -> Nat]
  /\ wrote \in [Clients -> Seq(Nat)]

\* No loop of Emit ever reaches a channel that Unsubscribe has closed: in Go
\* that send would panic and take the whole process down (trace.go:61-64).
NoSendAfterClose == \A e \in Emitters : todo[e] \cap closed = {}

\* Every client sees events in the one order in which Emit took the mutex,
\* without a duplicate, and none from before it subscribed.  This is what
\* lets the inspector rely on peer_uri_seen preceding handshake.err.
InOrder ==
  \A c \in Clients :
    LET s == Stream(c) IN
    /\ \A i, j \in 1 .. Len(s) : i < j => s[i] < s[j]
    /\ \A i \in 1 .. Len(s) : joined[c] < s[i] /\ s[i] <= emitted

\* A subscriber loses nothing until bufSize events have been offered to it,
\* even if it never reads: the trail of one resolve, far shorter than the 256
\* slots, reaches every attached client whole.
NoEarlyLoss ==
  \A c \in subs :
    \/ Len(Stream(c)) >= BufSize
    \/ Len(Stream(c)) = Offered(c)

\* Emit always returns, whether or not any client reads its channel: a slow
\* browser cannot stall a resolve.
EmitReturns == \A e \in Emitters : epc[e] = "waiting" ~> epc[e] = "idle"

\* A client that goes away is eventually forgotten, so subscriptions do not
\* pile up over the life of the process.
LeaverForgotten == \A c \in Clients : (c \in gone /\ c \in subs) ~> c \notin subs

=============================================================================
