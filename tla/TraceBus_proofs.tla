-------------------------- MODULE TraceBus_proofs ---------------------------
(***************************************************************************)
(* Proofs about TraceBus, for every number of emitters and clients, every  *)
(* buffer size and every number of emitted events.                         *)
(*                                                                         *)
(* The argument has three layers.  Typing comes first.  Locked relates the *)
(* mutex to where goroutines are and to who is subscribed; it yields       *)
(* NoSendAfterClose.  Trail relates what a client was given to the order   *)
(* of the emits; it yields InOrder and NoEarlyLoss.                        *)
(***************************************************************************)
EXTENDS TraceBus, SequenceTheorems, TLAPS

-----------------------------------------------------------------------------
(* Two facts about the sequence a client has been given.                    *)

\* An event put in the channel extends what the client has been given.
LEMMA StreamGrows ==
  ASSUME NEW w \in Seq(Nat), NEW b \in Seq(Nat), NEW x \in Nat
  PROVE  w \o Append(b, x) = Append(w \o b, x)
<1>1. /\ Append(b, x) = b \o <<x>>
      /\ w \o b \in Seq(Nat)
      /\ <<x>> \in Seq(Nat)
  BY AppendIsConcat, ConcatProperties
<1>2. Append(w \o b, x) = (w \o b) \o <<x>>
  BY <1>1, AppendIsConcat
<1>. QED  BY <1>1, <1>2, ConcatAssociative

\* Moving the head of the channel to the client leaves it unchanged.
LEMMA StreamMoves ==
  ASSUME NEW w \in Seq(Nat), NEW b \in Seq(Nat), b # << >>
  PROVE  Append(w, Head(b)) \o Tail(b) = w \o b
<1>1. /\ Head(b) \in Nat
      /\ Tail(b) \in Seq(Nat)
      /\ <<Head(b)>> \in Seq(Nat)
  BY HeadTailProperties
<1>2. Append(w, Head(b)) = w \o <<Head(b)>>
  BY <1>1, AppendIsConcat
<1>3. <<Head(b)>> \o Tail(b) = b
  <2>1. /\ <<Head(b)>> \o Tail(b) \in Seq(Nat)
        /\ Len(<<Head(b)>> \o Tail(b)) = 1 + Len(Tail(b))
        /\ \A i \in 1 .. 1 + Len(Tail(b)) : (<<Head(b)>> \o Tail(b))[i]
              = IF i <= 1 THEN <<Head(b)>>[i] ELSE Tail(b)[i - 1]
    BY <1>1, ConcatProperties
  <2>2. /\ Len(Tail(b)) = Len(b) - 1
        /\ \A i \in 1 .. Len(Tail(b)) : Tail(b)[i] = b[i + 1]
    BY HeadTailProperties
  <2>3. \A i \in 1 .. Len(b) : (<<Head(b)>> \o Tail(b))[i] = b[i]
    BY <2>1, <2>2
  <2>. QED  BY <2>1, <2>2, <2>3, SeqEqual
<1>4. (w \o <<Head(b)>>) \o Tail(b) = w \o (<<Head(b)>> \o Tail(b))
  BY <1>1, ConcatAssociative, SMTT(30)
<1>. QED  BY <1>2, <1>3, <1>4

-----------------------------------------------------------------------------
(* Typing.                                                                   *)

\* Every step of the bus and of its clients keeps every variable in its type;
\* in particular no channel ever holds more than BufSize events.
THEOREM TypeCorrect == Spec => []TypeOK
<1>1. Init => TypeOK
  <2>1. << >> \in Seq(Nat) /\ Len(<< >>) = 0
    BY EmptySeq
  <2>. QED  BY <2>1, BusAssumption DEF Init, TypeOK
<1>2. TypeOK /\ [Next]_vars => TypeOK'
  <2>. SUFFICES ASSUME TypeOK, [Next]_vars PROVE TypeOK'
    OBVIOUS
  <2>. USE DEF TypeOK, emitterVars, clientVars
  <2>1. ASSUME NEW e \in Emitters, EmitCall(e) PROVE TypeOK'
    BY <2>1 DEF EmitCall
  <2>2. ASSUME NEW e \in Emitters, EmitLock(e) PROVE TypeOK'
    BY <2>2 DEF EmitLock, EnterEmit
  <2>3. ASSUME NEW e \in Emitters, NEW c \in Clients, EmitSend(e, c)
        PROVE  TypeOK'
    <3>1. /\ Append(buf[c], ev[e]) \in Seq(Nat)
          /\ Len(Append(buf[c], ev[e])) = Len(buf[c]) + 1
      BY AppendProperties
    <3>2. buf' \in [Clients -> Seq(Nat)]
      BY <2>3, <3>1 DEF EmitSend
    <3>3. \A d \in Clients : Len(buf'[d]) <= BufSize
      <4>1. /\ buf'[c] = IF Room(c) THEN Append(buf[c], ev[e]) ELSE buf[c]
            /\ \A d \in Clients \ {c} : buf'[d] = buf[d]
        BY <2>3 DEF EmitSend
      <4>2. Len(buf'[c]) <= BufSize
        <5>1. Len(buf[c]) \in Nat /\ BufSize \in Nat
          BY BusAssumption, LenProperties
        <5>2. CASE Room(c)
          BY <3>1, <4>1, <5>1, <5>2 DEF Room
        <5>3. CASE ~Room(c)
          BY <4>1, <5>3
        <5>. QED  BY <5>2, <5>3
      <4>. QED  BY <4>1, <4>2
    <3>4. todo' \in [Emitters -> SUBSET Clients]
      BY <2>3 DEF EmitSend
    <3>. QED  BY <2>3, <3>2, <3>3, <3>4 DEF EmitSend
  <2>4. ASSUME NEW e \in Emitters, EmitUnlock(e) PROVE TypeOK'
    BY <2>4 DEF EmitUnlock
  <2>5. ASSUME NEW c \in Clients, Accept(c) PROVE TypeOK'
    BY <2>5 DEF Accept
  <2>6. ASSUME NEW c \in Clients, Subscribe(c) PROVE TypeOK'
    BY <2>6 DEF Subscribe
  <2>7. ASSUME NEW c \in Clients, Forward(c) PROVE TypeOK'
    <3>1. /\ Head(buf[c]) \in Nat
          /\ Tail(buf[c]) \in Seq(Nat)
          /\ Len(Tail(buf[c])) = Len(buf[c]) - 1
      BY <2>7, HeadTailProperties DEF Forward
    <3>2. Append(wrote[c], Head(buf[c])) \in Seq(Nat)
      BY <3>1, AppendProperties
    <3>3. wrote' \in [Clients -> Seq(Nat)] /\ buf' \in [Clients -> Seq(Nat)]
      BY <2>7, <3>1, <3>2 DEF Forward
    <3>4. \A d \in Clients : Len(buf'[d]) <= BufSize
      BY <2>7, <3>1, BusAssumption, LenProperties DEF Forward
    <3>. QED  BY <2>7, <3>3, <3>4 DEF Forward
  <2>8. ASSUME NEW c \in Clients, Hangup(c) PROVE TypeOK'
    BY <2>8 DEF Hangup
  <2>9. ASSUME NEW c \in Clients, Leave(c) PROVE TypeOK'
    BY <2>9 DEF Leave
  <2>10. ASSUME NEW c \in Clients, Unsubscribe(c) PROVE TypeOK'
    BY <2>10 DEF Unsubscribe
  <2>11. CASE UNCHANGED vars
    BY <2>11 DEF vars
  <2>. QED  BY <2>1, <2>2, <2>3, <2>4, <2>5, <2>6, <2>7, <2>8, <2>9, <2>10, <2>11
            DEF Next, EmitterStep, ClientStep
<1>. QED  BY <1>1, <1>2, PTL DEF Spec

-----------------------------------------------------------------------------
(* The mutex and the set of subscribers.                                     *)

\* Who runs the loop holds the mutex, visits only subscribers, and sends the
\* newest event; who is subscribed has not been closed.
Locked ==
  /\ \A e \in Emitters : epc[e] = "sending" <=> mu = e
  /\ \A e \in Emitters : epc[e] # "sending" => todo[e] = {}
  /\ \A e \in Emitters : epc[e] = "sending" => ev[e] = emitted
  /\ \A e \in Emitters : todo[e] \subseteq subs
  /\ \A c \in Clients : c \in subs <=> hpc[c] \in {"streaming", "leaving"}
  /\ \A c \in closed : hpc[c] = "done"
  /\ \A c \in Clients : hpc[c] \in {"new", "connected"}
                           => buf[c] = << >> /\ wrote[c] = << >>

\* Only the holder of the mutex has subscribers left to visit, all of them still
\* subscribed; a handler is subscribed exactly while it streams or is leaving.
LEMMA LockedInvariant == Spec => []Locked
<1>1. Init => Locked
  BY BusAssumption DEF Init, Locked
<1>2. TypeOK /\ Locked /\ [Next]_vars => Locked'
  <2>. SUFFICES ASSUME TypeOK, Locked, [Next]_vars PROVE Locked'
    OBVIOUS
  <2>. USE BusAssumption DEF TypeOK, Locked, emitterVars, clientVars
  <2>1. ASSUME NEW e \in Emitters, EmitCall(e) PROVE Locked'
    BY <2>1 DEF EmitCall
  <2>2. ASSUME NEW e \in Emitters, EmitLock(e) PROVE Locked'
    BY <2>2 DEF EmitLock, EnterEmit
  <2>3. ASSUME NEW e \in Emitters, NEW c \in Clients, EmitSend(e, c)
        PROVE  Locked'
    <3>1. c \in subs /\ hpc[c] \in {"streaming", "leaving"}
      BY <2>3 DEF EmitSend
    <3>2. \A d \in Clients : d # c => buf'[d] = buf[d]
      BY <2>3 DEF EmitSend
    <3>3. \A d \in Emitters : todo'[d] \subseteq todo[d]
      BY <2>3 DEF EmitSend
    <3>. QED  BY <2>3, <3>1, <3>2, <3>3 DEF EmitSend
  <2>4. ASSUME NEW e \in Emitters, EmitUnlock(e) PROVE Locked'
    BY <2>4 DEF EmitUnlock
  <2>5. ASSUME NEW c \in Clients, Accept(c) PROVE Locked'
    BY <2>5 DEF Accept
  <2>6. ASSUME NEW c \in Clients, Subscribe(c) PROVE Locked'
    BY <2>6 DEF Subscribe
  <2>7. ASSUME NEW c \in Clients, Forward(c) PROVE Locked'
    <3>1. \A d \in Clients : d # c => buf'[d] = buf[d] /\ wrote'[d] = wrote[d]
      BY <2>7 DEF Forward
    <3>. QED  BY <2>7, <3>1 DEF Forward
  <2>8. ASSUME NEW c \in Clients, Hangup(c) PROVE Locked'
    BY <2>8 DEF Hangup
  <2>9. ASSUME NEW c \in Clients, Leave(c) PROVE Locked'
    BY <2>9 DEF Leave
  <2>10. ASSUME NEW c \in Clients, Unsubscribe(c) PROVE Locked'
    BY <2>10 DEF Unsubscribe
  <2>11. CASE UNCHANGED vars
    BY <2>11 DEF vars
  <2>. QED  BY <2>1, <2>2, <2>3, <2>4, <2>5, <2>6, <2>7, <2>8, <2>9, <2>10, <2>11
            DEF Next, EmitterStep, ClientStep
<1>. QED  BY <1>1, <1>2, TypeCorrect, PTL DEF Spec

\* No loop of Emit reaches a closed channel: the send on a closed channel that
\* would panic in Go cannot happen, however many handlers come and go.
THEOREM SendsAreSafe == Spec => []NoSendAfterClose
<1>1. TypeOK /\ Locked => NoSendAfterClose
  BY DEF TypeOK, Locked, NoSendAfterClose
<1>. QED  BY <1>1, TypeCorrect, LockedInvariant, PTL

-----------------------------------------------------------------------------
(* What a client is given, against the order of the emits.                   *)

\* An event that a subscriber has still to be offered is newer than anything
\* it was given.
Pending ==
  \A e \in Emitters : \A c \in todo[e] :
    /\ joined[c] < emitted
    /\ \A i \in 1 .. Len(Stream(c)) : Stream(c)[i] < emitted

Trail ==
  /\ \A c \in Clients : joined[c] <= emitted
  /\ InOrder
  /\ Pending
  /\ NoEarlyLoss

\* What a client has been given is a sequence of numbers, as long as what was
\* written plus what is still buffered.
LEMMA StreamTyped ==
  ASSUME TypeOK, NEW c \in Clients
  PROVE  /\ Stream(c) \in Seq(Nat)
         /\ Len(Stream(c)) = Len(wrote[c]) + Len(buf[c])
         /\ Len(Stream(c)) \in Nat
         /\ \A i \in 1 .. Len(Stream(c)) : Stream(c)[i] \in Nat
<1>1. wrote[c] \in Seq(Nat) /\ buf[c] \in Seq(Nat)
  BY DEF TypeOK
<1>2. /\ Stream(c) \in Seq(Nat)
      /\ Len(Stream(c)) = Len(wrote[c]) + Len(buf[c])
  BY <1>1, ConcatProperties DEF Stream
<1>. QED  BY <1>2, LenProperties, ElementOfSeq

\* A step that gives no client anything new, and leaves the loops of Emit
\* where they are, keeps the trail.
LEMMA TrailKept ==
  ASSUME TypeOK, Trail,
         \A c \in Clients : Stream(c)' = Stream(c),
         todo' = todo, emitted' = emitted, joined' = joined, subs' \subseteq subs
  PROVE  Trail'
<1>1. \A c \in Clients : Offered(c)' = Offered(c)
  BY DEF Offered
<1>2. InOrder' /\ Pending'
  <2>1. \A e \in Emitters : todo[e] \subseteq Clients
    BY DEF TypeOK
  <2>. QED  BY <2>1 DEF Trail, InOrder, Pending
<1>3. NoEarlyLoss'
  <2>1. subs' \subseteq Clients
    BY DEF TypeOK
  <2>. QED  BY <1>1, <2>1 DEF Trail, NoEarlyLoss
<1>. QED  BY <1>2, <1>3 DEF Trail

\* A new event takes the next place in the order and is owed to every subscriber.
LEMMA TrailOnLock ==
  ASSUME TypeOK, Locked, Trail, NEW e \in Emitters, EmitLock(e)
  PROVE  Trail'
<1>. DEFINE n == emitted + 1
<1>1. \A f \in Emitters : todo[f] = {}
  BY BusAssumption DEF EmitLock, Locked
<1>2. /\ emitted' = n /\ n \in Nat /\ emitted \in Nat
      /\ joined' = joined /\ subs' = subs /\ subs \subseteq Clients
      /\ todo'[e] = subs
      /\ \A f \in Emitters : f # e => todo'[f] = {}
  BY <1>1 DEF EmitLock, EnterEmit, clientVars, TypeOK
<1>3. \A c \in Clients : Stream(c)' = Stream(c)
  BY DEF Stream, EmitLock, EnterEmit, clientVars
<1>4. \A c \in Clients : joined[c] \in Nat /\ joined[c] <= emitted
  BY DEF TypeOK, Trail
<1>5. \A c \in subs : Offered(c)' = Offered(c)
  <2>. TAKE c \in subs
  <2>1. Offered(c) = emitted - joined[c]
    BY <1>1, <1>2, <1>4 DEF Offered
  <2>2. Offered(c)' = n - joined[c] - 1
    BY <1>2 DEF Offered
  <2>. QED  BY <1>2, <1>4, <2>1, <2>2
<1>6. \A c \in Clients : \A i \in 1 .. Len(Stream(c)) :
          Stream(c)[i] \in Nat /\ joined[c] < Stream(c)[i] /\ Stream(c)[i] <= emitted
  BY StreamTyped DEF Trail, InOrder
<1>7. InOrder'
  BY <1>2, <1>3, <1>6 DEF Trail, InOrder
<1>8. Pending'
  BY <1>2, <1>3, <1>4, <1>6 DEF Pending
<1>9. NoEarlyLoss'
  BY <1>2, <1>3, <1>5 DEF Trail, NoEarlyLoss
<1>. QED  BY <1>2, <1>4, <1>7, <1>8, <1>9 DEF Trail

\* Offering the event to a subscriber appends it, or drops it on a full channel.
LEMMA TrailOnSend ==
  ASSUME TypeOK, Locked, Trail,
         NEW e \in Emitters, NEW c \in Clients, EmitSend(e, c)
  PROVE  Trail'
<1>1. /\ c \in subs /\ subs' = subs /\ subs \subseteq Clients
      /\ emitted' = emitted /\ emitted \in Nat /\ joined' = joined
      /\ ev[e] = emitted
      /\ todo'[e] = todo[e] \ {c}
      /\ \A f \in Emitters : f # e => todo'[f] = {} /\ todo[f] = {}
      /\ \A f \in Emitters : todo[f] \subseteq Clients /\ todo'[f] \subseteq todo[f]
      /\ c \in todo[e]
  BY BusAssumption DEF EmitSend, Locked, TypeOK, clientVars
<1>2. /\ joined[c] \in Nat /\ joined[c] < emitted
      /\ \A i \in 1 .. Len(Stream(c)) : Stream(c)[i] < emitted
  BY <1>1 DEF Trail, Pending, TypeOK
<1>3. \A d \in Clients \ {c} : Stream(d)' = Stream(d) /\ Offered(d)' = Offered(d)
  BY <1>1 DEF Stream, Offered, EmitSend, clientVars, TypeOK
<1>4. Offered(c)' = Offered(c) + 1 /\ Offered(c) \in Int
  <2>1. Offered(c) = emitted - joined[c] - 1
    BY <1>1 DEF Offered
  <2>2. ~ \E f \in Emitters : c \in todo'[f]
    BY <1>1
  <2>3. Offered(c)' = emitted - joined[c]
    BY <1>1, <1>2, <2>2 DEF Offered
  <2>. QED  BY <1>1, <1>2, <2>1, <2>3
<1>5. Pending'
  <2>. SUFFICES ASSUME NEW f \in Emitters, NEW d \in todo'[f]
                PROVE  /\ joined'[d] < emitted'
                       /\ \A i \in 1 .. Len(Stream(d)') : Stream(d)'[i] < emitted'
    BY DEF Pending
  <2>1. d \in todo[f] /\ d \in Clients \ {c}
    BY <1>1
  <2>. QED  BY <1>1, <1>3, <2>1 DEF Trail, Pending
<1>6. CASE ~Room(c)
  <2>1. Stream(c)' = Stream(c)
    BY <1>6 DEF Stream, EmitSend, clientVars, TypeOK
  <2>2. Len(Stream(c)) >= BufSize
    BY <1>6, StreamTyped, LenProperties, BusAssumption DEF Room, TypeOK
  <2>3. InOrder'
    BY <1>1, <1>3, <2>1 DEF Trail, InOrder
  <2>4. NoEarlyLoss'
    BY <1>1, <1>3, <2>1, <2>2 DEF Trail, NoEarlyLoss
  <2>. QED  BY <1>1, <1>5, <2>3, <2>4 DEF Trail
<1>7. CASE Room(c)
  <2>. DEFINE s == Stream(c)
  <2>1. Stream(c)' = Append(s, emitted)
    BY <1>1, <1>7, StreamGrows DEF Stream, EmitSend, clientVars, TypeOK
  <2>2. s \in Seq(Nat) /\ Len(s) \in Nat /\ \A i \in 1 .. Len(s) : s[i] \in Nat
    BY StreamTyped
  <2>. HIDE DEF s
  <2>3. /\ Len(Append(s, emitted)) = Len(s) + 1
        /\ \A i \in 1 .. Len(s) : Append(s, emitted)[i] = s[i]
        /\ Append(s, emitted)[Len(s) + 1] = emitted
    BY <1>1, <2>2, AppendProperties
  <2>4. /\ \A i \in 1 .. Len(s) : s[i] < emitted /\ joined[c] < s[i]
        /\ \A i, j \in 1 .. Len(s) : i < j => s[i] < s[j]
    BY <1>2 DEF s, Trail, InOrder
  <2>5. InOrder'
    <3>1. /\ \A i, j \in 1 .. Len(s) + 1 : i < j =>
                 Append(s, emitted)[i] < Append(s, emitted)[j]
          /\ \A i \in 1 .. Len(s) + 1 : /\ joined[c] < Append(s, emitted)[i]
                                        /\ Append(s, emitted)[i] <= emitted
      BY <1>1, <1>2, <2>2, <2>3, <2>4
    <3>2. /\ \A i, j \in 1 .. Len(Stream(c)') : i < j => Stream(c)'[i] < Stream(c)'[j]
          /\ \A i \in 1 .. Len(Stream(c)') :
                joined'[c] < Stream(c)'[i] /\ Stream(c)'[i] <= emitted'
      BY <1>1, <2>1, <2>3, <3>1
    <3>. QED  BY <1>1, <1>3, <3>2 DEF Trail, InOrder
  <2>6. NoEarlyLoss'
    <3>1. Len(s) >= BufSize \/ Len(s) = Offered(c)
      BY <1>1 DEF s, Trail, NoEarlyLoss
    <3>2. Len(Stream(c)') >= BufSize \/ Len(Stream(c)') = Offered(c)'
      BY <1>4, <2>1, <2>2, <2>3, <3>1, BusAssumption
    <3>. QED  BY <1>1, <1>3, <3>2 DEF Trail, NoEarlyLoss
  <2>. QED  BY <1>1, <1>5, <2>5, <2>6 DEF Trail
<1>. QED  BY <1>6, <1>7

\* A client joins with nothing in its channel and nothing owed to it.
LEMMA TrailOnSubscribe ==
  ASSUME TypeOK, Locked, Trail, NEW c \in Clients, Subscribe(c)
  PROVE  Trail'
<1>1. /\ \A f \in Emitters : todo[f] = {} /\ todo'[f] = {}
      /\ emitted' = emitted /\ emitted \in Nat
      /\ joined'[c] = emitted
      /\ \A d \in Clients \ {c} : joined'[d] = joined[d]
      /\ subs' = subs \cup {c} /\ subs \subseteq Clients
  BY BusAssumption DEF Subscribe, Locked, emitterVars, TypeOK
<1>2. \A d \in Clients : Stream(d)' = Stream(d)
  BY DEF Stream, Subscribe
<1>3. Stream(c) = << >> /\ Len(Stream(c)) = 0
  <2>1. wrote[c] = << >> /\ buf[c] = << >>
    BY DEF Subscribe, Locked
  <2>. QED  BY <2>1, ConcatEmptySeq, EmptySeq DEF Stream
<1>4. \A d \in Clients \ {c} : Offered(d)' = Offered(d)
  BY <1>1 DEF Offered
<1>5. Offered(c)' = 0
  <2>1. ~ \E f \in Emitters : c \in todo'[f]
    BY <1>1
  <2>2. Offered(c)' = emitted - emitted - 0
    BY <1>1, <2>1 DEF Offered
  <2>. QED  BY <1>1, <2>2
<1>6. InOrder'
  BY <1>1, <1>2, <1>3 DEF Trail, InOrder
<1>7. Pending'
  BY <1>1 DEF Pending
<1>8. NoEarlyLoss'
  BY <1>1, <1>2, <1>3, <1>4, <1>5 DEF Trail, NoEarlyLoss
<1>. QED  BY <1>1, <1>6, <1>7, <1>8 DEF Trail

\* Every step of the bus keeps the trail: the inductive invariant behind InOrder
\* and NoEarlyLoss.
LEMMA TrailInvariant == Spec => []Trail
<1>1. Init => Trail
  <2>. SUFFICES ASSUME Init PROVE Trail
    OBVIOUS
  <2>1. \A c \in Clients : Stream(c) = << >> /\ Len(Stream(c)) = 0
    BY ConcatEmptySeq, EmptySeq DEF Init, Stream
  <2>. QED  BY <2>1 DEF Init, Trail, InOrder, Pending, NoEarlyLoss
<1>2. TypeOK /\ Locked /\ Trail /\ [Next]_vars => Trail'
  <2>. SUFFICES ASSUME TypeOK, Locked, Trail, [Next]_vars PROVE Trail'
    OBVIOUS
  <2>. USE DEF emitterVars, clientVars
  <2>1. ASSUME NEW e \in Emitters, EmitCall(e) PROVE Trail'
    BY <2>1, TrailKept DEF EmitCall, Stream
  <2>2. ASSUME NEW e \in Emitters, EmitLock(e) PROVE Trail'
    BY <2>2, TrailOnLock
  <2>3. ASSUME NEW e \in Emitters, NEW c \in Clients, EmitSend(e, c) PROVE Trail'
    BY <2>3, TrailOnSend
  <2>4. ASSUME NEW e \in Emitters, EmitUnlock(e) PROVE Trail'
    BY <2>4, TrailKept DEF EmitUnlock, Stream
  <2>5. ASSUME NEW c \in Clients, Accept(c) PROVE Trail'
    BY <2>5, TrailKept DEF Accept, Stream
  <2>6. ASSUME NEW c \in Clients, Subscribe(c) PROVE Trail'
    BY <2>6, TrailOnSubscribe
  <2>7. ASSUME NEW c \in Clients, Forward(c) PROVE Trail'
    <3>1. Stream(c)' = Stream(c)
      <4>1. wrote'[c] = Append(wrote[c], Head(buf[c])) /\ buf'[c] = Tail(buf[c])
        BY <2>7 DEF Forward, TypeOK
      <4>2. wrote[c] \in Seq(Nat) /\ buf[c] \in Seq(Nat) /\ buf[c] # << >>
        BY <2>7 DEF Forward, TypeOK
      <4>. QED  BY <4>1, <4>2, StreamMoves DEF Stream
    <3>2. \A d \in Clients \ {c} : Stream(d)' = Stream(d)
      BY <2>7 DEF Forward, Stream, TypeOK
    <3>. QED  BY <2>7, <3>1, <3>2, TrailKept DEF Forward
  <2>8. ASSUME NEW c \in Clients, Hangup(c) PROVE Trail'
    BY <2>8, TrailKept DEF Hangup, Stream
  <2>9. ASSUME NEW c \in Clients, Leave(c) PROVE Trail'
    BY <2>9, TrailKept DEF Leave, Stream
  <2>10. ASSUME NEW c \in Clients, Unsubscribe(c) PROVE Trail'
    BY <2>10, TrailKept DEF Unsubscribe, Stream
  <2>11. CASE UNCHANGED vars
    BY <2>11, TrailKept DEF vars, Stream
  <2>. QED  BY <2>1, <2>2, <2>3, <2>4, <2>5, <2>6, <2>7, <2>8, <2>9, <2>10, <2>11
            DEF Next, EmitterStep, ClientStep
<1>. QED  BY <1>1, <1>2, TypeCorrect, LockedInvariant, PTL DEF Spec

\* Every client is given events in the order in which Emit took the mutex,
\* once each, and none from before its subscription.
THEOREM EventsInOrder == Spec => []InOrder
<1>1. Trail => InOrder
  BY DEF Trail
<1>. QED  BY <1>1, TrailInvariant, PTL

\* A subscriber that never reads still has the first BufSize events that were
\* emitted after it joined.
THEOREM NothingLostEarly == Spec => []NoEarlyLoss
<1>1. Trail => NoEarlyLoss
  BY DEF Trail
<1>. QED  BY <1>1, TrailInvariant, PTL

=============================================================================
