------------------------ MODULE PortalResolve_proofs -------------------------
(***************************************************************************)
(* Proofs about PortalResolve, for any set of requests.                    *)
(*                                                                         *)
(* Earned ties what the agent and Secrets Manager granted for a lookup to  *)
(* where the lookup is and to the code it replied with; Asked ties the     *)
(* handler of a request to its kind and to its answer.  Both are inductive *)
(* together with the types, and imply that every step of the handlers is a *)
(* step of ResolveSpec or leaves its variables alone.                      *)
(***************************************************************************)
EXTENDS PortalResolve, SequenceTheorems, TLAPS

\* What a lookup has been granted, from where it is and what it replied.
Earned ==
  \A r \in Requests :
    /\ cpc[r] \in {"none", "sent", "jwt"} => granted[r] = "nothing"
    /\ cpc[r] = "authn" => granted[r] = "jwt"
    /\ cpc[r] = "fetch" => granted[r] = "token"
    /\ cpc[r] = "row" => granted[r] = "secret"
    /\ cpc[r] = "replied" => code[r] # 0
    /\ code[r] \in {200, 404} => granted[r] = "secret"

\* What a handler does, from the kind of its request.
Asked ==
  \A r \in Requests :
    /\ ppc[r] = "new" <=> kind[r] = "none"
    /\ ppc[r] \in {"starting", "call"} => kind[r] = "internal"
    /\ ppc[r] = "dial" => kind[r] = "external"
    /\ cpc[r] # "none" => kind[r] = "internal"
    /\ ppc[r] \in {"new", "routed"} => spc[r] = "none"
    /\ reply[r] # 0 => ppc[r] = "done"

Inv == TypeOK /\ Earned /\ Asked

-----------------------------------------------------------------------------
(* Each actor's steps preserve the invariant.                               *)

\* A lookup's own step, named for what it does to the carrier's state.
LEMMA LookupInvariant ==
  ASSUME Inv, NEW r \in Requests, LookupStep(r), UNCHANGED portalVars
  PROVE  Inv'
<1>. USE DEF Inv, TypeOK, LookupTypeOK, HandlerTypeOK, StreamTypeOK, StreamsAsked, Earned, Asked, portalVars, Proceed, Respond, Emit, Granting, CarrierTypes
<1>1. CASE JwtIssued(r)
  BY <1>1 DEF JwtIssued
<1>2. CASE JwtFails(r)
  BY <1>2 DEF JwtFails
<1>3. CASE AuthnOk(r)
  BY <1>3 DEF AuthnOk
<1>4. CASE AuthnFails(r)
  BY <1>4 DEF AuthnFails
<1>5. CASE SecretOk(r)
  BY <1>5 DEF SecretOk
<1>6. CASE SecretFails(r)
  BY <1>6 DEF SecretFails
<1>7. CASE SecretEmpty(r)
  BY <1>7 DEF SecretEmpty
<1>8. CASE RowFound(r)
  BY <1>8 DEF RowFound
<1>9. CASE RowMissing(r)
  BY <1>9 DEF RowMissing
<1>. QED
  BY <1>1, <1>2, <1>3, <1>4, <1>5, <1>6, <1>7, <1>8, <1>9 DEF LookupStep

\* A trail that a handler or a stream adds to remains a trail.
LEMMA TrailTyped ==
  ASSUME TypeOK, NEW r \in Requests, NEW types \in Seq(PortalTypes), Says(r, types)
  PROVE  trail' \in [Requests -> Seq(PortalTypes)]
<1>1. trail[r] \o types \in Seq(PortalTypes)
  BY ConcatProperties DEF TypeOK, HandlerTypeOK
<1>. QED  BY <1>1 DEF TypeOK, HandlerTypeOK, Says

\* The steps of a handler towards the carrier.
LEMMA HandlerInvariant ==
  ASSUME Inv, NEW r \in Requests,
         \/ \E k \in Kinds : Post(r, k)
         \/ Disconnect(r) \/ CallSent(r) \/ CallArrives(r) \/ HandlerStep(r)
  PROVE  Inv'
<1>. USE DEF Inv, unchangedStreams, At, GoTo, Replies
<1>1. ASSUME NEW k \in Kinds, Post(r, k) PROVE Inv'
  <2>1. trail' \in [Requests -> Seq(PortalTypes)]
    <3>1. CASE k \in {"get", "garbage"}
      BY <1>1, <3>1 DEF Post, TypeOK, HandlerTypeOK
    <3>2. CASE k \notin {"get", "garbage"}
      <4>1. <<Requested>> \in Seq(PortalTypes)
        BY DEF PortalTypes, Requested
      <4>2. Says(r, <<Requested>>)
        BY <1>1, <3>2 DEF Post
      <4>. QED  BY <4>1, <4>2, TrailTyped
    <3>. QED  BY <3>1, <3>2
  <2>2. TypeOK'
    <3>1. LookupTypeOK'
      BY <1>1, <2>1 DEF Post, Kinds, lookupVars, TypeOK, LookupTypeOK
    <3>2. HandlerTypeOK'
      <4>1. CASE k = "get"
        <5>1. ppc' = [ppc EXCEPT ![r] = "done"] /\ reply' = [reply EXCEPT ![r] = 405]
          BY <1>1, <4>1 DEF Post
        <5>2. kind' = [kind EXCEPT ![r] = k] /\ gone' = gone
          BY <1>1 DEF Post
        <5>. QED  BY <2>1, <5>1, <5>2 DEF TypeOK, HandlerTypeOK
      <4>2. CASE k = "garbage"
        <5>1. ppc' = [ppc EXCEPT ![r] = "done"] /\ reply' = [reply EXCEPT ![r] = 400]
          BY <1>1, <4>2 DEF Post
        <5>2. kind' = [kind EXCEPT ![r] = k] /\ gone' = gone
          BY <1>1 DEF Post
        <5>. QED  BY <2>1, <5>1, <5>2 DEF TypeOK, HandlerTypeOK
      <4>3. CASE k \notin {"get", "garbage"}
        <5>1. ppc' = [ppc EXCEPT ![r] = "routed"] /\ reply' = reply
          BY <1>1, <4>3 DEF Post
        <5>2. kind' = [kind EXCEPT ![r] = k] /\ gone' = gone
          BY <1>1 DEF Post
        <5>. QED  BY <2>1, <5>1, <5>2 DEF TypeOK, HandlerTypeOK
      <4>. QED  BY <4>1, <4>2, <4>3
    <3>3. StreamTypeOK'
      BY <1>1, <2>1 DEF Post, Kinds, lookupVars, TypeOK, StreamTypeOK
    <3>4. StreamsAsked'
      BY <1>1, <2>1 DEF StreamsAsked, Post, Kinds, lookupVars, TypeOK, HandlerTypeOK, StreamTypeOK, Asked
    <3>. QED  BY <3>1, <3>2, <3>3, <3>4 DEF TypeOK
  <2>3. Earned'
    BY <1>1 DEF Post, Kinds, lookupVars, TypeOK, LookupTypeOK, HandlerTypeOK, StreamTypeOK, Earned
  <2>4. Asked'
    BY <1>1 DEF Post, Kinds, lookupVars, TypeOK, LookupTypeOK, HandlerTypeOK, StreamTypeOK, Asked
  <2>. QED  BY <2>2, <2>3, <2>4
<1>2. CASE RefuseId(r)
  <2>1. trail' \in [Requests -> Seq(PortalTypes)]
    <3>1. <<"portal.resolve.error">> \in Seq(PortalTypes)
      BY DEF PortalTypes, Requested
    <3>. QED  BY <1>2, <3>1, TrailTyped DEF RefuseId
  <2>2. TypeOK'
    <3>1. LookupTypeOK'
      BY <1>2, <2>1 DEF RefuseId, lookupVars, TypeOK, LookupTypeOK
    <3>2. HandlerTypeOK'
      BY <1>2, <2>1, ZenonT(60) DEF RefuseId, lookupVars, TypeOK, HandlerTypeOK
    <3>3. StreamTypeOK'
      BY <1>2, <2>1 DEF RefuseId, lookupVars, TypeOK, StreamTypeOK
    <3>4. StreamsAsked'
      BY <1>2, <2>1 DEF StreamsAsked, RefuseId, lookupVars, TypeOK, HandlerTypeOK, StreamTypeOK, Asked
    <3>. QED  BY <3>1, <3>2, <3>3, <3>4 DEF TypeOK
  <2>3. Earned'
    BY <1>2 DEF RefuseId, lookupVars, TypeOK, LookupTypeOK, HandlerTypeOK, StreamTypeOK, Earned
  <2>4. Asked'
    BY <1>2 DEF RefuseId, lookupVars, TypeOK, LookupTypeOK, HandlerTypeOK, StreamTypeOK, Asked
  <2>. QED  BY <2>2, <2>3, <2>4
<1>3. CASE SpawnStream(r)
  <2>1. TypeOK'
    <3>1. LookupTypeOK'
      BY <1>3 DEF SpawnStream, Spawned, lookupVars, TypeOK, LookupTypeOK
    <3>2. HandlerTypeOK'
      BY <1>3 DEF SpawnStream, Spawned, lookupVars, TypeOK, HandlerTypeOK
    <3>3. StreamTypeOK'
      BY <1>3 DEF SpawnStream, Spawned, lookupVars, TypeOK, StreamTypeOK
    <3>4. StreamsAsked'
      BY <1>3 DEF StreamsAsked, SpawnStream, Spawned, lookupVars, TypeOK, HandlerTypeOK, StreamTypeOK, Asked
    <3>. QED  BY <3>1, <3>2, <3>3, <3>4 DEF TypeOK
  <2>2. Earned'
    BY <1>3 DEF SpawnStream, Spawned, lookupVars, TypeOK, LookupTypeOK, HandlerTypeOK, StreamTypeOK, Earned
  <2>3. Asked'
    BY <1>3 DEF SpawnStream, Spawned, lookupVars, TypeOK, LookupTypeOK, HandlerTypeOK, StreamTypeOK, Asked
  <2>. QED  BY <2>1, <2>2, <2>3
<1>4. CASE CallStarts(r)
  <2>1. trail' \in [Requests -> Seq(PortalTypes)]
    <3>1. <<"mtls.handshake.start">> \in Seq(PortalTypes)
      BY DEF PortalTypes, Requested
    <3>. QED  BY <1>4, <3>1, TrailTyped DEF CallStarts
  <2>2. TypeOK'
    <3>1. LookupTypeOK'
      BY <1>4, <2>1 DEF CallStarts, lookupVars, TypeOK, LookupTypeOK
    <3>2. HandlerTypeOK'
      BY <1>4, <2>1 DEF CallStarts, lookupVars, TypeOK, HandlerTypeOK
    <3>3. StreamTypeOK'
      BY <1>4, <2>1 DEF CallStarts, lookupVars, TypeOK, StreamTypeOK
    <3>4. StreamsAsked'
      BY <1>4, <2>1 DEF StreamsAsked, CallStarts, lookupVars, TypeOK, HandlerTypeOK, StreamTypeOK, Asked
    <3>. QED  BY <3>1, <3>2, <3>3, <3>4 DEF TypeOK
  <2>3. Earned'
    BY <1>4 DEF CallStarts, lookupVars, TypeOK, LookupTypeOK, HandlerTypeOK, StreamTypeOK, Earned
  <2>4. Asked'
    BY <1>4 DEF CallStarts, lookupVars, TypeOK, LookupTypeOK, HandlerTypeOK, StreamTypeOK, Asked
  <2>. QED  BY <2>2, <2>3, <2>4
<1>5. CASE CallSent(r)
  <2>1. TypeOK'
    <3>1. LookupTypeOK'
      BY <1>5 DEF CallSent, portalVars, TypeOK, LookupTypeOK
    <3>2. HandlerTypeOK'
      BY <1>5 DEF CallSent, portalVars, TypeOK, HandlerTypeOK
    <3>3. StreamTypeOK'
      BY <1>5 DEF CallSent, portalVars, TypeOK, StreamTypeOK
    <3>4. StreamsAsked'
      BY <1>5 DEF StreamsAsked, CallSent, portalVars, TypeOK, HandlerTypeOK, StreamTypeOK, Asked
    <3>. QED  BY <3>1, <3>2, <3>3, <3>4 DEF TypeOK
  <2>2. Earned'
    BY <1>5 DEF CallSent, portalVars, TypeOK, LookupTypeOK, HandlerTypeOK, StreamTypeOK, Earned
  <2>3. Asked'
    BY <1>5 DEF CallSent, portalVars, TypeOK, LookupTypeOK, HandlerTypeOK, StreamTypeOK, Asked
  <2>. QED  BY <2>1, <2>2, <2>3
<1>6. CASE CallArrives(r)
  <2>1. TypeOK'
    <3>1. LookupTypeOK'
      BY <1>6 DEF CallArrives, Receive, Proceed, Emit, CarrierTypes, TypeOK, LookupTypeOK
    <3>2. HandlerTypeOK'
      BY <1>6 DEF CallArrives, Receive, Proceed, Emit, CarrierTypes, TypeOK, HandlerTypeOK
    <3>3. StreamTypeOK'
      BY <1>6 DEF CallArrives, Receive, Proceed, Emit, CarrierTypes, TypeOK, StreamTypeOK
    <3>4. StreamsAsked'
      BY <1>6 DEF StreamsAsked, CallArrives, Receive, Proceed, Emit, CarrierTypes, TypeOK, HandlerTypeOK, StreamTypeOK, Asked
    <3>. QED  BY <3>1, <3>2, <3>3, <3>4 DEF TypeOK
  <2>2. Earned'
    BY <1>6 DEF CallArrives, Receive, Proceed, Emit, CarrierTypes, TypeOK, LookupTypeOK, HandlerTypeOK, StreamTypeOK, Earned
  <2>3. Asked'
    BY <1>6 DEF CallArrives, Receive, Proceed, Emit, CarrierTypes, TypeOK, LookupTypeOK, HandlerTypeOK, StreamTypeOK, Asked
  <2>. QED  BY <2>1, <2>2, <2>3
<1>7. CASE CallReturns(r)
  <2>1. trail' \in [Requests -> Seq(PortalTypes)]
    <3>1. <<"mtls.handshake.ok">> \in Seq(PortalTypes)
      BY DEF PortalTypes, Requested
    <3>. QED  BY <1>7, <3>1, TrailTyped DEF CallReturns, Returned
  <2>2. TypeOK'
    <3>1. LookupTypeOK'
      BY <1>7, <2>1 DEF CallReturns, Returned, lookupVars, TypeOK, LookupTypeOK
    <3>2. HandlerTypeOK'
      <4>1. code[r] \in {0, 200, 404, 502}
        BY DEF TypeOK, LookupTypeOK
      <4>2. reply' \in [Requests -> {0, 200, 400, 404, 405, 502}]
        BY <1>7, <4>1 DEF CallReturns, Returned, TypeOK, HandlerTypeOK
      <4>3. ppc' \in [Requests -> {"new", "routed", "starting", "call", "dial", "done"}]
        BY <1>7 DEF CallReturns, Returned, TypeOK, HandlerTypeOK
      <4>. QED
        BY <1>7, <2>1, <4>2, <4>3 DEF CallReturns, Returned, TypeOK, HandlerTypeOK
    <3>3. StreamTypeOK'
      BY <1>7, <2>1 DEF CallReturns, Returned, lookupVars, TypeOK, StreamTypeOK
    <3>4. StreamsAsked'
      BY <1>7, <2>1 DEF StreamsAsked, CallReturns, Returned, lookupVars, TypeOK, HandlerTypeOK, StreamTypeOK, Asked
    <3>. QED  BY <3>1, <3>2, <3>3, <3>4 DEF TypeOK
  <2>3. Earned'
    BY <1>7 DEF CallReturns, Returned, lookupVars, TypeOK, LookupTypeOK, HandlerTypeOK, StreamTypeOK, Earned
  <2>4. Asked'
    BY <1>7 DEF CallReturns, Returned, lookupVars, TypeOK, LookupTypeOK, HandlerTypeOK, StreamTypeOK, Asked
  <2>. QED  BY <2>2, <2>3, <2>4
<1>8. CASE CallFails(r)
  <2>1. trail' \in [Requests -> Seq(PortalTypes)]
    <3>1. <<"mtls.handshake.err", "portal.resolve.error">> \in Seq(PortalTypes)
      BY DEF PortalTypes, Requested
    <3>. QED  BY <1>8, <3>1, TrailTyped DEF CallFails, Failed
  <2>2. TypeOK'
    <3>1. LookupTypeOK'
      BY <1>8, <2>1 DEF CallFails, Failed, lookupVars, TypeOK, LookupTypeOK
    <3>2. HandlerTypeOK'
      BY <1>8, <2>1, ZenonT(60) DEF CallFails, Failed, lookupVars, TypeOK, HandlerTypeOK
    <3>3. StreamTypeOK'
      BY <1>8, <2>1 DEF CallFails, Failed, lookupVars, TypeOK, StreamTypeOK
    <3>4. StreamsAsked'
      BY <1>8, <2>1 DEF StreamsAsked, CallFails, Failed, lookupVars, TypeOK, HandlerTypeOK, StreamTypeOK, Asked
    <3>. QED  BY <3>1, <3>2, <3>3, <3>4 DEF TypeOK
  <2>3. Earned'
    BY <1>8 DEF CallFails, Failed, lookupVars, TypeOK, LookupTypeOK, HandlerTypeOK, StreamTypeOK, Earned
  <2>4. Asked'
    BY <1>8 DEF CallFails, Failed, lookupVars, TypeOK, LookupTypeOK, HandlerTypeOK, StreamTypeOK, Asked
  <2>. QED  BY <2>2, <2>3, <2>4
<1>9. CASE DialStarts(r)
  <2>1. trail' \in [Requests -> Seq(PortalTypes)]
    <3>1. <<"mtls.handshake.start">> \in Seq(PortalTypes)
      BY DEF PortalTypes, Requested
    <3>. QED  BY <1>9, <3>1, TrailTyped DEF DialStarts
  <2>2. TypeOK'
    <3>1. LookupTypeOK'
      BY <1>9, <2>1 DEF DialStarts, lookupVars, TypeOK, LookupTypeOK
    <3>2. HandlerTypeOK'
      BY <1>9, <2>1 DEF DialStarts, lookupVars, TypeOK, HandlerTypeOK
    <3>3. StreamTypeOK'
      BY <1>9, <2>1 DEF DialStarts, lookupVars, TypeOK, StreamTypeOK
    <3>4. StreamsAsked'
      BY <1>9, <2>1 DEF StreamsAsked, DialStarts, lookupVars, TypeOK, HandlerTypeOK, StreamTypeOK, Asked
    <3>. QED  BY <3>1, <3>2, <3>3, <3>4 DEF TypeOK
  <2>3. Earned'
    BY <1>9 DEF DialStarts, lookupVars, TypeOK, LookupTypeOK, HandlerTypeOK, StreamTypeOK, Earned
  <2>4. Asked'
    BY <1>9 DEF DialStarts, lookupVars, TypeOK, LookupTypeOK, HandlerTypeOK, StreamTypeOK, Asked
  <2>. QED  BY <2>2, <2>3, <2>4
<1>10. CASE Disconnect(r)
  <2>1. TypeOK'
    <3>1. LookupTypeOK'
      BY <1>10 DEF Disconnect, lookupVars, TypeOK, LookupTypeOK
    <3>2. HandlerTypeOK'
      BY <1>10 DEF Disconnect, lookupVars, TypeOK, HandlerTypeOK
    <3>3. StreamTypeOK'
      BY <1>10 DEF Disconnect, lookupVars, TypeOK, StreamTypeOK
    <3>4. StreamsAsked'
      BY <1>10 DEF StreamsAsked, Disconnect, lookupVars, TypeOK, HandlerTypeOK, StreamTypeOK, Asked
    <3>. QED  BY <3>1, <3>2, <3>3, <3>4 DEF TypeOK
  <2>2. Earned'
    BY <1>10 DEF Disconnect, lookupVars, TypeOK, LookupTypeOK, HandlerTypeOK, StreamTypeOK, Earned
  <2>3. Asked'
    BY <1>10 DEF Disconnect, lookupVars, TypeOK, LookupTypeOK, HandlerTypeOK, StreamTypeOK, Asked
  <2>. QED  BY <2>1, <2>2, <2>3
<1>. QED
  BY <1>1, <1>2, <1>3, <1>4, <1>5, <1>6, <1>7, <1>8, <1>9, <1>10 DEF HandlerStep

\* The dial of the external carrier ends the same way whatever became of it.
LEMMA DialInvariant ==
  ASSUME Inv, NEW r \in Requests, DialStep(r)
  PROVE  Inv'
<1>1. PICK events \in Seq(PortalTypes) : DialEnds(r, events)
  <2>1. /\ <<"mtls.peer_uri_seen", "mtls.handshake.err">> \in Seq(PortalTypes)
        /\ <<"mtls.handshake.err">> \in Seq(PortalTypes)
        /\ <<"mtls.handshake.unexpected_ok">> \in Seq(PortalTypes)
    BY DEF PortalTypes
  <2>. QED  BY <2>1 DEF DialStep, DialRejected, DialFails, DialSucceeds
<1>2. trail' \in [Requests -> Seq(PortalTypes)]
  <2>1. events \o <<"portal.resolve.rejected">> \in Seq(PortalTypes)
    <3>1. <<"portal.resolve.rejected">> \in Seq(PortalTypes)
      BY DEF PortalTypes, Requested
    <3>. QED  BY <3>1, ConcatProperties
  <2>. QED  BY <1>1, <2>1, TrailTyped DEF DialEnds, Inv
<1>3. TypeOK'
  <2>1. LookupTypeOK' /\ StreamTypeOK'
    BY <1>1 DEF DialEnds, Inv, TypeOK, LookupTypeOK, StreamTypeOK, lookupVars,
       unchangedStreams
  <2>2. HandlerTypeOK'
    BY <1>1, <1>2, ZenonT(60) DEF DialEnds, Inv, TypeOK, HandlerTypeOK, At, GoTo, Replies
  <2>3. StreamsAsked'
    BY <1>1 DEF StreamsAsked, DialEnds, Inv, TypeOK, lookupVars, unchangedStreams
  <2>. QED  BY <2>1, <2>2, <2>3 DEF TypeOK
<1>4. Earned' /\ Asked'
  BY <1>1 DEF DialEnds, Inv, TypeOK, HandlerTypeOK, Earned, Asked, lookupVars,
     unchangedStreams, At, GoTo, Replies
<1>. QED  BY <1>3, <1>4 DEF Inv

\* The trace stream touches neither the lookup nor the handler.
LEMMA StreamInvariant ==
  ASSUME Inv, NEW r \in Requests, StreamStep(r)
  PROVE  Inv' /\ UNCHANGED <<kind, granted, reply>>
<1>. USE DEF Inv, Earned, Asked, unchangedHandler
<1>1. CASE StreamUnreachable(r)
  <2>1. trail' \in [Requests -> Seq(PortalTypes)]
    <3>1. <<"carrier.trace.unreachable">> \in Seq(PortalTypes)
      BY DEF PortalTypes, Requested
    <3>. QED  BY <1>1, <3>1, TrailTyped DEF StreamUnreachable
  <2>2. LookupTypeOK' /\ HandlerTypeOK'
    BY <1>1, <2>1 DEF StreamUnreachable, TypeOK, LookupTypeOK, HandlerTypeOK, lookupVars
  <2>3. StreamTypeOK'
    BY <1>1 DEF StreamUnreachable, TypeOK, StreamTypeOK
  <2>4. StreamsAsked'
    BY <1>1 DEF StreamsAsked, StreamUnreachable, TypeOK, StreamTypeOK, lookupVars
  <2>5. Earned' /\ Asked' /\ UNCHANGED <<kind, granted, reply>>
    BY <1>1 DEF StreamUnreachable, TypeOK, StreamTypeOK, lookupVars
  <2>. QED  BY <2>2, <2>3, <2>4, <2>5 DEF TypeOK
<1>2. CASE StreamOpens(r)
  BY <1>2 DEF StreamOpens, TypeOK, LookupTypeOK, HandlerTypeOK, StreamTypeOK, StreamsAsked, lookupVars
<1>3. CASE Relay(r)
  <2>1. PICK read \in SUBSET feed[r] : \E whole \in SUBSET read :
          /\ got' = [got EXCEPT ![r] = @ \cup whole]
          /\ lost' = [lost EXCEPT ![r] = @ \cup (read \ whole)]
          /\ feed' = [feed EXCEPT ![r] = @ \ read]
    BY <1>3 DEF Relay
  <2>2. /\ got' \in [Requests -> SUBSET CarrierTypes] /\ lost' \in [Requests -> SUBSET CarrierTypes]
        /\ feed' \in [Requests -> SUBSET CarrierTypes]
    BY <2>1 DEF TypeOK, LookupTypeOK, StreamTypeOK
  <2>. QED
    BY <1>3, <2>2 DEF Relay, TypeOK, LookupTypeOK, HandlerTypeOK, StreamTypeOK, StreamsAsked
<1>4. CASE StreamCancelled(r) \/ StreamExpires(r)
  <2>1. Ended(r) /\ expired' \in {expired, expired \cup {r}}
    BY <1>4 DEF StreamCancelled, StreamExpires
  <2>2. LookupTypeOK' /\ HandlerTypeOK'
    BY <2>1 DEF Ended, TypeOK, LookupTypeOK, HandlerTypeOK
  <2>3. StreamTypeOK' /\ StreamsAsked'
    BY <2>1 DEF Ended, TypeOK, StreamTypeOK, StreamsAsked
  <2>. QED  BY <2>1, <2>2, <2>3 DEF Ended, TypeOK, StreamTypeOK
<1>5. CASE StreamArrives(r) \/ StreamSubscribed(r) \/ StreamLeft(r)
  <2>1. /\ tpc[r] # "none" \/ spc[r] # "none"
        /\ \E next \in {"flushed", "listening", "left"} : tpc' = [tpc EXCEPT ![r] = next]
        /\ UNCHANGED <<cpc, code, granted, ctxDone, said, feed>> /\ UNCHANGED portalVars
    BY <1>5 DEF StreamArrives, StreamSubscribed, StreamLeft, TraceServed, Subscribed, Unsubscribed,
       TraceHandler
  <2>2. LookupTypeOK' /\ HandlerTypeOK' /\ StreamTypeOK'
    BY <2>1 DEF portalVars, TypeOK, LookupTypeOK, HandlerTypeOK, StreamTypeOK
  <2>3. StreamsAsked'
    BY <2>1 DEF portalVars, TypeOK, LookupTypeOK, StreamsAsked
  <2>. QED  BY <2>1, <2>2, <2>3 DEF portalVars, TypeOK
<1>6. CASE GraceOver(r)
  BY <1>6 DEF GraceOver, TypeOK, LookupTypeOK, HandlerTypeOK, StreamTypeOK, StreamsAsked, lookupVars
<1>. QED  BY <1>1, <1>2, <1>3, <1>4, <1>5, <1>6 DEF StreamStep

\* The invariant holds in every reachable state.
LEMMA Invariance == Spec => []Inv
<1>1. Init => Inv
  <2>1. << >> \in Seq(PortalTypes)
    BY EmptySeq
  <2>. QED  BY <2>1 DEF Init, CarrierInit, Inv, TypeOK, LookupTypeOK, HandlerTypeOK, StreamTypeOK, StreamsAsked, Earned, Asked, Kinds
<1>2. Inv /\ [Next]_vars => Inv'
  <2>. SUFFICES ASSUME Inv, [Next]_vars PROVE Inv'
    OBVIOUS
  <2>1. CASE Next
    BY <2>1, LookupInvariant, HandlerInvariant, DialInvariant, StreamInvariant DEF Next
  <2>2. CASE UNCHANGED vars
    BY <2>2 DEF vars, lookupVars, portalVars, Inv, TypeOK, LookupTypeOK, HandlerTypeOK, StreamTypeOK, StreamsAsked, Earned, Asked
  <2>. QED  BY <2>1, <2>2
<1>. QED  BY <1>1, <1>2, PTL DEF Spec

\* Handlers, lookups and streams keep every variable in its type, and only
\* internal requests open a stream.
THEOREM TypeCorrect == Spec => []TypeOK
<1>1. Inv => TypeOK
  BY DEF Inv
<1>. QED  BY <1>1, Invariance, PTL

-----------------------------------------------------------------------------
(* Refinement.                                                               *)

\* A lookup's step grants one thing more, or replies, which the browser does
\* not see yet.
LEMMA LookupRefines ==
  ASSUME Inv, NEW r \in Requests, LookupStep(r), UNCHANGED portalVars
  PROVE  [Abs!Next]_(Abs!vars)
<1>. USE DEF Inv, TypeOK, LookupTypeOK, HandlerTypeOK, StreamTypeOK, Earned, Asked, portalVars, Proceed, Respond, Granting
<1>1. CASE JwtIssued(r)
  <2>1. Abs!Grant(r, "jwt")
    BY <1>1 DEF JwtIssued, Abs!Grant, Abs!Before, Abs!Grants
  <2>. QED  BY <2>1 DEF Abs!Next, Abs!Grants
<1>2. CASE AuthnOk(r)
  <2>1. Abs!Grant(r, "token")
    BY <1>2 DEF AuthnOk, Abs!Grant, Abs!Before, Abs!Grants
  <2>. QED  BY <2>1 DEF Abs!Next, Abs!Grants
<1>3. CASE SecretOk(r)
  <2>1. Abs!Grant(r, "secret")
    BY <1>3 DEF SecretOk, Abs!Grant, Abs!Before, Abs!Grants
  <2>. QED  BY <2>1 DEF Abs!Next, Abs!Grants
<1>4. CASE ~(JwtIssued(r) \/ AuthnOk(r) \/ SecretOk(r))
  BY <1>4 DEF LookupStep, JwtFails, AuthnFails, SecretFails, SecretEmpty, RowFound,
     RowMissing, Abs!vars
<1>. QED  BY <1>1, <1>2, <1>3, <1>4

\* A handler's step is the arrival of a request, its answer, or hidden.
LEMMA HandlerRefines ==
  ASSUME Inv, NEW r \in Requests,
         \/ \E k \in Kinds : Post(r, k)
         \/ Disconnect(r) \/ CallSent(r) \/ CallArrives(r)
         \/ HandlerStep(r) \/ DialStep(r)
  PROVE  [Abs!Next]_(Abs!vars)
<1>. USE DEF Inv, TypeOK, LookupTypeOK, HandlerTypeOK, StreamTypeOK, Earned, Asked, At, GoTo, Replies, lookupVars
<1>1. ASSUME NEW k \in Kinds, Post(r, k) PROVE [Abs!Next]_(Abs!vars)
  <2>1. Abs!Ask(r, k)
    BY <1>1 DEF Post, Kinds, Abs!Ask
  <2>2. k \in Abs!Kinds
    BY DEF Kinds, Abs!Kinds
  <2>. QED  BY <2>1, <2>2 DEF Abs!Next
<1>2. ASSUME NEW c \in {200, 404, 502}, reply[r] = 0, kind[r] # "none",
             c \in Abs!Allowed(kind[r], granted[r]),
             reply' = [reply EXCEPT ![r] = c], UNCHANGED <<kind, granted>>
      PROVE  Abs!Next
  <2>1. Abs!Answer(r, c)
    BY <1>2 DEF Abs!Answer
  <2>. QED  BY <2>1 DEF Abs!Next
<1>3. CASE RefuseId(r)
  <2>1. 502 \in Abs!Allowed(kind[r], granted[r])
    BY <1>3 DEF RefuseId, Abs!Allowed
  <2>. QED  BY <1>2, <1>3, <2>1 DEF RefuseId
<1>4. CASE CallReturns(r)
  <2>1. code[r] \in {200, 404, 502} /\ code[r] \in Abs!Allowed(kind[r], granted[r])
    BY <1>4 DEF CallReturns, Returned, Abs!Allowed
  <2>2. Abs!Answer(r, code[r])
    BY <1>4, <2>1 DEF CallReturns, Returned, Abs!Answer
  <2>. QED  BY <2>1, <2>2 DEF Abs!Next
<1>5. CASE CallFails(r)
  <2>1. 502 \in Abs!Allowed(kind[r], granted[r])
    BY <1>5 DEF CallFails, Failed, Abs!Allowed
  <2>. QED  BY <1>2, <1>5, <2>1 DEF CallFails, Failed
<1>6. CASE DialStep(r)
  <2>1. PICK events : DialEnds(r, events)
    BY <1>6 DEF DialStep, DialRejected, DialFails, DialSucceeds
  <2>2. 502 \in Abs!Allowed(kind[r], granted[r])
    BY <2>1 DEF DialEnds, Abs!Allowed
  <2>. QED  BY <1>2, <2>1, <2>2 DEF DialEnds
<1>7. CASE \/ SpawnStream(r) \/ CallStarts(r) \/ CallSent(r) \/ CallArrives(r)
           \/ DialStarts(r) \/ Disconnect(r)
  BY <1>7 DEF SpawnStream, Spawned, CallStarts, CallSent, CallArrives, Receive, DialStarts,
     Disconnect, portalVars, Abs!vars
<1>. QED  BY <1>1, <1>3, <1>4, <1>5, <1>6, <1>7 DEF HandlerStep

\* POST /resolve keeps the promise of ResolveSpec: in particular nobody is
\* given a shipment whose carrier was not granted its JWT-SVID, its token and
\* its secret, one after the other.
THEOREM PromiseKept == Spec => KeepsPromise
<1>1. Init => Abs!Init
  BY DEF Init, CarrierInit, Abs!Init
<1>2. Inv /\ [Next]_vars => [Abs!Next]_(Abs!vars)
  <2>. SUFFICES ASSUME Inv, [Next]_vars PROVE [Abs!Next]_(Abs!vars)
    OBVIOUS
  <2>1. CASE UNCHANGED vars
    BY <2>1 DEF vars, lookupVars, portalVars, Abs!vars
  <2>2. ASSUME NEW r \in Requests, StreamStep(r) PROVE [Abs!Next]_(Abs!vars)
    BY <2>2, StreamInvariant DEF Abs!vars
  <2>. QED  BY <2>1, <2>2, LookupRefines, HandlerRefines DEF Next
<1>. QED  BY <1>1, <1>2, Invariance, PTL DEF Spec, KeepsPromise, Abs!Spec

-----------------------------------------------------------------------------
(* What the browser hears of a resolve over its two connections, and of its *)
(* trail once the call of the portal has ended.  Told ties the status code  *)
(* of a lookup to the errors it announced, Spoken the portal's answer to    *)
(* the portal's own events and to that code, and Streamed what a stream has *)
(* relayed to where it is and to why it was cancelled.  None is inductive   *)
(* without Inv, which says where a lookup and a handler can be.             *)

\* A lookup replies 502 exactly when it has announced an error.
Told ==
  \A r \in Requests :
    /\ cpc[r] # "replied" => code[r] = 0
    /\ code[r] = 502 <=> CarrierErrors \cap said[r] # {}
    /\ cpc[r] \in {"none", "sent"} => said[r] = {}

Refused(r) == Said(r, "portal.resolve.error") \/ Said(r, "portal.resolve.rejected")
Shook(r) == Said(r, "mtls.handshake.ok")

\* The portal's own events, from its answer.
Spoken ==
  \A r \in Requests :
    /\ ppc[r] # "done" => ~Refused(r) /\ ~Shook(r)
    /\ Shook(r) => cpc[r] = "replied"
    /\ reply[r] \in {200, 404} => ~Refused(r) /\ code[r] = reply[r]
    /\ reply[r] = 502 => Refused(r) \/ (code[r] = 502 /\ Shook(r))

\* What has become of the events on a stream that was subscribed in time.
Heard(r) ==
  /\ tpc[r] \in {"listening", "left"}
  /\ spc[r] \in {"dialing", "open"} =>
       /\ tpc[r] = "listening"
       /\ said[r] \subseteq got[r] \cup lost[r] \cup feed[r]
       /\ (r \in cut /\ r \notin gone /\ Shook(r)) => feed[r] \subseteq lost[r]
  /\ (spc[r] = "ended" /\ r \notin gone \cup expired /\ Shook(r))
       => said[r] \subseteq got[r] \cup lost[r]

\* Nothing is relayed that was not said, a stream ends by its 15s or because it is
\* cancelled, and is cancelled under a client that is still there only after the call.
Streamed ==
  /\ \A r \in Requests :
       /\ got[r] \subseteq said[r] /\ feed[r] \subseteq said[r]
       /\ (spc[r] = "ended" /\ r \notin expired) => r \in cut
       /\ (r \in cut /\ r \notin gone) => ppc[r] = "done"
  /\ \A r \in early : Heard(r)

-----------------------------------------------------------------------------
(* What a trail says after it was extended.                                 *)

LEMMA SaidAfter ==
  ASSUME TypeOK, NEW r \in Requests, NEW types \in Seq(PortalTypes), Says(r, types),
         NEW q \in Requests, NEW t \in PortalTypes
  PROVE  Said(q, t)' <=> Said(q, t) \/ (q = r /\ \E i \in DOMAIN types : types[i] = t)
<1>1. CASE q # r
  BY <1>1 DEF Says, Said, TypeOK, HandlerTypeOK
<1>2. CASE q = r
  <2>1. trail'[r] = trail[r] \o types /\ trail[r] \in Seq(PortalTypes)
    BY DEF Says, TypeOK, HandlerTypeOK
  <2>. DEFINE s == trail[r]
              both == s \o types
  <2>2. /\ Len(both) = Len(s) + Len(types)
        /\ \A i \in 1 .. Len(both) :
             both[i] = IF i <= Len(s) THEN s[i] ELSE types[i - Len(s)]
    BY <2>1, ConcatProperties
  <2>3. /\ DOMAIN s = 1 .. Len(s) /\ Len(s) \in Nat
        /\ DOMAIN types = 1 .. Len(types) /\ Len(types) \in Nat
        /\ DOMAIN both = 1 .. Len(both)
    BY <2>1
  <2>. HIDE DEF s, both
  <2>4. ASSUME NEW i \in DOMAIN s PROVE i \in DOMAIN both /\ both[i] = s[i]
    BY <2>2, <2>3
  <2>5. ASSUME NEW i \in DOMAIN types
        PROVE  Len(s) + i \in DOMAIN both /\ both[Len(s) + i] = types[i]
    BY <2>2, <2>3
  <2>6. ASSUME NEW i \in DOMAIN both
        PROVE  \/ i \in DOMAIN s /\ both[i] = s[i]
               \/ \E j \in DOMAIN types : both[i] = types[j]
    <3>1. CASE i <= Len(s)
      BY <2>2, <2>3, <3>1
    <3>2. CASE ~(i <= Len(s))
      <4>1. i - Len(s) \in DOMAIN types /\ both[i] = types[i - Len(s)]
        BY <2>2, <2>3, <3>2
      <4>. QED  BY <4>1
    <3>. QED  BY <3>1, <3>2
  <2>7. (\E i \in DOMAIN both : both[i] = t)
          <=> (\E i \in DOMAIN s : s[i] = t) \/ (\E i \in DOMAIN types : types[i] = t)
    BY <2>4, <2>5, <2>6
  <2>. QED  BY <1>2, <2>1, <2>7 DEF Said, s, both
<1>. QED  BY <1>1, <1>2

\* Nothing else changes what a trail says.
LEMMA SaidKept ==
  ASSUME UNCHANGED trail, NEW q \in Requests, NEW t
  PROVE  Said(q, t)' <=> Said(q, t)
BY DEF Said

-----------------------------------------------------------------------------
(* The lookup.                                                              *)

\* A lookup that emits an event which is no error, and does not reply.
LEMMA ProceedTold ==
  ASSUME Inv, Told, NEW r \in Requests, NEW type \in CarrierTypes \ ErrTypes,
         NEW at \in {"sent", "jwt", "authn", "fetch"}, NEW next \in {"jwt", "authn", "fetch", "row"},
         Proceed(r, at, type, next)
  PROVE  Told'
<1>1. \A q \in Requests : CarrierErrors \cap said'[q] = CarrierErrors \cap said[q]
  BY DEF Proceed, Emit, CarrierErrors, Inv, TypeOK, LookupTypeOK
<1>. QED  BY <1>1 DEF Proceed, Emit, Told, Inv, TypeOK, LookupTypeOK

\* A lookup that announces its outcome and replies.
LEMMA RespondTold ==
  ASSUME Inv, Told, NEW r \in Requests, NEW at, NEW type \in CarrierTypes,
         NEW c \in {200, 404, 502}, Respond(r, at, type, c),
         at \notin {"none", "sent", "replied"},
         c = 502 <=> type \in ErrTypes
  PROVE  Told'
<1>1. code[r] = 0 /\ CarrierErrors \cap said[r] = {}
  BY DEF Respond, Told
<1>2. CarrierErrors \cap said'[r] # {} <=> c = 502
  BY <1>1 DEF Respond, Emit, CarrierErrors, Inv, TypeOK, LookupTypeOK
<1>3. \A q \in Requests \ {r} : said'[q] = said[q] /\ code'[q] = code[q] /\ cpc'[q] = cpc[q]
  BY DEF Respond, Emit, Inv, TypeOK, LookupTypeOK
<1>4. code'[r] = c /\ cpc'[r] = "replied"
  BY DEF Respond, Inv, TypeOK, LookupTypeOK
<1>. QED  BY <1>2, <1>3, <1>4 DEF Told

LEMMA LookupTold ==
  ASSUME Inv, Told, NEW r \in Requests, LookupStep(r)
  PROVE  Told'
<1>. USE DEF ErrTypes, CarrierTypes
<1>1. CASE JwtIssued(r)
  <2>1. Proceed(r, "jwt", "jwt_svid.issued", "authn")
    BY <1>1 DEF JwtIssued
  <2>. QED  BY <2>1, ProceedTold
<1>2. CASE AuthnOk(r)
  <2>1. Proceed(r, "authn", "sm.authn_jwt.ok", "fetch")
    BY <1>2 DEF AuthnOk
  <2>. QED  BY <2>1, ProceedTold
<1>3. CASE SecretOk(r)
  <2>1. Proceed(r, "fetch", "sm.secret_fetched.ok", "row")
    BY <1>3 DEF SecretOk
  <2>. QED  BY <2>1, ProceedTold
<1>4. CASE JwtFails(r)
  <2>1. Respond(r, "jwt", "jwt_svid.error", 502)
    BY <1>4 DEF JwtFails
  <2>. QED  BY <2>1, RespondTold
<1>5. CASE AuthnFails(r)
  <2>1. Respond(r, "authn", "sm.authn_jwt.err", 502)
    BY <1>5 DEF AuthnFails
  <2>. QED  BY <2>1, RespondTold
<1>6. CASE SecretFails(r)
  <2>1. Respond(r, "fetch", "sm.secret_fetched.err", 502)
    BY <1>6 DEF SecretFails
  <2>. QED  BY <2>1, RespondTold
<1>7. CASE SecretEmpty(r)
  <2>1. Respond(r, "fetch", "sm.secret_fetched.empty", 502)
    BY <1>7 DEF SecretEmpty
  <2>. QED  BY <2>1, RespondTold
<1>8. CASE RowFound(r)
  <2>1. Respond(r, "row", "carrier.lookup.ok", 200)
    BY <1>8 DEF RowFound
  <2>. QED  BY <2>1, RespondTold
<1>9. CASE RowMissing(r)
  <2>1. Respond(r, "row", "carrier.lookup.miss", 404)
    BY <1>9 DEF RowMissing
  <2>. QED  BY <2>1, RespondTold
<1>. QED
  BY <1>1, <1>2, <1>3, <1>4, <1>5, <1>6, <1>7, <1>8, <1>9 DEF LookupStep

\* What a lookup's own step does to the rest: it emits one event, to its stream if
\* that is open.
LEMMA LookupSpoken ==
  ASSUME Inv, Told, Spoken, Streamed, NEW r \in Requests, LookupStep(r), UNCHANGED portalVars
  PROVE  Spoken' /\ Streamed'
<1>1. PICK type \in CarrierTypes : Emit(r, type)
  <2>. USE DEF CarrierTypes, Proceed, Respond
  <2>. QED
    BY DEF LookupStep, JwtIssued, AuthnOk, SecretOk, JwtFails, AuthnFails, SecretFails,
       SecretEmpty, RowFound, RowMissing
<1>2. /\ cpc[r] \notin {"none", "sent", "replied"}
      /\ tpc' = tpc
      /\ \A q \in Requests \ {r} : cpc'[q] = cpc[q] /\ code'[q] = code[q]
  BY DEF LookupStep, JwtIssued, AuthnOk, SecretOk, JwtFails, AuthnFails, SecretFails,
     SecretEmpty, RowFound, RowMissing, Proceed, Respond, Inv, TypeOK, LookupTypeOK
<1>3. code[r] = 0
  BY <1>2 DEF Told
<1>4. \A q \in Requests : (Refused(q)' <=> Refused(q)) /\ (Shook(q)' <=> Shook(q))
  BY SaidKept DEF Refused, Shook, portalVars
<1>5. Spoken'
  BY <1>2, <1>3, <1>4 DEF Spoken, portalVars
<1>6. Streamed'
  <2>1. ~Shook(r)
    BY <1>2 DEF Spoken
  <2>2. /\ \A q \in Requests \ {r} : said'[q] = said[q] /\ feed'[q] = feed[q]
        /\ said'[r] = said[r] \cup {type}
        /\ tpc[r] = "listening" => feed'[r] = feed[r] \cup {type}
        /\ tpc[r] # "listening" => feed'[r] = feed[r]
    BY <1>1 DEF Emit, Listening, Inv, TypeOK, LookupTypeOK
  <2>3. ASSUME NEW q \in early, q # r PROVE Heard(q)'
    BY <1>2, <1>4, <2>2, <2>3 DEF Streamed, Heard, portalVars, Inv, TypeOK, StreamTypeOK
  <2>4. ASSUME r \in early PROVE Heard(r)'
    BY <1>2, <1>4, <2>1, <2>2, <2>4 DEF Streamed, Heard, portalVars
  <2>5. \A q \in Requests : got'[q] \subseteq said'[q] /\ feed'[q] \subseteq said'[q]
    BY <2>2 DEF Streamed, portalVars
  <2>. QED  BY <2>3, <2>4, <2>5 DEF Streamed, portalVars, Inv, TypeOK, StreamTypeOK
<1>. QED  BY <1>5, <1>6

-----------------------------------------------------------------------------
(* The handler and the stream.                                              *)

\* An event that neither refuses nor announces a handshake.
LEMMA Neutral ==
  ASSUME TypeOK, NEW r \in Requests,
         NEW type \in {Requested, "mtls.handshake.start", "carrier.trace.unreachable"},
         Says(r, <<type>>), NEW q \in Requests
  PROVE  (Refused(q)' <=> Refused(q)) /\ (Shook(q)' <=> Shook(q))
<1>. DEFINE types == <<type>>
<1>1. types \in Seq(PortalTypes) /\ Says(r, types)
  BY DEF PortalTypes
<1>2. \A i \in DOMAIN types :
        types[i] \notin {"portal.resolve.error", "portal.resolve.rejected", "mtls.handshake.ok"}
  BY DEF Requested
<1>. HIDE DEF types
<1>3. ASSUME NEW t \in {"portal.resolve.error", "portal.resolve.rejected", "mtls.handshake.ok"}
      PROVE  Said(q, t)' <=> Said(q, t)
  <2>1. t \in PortalTypes
    BY DEF PortalTypes
  <2>. QED  BY <1>1, <1>2, <2>1, SaidAfter
<1>. QED  BY <1>3 DEF Refused, Shook

LEMMA Handshake ==
  ASSUME TypeOK, NEW r \in Requests, Says(r, <<"mtls.handshake.ok">>), NEW q \in Requests
  PROVE  (Refused(q)' <=> Refused(q)) /\ (Shook(q)' <=> Shook(q) \/ q = r)
<1>. DEFINE types == <<"mtls.handshake.ok">>
<1>1. types \in Seq(PortalTypes) /\ Says(r, types)
  BY DEF PortalTypes
<1>2. \A i \in DOMAIN types :
        types[i] \notin {"portal.resolve.error", "portal.resolve.rejected"}
  OBVIOUS
<1>. HIDE DEF types
<1>3. ASSUME NEW t \in {"portal.resolve.error", "portal.resolve.rejected"}
      PROVE  Said(q, t)' <=> Said(q, t)
  <2>1. t \in PortalTypes
    BY DEF PortalTypes
  <2>. QED  BY <1>1, <1>2, <2>1, SaidAfter
<1>4. Said(q, "mtls.handshake.ok")' <=> Said(q, "mtls.handshake.ok") \/ q = r
  <2>1. "mtls.handshake.ok" \in PortalTypes
    BY DEF PortalTypes
  <2>2. 1 \in DOMAIN types /\ types[1] = "mtls.handshake.ok"
    BY DEF types
  <2>. QED  BY <1>1, <2>1, <2>2, SaidAfter
<1>. QED  BY <1>3, <1>4 DEF Refused, Shook

\* The ways in which a handler gives up.
LEMMA Refusal ==
  ASSUME TypeOK, NEW r \in Requests, NEW types \in Seq(PortalTypes), Says(r, types),
         \E i \in DOMAIN types : types[i] \in {"portal.resolve.error", "portal.resolve.rejected"},
         \A i \in DOMAIN types : types[i] # "mtls.handshake.ok"
  PROVE  \A q \in Requests : (Refused(q)' <=> Refused(q) \/ q = r) /\ (Shook(q)' <=> Shook(q))
<1>. TAKE q \in Requests
<1>1. {"portal.resolve.error", "portal.resolve.rejected", "mtls.handshake.ok"} \subseteq PortalTypes
  BY DEF PortalTypes
<1>2. Refused(q)' <=> Refused(q) \/ q = r
  BY <1>1, SaidAfter DEF Refused
<1>3. Shook(q)' <=> Shook(q)
  <2>1. Said(q, "mtls.handshake.ok")' <=>
          Said(q, "mtls.handshake.ok")
            \/ (q = r /\ \E i \in DOMAIN types : types[i] = "mtls.handshake.ok")
    BY <1>1, SaidAfter
  <2>. QED  BY <2>1 DEF Shook
<1>. QED  BY <1>2, <1>3

LEMMA Refusals ==
  ASSUME TypeOK, NEW r \in Requests, RefuseId(r) \/ CallFails(r)
  PROVE  \A q \in Requests : (Refused(q)' <=> Refused(q) \/ q = r) /\ (Shook(q)' <=> Shook(q))
<1>1. CASE RefuseId(r)
  <2>. DEFINE types == <<"portal.resolve.error">>
  <2>1. types \in Seq(PortalTypes)
    BY DEF PortalTypes
  <2>2. Says(r, types)
    BY <1>1 DEF RefuseId
  <2>3. DOMAIN types = 1 .. 1 /\ types[1] = "portal.resolve.error"
    OBVIOUS
  <2>4. types[1] # "mtls.handshake.ok"
    OBVIOUS
  <2>. HIDE DEF types
  <2>5. \A j \in DOMAIN types : types[j] # "mtls.handshake.ok"
    BY <2>3, <2>4
  <2>6. \E j \in DOMAIN types : types[j] \in {"portal.resolve.error", "portal.resolve.rejected"}
    BY <2>3
  <2>. QED  BY <2>1, <2>2, <2>5, <2>6, Refusal
<1>2. CASE CallFails(r)
  <2>. DEFINE types == <<"mtls.handshake.err", "portal.resolve.error">>
  <2>1. types \in Seq(PortalTypes)
    BY DEF PortalTypes
  <2>2. Says(r, types)
    BY <1>2 DEF CallFails, Failed
  <2>3. DOMAIN types = 1 .. 2 /\ types[2] = "portal.resolve.error"
    OBVIOUS
  <2>4. types[1] # "mtls.handshake.ok"
    OBVIOUS
  <2>. HIDE DEF types
  <2>5. \A j \in DOMAIN types : types[j] # "mtls.handshake.ok"
    BY <2>3, <2>4
  <2>6. \E j \in DOMAIN types : types[j] \in {"portal.resolve.error", "portal.resolve.rejected"}
    BY <2>3
  <2>. QED  BY <2>1, <2>2, <2>5, <2>6, Refusal
<1>. QED  BY <1>1, <1>2

\* A handler that is refused answers 502, whatever its stream does.
LEMMA RefusedSpoken ==
  ASSUME Inv, Told, Spoken, Streamed, NEW r \in Requests,
         ppc[r] \notin {"new", "done"}, Replies(r, 502),
         \A q \in Requests : (Refused(q)' <=> Refused(q) \/ q = r) /\ (Shook(q)' <=> Shook(q)),
         UNCHANGED <<cpc, code, granted, said, tpc, feed, kind, gone, cut>>,
         unchangedStreams
  PROVE  Told' /\ Spoken' /\ Streamed'
<1>1. Told'
  BY DEF Told
<1>2. /\ ppc'[r] = "done" /\ reply'[r] = 502
      /\ \A q \in Requests \ {r} : ppc'[q] = ppc[q] /\ reply'[q] = reply[q]
  BY DEF Replies, GoTo, Inv, TypeOK, HandlerTypeOK
<1>3. Spoken'
  BY <1>2 DEF Spoken
<1>4. Streamed'
  BY <1>2 DEF Streamed, Heard, unchangedStreams, Inv, TypeOK, StreamTypeOK
<1>. QED  BY <1>1, <1>3, <1>4

LEMMA HandlerTrail ==
  ASSUME Inv, Told, Spoken, Streamed, NEW r \in Requests,
         \/ \E k \in Kinds : Post(r, k)
         \/ Disconnect(r) \/ CallSent(r) \/ CallArrives(r) \/ HandlerStep(r)
  PROVE  Told' /\ Spoken' /\ Streamed'
<1>. USE DEF Inv, TypeOK, HandlerTypeOK, LookupTypeOK, StreamTypeOK
<1>1. ASSUME NEW k \in Kinds, Post(r, k) PROVE Told' /\ Spoken' /\ Streamed'
  <2>1. \A q \in Requests : (Refused(q)' <=> Refused(q)) /\ (Shook(q)' <=> Shook(q))
    <3>1. CASE k \in {"get", "garbage"}
      BY <1>1, <3>1, SaidKept DEF Post, Refused, Shook
    <3>2. CASE k \notin {"get", "garbage"}
      <4>1. Says(r, <<Requested>>)
        BY <1>1, <3>2 DEF Post
      <4>. QED  BY <4>1, Neutral
    <3>. QED  BY <3>1, <3>2
  <2>2. /\ reply'[r] \notin {200, 404, 502} /\ ppc[r] # "done" /\ gone' = gone
        /\ \A q \in Requests \ {r} : ppc'[q] = ppc[q] /\ reply'[q] = reply[q]
    <3>1. reply[r] = 0 /\ ppc[r] = "new"
      BY <1>1 DEF Post, At, Asked
    <3>2. CASE k = "get"
      BY <1>1, <3>1, <3>2 DEF Post, Replies, GoTo
    <3>3. CASE k = "garbage"
      BY <1>1, <3>1, <3>3 DEF Post, Replies, GoTo
    <3>4. CASE k \notin {"get", "garbage"}
      BY <1>1, <3>1, <3>4 DEF Post, GoTo
    <3>. QED  BY <3>2, <3>3, <3>4
  <2>3. UNCHANGED <<lookupVars, cut, spc, expired, early, got, lost>>
    BY <1>1 DEF Post, unchangedStreams
  <2>4. Told'
    BY <2>3 DEF Told, lookupVars
  <2>5. Spoken'
    BY <2>1, <2>2, <2>3 DEF Spoken, lookupVars
  <2>6. Streamed'
    BY <2>1, <2>2, <2>3 DEF Streamed, Heard, lookupVars
  <2>. QED  BY <2>4, <2>5, <2>6
<1>2. CASE RefuseId(r)
  <2>1. ppc[r] \notin {"new", "done"} /\ Replies(r, 502)
    BY <1>2 DEF RefuseId, At
  <2>2. UNCHANGED <<lookupVars, kind, gone, cut>> /\ unchangedStreams
    BY <1>2 DEF RefuseId
  <2>3. UNCHANGED <<cpc, code, granted, said, tpc, feed, kind, gone, cut>>
    BY <2>2 DEF lookupVars
  <2>4. \A q \in Requests : (Refused(q)' <=> Refused(q) \/ q = r) /\ (Shook(q)' <=> Shook(q))
    BY <1>2, Refusals
  <2>. QED  BY <2>1, <2>2, <2>3, <2>4, RefusedSpoken
<1>3. CASE CallFails(r)
  <2>1. /\ ppc[r] \notin {"new", "done"} /\ Replies(r, 502)
        /\ UNCHANGED <<cpc, code, granted, said, tpc, feed, kind, gone, cut>>
        /\ unchangedStreams
    BY <1>3 DEF CallFails, Failed, At
  <2>2. \A q \in Requests : (Refused(q)' <=> Refused(q) \/ q = r) /\ (Shook(q)' <=> Shook(q))
    BY <1>3, Refusals
  <2>. QED  BY <2>1, <2>2, RefusedSpoken
<1>4. CASE CallStarts(r) \/ DialStarts(r)
  <2>1. \A q \in Requests : (Refused(q)' <=> Refused(q)) /\ (Shook(q)' <=> Shook(q))
    BY <1>4, Neutral DEF CallStarts, DialStarts
  <2>2. /\ ppc[r] # "done"
        /\ \A q \in Requests \ {r} : ppc'[q] = ppc[q]
        /\ UNCHANGED <<lookupVars, reply, gone, cut, spc, expired, early, got, lost>>
    BY <1>4 DEF CallStarts, DialStarts, At, GoTo, unchangedStreams
  <2>3. Told'
    BY <2>2 DEF Told, lookupVars
  <2>4. Spoken'
    BY <2>1, <2>2 DEF Spoken, Asked, lookupVars
  <2>5. Streamed'
    BY <2>1, <2>2 DEF Streamed, Heard, lookupVars
  <2>. QED  BY <2>3, <2>4, <2>5
<1>5. CASE SpawnStream(r)
  <2>1. \A q \in Requests : (Refused(q)' <=> Refused(q)) /\ (Shook(q)' <=> Shook(q))
    BY <1>5, SaidKept DEF SpawnStream, Spawned, Refused, Shook
  <2>2. /\ ppc[r] = "routed" /\ ppc'[r] = "starting"
        /\ spc[r] = "none" /\ spc'[r] = "dialing"
        /\ \A q \in Requests \ {r} : ppc'[q] = ppc[q] /\ spc'[q] = spc[q]
        /\ UNCHANGED <<lookupVars, reply, gone, expired, early, got, lost>>
        /\ cut' = cut \cup (gone \cap {r})
    BY <1>5 DEF SpawnStream, Spawned, At, GoTo, Asked
  <2>3. Told'
    BY <2>2 DEF Told, lookupVars
  <2>4. Spoken'
    BY <2>1, <2>2 DEF Spoken, lookupVars
  <2>5. r \notin early
    BY <2>2 DEF Streamed, Heard, StreamsAsked
  <2>6. Streamed'
    BY <2>1, <2>2, <2>5 DEF Streamed, Heard, lookupVars
  <2>. QED  BY <2>3, <2>4, <2>6
<1>6. CASE CallReturns(r)
  <2>1. \A q \in Requests : (Refused(q)' <=> Refused(q)) /\ (Shook(q)' <=> Shook(q) \/ q = r)
    BY <1>6, Handshake DEF CallReturns, Returned
  <2>2. /\ ppc[r] = "call" /\ ppc'[r] = "done" /\ cpc[r] = "replied" /\ reply'[r] = code[r]
        /\ \A q \in Requests \ {r} : ppc'[q] = ppc[q] /\ reply'[q] = reply[q]
        /\ UNCHANGED <<lookupVars, gone, cut, spc, expired, early, got, lost>>
    BY <1>6 DEF CallReturns, Returned, At, Replies, GoTo, unchangedStreams
  <2>3. Told'
    BY <2>2 DEF Told, lookupVars
  <2>4. Spoken'
    <3>1. ASSUME NEW q \in Requests, q # r
          PROVE  /\ ppc'[q] # "done" => ~Refused(q)' /\ ~Shook(q)'
                 /\ Shook(q)' => cpc'[q] = "replied"
                 /\ reply'[q] \in {200, 404} => ~Refused(q)' /\ code'[q] = reply'[q]
                 /\ reply'[q] = 502 => Refused(q)' \/ (code'[q] = 502 /\ Shook(q)')
      BY <2>1, <2>2, <3>1 DEF Spoken, lookupVars
    <3>2. ~Refused(r)'
      BY <2>1, <2>2 DEF Spoken
    <3>. QED  BY <2>1, <2>2, <3>1, <3>2 DEF Spoken, lookupVars
  <2>5. Streamed'
    <3>1. r \in cut => r \in gone
      BY <2>2 DEF Streamed
    <3>2. ASSUME NEW q \in early, q # r PROVE Heard(q)'
      <4>1. q \in Requests /\ Heard(q) /\ (Shook(q)' => Shook(q))
        BY <2>1, <3>2 DEF Streamed
      <4>. QED  BY <2>2, <4>1 DEF Heard, lookupVars
    <3>3. ASSUME r \in early PROVE Heard(r)'
      <4>1. Heard(r) /\ ((spc[r] = "ended" /\ r \notin expired) => r \in cut)
        BY <3>3 DEF Streamed
      <4>. QED  BY <2>2, <3>1, <4>1 DEF Heard, lookupVars
    <3>. QED  BY <2>2, <3>2, <3>3 DEF Streamed, lookupVars
  <2>. QED  BY <2>3, <2>4, <2>5
<1>7. CASE CallSent(r)
  <2>1. \A q \in Requests : (Refused(q)' <=> Refused(q)) /\ (Shook(q)' <=> Shook(q))
    BY <1>7, SaidKept DEF CallSent, Refused, Shook, portalVars
  <2>2. /\ ppc[r] = "call" /\ cpc[r] = "none" /\ cpc'[r] = "sent"
        /\ \A q \in Requests \ {r} : cpc'[q] = cpc[q]
        /\ UNCHANGED <<code, said, tpc, feed, portalVars>>
    BY <1>7 DEF CallSent, At
  <2>3. Told'
    <3>1. /\ code' = code /\ said' = said /\ code[r] = 0 /\ said[r] = {}
      BY <2>2 DEF Told
    <3>2. ASSUME NEW q \in Requests
          PROVE  /\ cpc'[q] # "replied" => code'[q] = 0
                 /\ code'[q] = 502 <=> CarrierErrors \cap said'[q] # {}
                 /\ cpc'[q] \in {"none", "sent"} => said'[q] = {}
      <4>1. CASE q = r
        BY <2>2, <3>1, <4>1
      <4>2. CASE q # r
        BY <2>2, <3>1, <4>2 DEF Told
      <4>. QED  BY <4>1, <4>2
    <3>. QED  BY <3>2 DEF Told
  <2>4. Spoken'
    BY <2>1, <2>2 DEF Spoken, portalVars
  <2>5. Streamed'
    BY <2>1, <2>2 DEF Streamed, Heard, portalVars
  <2>. QED  BY <2>3, <2>4, <2>5
<1>8. CASE CallArrives(r)
  <2>1. \A q \in Requests : (Refused(q)' <=> Refused(q)) /\ (Shook(q)' <=> Shook(q))
    BY <1>8, SaidKept DEF CallArrives, Refused, Shook
  <2>2. Proceed(r, "sent", "request.received", "jwt")
    BY <1>8 DEF CallArrives, Receive
  <2>3. Told'
    <3>1. "request.received" \in CarrierTypes \ ErrTypes
      BY DEF CarrierTypes, ErrTypes
    <3>. QED  BY <2>2, <3>1, ProceedTold
  <2>4. /\ cpc[r] = "sent" /\ said[r] = {}
        /\ \A q \in Requests \ {r} : cpc'[q] = cpc[q] /\ said'[q] = said[q] /\ feed'[q] = feed[q]
        /\ said'[r] = {"request.received"}
        /\ tpc[r] = "listening" => feed'[r] = feed[r] \cup {"request.received"}
        /\ tpc[r] # "listening" => feed'[r] = feed[r]
        /\ UNCHANGED <<code, tpc>>
    BY <2>2 DEF Proceed, Emit, Listening, Told
  <2>5. /\ early' = early \cup ({r} \cap { q \in Requests : tpc[q] = "listening" })
        /\ UNCHANGED <<ppc, reply, gone, spc, cut, expired, got, lost>>
    BY <1>8 DEF CallArrives, Listening
  <2>6. Spoken'
    BY <2>1, <2>4, <2>5 DEF Spoken
  <2>7. Streamed'
    <3>1. ~Shook(r)
      BY <2>4 DEF Spoken
    <3>2. ASSUME NEW q \in early, q # r PROVE Heard(q)'
      BY <2>1, <2>4, <2>5, <3>2 DEF Streamed, Heard
    <3>3. ASSUME r \in early' PROVE Heard(r)'
      <4>1. tpc[r] = "listening" \/ r \in early
        BY <2>5, <3>3
      <4>2. /\ tpc[r] \in {"listening", "left"}
            /\ spc[r] \in {"dialing", "open"} => tpc[r] = "listening"
        BY <4>1 DEF Streamed, Heard
      <4>. QED  BY <2>1, <2>4, <2>5, <3>1, <4>2 DEF Heard
    <3>4. \A q \in Requests : got'[q] \subseteq said'[q] /\ feed'[q] \subseteq said'[q]
      <4>1. \A q \in Requests \ {r} : got'[q] \subseteq said'[q] /\ feed'[q] \subseteq said'[q]
        BY <2>4, <2>5 DEF Streamed
      <4>2. got[r] = {} /\ feed[r] = {}
        BY <2>4 DEF Streamed
      <4>3. got'[r] \subseteq said'[r] /\ feed'[r] \subseteq said'[r]
        <5>1. got'[r] = {}
          BY <2>5, <4>2
        <5>2. feed'[r] \subseteq {"request.received"}
          BY <2>4, <4>2
        <5>. QED  BY <2>4, <5>1, <5>2
      <4>. QED  BY <4>1, <4>3
    <3>. QED  BY <2>5, <3>2, <3>3, <3>4 DEF Streamed
  <2>. QED  BY <2>3, <2>6, <2>7
<1>9. CASE Disconnect(r)
  <2>1. \A q \in Requests : (Refused(q)' <=> Refused(q)) /\ (Shook(q)' <=> Shook(q))
    BY <1>9, SaidKept DEF Disconnect, Refused, Shook
  <2>2. /\ gone' = gone \cup {r} /\ cut' \in {cut, cut \cup {r}}
        /\ UNCHANGED <<lookupVars, ppc, reply, spc, expired, early, got, lost>>
    BY <1>9 DEF Disconnect, unchangedStreams
  <2>3. Told' /\ Spoken'
    BY <2>1, <2>2 DEF Told, Spoken, lookupVars
  <2>4. Streamed'
    BY <2>1, <2>2 DEF Streamed, Heard, lookupVars
  <2>. QED  BY <2>3, <2>4
<1>. QED
  BY <1>1, <1>2, <1>3, <1>4, <1>5, <1>6, <1>7, <1>8, <1>9 DEF HandlerStep

LEMMA DialTrail ==
  ASSUME Inv, Told, Spoken, Streamed, NEW r \in Requests, DialStep(r)
  PROVE  Told' /\ Spoken' /\ Streamed'
<1>1. PICK events \in { <<"mtls.peer_uri_seen", "mtls.handshake.err">>,
                        <<"mtls.handshake.err">>, <<"mtls.handshake.unexpected_ok">> } :
        DialEnds(r, events)
  BY DEF DialStep, DialRejected, DialFails, DialSucceeds
<1>. DEFINE types == events \o <<"portal.resolve.rejected">>
<1>2. types \in Seq(PortalTypes)
  <2>1. /\ <<"mtls.peer_uri_seen", "mtls.handshake.err">> \in Seq(PortalTypes)
        /\ <<"mtls.handshake.err">> \in Seq(PortalTypes)
        /\ <<"mtls.handshake.unexpected_ok">> \in Seq(PortalTypes)
        /\ <<"portal.resolve.rejected">> \in Seq(PortalTypes)
    BY DEF PortalTypes
  <2>. QED  BY <1>1, <2>1, ConcatProperties
<1>3. Says(r, types)
  BY <1>1 DEF DialEnds
<1>4. \E i \in DOMAIN types : types[i] = "portal.resolve.rejected"
  <2>1. Len(types) \in DOMAIN types /\ types[Len(types)] = "portal.resolve.rejected"
    BY <1>1
  <2>. QED  BY <2>1
<1>5. \A i \in DOMAIN types : types[i] # "mtls.handshake.ok"
  BY <1>1
<1>. HIDE DEF types
<1>6. \A q \in Requests : (Refused(q)' <=> Refused(q) \/ q = r) /\ (Shook(q)' <=> Shook(q))
  <2>1. \E i \in DOMAIN types : types[i] \in {"portal.resolve.error", "portal.resolve.rejected"}
    BY <1>4
  <2>. QED  BY <1>2, <1>3, <1>5, <2>1, Refusal DEF Inv
<1>. QED  BY <1>1, <1>6, RefusedSpoken DEF DialEnds, At, lookupVars

\* What a stream does, it does to its own request, and the handler's answer stays.
LEMMA StreamTrail ==
  ASSUME Inv, Told, Spoken, Streamed, NEW r \in Requests, StreamStep(r)
  PROVE  Told' /\ Spoken' /\ Streamed'
<1>. USE DEF Inv, TypeOK, LookupTypeOK, HandlerTypeOK, StreamTypeOK, unchangedHandler
<1>1. \A q \in Requests : (Refused(q)' <=> Refused(q)) /\ (Shook(q)' <=> Shook(q))
  <2>1. CASE StreamUnreachable(r)
    BY <2>1, Neutral DEF StreamUnreachable
  <2>2. CASE ~StreamUnreachable(r)
    BY <2>2, SaidKept DEF StreamStep, StreamArrives, StreamOpens, StreamSubscribed, StreamLeft, Relay,
       StreamCancelled, StreamExpires, Ended, GraceOver, portalVars, Refused, Shook
  <2>. QED  BY <2>1, <2>2
<1>2. UNCHANGED <<cpc, code, said, ppc, reply, gone, early>>
  BY DEF StreamStep, StreamUnreachable, StreamArrives, StreamOpens, StreamSubscribed, StreamLeft, Relay,
     TraceServed, Subscribed, Unsubscribed, TraceHandler, StreamCancelled, StreamExpires, Ended,
     GraceOver, lookupVars, portalVars
<1>3. Told' /\ Spoken'
  BY <1>1, <1>2 DEF Told, Spoken
<1>4. CASE StreamUnreachable(r) \/ StreamOpens(r)
  <2>1. /\ spc[r] = "dialing" /\ spc'[r] \in {"failed", "open"}
        /\ \A q \in Requests \ {r} : spc'[q] = spc[q]
        /\ UNCHANGED <<tpc, feed, cut, expired, got, lost>>
    BY <1>4 DEF StreamUnreachable, StreamOpens, lookupVars
  <2>2. Streamed'
    BY <1>1, <1>2, <2>1 DEF Streamed, Heard
  <2>. QED  BY <1>3, <2>2
<1>5. CASE Relay(r)
  <2>1. PICK read \in SUBSET feed[r] : \E whole \in SUBSET read :
          /\ got' = [got EXCEPT ![r] = @ \cup whole]
          /\ lost' = [lost EXCEPT ![r] = @ \cup (read \ whole)]
          /\ feed' = [feed EXCEPT ![r] = @ \ read]
    BY <1>5 DEF Relay
  <2>2. /\ got[r] \subseteq got'[r] /\ lost[r] \subseteq lost'[r] /\ feed'[r] \subseteq feed[r]
        /\ got'[r] \subseteq got[r] \cup feed[r]
        /\ got[r] \cup lost[r] \cup feed[r] \subseteq got'[r] \cup lost'[r] \cup feed'[r]
        /\ \A q \in Requests \ {r} : got'[q] = got[q] /\ lost'[q] = lost[q] /\ feed'[q] = feed[q]
    BY <2>1
  <2>3. UNCHANGED <<tpc, spc, cut, expired>> /\ spc[r] = "open"
    BY <1>5 DEF Relay
  <2>4. ASSUME NEW q \in early PROVE Heard(q)'
    <3>1. CASE q # r
      BY <1>1, <1>2, <2>2, <2>3, <3>1 DEF Streamed, Heard
    <3>2. CASE q = r
      BY <1>1, <1>2, <2>2, <2>3, <3>2 DEF Streamed, Heard
    <3>. QED  BY <3>1, <3>2
  <2>5. \A q \in Requests : got'[q] \subseteq said'[q] /\ feed'[q] \subseteq said'[q]
    BY <1>2, <2>2 DEF Streamed
  <2>. QED  BY <1>2, <1>3, <2>3, <2>4, <2>5 DEF Streamed
<1>6. CASE StreamCancelled(r)
  <2>1. /\ r \in cut /\ spc[r] = "open" /\ spc'[r] = "ended" /\ feed'[r] = {}
        /\ \A q \in Requests \ {r} : spc'[q] = spc[q] /\ feed'[q] = feed[q]
        /\ UNCHANGED <<tpc, cut, expired, got, lost>>
    BY <1>6 DEF StreamCancelled, Ended
  <2>2. Streamed'
    BY <1>1, <1>2, <2>1 DEF Streamed, Heard
  <2>. QED  BY <1>3, <2>2
<1>7. CASE StreamExpires(r)
  <2>1. /\ spc'[r] = "ended" /\ expired' = expired \cup {r} /\ feed'[r] = {}
        /\ \A q \in Requests \ {r} : spc'[q] = spc[q] /\ feed'[q] = feed[q]
        /\ UNCHANGED <<tpc, cut, got, lost>>
    BY <1>7 DEF StreamExpires, Ended
  <2>2. Streamed'
    BY <1>1, <1>2, <2>1 DEF Streamed, Heard
  <2>. QED  BY <1>3, <2>2
<1>8. CASE GraceOver(r)
  <2>1. /\ ppc[r] = "done" /\ cut' = cut \cup {r}
        /\ lost'[r] = lost[r] \cup feed[r]
        /\ \A q \in Requests \ {r} : lost'[q] = lost[q]
        /\ UNCHANGED <<tpc, spc, feed, expired, got>>
    BY <1>8 DEF GraceOver, At, lookupVars
  <2>2. Streamed'
    BY <1>1, <1>2, <2>1 DEF Streamed, Heard
  <2>. QED  BY <1>3, <2>2
<1>9. CASE StreamArrives(r) \/ StreamSubscribed(r) \/ StreamLeft(r)
  <2>1. /\ \/ tpc[r] \in {"none", "flushed"}
           \/ spc[r] \notin {"dialing", "open"} /\ tpc'[r] = "left"
        /\ \A q \in Requests \ {r} : tpc'[q] = tpc[q]
        /\ UNCHANGED <<feed, portalVars>>
    BY <1>9 DEF StreamArrives, StreamSubscribed, StreamLeft, TraceServed, Subscribed, Unsubscribed,
       TraceHandler
  <2>2. Streamed'
    BY <1>1, <1>2, <2>1 DEF Streamed, Heard, portalVars
  <2>. QED  BY <1>3, <2>2
<1>. QED
  BY <1>4, <1>5, <1>6, <1>7, <1>8, <1>9 DEF StreamStep

-----------------------------------------------------------------------------
(* The properties.                                                          *)

LEMMA TrailInvariance == Spec => [](Inv /\ Told /\ Spoken /\ Streamed)
<1>1. Init => Inv /\ Told /\ Spoken /\ Streamed
  <2>1. Init => Inv
    <3>1. << >> \in Seq(PortalTypes)
      BY EmptySeq
    <3>. QED
      BY <3>1 DEF Init, CarrierInit, Inv, TypeOK, LookupTypeOK, HandlerTypeOK, StreamTypeOK,
         StreamsAsked, Earned, Asked, Kinds
  <2>2. Init => Told /\ Streamed
    BY DEF Init, CarrierInit, Told, Streamed
  <2>3. Init => Spoken
    BY DEF Init, CarrierInit, Spoken, Refused, Shook, Said
  <2>. QED  BY <2>1, <2>2, <2>3
<1>2. Inv /\ Told /\ Spoken /\ Streamed /\ [Next]_vars => (Inv /\ Told /\ Spoken /\ Streamed)'
  <2>. SUFFICES ASSUME Inv, Told, Spoken, Streamed, [Next]_vars
                PROVE  (Inv /\ Told /\ Spoken /\ Streamed)'
    OBVIOUS
  <2>1. ASSUME NEW r \in Requests,
               \/ \E k \in Kinds : Post(r, k)
               \/ Disconnect(r) \/ CallSent(r) \/ CallArrives(r) \/ HandlerStep(r)
        PROVE  (Inv /\ Told /\ Spoken /\ Streamed)'
    BY <2>1, HandlerInvariant, HandlerTrail
  <2>2. ASSUME NEW r \in Requests, DialStep(r) PROVE (Inv /\ Told /\ Spoken /\ Streamed)'
    BY <2>2, DialInvariant, DialTrail
  <2>3. ASSUME NEW r \in Requests, StreamStep(r) PROVE (Inv /\ Told /\ Spoken /\ Streamed)'
    BY <2>3, StreamInvariant, StreamTrail
  <2>4. ASSUME NEW r \in Requests, LookupStep(r), UNCHANGED portalVars
        PROVE  (Inv /\ Told /\ Spoken /\ Streamed)'
    BY <2>4, LookupInvariant, LookupTold, LookupSpoken
  <2>5. CASE UNCHANGED vars
    <3>1. UNCHANGED <<cpc, code, granted, ctxDone, said, tpc, feed>> /\ UNCHANGED portalVars
      BY <2>5 DEF vars, lookupVars
    <3>2. Inv'
      BY <3>1 DEF portalVars, Inv, TypeOK, LookupTypeOK, HandlerTypeOK, StreamTypeOK, StreamsAsked, Earned, Asked
    <3>3. Told'
      BY <3>1 DEF Told
    <3>4. \A q \in Requests : (Refused(q)' <=> Refused(q)) /\ (Shook(q)' <=> Shook(q))
      BY <3>1, SaidKept DEF portalVars, Refused, Shook
    <3>5. Spoken'
      BY <3>1, <3>4 DEF portalVars, Spoken
    <3>6. Streamed'
      BY <3>1, <3>4 DEF portalVars, Streamed, Heard, Inv, TypeOK, StreamTypeOK
    <3>. QED  BY <3>2, <3>3, <3>5, <3>6
  <2>. QED  BY <2>1, <2>2, <2>3, <2>4, <2>5 DEF Next
<1>. QED  BY <1>1, <1>2, PTL DEF Spec

\* A shipment, or its absence, is never answered to a browser that heard an error
\* event, and a browser that is answered 502 and heard none has heard the handshake
\* succeed, and its error event was lost if the stream was subscribed in time.
THEOREM TwoChannels == Spec => []ChannelsAgree
<1>1. Inv /\ Told /\ Spoken /\ Streamed => ChannelsAgree
  <2>. SUFFICES ASSUME Inv, Told, Spoken, Streamed, NEW r \in Requests
                PROVE  /\ reply[r] \in {200, 404} => ~HeardError(r)
                       /\ (reply[r] = 502 /\ ~HeardError(r)) =>
                            /\ Said(r, "mtls.handshake.ok")
                            /\ (r \in early /\ Settled(r)) => CarrierErrors \cap lost[r] # {}
    BY DEF ChannelsAgree
  <2>1. got[r] \subseteq said[r]
    BY DEF Streamed
  <2>2. HeardError(r) <=> Refused(r) \/ CarrierErrors \cap got[r] # {}
    BY DEF HeardError, Refused
  <2>3. reply[r] \in {200, 404} => ~HeardError(r)
    BY <2>1, <2>2 DEF Told, Spoken
  <2>4. ASSUME reply[r] = 502, ~HeardError(r)
        PROVE  Shook(r) /\ CarrierErrors \cap said[r] # {} /\ CarrierErrors \cap got[r] = {}
    BY <2>2, <2>4 DEF Told, Spoken
  <2>5. ASSUME r \in early, Settled(r) PROVE said[r] \subseteq got[r] \cup lost[r]
    BY <2>5 DEF Streamed, Heard, Settled, Shook
  <2>. QED  BY <2>3, <2>4, <2>5 DEF Shook
<1>. QED  BY <1>1, TrailInvariance, PTL

\* The end of a call costs its trail nothing: what the carrier says on a stream that
\* was subscribed in time is relayed, the tail behind the answer included, but for
\* the frames that a read cut up and those unread at the end of the grace period.
THEOREM TailSurvives == Spec => []TailAccounted
<1>1. Inv /\ Streamed => TailAccounted
  BY DEF Inv, TypeOK, StreamTypeOK, Streamed, Heard, Shook, TailAccounted, Settled
<1>. QED  BY <1>1, TrailInvariance, PTL
=============================================================================
