---------------------------- MODULE PortalResolve ----------------------------
(***************************************************************************)
(* apps/portal/handler.go, carrier_client.go and external_carrier_client.go *)
(* over CarrierLookup: one POST /resolve from its arrival to its answer,   *)
(* and the trace stream that each internal one opens to the carrier.       *)
(*                                                                         *)
(* Both connections are requests of one http.Client, whose Timeout of 15s  *)
(* ends a call, or a stream, whatever the carrier does.  trail[r] holds    *)
(* the portal's own events for r in the order of their emission; what a    *)
(* stream relays is a set, its order being that of TraceBus.  A read of a  *)
(* stream may end within a frame, which is then cut up or dropped; which   *)
(* frames that costs is FrameSplit's subject, here it may be any of those  *)
(* read.  Bodies are abstracted: a body cut short is passed on like a      *)
(* whole one, because Lookup drops the error of ReadAll.                   *)
(***************************************************************************)
EXTENDS CarrierLookup, Sequences

VARIABLES
  kind,     \* what each request asks for, "none" before it arrives
  ppc,      \* where its handler is
  reply,    \* the status code it was answered with, 0 before that
  trail,    \* the events the portal emitted for it
  gone,     \* requests whose client has disconnected
  spc,      \* where its trace stream is
  cut,      \* trace streams whose traceCtx is cancelled
  expired,  \* history: open streams ended by the 15s of http.Client
  early,    \* history: requests that reached the carrier after their stream had
            \* been subscribed
  got,      \* the request's events that its stream has relayed to the portal's bus
  lost      \* history: those of which a read made no whole frame, and those that
            \* were still unread when the grace period ended

portalVars == <<kind, ppc, reply, trail, gone, spc, cut, expired, early, got, lost>>
vars == <<lookupVars, portalVars>>

Kinds == {"get", "garbage", "badid", "internal", "external"}

Init ==
  /\ CarrierInit
  /\ kind = [r \in Requests |-> "none"]
  /\ ppc = [r \in Requests |-> "new"]
  /\ reply = [r \in Requests |-> 0]
  /\ trail = [r \in Requests |-> << >>]
  /\ gone = {}
  /\ spc = [r \in Requests |-> "none"]
  /\ cut = {}
  /\ expired = {}
  /\ early = {}
  /\ got = [r \in Requests |-> {}]
  /\ lost = [r \in Requests |-> {}]

-----------------------------------------------------------------------------
(* The handler.                                                             *)

At(r, at) == ppc[r] = at
GoTo(r, next) == ppc' = [ppc EXCEPT ![r] = next]
Says(r, types) == trail' = [trail EXCEPT ![r] = @ \o types]
Replies(r, c) == reply' = [reply EXCEPT ![r] = c] /\ GoTo(r, "done")

unchangedStreams == UNCHANGED <<spc, expired, early, got, lost>>

\* The method and the body are checked before anything is announced.
Post(r, k) ==
  /\ At(r, "new")
  /\ kind' = [kind EXCEPT ![r] = k]
  /\ CASE k = "get"     -> Replies(r, 405) /\ UNCHANGED trail
       [] k = "garbage" -> Replies(r, 400) /\ UNCHANGED trail
       [] OTHER -> GoTo(r, "routed") /\ Says(r, <<Requested>>)
                     /\ UNCHANGED reply
  /\ UNCHANGED <<lookupVars, gone, cut>> /\ unchangedStreams

\* An id that does not match shipmentIDRE goes no further than the portal.
RefuseId(r) ==
  /\ At(r, "routed") /\ kind[r] = "badid"
  /\ Says(r, <<"portal.resolve.error">>)
  /\ Replies(r, 502)
  /\ UNCHANGED <<lookupVars, kind, gone, cut>> /\ unchangedStreams

\* traceCtx is detached from the request's context, AfterFunc links it back.
Spawned(r) ==
  /\ At(r, "routed")
  /\ GoTo(r, "starting")
  /\ spc' = [spc EXCEPT ![r] = "dialing"]
  /\ cut' = cut \cup (gone \cap {r})
  /\ UNCHANGED <<lookupVars, kind, reply, trail, gone, expired, early, got, lost>>

\* Mutant: the stream is opened before the shipment id is checked.
SpawnStreamUnchecked(r) == kind[r] \in {"internal", "badid"} /\ Spawned(r)

SpawnStream(r) == kind[r] = "internal" /\ Spawned(r)

CallStarts(r) ==
  /\ At(r, "starting")
  /\ GoTo(r, "call")
  /\ Says(r, <<"mtls.handshake.start">>)
  /\ UNCHANGED <<lookupVars, kind, reply, gone, cut>> /\ unchangedStreams

\* The connection is made, or taken from the pool, and the request written.
CallSent(r) ==
  /\ At(r, "call") /\ cpc[r] = "none" /\ r \notin gone
  /\ cpc' = [cpc EXCEPT ![r] = "sent"]
  /\ UNCHANGED <<code, granted, ctxDone, said, tpc, feed, portalVars>>

\* The carrier starts on a request, even one the portal has given up.
CallArrives(r) ==
  /\ Receive(r)
  /\ early' = early \cup (Listening \cap {r})
  /\ UNCHANGED <<kind, ppc, reply, trail, gone, spc, cut, expired, got, lost>>

\* The handshake is announced once the whole answer is there; the status of
\* the carrier becomes that of the portal.
Returned(r, c) ==
  /\ At(r, "call") /\ cpc[r] = "replied"
  /\ Says(r, <<"mtls.handshake.ok">>)
  /\ Replies(r, c)
  /\ UNCHANGED <<lookupVars, kind, gone>> /\ unchangedStreams

\* Mutants: the stream ends with the call; every answer counts as a success.
CallReturnsNoGrace(r) == Returned(r, code[r]) /\ cut' = cut \cup {r}
CallReturnsOk(r) == Returned(r, 200) /\ UNCHANGED cut

CallReturns(r) == Returned(r, code[r]) /\ UNCHANGED cut

\* No connection, a reset, the client gone, or 15s: whatever is under way at
\* the carrier loses its context.
Failed(r) ==
  /\ At(r, "call")
  /\ Says(r, <<"mtls.handshake.err", "portal.resolve.error">>)
  /\ Replies(r, 502)
  /\ ctxDone' = ctxDone \cup (IF cpc[r] = "none" THEN {} ELSE {r})
  /\ UNCHANGED <<cpc, code, granted, said, tpc, feed, kind, gone, cut>>
  /\ unchangedStreams

\* Mutant: an http.Client without a Timeout waits for what it has sent.
CallFailsNoTimeout(r) == (cpc[r] = "none" \/ r \in gone) /\ Failed(r)

CallFails(r) == Failed(r)

\* The client goes away: r.Context() ends, and with it, while Lookup runs,
\* traceCtx.  After Lookup has returned its AfterFunc is stopped.
Disconnect(r) ==
  /\ ppc[r] \in {"routed", "starting", "call", "dial"} /\ r \notin gone
  /\ gone' = gone \cup {r}
  /\ cut' = IF ppc[r] \in {"starting", "call"} THEN cut \cup {r} ELSE cut
  /\ UNCHANGED <<lookupVars, kind, ppc, reply, trail>> /\ unchangedStreams

-----------------------------------------------------------------------------
(* The external carrier: a dial with the standard verifier and no deadline. *)

DialStarts(r) ==
  /\ At(r, "routed") /\ kind[r] = "external"
  /\ GoTo(r, "dial")
  /\ Says(r, <<"mtls.handshake.start">>)
  /\ UNCHANGED <<lookupVars, kind, reply, gone, cut>> /\ unchangedStreams

\* Resolve returns an error whatever became of the dial, so the branch of the
\* handler for a success is never taken.
DialEnds(r, events) ==
  /\ At(r, "dial")
  /\ Says(r, events \o <<"portal.resolve.rejected">>)
  /\ Replies(r, 502)
  /\ UNCHANGED <<lookupVars, kind, gone, cut>> /\ unchangedStreams

\* The verifier rejects the leaf, whose URI, if it has one, is announced.
DialRejected(r) ==
  \/ DialEnds(r, <<"mtls.peer_uri_seen", "mtls.handshake.err">>)
  \/ DialEnds(r, <<"mtls.handshake.err">>)

DialFails(r) == DialEnds(r, <<"mtls.handshake.err">>)

DialSucceeds(r) == DialEnds(r, <<"mtls.handshake.unexpected_ok">>)

-----------------------------------------------------------------------------
(* streamCarrierTrace, a goroutine of its own, and its peer at the carrier. *)

unchangedHandler == UNCHANGED <<kind, ppc, reply, gone, early>>

\* The dial fails, is cancelled or takes 15s, whatever the carrier has made of it.
StreamUnreachable(r) ==
  /\ spc[r] = "dialing"
  /\ spc' = [spc EXCEPT ![r] = "failed"]
  /\ Says(r, <<"carrier.trace.unreachable">>)
  /\ UNCHANGED <<lookupVars, cut, expired, got, lost>> /\ unchangedHandler

\* The carrier serves the stream, even one the portal has given up.
StreamArrives(r) == spc[r] # "none" /\ TraceServed(r) /\ UNCHANGED portalVars

\* The header is there, which is before the carrier subscribes.
StreamOpens(r) ==
  /\ spc[r] = "dialing" /\ tpc[r] # "none"
  /\ spc' = [spc EXCEPT ![r] = "open"]
  /\ UNCHANGED <<lookupVars, trail, cut, expired, got, lost>> /\ unchangedHandler

StreamSubscribed(r) == Subscribed(r) /\ UNCHANGED portalVars

\* One Read: the frames that are whole in it are republished.
Relay(r) ==
  /\ spc[r] = "open"
  /\ \E read \in SUBSET feed[r] : \E whole \in SUBSET read :
       /\ got' = [got EXCEPT ![r] = @ \cup whole]
       /\ lost' = [lost EXCEPT ![r] = @ \cup (read \ whole)]
       /\ feed' = [feed EXCEPT ![r] = @ \ read]
  /\ UNCHANGED <<cpc, code, granted, ctxDone, said, tpc, spc, trail, cut, expired>>
  /\ unchangedHandler

\* Read fails: what is still on its way is lost.
Ended(r) ==
  /\ spc[r] = "open"
  /\ spc' = [spc EXCEPT ![r] = "ended"]
  /\ feed' = [feed EXCEPT ![r] = {}]
  /\ UNCHANGED <<cpc, code, granted, ctxDone, said, tpc, trail, cut, got, lost>>
  /\ unchangedHandler

StreamCancelled(r) == r \in cut /\ Ended(r) /\ UNCHANGED expired

\* The 15s of http.Client, or the carrier going down.
StreamExpires(r) == Ended(r) /\ expired' = expired \cup {r}

\* The carrier notices that its reader has gone.
StreamLeft(r) == spc[r] \in {"failed", "ended"} /\ Unsubscribed(r) /\ UNCHANGED portalVars

\* 500ms after Lookup has returned, whatever has been read by then.
GraceOver(r) ==
  /\ At(r, "done") /\ spc[r] # "none" /\ r \notin cut
  /\ cut' = cut \cup {r}
  /\ lost' = [lost EXCEPT ![r] = @ \cup feed[r]]
  /\ UNCHANGED <<lookupVars, trail, spc, expired, got>> /\ unchangedHandler

-----------------------------------------------------------------------------
HandlerStep(r) ==
  \/ RefuseId(r)
  \/ SpawnStream(r) \/ CallStarts(r)
  \/ CallReturns(r) \/ CallFails(r)
  \/ DialStarts(r)

DialStep(r) == DialRejected(r) \/ DialFails(r) \/ DialSucceeds(r)

StreamStep(r) ==
  \/ StreamUnreachable(r) \/ StreamArrives(r) \/ StreamOpens(r)
  \/ StreamSubscribed(r) \/ Relay(r) \/ StreamLeft(r)
  \/ StreamCancelled(r) \/ StreamExpires(r) \/ GraceOver(r)

Next ==
  \E r \in Requests :
    \/ \E k \in Kinds : Post(r, k)
    \/ Disconnect(r)
    \/ CallSent(r) \/ CallArrives(r)
    \/ HandlerStep(r) \/ DialStep(r) \/ StreamStep(r)
    \/ LookupStep(r) /\ UNCHANGED portalVars

Spec == Init /\ [][Next]_vars

\* The handler runs on, and its call to the carrier settles, after 15s at the
\* latest; nothing bounds the dial of the external carrier, and the carrier
\* answers only as LookupFairness says.
Fairness ==
  \A r \in Requests : WF_vars(HandlerStep(r)) /\ LookupFairness(r)

FairSpec == Spec /\ Fairness

-----------------------------------------------------------------------------
Said(r, type) == \E i \in DOMAIN trail[r] : trail[r][i] = type

CarrierErrors == CarrierTypes \cap ErrTypes

HandlerTypeOK ==
  /\ kind \in [Requests -> Kinds \cup {"none"}]
  /\ ppc \in [Requests -> {"new", "routed", "starting", "call", "dial", "done"}]
  /\ reply \in [Requests -> {0, 200, 400, 404, 405, 502}]
  /\ trail \in [Requests -> Seq(PortalTypes)]
  /\ gone \subseteq Requests

StreamTypeOK ==
  /\ spc \in [Requests -> {"none", "dialing", "failed", "open", "ended"}]
  /\ got \in [Requests -> SUBSET CarrierTypes]
  /\ lost \in [Requests -> SUBSET CarrierTypes]
  /\ cut \subseteq Requests
  /\ expired \subseteq Requests
  /\ early \subseteq Requests

\* Only an internal request opens a stream, and the carrier serves no other.
StreamsAsked ==
  \A r \in Requests :
    /\ spc[r] # "none" => kind[r] = "internal"
    /\ tpc[r] # "none" => spc[r] # "none"

\* Every variable keeps its type, and streams belong to internal requests.
TypeOK ==
  /\ LookupTypeOK
  /\ HandlerTypeOK
  /\ StreamTypeOK
  /\ StreamsAsked

\* POST /resolve keeps the promise of ResolveSpec.
Abs == INSTANCE ResolveSpec WITH asked <- kind, answer <- reply
KeepsPromise == Abs!Spec

\* The call has been answered and the stream has met its end in peace: its client
\* did not leave, nor did it fail or meet its 15s.
Settled(r) ==
  /\ Said(r, "mtls.handshake.ok")
  /\ spc[r] = "ended" /\ r \notin gone \cup expired

\* The end of a call costs its trail nothing: of what the carrier says on a stream
\* that was subscribed in time, the portal relays all but the frames that a read
\* cut up and what it has not read 500ms after the call, unless the client left
\* or the stream met its 15s (carrier_client.go:59-68).
TailAccounted ==
  \A r \in early : Settled(r) => said[r] \subseteq got[r] \cup lost[r]

\* What the browser can hear of a failure on the event stream.
HeardError(r) ==
  \/ Said(r, "portal.resolve.error") \/ Said(r, "portal.resolve.rejected")
  \/ CarrierErrors \cap got[r] # {}

\* The browser hears of a resolve over two connections.  A shipment, or its
\* absence, is never answered to a browser that heard an error event; one that is
\* answered 502 and heard none has heard mtls.handshake.ok, and if its stream was
\* subscribed in time and settled, the error event itself was lost on the way.
ChannelsAgree ==
  \A r \in Requests :
    /\ reply[r] \in {200, 404} => ~HeardError(r)
    /\ (reply[r] = 502 /\ ~HeardError(r)) =>
         /\ Said(r, "mtls.handshake.ok")
         /\ (r \in early /\ Settled(r)) => CarrierErrors \cap lost[r] # {}

\* Every internal request is answered, even if the agent or Secrets Manager
\* never answers the carrier.
PortalAnswers ==
  \A r \in Requests : (kind[r] = "internal") ~> (reply[r] # 0)

\* No lookup outlives its request for ever, although SMClient sets no timeout:
\* the carrier lives off the portal's.
CarrierReleased ==
  \A r \in Requests : (cpc[r] \in {"jwt", "authn", "fetch"}) ~> (cpc[r] = "replied")

\* "While the call is in flight, it forwards carrier trace events into bus"
\* (carrier_client.go:53-54), and "All six expected event types must have
\* arrived" (smoke.spec.ts:86): a shipment that was found left its whole trail, if
\* every frame that was sent was read in time and whole.
TrailComplete ==
  \A r \in Requests :
    (reply[r] = 200 /\ Settled(r) /\ lost[r] = {}) => said[r] \subseteq got[r]
=============================================================================
