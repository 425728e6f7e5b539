---------------------------- MODULE CarrierLookup ----------------------------
(***************************************************************************)
(* apps/carrier/handler.go and sm_client.go: the carrier's GET /lookup.    *)
(*                                                                         *)
(* A request is served by a goroutine of its own, which asks the SWA agent *)
(* for a JWT-SVID, Secrets Manager for a token and then for the secret,    *)
(* and announces each result on the carrier's trace bus before it goes on. *)
(* The bus is the one of TraceBus, abstracted to what is proved there: a   *)
(* subscriber gets, in order, all that is emitted once it has subscribed,  *)
(* since a run stays far below 256 events.  A stream also carries events   *)
(* of other requests; they are left out, as no request depends on those of *)
(* another: they share the bus and nothing else.                           *)
(*                                                                         *)
(* Neither the agent nor Secrets Manager has to answer; SMClient sets no   *)
(* timeout, so only the end of the request's context makes a call that     *)
(* hangs return.  Redaction and the payloads of events are abstracted, and *)
(* the branch for an id with a slash is left out: the portal's             *)
(* shipmentIDRE lets no such id through.                                   *)
(***************************************************************************)
EXTENDS EventTypes

CONSTANT Requests   \* lookups, named after the portal request that makes them

VARIABLES
  cpc,        \* the call each lookup is waiting for
  code,       \* the status code it replied with
  granted,    \* the last grant the agent and Secrets Manager made for it
  ctxDone,    \* lookups whose request context has ended
  said,       \* history: types of the events emitted for each lookup
  tpc,        \* where the handler of its trace stream is
  feed        \* the request's events that are on their way down its stream

lookupVars == <<cpc, code, granted, ctxDone, said, tpc, feed>>

CarrierInit ==
  /\ cpc = [r \in Requests |-> "none"]
  /\ code = [r \in Requests |-> 0]
  /\ granted = [r \in Requests |-> "nothing"]
  /\ ctxDone = {}
  /\ said = [r \in Requests |-> {}]
  /\ tpc = [r \in Requests |-> "none"]
  /\ feed = [r \in Requests |-> {}]

\* The streams that are subscribed to the carrier's bus.
Listening == { r \in Requests : tpc[r] = "listening" }

\* bus.Emit: the request's stream is sent the event if it is subscribed.
Emit(r, type) ==
  /\ said' = [said EXCEPT ![r] = @ \cup {type}]
  /\ feed' = [feed EXCEPT ![r] = IF r \in Listening THEN @ \cup {type} ELSE @]

\* Announce a success, and go on to the next call.
Proceed(r, at, type, next) ==
  /\ cpc[r] = at
  /\ cpc' = [cpc EXCEPT ![r] = next]
  /\ Emit(r, type)
  /\ UNCHANGED <<code, ctxDone, tpc>>

\* Announce the outcome, reply and return.
Respond(r, at, type, c) ==
  /\ cpc[r] = at
  /\ cpc' = [cpc EXCEPT ![r] = "replied"]
  /\ code' = [code EXCEPT ![r] = c]
  /\ Emit(r, type)
  /\ UNCHANGED <<granted, ctxDone, tpc>>

\* External: the agent or Secrets Manager grants what it is asked for.
Granting(r, g) == granted' = [granted EXCEPT ![r] = g]

-----------------------------------------------------------------------------
Receive(r) == Proceed(r, "sent", "request.received", "jwt") /\ UNCHANGED granted

JwtIssued(r) == Proceed(r, "jwt", "jwt_svid.issued", "authn") /\ Granting(r, "jwt")

JwtFails(r) == Respond(r, "jwt", "jwt_svid.error", 502)

AuthnOk(r) == Proceed(r, "authn", "sm.authn_jwt.ok", "fetch") /\ Granting(r, "token")

\* No answer, a status other than 200, or an empty token.
AuthnFails(r) == Respond(r, "authn", "sm.authn_jwt.err", 502)

SecretOk(r) == Proceed(r, "fetch", "sm.secret_fetched.ok", "row") /\ Granting(r, "secret")

SecretFails(r) == Respond(r, "fetch", "sm.secret_fetched.err", 502)

\* Mutant: the check of the secret's length does not return.
SecretEmptyIgnored(r) ==
  Proceed(r, "fetch", "sm.secret_fetched.empty", "row") /\ UNCHANGED granted

\* A body of no bytes is no secret.
SecretEmpty(r) == Respond(r, "fetch", "sm.secret_fetched.empty", 502)

RowFound(r) == Respond(r, "row", "carrier.lookup.ok", 200)

RowMissing(r) == Respond(r, "row", "carrier.lookup.miss", 404)

LookupStep(r) ==
  \/ JwtIssued(r) \/ JwtFails(r)
  \/ AuthnOk(r) \/ AuthnFails(r)
  \/ SecretOk(r) \/ SecretFails(r) \/ SecretEmpty(r)
  \/ RowFound(r) \/ RowMissing(r)

\* handleTraceSSE: the header is flushed before the stream is subscribed, and it
\* is unsubscribed some time after its reader has gone.
TraceHandler(r, at, next) ==
  /\ tpc[r] = at
  /\ tpc' = [tpc EXCEPT ![r] = next]
  /\ UNCHANGED <<cpc, code, granted, ctxDone, said, feed>>

TraceServed(r) == TraceHandler(r, "none", "flushed")

Subscribed(r) == TraceHandler(r, "flushed", "listening")

Unsubscribed(r) == TraceHandler(r, "listening", "left")

\* Mutant: the calls run under context.Background().
NeverCalledOff(r) == FALSE

\* The calls run under the request's context: its end makes them return.
CalledOff(r) == r \in ctxDone

\* The handler runs on; a call returns an error once its context has ended.
LookupFairness(r) ==
  /\ WF_lookupVars(RowFound(r) \/ RowMissing(r))
  /\ WF_lookupVars(CalledOff(r) /\ (JwtFails(r) \/ AuthnFails(r) \/ SecretFails(r)))

LookupTypeOK ==
  /\ cpc \in [Requests -> {"none", "sent", "jwt", "authn", "fetch", "row", "replied"}]
  /\ code \in [Requests -> {0, 200, 404, 502}]
  /\ granted \in [Requests -> {"nothing", "jwt", "token", "secret"}]
  /\ said \in [Requests -> SUBSET CarrierTypes]
  /\ feed \in [Requests -> SUBSET CarrierTypes]
  /\ tpc \in [Requests -> {"none", "flushed", "listening", "left"}]
  /\ ctxDone \subseteq Requests
=============================================================================
