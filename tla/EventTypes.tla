----------------------------- MODULE EventTypes -----------------------------
(***************************************************************************)
(* The types of the trace events that the carrier, the portal and the      *)
(* browser exchange, and how the browser reads them                        *)
(* (ui-src/src/engine/stageMap.ts, and isErr of paceQueue.ts).             *)
(***************************************************************************)
EXTENDS Integers

Requested == "portal.resolve.requested"

\* What the portal emits, in handleResolve, the two clients and the relay.
PortalTypes ==
  { Requested, "portal.resolve.error", "portal.resolve.rejected",
    "mtls.handshake.start", "mtls.handshake.ok", "mtls.handshake.err",
    "mtls.handshake.unexpected_ok", "mtls.peer_uri_seen",
    "carrier.trace.unreachable" }

\* Emitted by the carrier.
CarrierTypes ==
  { "request.received", "jwt_svid.issued", "jwt_svid.error",
    "sm.authn_jwt.ok", "sm.authn_jwt.err",
    "sm.secret_fetched.ok", "sm.secret_fetched.err", "sm.secret_fetched.empty",
    "carrier.lookup.ok", "carrier.lookup.miss" }

\* The envelope in which the portal forwards a frame of the carrier's stream.
Raw == "carrier.event.raw"

Types == PortalTypes \cup CarrierTypes \cup {Raw}

\* The suffixes .err, .error and .empty end a resolve.
ErrTypes ==
  { "portal.resolve.error", "mtls.handshake.err", "jwt_svid.error",
    "sm.authn_jwt.err", "sm.secret_fetched.err", "sm.secret_fetched.empty" }

IsErr(t) == t \in ErrTypes

\* Mutant: the JWT-SVID does not count as a stage of its own.
EventToStageNoJwt(t) ==
  CASE t = Requested -> 0
    [] t \in {"mtls.handshake.start", "mtls.peer_uri_seen",
              "mtls.handshake.ok", "mtls.handshake.err"} -> 1
    [] t = "jwt_svid.issued" -> 6
    [] t = "sm.authn_jwt.ok" -> 3
    [] t = "sm.secret_fetched.ok" -> 4
    [] OTHER -> -1

\* The stage an event belongs to, -1 when it belongs to none.  The names
\* portal.resolve.ok and mtls.handshake.error of the switch, which neither portal
\* nor carrier emits, are not among Types.
EventToStage(t) ==
  CASE t = Requested -> 0
    [] t \in {"mtls.handshake.start", "mtls.peer_uri_seen",
              "mtls.handshake.ok", "mtls.handshake.err"} -> 1
    [] t = "jwt_svid.issued" -> 2
    [] t = "sm.authn_jwt.ok" -> 3
    [] t = "sm.secret_fetched.ok" -> 4
    [] OTHER -> -1
=============================================================================
