---------------------------- MODULE MCPaceQueue -----------------------------
(* The queue on its own, under every sequence of calls of its API.           *)
EXTENDS PaceQueue

Direct(t) == [type |-> t, frame |-> "", of |-> 0]
Wrapped(t) == [type |-> Raw, frame |-> t, of |-> 0]

\* One message of each kind that push tells apart.
Messages ==
  { Direct(Requested), Direct("mtls.peer_uri_seen"), Direct("mtls.handshake.err"),
    Wrapped("jwt_svid.issued"), Wrapped("sm.authn_jwt.err"), Wrapped("") }

Init == PQInit

Next == PQNext(Messages) /\ pq'.orphans <= MaxTimers

\* The browser runs every timer that is due; nothing else is promised.
Spec == Init /\ [][Next]_pqVars /\ WF_pqVars(PendingFires) /\ WF_pqVars(OrphanFires)
=============================================================================
