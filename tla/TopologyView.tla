---------------------------- MODULE TopologyView ----------------------------
(***************************************************************************)
(* visualizations/TopologyInspector.tsx: two workloads under a bracket for *)
(* mutual TLS, and below them a chain of cards joined by connectors.  The  *)
(* state of the bracket, of each card and of each connector is computed    *)
(* apart from the others.                                                  *)
(***************************************************************************)
EXTENDS InspectorProps

\* Mutant: an error locks only the cards behind the one it is shown at.
CardStateLate(u, k) ==
  IF Errored(u) /\ k > 2 THEN "locked"
  ELSE IF u.completed > k THEN "done"
  ELSE IF u.stage = k THEN "active" ELSE "locked"

\* cardState with failStage 2, for the cards behind the handshake.
CardState(u, k) ==
  IF Errored(u) /\ k >= 2 THEN "locked"
  ELSE IF u.completed > k THEN "done"
  ELSE IF u.stage = k THEN "active" ELSE "locked"

\* A card is green when it is done, unless it is drawn as a danger.
NodeCard(state, danger, tag) ==
  [state |-> state, tag |-> tag,
   frame |-> IF danger THEN "danger" ELSE IF state = "locked" THEN "plain" ELSE "lit",
   green |-> state = "done" /\ ~danger]

\* A connector: filled, carrying a pulse, with an arrow.
VLink(state) ==
  [filled |-> state = "done", pulse |-> state = "active", arrow |-> state # "locked"]

\* linkJwt, linkAuthn and linkFetch: the connector above card k.
Link(u, k) ==
  VLink(IF Errored(u) THEN "locked"
        ELSE IF u.completed > k THEN "done"
        ELSE IF u.stage = k THEN "active" ELSE "locked")

\* mtlsState.
MtlsState(u) ==
  IF Errored(u) THEN "rejected"
  ELSE IF u.completed > 1 THEN "done"
  ELSE IF u.stage = 1 THEN "active" ELSE "locked"

\* The bracket's label, green for an accepted handshake and red for a rejected one.
Bracket(u) ==
  LET s == MtlsState(u) IN
  [state |-> s, dashed |-> s = "rejected",
   says |-> CASE s = "rejected" -> {"peer rejected"} [] s = "done" -> {Claim[1]} [] OTHER -> {}]

\* The connector between the two workloads.
HLink(u) == [VLink(MtlsState(u)) EXCEPT !.arrow = FALSE]

\* The certificates of the workloads are shown with their validity.
Issued(u) == u.completed > 0 \/ u.stage = 0

\* The cards of the two workloads do not look at the status.
WorkloadState(u) ==
  IF u.completed > 0 THEN "done" ELSE IF u.stage = 0 THEN "active" ELSE "locked"

PortalCard(u) == NodeCard(WorkloadState(u), FALSE, "X.509-SVID")

CarrierCard(u, c) ==
  NodeCard(WorkloadState(u), c = "external",
           IF c = "external" THEN "Foreign TD" ELSE "X.509-SVID")

\* Claims and countdown of the JWT-SVID are on the card only once it is done.
JwtCard(u, c) ==
  LET s == CardState(u, 2) IN
  NodeCard(s, FALSE, IF s = "done" THEN Claim[2] ELSE IF c = "external" THEN "-" ELSE "on resolve")

SmCard(u) ==
  LET s == CardState(u, 3) IN NodeCard(s, FALSE, IF s = "done" THEN Claim[3] ELSE "")

SecretCard(u) ==
  LET s == CardState(u, 4) IN NodeCard(s, FALSE, IF s = "done" THEN Claim[4] ELSE "")

\* The bands below the chain: the trust boundary, and the manifest's return.
Bands(u) ==
  (IF Errored(u) THEN {"peer rejected"} ELSE {}) \cup
  (IF u.status = "done" THEN {Claim[5]} ELSE {})

\* What the diagram says was passed or refused.
TopologySays(u, c) ==
  (IF Issued(u) THEN {Claim[0]} ELSE {}) \cup Bracket(u).says \cup Bands(u) \cup
  { card.tag : card \in { k \in {JwtCard(u, c), SmCard(u), SecretCard(u)} : k.green } }

\* What the diagram draws for gate i.
Topology(u, c, i) ==
  CASE i = 0 -> PortalCard(u).state
    [] i = 1 -> Bracket(u).state
    [] i = 2 -> JwtCard(u, c).state
    [] i = 3 -> SmCard(u).state
    [] i = 4 -> SecretCard(u).state

\* Each connector agrees with what it leads to.
LinksAgree(u, c) ==
  /\ \A k \in 2 .. 4 :
       Link(u, k) = VLink(Topology(u, c, k))
  /\ HLink(u).filled <=> Bracket(u).says = {Claim[1]}
  /\ CarrierCard(u, c).state = PortalCard(u).state
=============================================================================
