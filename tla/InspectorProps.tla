--------------------------- MODULE InspectorProps ---------------------------
(***************************************************************************)
(* What the three views of the inspector share (visualizations/common.tsx):*)
(* the props they are drawn from, here the engine's record u, and what a   *)
(* viewer is told.  Colours, texts and layout are left out; a text that    *)
(* says that a gate of the exchange was passed is kept as that claim.      *)
(***************************************************************************)
EXTENDS Integers, FiniteSets

\* The gates between a request and the secret: 0 node attestation, 1 mutual
\* TLS, 2 JWT-SVID, 3 access token, 4 secret; 5 is the answer itself.
Gates == 0 .. 4
Claim == [g \in 0 .. 5 |->
  CASE g = 0 -> "attested" [] g = 1 -> "peer verified" [] g = 2 -> "JWT-SVID issued"
    [] g = 3 -> "token granted" [] g = 4 -> "secret returned" [] g = 5 -> "delivered"]

\* What the views say of a failure.
Refusals == {"peer rejected", "nothing issued"}

Errored(u) == u.status = "error"
=============================================================================
