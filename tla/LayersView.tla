----------------------------- MODULE LayersView -----------------------------
(***************************************************************************)
(* visualizations/LayersInspector.tsx: the five gates as layers that light *)
(* up one by one, a rail beside them and a headline above.                 *)
(***************************************************************************)
EXTENDS InspectorProps

\* Mutant: the gate a resolve stands at counts as passed.
LayerEager(u, i) ==
  IF Errored(u) /\ i = 1 THEN "rejected"
  ELSE IF Errored(u) /\ i > 1 THEN "locked"
  ELSE IF u.completed >= i THEN "passed" ELSE "locked"

\* stateFor: the state of layer i.
Layer(u, i) ==
  IF Errored(u) /\ i = 1 THEN "rejected"
  ELSE IF Errored(u) /\ i > 1 THEN "locked"
  ELSE IF u.completed > i THEN "passed"
  ELSE IF u.stage = i THEN "active" ELSE "locked"

\* LAYERS: what layer i says once it is passed.
LayerText(i) == Claim[i]

\* The bars at the right of a layer.
Curtain(state) ==
  [lit |-> state \in {"passed", "active"}, red |-> state = "rejected",
   shimmer |-> state = "active"]

\* A layer's row: the word beside its name, what it says (an active layer says
\* the same under the word "verifying"), and the countdown of the JWT-SVID.
LayerRow(u, i) ==
  LET s == Layer(u, i) IN
  [word  |-> CASE s = "rejected" -> "rejected" [] s = "passed" -> "cleared"
               [] s = "active" -> "verifying" [] OTHER -> "waiting",
   says  |-> CASE s = "rejected" -> "peer rejected"
               [] s \in {"passed", "active"} -> LayerText(i) [] OTHER -> "",
   meter |-> i = 2 /\ s = "passed",
   bars  |-> Curtain(s)]

\* How far down the rail is filled, and where its dot stands while it is shown.
PassedCount(u) == IF Errored(u) THEN 1 ELSE IF u.completed < 5 THEN u.completed ELSE 5

DotPos(u) ==
  IF Errored(u) THEN 1
  ELSE IF u.stage >= 0 THEN u.stage
  ELSE IF u.status = "done" THEN 5 ELSE 0

Headline(u) ==
  CASE u.status = "idle" -> "five gates"
    [] Errored(u) -> "stopped at the trust boundary"
    [] u.status = "done" -> "every gate cleared"
    [] OTHER -> "descending"

\* The band below a failed resolve.
Boundary(u) == IF Errored(u) THEN {"nothing issued"} ELSE {}

\* What the view says was passed or refused.
LayersSay(u) ==
  { LayerRow(u, i).says : i \in { j \in Gates : LayerRow(u, j).word \in {"cleared", "rejected"} } }
    \cup Boundary(u)
    \cup (IF Headline(u) = "every gate cleared" THEN { Claim[g] : g \in Gates } ELSE {})

\* What it says under the word "verifying".
LayersVerifying(u) ==
  { LayerRow(u, i).says : i \in { j \in Gates : LayerRow(u, j).word = "verifying" } }

\* The rail is filled down to the last layer passed, and its dot stands at the
\* layer at work.
RailAgrees(u) ==
  ~Errored(u) =>
    /\ PassedCount(u) = Cardinality({ i \in Gates : Layer(u, i) = "passed" })
    /\ \A i \in Gates : LayerRow(u, i).bars.shimmer => DotPos(u) = i
=============================================================================
