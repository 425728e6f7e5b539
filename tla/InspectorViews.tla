--------------------------- MODULE InspectorViews ---------------------------
(***************************************************************************)
(* What the page shows of a resolve: the result region and footer          *)
(* (PageView) and the three views of the inspector (TopologyView,          *)
(* LayersView, TraceView), each written by hand from status, stage and     *)
(* completed, composed with the engine that sets them.  A view is          *)
(* evaluated on ui, which is what the next render will draw.               *)
(***************************************************************************)
EXTENDS ResolveEngine, TopologyView, LayersView, TraceView

\* What the page tells its user, whichever view is selected.
Says(u, c) == TopologySays(u, c) \cup LayersSay(u) \cup TraceSays(u, c) \cup PageSays(u)

\* The gates that a resolve with this ending has passed: how far the carrier's
\* handler came before it returned, and whether the handshake with it succeeded.
Facts(e) ==
  { Claim[g] : g \in CASE e = "granted" -> 0 .. 5
                       [] e = "missing" -> 0 .. 4
                       [] e \in {"empty", "unfetched", "fetch hung"} -> 0 .. 3
                       [] e \in {"denied", "authn hung"} -> 0 .. 2
                       [] e \in {"unissued", "agent hung"} -> 0 .. 1
                       [] OTHER -> {0} }

\* The states of a gate under the names the two diagrams use for them.
SameGate(layer, card) ==
  \/ layer = card
  \/ layer = "passed" /\ card = "done"

\* Switching views never changes the story: Topology and Layers give every gate
\* the same state, errors included; Trace reports the answer of a gate exactly
\* when they show it as passed (TraceInspector.tsx:40-43), a failed resolve left
\* out, whose log keeps what was revealed before; and within each view the
\* connectors, rail, strip and panes, all computed apart, agree with its gates.
ViewsAgree ==
  /\ \A i \in Gates :
       /\ SameGate(Layer(ui, i), Topology(ui, carrier, i))
       /\ (~Errored(ui) /\ carrier = "internal")
            => (i \in TracePassed(ui, carrier) <=> Layer(ui, i) = "passed")
  /\ LinksAgree(ui, carrier) /\ RailAgrees(ui) /\ StripAgrees(ui) /\ PanesAgree(ui)

\* The page says that the secret was returned, in any view, or shows a manifest
\* only when the portal answered 2xx since the last reset; and a resolve shown as
\* done always has a manifest to show (PortalPane.tsx:326).  The text of a layer
\* that is still "verifying" is left to ClaimsBacked.
SecretNeedsAnswer ==
  /\ Says(ui, carrier) \cap {Claim[4], Claim[5]} # {} \/ NodeLit(ui, "secret")
       => (ui.result # 0 /\ AnswersOk(ending[ui.result]))
  /\ PortalShows(ui) # "nothing"

\* Whatever the page claims of a resolve was so: no view says that a gate was
\* passed that this resolve did not pass, and a foreign carrier never gets past
\* the door (docs/under-the-hood.md:350-351), unless the user reset the page or
\* events of another resolve were under way.  The text that a layer shows while
\* it is "verifying" is true as well, but for that of mutual TLS, which is shown
\* from mtls.handshake.start on, a foreign carrier's included.
ClaimsBacked ==
  alone => (Says(ui, carrier) \ Refusals) \cup (LayersVerifying(ui) \ {Claim[1]})
             \subseteq Facts(ending[current])
=============================================================================
