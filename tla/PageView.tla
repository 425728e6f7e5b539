------------------------------ MODULE PageView ------------------------------
(***************************************************************************)
(* The rest of the page: the form and the result region of PortalPane.tsx  *)
(* with its evidence (Evidence.tsx), and the footer of InspectorChrome.tsx.*)
(***************************************************************************)
EXTENDS InspectorProps

\* stageVerb (stageMap.ts): the label of the button while a resolve runs.
StageVerb(stage) == IF stage \in 0 .. 5 THEN Claim[stage] ELSE "resolving"

\* The form: input and carrier control are disabled while busy, and so is the
\* button, which shows the stage.
Busy(status) == status = "running"

Form(u) ==
  [enabled |-> ~Busy(u.status),
   label   |-> CASE Busy(u.status) -> StageVerb(u.stage)
                 [] u.status \in {"done", "error"} -> "again" [] OTHER -> "resolve"]

\* The result region.
PortalShows(u) ==
  CASE u.status = "idle" -> "hint"
    [] u.status = "running" -> "working"
    [] u.status = "done" /\ u.result # 0 -> "manifest"
    [] Errored(u) -> "error"
    [] OTHER -> "nothing"

\* Evidence: the same text for every manifest, and the same for every error.
Evidence(kind) ==
  IF kind = "error" THEN Refusals ELSE {Claim[1], Claim[4], Claim[5]}

EvidenceShown(u) ==
  CASE PortalShows(u) = "manifest" -> Evidence("success")
    [] PortalShows(u) = "error" -> Evidence("error")
    [] OTHER -> {}

\* The footer's text takes whatever is not idle, running or done for a rejection.
Phase(u) ==
  CASE u.status = "idle" -> "ready"
    [] u.status = "running" -> "resolving"
    [] u.status = "done" -> "delivered"
    [] OTHER -> "rejected"

\* Its icon has a case for each status.
PhaseIcon(u) ==
  CASE u.status = "idle" -> "circle"
    [] u.status = "running" -> "spinner"
    [] u.status = "done" -> "shield"
    [] u.status = "error" -> "alert"

\* The Reset button of the footer.
ResetShown(u) == u.status # "idle"

PageSays(u) ==
  EvidenceShown(u) \cup
  (CASE Phase(u) = "delivered" -> {Claim[5]} [] Phase(u) = "rejected" -> {"peer rejected"}
     [] OTHER -> {})

\* The two panes tell one story: form, result region, footer text and icon.
PanesAgree(u) ==
  /\ Form(u).enabled <=> Phase(u) # "resolving"
  /\ PortalShows(u) = "manifest" <=> Phase(u) = "delivered"
  /\ PortalShows(u) = "error" <=> Phase(u) = "rejected"
  /\ PhaseIcon(u) = "spinner" <=> ~Form(u).enabled
  /\ Form(u).label = "again" => ResetShown(u)
=============================================================================
