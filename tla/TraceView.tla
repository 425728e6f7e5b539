------------------------------ MODULE TraceView ------------------------------
(***************************************************************************)
(* visualizations/TraceInspector.tsx: a fixed log revealed line by line,   *)
(* never the events themselves, a strip of the participants above it and a *)
(* footer below.                                                           *)
(***************************************************************************)
EXTENDS InspectorProps

\* buildEvents: a request and an answer per stage; the log of a foreign carrier
\* ends with the rejected handshake.
TraceLines(c) ==
  IF c = "external"
  THEN [s : {0}, k : {"req", "res"}, err : {FALSE}] \cup
       {[s |-> 1, k |-> "req", err |-> FALSE], [s |-> 1, k |-> "res", err |-> TRUE]}
  ELSE [s : 0 .. 5, k : {"req", "res"}, err : {FALSE}]

\* The lines revealed so far.
TraceVisible(u, c) ==
  { e \in TraceLines(c) :
      IF e.k = "req" THEN e.s <= u.completed \/ u.stage >= e.s
      ELSE (Errored(u) /\ e.err) \/ u.completed > e.s }

\* What a row of the log tells: an answer, ticked unless it is the rejection.
TraceRow(e) ==
  IF e.k = "req" THEN "" ELSE IF e.err THEN "peer rejected" ELSE Claim[e.s]

\* The row below the log while a resolve runs: the stage at work.
CursorRow(u) ==
  IF u.status # "running" THEN "none" ELSE IF u.stage >= 0 THEN "stage" ELSE "wait"

\* The participants of the strip, in its order.
TraceNodes == <<"portal", "carrier", "agent", "sm", "secret">>

\* nodeLit, and the status the strip asks for as well.
NodeLit(u, n) ==
  /\ u.status # "idle"
  /\ CASE n \in {"portal", "carrier"} -> u.completed > 0 \/ u.stage >= 0
       [] n = "agent"  -> u.completed > 2
       [] n = "sm"     -> u.completed > 3
       [] n = "secret" -> u.completed > 4

\* The participant that is shown at work.
ActiveNode(u) ==
  IF Errored(u) THEN "carrier"
  ELSE CASE u.stage \in {0, 1} -> "carrier"
         [] u.stage = 2 -> "agent"
         [] u.stage \in {3, 4} -> "sm"
         [] u.stage = 5 -> "portal"
         [] OTHER -> "none"

\* A participant's box, and the line that leads to it from the one before.
StripNode(u, n) ==
  [frame |-> IF Errored(u) /\ n = "carrier" THEN "danger" ELSE IF ActiveNode(u) = n THEN "active"
             ELSE IF NodeLit(u, n) THEN "lit" ELSE "plain",
   line  |-> n # "portal" /\ NodeLit(u, n)]

\* The footers: the countdown of the JWT-SVID, or what did not happen.
TokenFoot(u) == IF u.status = "done" THEN {Claim[2]} ELSE {}
ErrorFoot(u) == IF Errored(u) THEN {"peer rejected", "nothing issued"} ELSE {}

\* The gates a revealed answer says were passed.
TracePassed(u, c) ==
  { i \in Gates : Claim[i] \in { TraceRow(e) : e \in TraceVisible(u, c) } }

\* What the view says was passed or refused.
TraceSays(u, c) ==
  ({ TraceRow(e) : e \in TraceVisible(u, c) } \ {""}) \cup TokenFoot(u) \cup ErrorFoot(u)

\* The strip lights up from the left without gaps, and a line is drawn between
\* two participants only when both are lit.
StripAgrees(u) ==
  \A i \in 2 .. 5 :
    StripNode(u, TraceNodes[i]).line =>
      /\ NodeLit(u, TraceNodes[i - 1])
      /\ StripNode(u, TraceNodes[i]).frame # "plain"
=============================================================================
