-------------------------- MODULE MCResolveEngine ---------------------------
(* Two resolves, of one page or of two, with every ending, any interleaving  *)
(* of answers, messages, timers, renders and user actions, and a lost event. *)
EXTENDS InspectorViews

\* Bounds: a replay can lose one timer per resolve that is pushed; a second
\* resolve or a lost event, not both; when the second starts, at most MaxLeft
\* messages of the first are still under way, and their endings are a pair of Pairs.
MaxLeft == 1
Pairs == { <<"granted", "unissued">>, <<"denied", "foreign">>, <<"foreign", "denied">> }
Underway == FoldFunction(LAMBDA t, n : n + Len(t.direct) + Len(t.relayed), 0, trail)

MCNext ==
  /\ Next
  /\ pq'.orphans <= MaxTimers
  /\ runs' + lost' <= MaxRuns
  /\ (runs' # runs /\ runs > 0) => (Underway <= MaxLeft /\ ending' \in Pairs)

\* The callbacks of the last action are consumed in the action that makes them,
\* and the position of an event is only history.
View ==
  << [pq EXCEPT !.calls = << >>,
                !.queue = [i \in DOMAIN @ |-> <<@[i].type, @[i].of>>]], pace, engineVars >>

\* Nor does any step depend on whose JWT-SVID is counted down.
ViewNoTtl ==
  << View[1], pace, [ui EXCEPT !.ttlOf = 0], shown, carrier, started, trail, inFlight, lost, history >>

MCSpec == Init /\ [][MCNext]_vars

\* The runs that show a disagreement follow one resolve of a given ending.
Ending(e) == Range(ending') \subseteq {"none", e}
GrantedSpec == Init /\ [][MCNext /\ Ending("granted")]_vars
DeniedSpec == Init /\ [][MCNext /\ Ending("denied")]_vars
=============================================================================
