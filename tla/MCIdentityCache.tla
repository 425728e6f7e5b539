-------------------------- MODULE MCIdentityCache ---------------------------
(* Three readers, a rotation, and a clock that outlives two cache entries.   *)
EXTENDS IdentityCache

\* The run is bounded, so it may end; ending anywhere else is a deadlock.
Ending ==
  /\ \A c \in Readers : rpc[c] = "done"
  /\ now = MaxTime /\ svid = MaxSVIDs
  /\ UNCHANGED vars

MCSpec == Init /\ [][Next \/ Ending]_vars /\ Fairness
=============================================================================
