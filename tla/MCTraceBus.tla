----------------------------- MODULE MCTraceBus -----------------------------
(* A small instance of TraceBus for TLC.                                     *)
EXTENDS TraceBus

\* All work is done: every emitter is idle and no more calls are allowed.
Finished ==
  /\ Calls = MaxEmits
  /\ \A e \in Emitters : epc[e] = "idle"
  /\ \A c \in Clients : hpc[c] = "done"

\* The run is bounded, so it may end; ending anywhere else is a deadlock.
Ending == Finished /\ UNCHANGED vars

MCNext == Next \/ Ending

MCSpec == Init /\ [][MCNext]_vars /\ Fairness
=============================================================================
