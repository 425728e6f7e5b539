---------------------------- MODULE MCLifecycle -----------------------------
(* A carrier that is started twice, and requests of either server.           *)
EXTENDS Lifecycle

\* The last process has ended and Kubernetes starts no other.
Ending == phase = "exited" /\ starts = MaxStarts /\ UNCHANGED vars

MCSpec == Init /\ [][Next \/ Ending]_vars /\ Fairness
=============================================================================
