-------------------------- MODULE MCPortalResolve ---------------------------
(* One resolve through a portal and a carrier.  The state of one request is   *)
(* apart from that of another, so a second one would only add their product. *)
EXTENDS PortalResolve

\* All work is done: every request is answered and every stream has ended.
Finished ==
  \A r \in Requests : ppc[r] = "done" /\ spc[r] \in {"none", "failed", "ended"}
                        /\ cpc[r] \in {"none", "replied"} /\ tpc[r] \in {"none", "left"}

\* A finished request stays as it is; ending anywhere else is a deadlock.
Ending == Finished /\ UNCHANGED vars

MCSpec == Init /\ [][Next \/ Ending]_vars /\ Fairness
=============================================================================
