------------------------------ MODULE Lifecycle ------------------------------
(***************************************************************************)
(* run of apps/portal/main.go and apps/carrier/main.go: a process that     *)
(* obtains its SVID, serves until it is signalled, and is started again by *)
(* Kubernetes when it ends.  The carrier serves the trace stream with a    *)
(* second server, started by a goroutine; the portal has none.             *)
(*                                                                         *)
(* Another goroutine waits for the signal and shuts the servers down, each *)
(* Shutdown closing the listener at once and then waiting for the requests *)
(* of that server, all within five seconds.  Nobody waits for it: run      *)
(* returns as soon as its own server does, and the process ends with what  *)
(* is still being served.                                                  *)
(***************************************************************************)
EXTENDS Integers, FiniteSets

CONSTANTS
  Sides,     \* {"trace"} for the carrier, {} for the portal
  Requests,  \* requests that clients make
  MaxStarts  \* bound: how often Kubernetes starts the process

ASSUME LifecycleAssumption == Sides \subseteq {"trace"} /\ MaxStarts \in Nat \ {0}

Servers == {"api"} \cup Sides

VARIABLES
  phase,     \* where run is
  code,      \* what the process will exit, or has exited, with
  signalled, \* the context of NotifyContext is done
  listener,  \* per server: "new", "open", "failed" or "shut"
  stopper,   \* the shutdown goroutine: "waiting", the server it drains, or "done"
  late,      \* its five seconds are over
  req,       \* per request: "none", the server at work on it, "answered" or "cut"
  starts

vars == <<phase, code, signalled, listener, stopper, late, req, starts>>

Phases == {"starting", "binding", "serving", "returned", "exited"}

Unbound == [s \in Servers |-> "new"]

Init ==
  /\ phase = "starting" /\ code = 0 /\ signalled = FALSE
  /\ listener = Unbound
  /\ stopper = "waiting" /\ late = FALSE
  /\ req = [r \in Requests |-> "none"]
  /\ starts = 1

Active(s) == { r \in Requests : req[r] = s }

-----------------------------------------------------------------------------
(* The main goroutine.                                                      *)

\* The SVID has arrived; the goroutines are started.
Obtain ==
  /\ phase = "starting"
  /\ phase' = "binding"
  /\ UNCHANGED <<code, signalled, listener, stopper, late, req, starts>>

Return(c) == phase' = "returned" /\ code' = c

\* The agent is unusable, or the signal came before the SVID.
ObtainFails ==
  /\ phase = "starting"
  /\ Return(1)
  /\ UNCHANGED <<signalled, listener, stopper, late, req, starts>>

\* The listener of run's own server; Shutdown may have come first.
Bind ==
  /\ phase = "binding" /\ listener["api"] = "new"
  /\ phase' = "serving"
  /\ listener' = [listener EXCEPT !["api"] = "open"]
  /\ UNCHANGED <<code, signalled, stopper, late, req, starts>>

\* Mutant: the error of a port in use is taken for the end of the server.
BindFailsQuietly ==
  /\ phase = "binding" /\ listener["api"] = "new"
  /\ Return(0)
  /\ UNCHANGED <<signalled, listener, stopper, late, req, starts>>

\* The port is in use.
BindFails ==
  /\ phase = "binding" /\ listener["api"] = "new"
  /\ Return(1)
  /\ UNCHANGED <<signalled, listener, stopper, late, req, starts>>

\* Serving ends with an error of its own: the listener is gone, Shutdown has not come.
AcceptFails ==
  /\ phase = "serving" /\ listener["api"] = "open"
  /\ Return(1)
  /\ listener' = [listener EXCEPT !["api"] = "failed"]
  /\ UNCHANGED <<signalled, stopper, late, req, starts>>

\* Mutant: run waits for the requests it is serving.
ServeReturnsDrained ==
  /\ phase \in {"binding", "serving"} /\ listener["api"] = "shut" /\ Active("api") = {}
  /\ Return(0)
  /\ UNCHANGED <<signalled, listener, stopper, late, req, starts>>

\* ErrServerClosed: whatever Shutdown is still waiting for, run is over.
ServeReturns ==
  /\ phase \in {"binding", "serving"} /\ listener["api"] = "shut"
  /\ Return(0)
  /\ UNCHANGED <<signalled, listener, stopper, late, req, starts>>

\* The deferred calls, and the end of the process: its requests are cut.
Exit ==
  /\ phase = "returned"
  /\ phase' = "exited"
  /\ req' = [r \in Requests |-> IF req[r] \in Servers THEN "cut" ELSE req[r]]
  /\ listener' = [s \in Servers |-> "shut"]
  /\ UNCHANGED <<code, signalled, stopper, late, starts>>

-----------------------------------------------------------------------------
(* The other goroutines.                                                    *)

Forked == phase \in {"binding", "serving", "returned"}

\* The goroutine of the trace server: an error, of its listener or later, is
\* logged and ends only it.
BindSide(s, how) ==
  /\ Forked
  /\ listener[s] = "new" \/ (listener[s] = "open" /\ how = "failed")
  /\ listener' = [listener EXCEPT ![s] = how]
  /\ UNCHANGED <<phase, code, signalled, stopper, late, req, starts>>

\* Mutant: the trace server is shut down first.
ShutBegins ==
  /\ Forked /\ stopper = "waiting" /\ signalled
  /\ stopper' = "api"
  /\ listener' = [s \in Servers |-> "shut"]
  /\ UNCHANGED <<phase, code, signalled, late, req, starts>>

\* The signal reaches the goroutine: Shutdown closes the listener.
StopBegins ==
  /\ Forked /\ stopper = "waiting" /\ signalled
  /\ stopper' = "api"
  /\ listener' = [listener EXCEPT !["api"] = "shut"]
  /\ UNCHANGED <<phase, code, signalled, late, req, starts>>

\* Shutdown returns, drained or too late; the next server follows.
StopNext ==
  /\ Forked /\ stopper \in Servers
  /\ Active(stopper) = {} \/ late
  /\ IF stopper = "api" /\ Sides # {}
     THEN /\ stopper' = "trace"
          /\ listener' = [listener EXCEPT !["trace"] = "shut"]
     ELSE stopper' = "done" /\ UNCHANGED listener
  /\ UNCHANGED <<phase, code, signalled, late, req, starts>>

DeadlinePasses ==
  /\ Forked /\ stopper \in Servers /\ ~late
  /\ late' = TRUE
  /\ UNCHANGED <<phase, code, signalled, listener, stopper, req, starts>>

-----------------------------------------------------------------------------
(* External: clients, the kubelet and its signal.                           *)

Accept(r, s) ==
  /\ Forked /\ listener[s] = "open" /\ req[r] = "none"
  /\ req' = [req EXCEPT ![r] = s]
  /\ UNCHANGED <<phase, code, signalled, listener, stopper, late, starts>>

\* A stream of the trace server ends when its client leaves.
Answer(r) ==
  /\ Forked /\ req[r] \in Servers
  /\ req' = [req EXCEPT ![r] = "answered"]
  /\ UNCHANGED <<phase, code, signalled, listener, stopper, late, starts>>

\* A second signal changes nothing.
Signal ==
  /\ phase # "exited" /\ ~signalled
  /\ signalled' = TRUE
  /\ UNCHANGED <<phase, code, listener, stopper, late, req, starts>>

Restart ==
  /\ phase = "exited" /\ starts < MaxStarts
  /\ starts' = starts + 1
  /\ phase' = "starting" /\ code' = 0 /\ signalled' = FALSE
  /\ listener' = Unbound
  /\ stopper' = "waiting" /\ late' = FALSE
  /\ UNCHANGED req

MainStep == Obtain \/ ObtainFails \/ Bind \/ BindFails \/ ServeReturns \/ Exit

Next ==
  \/ MainStep \/ AcceptFails
  \/ StopBegins \/ StopNext \/ DeadlinePasses
  \/ \E s \in Sides, how \in {"open", "failed"} : BindSide(s, how)
  \/ \E r \in Requests : Answer(r) \/ \E s \in Servers : Accept(r, s)
  \/ Signal \/ Restart

\* Goroutines run and the context's end is seen.  No request is promised to end,
\* and while nobody has signalled, the SVID may never come.
Fairness ==
  /\ WF_vars(signalled /\ MainStep)
  /\ WF_vars(StopBegins) /\ WF_vars(StopNext) /\ WF_vars(DeadlinePasses)

Spec == Init /\ [][Next]_vars

FairSpec == Spec /\ Fairness

-----------------------------------------------------------------------------
\* Every variable keeps its type.
TypeOK ==
  /\ phase \in Phases /\ code \in {0, 1} /\ signalled \in BOOLEAN
  /\ listener \in [Servers -> {"new", "open", "failed", "shut"}]
  /\ stopper \in {"waiting", "done"} \cup Servers /\ late \in BOOLEAN
  /\ req \in [Requests -> {"none", "answered", "cut"} \cup Servers]
  /\ starts \in 1 .. MaxStarts

\* A process that ends with code 0 was asked to: a failure to start is never
\* taken for a completed run (main.go:25-29 of the portal).
CleanExitIsAsked == (phase \in {"returned", "exited"} /\ code = 0) => signalled

\* As long as the carrier drains its lookups, their trace is still served: the
\* trace server is shut down only after them, or when the five seconds are over
\* (carrier main.go:124-125), or with the process.
TraceOutlivesLookups ==
  (phase # "exited" /\ Sides # {} /\ listener["trace"] = "shut")
    => (Active("api") = {} \/ late)

\* A process that is asked to stop does so, even when a request or a stream it
\* serves never ends and the agent never sends an SVID.
StopsWhenAsked == (signalled /\ phase # "exited") ~> phase = "exited"
=============================================================================
