----------------------------- MODULE ResolveSpec -----------------------------
(***************************************************************************)
(* What POST /resolve promises, whichever processes carry it out: a        *)
(* request is answered once, and a shipment, or the news that there is no  *)
(* such shipment, is only handed out for an internal request whose         *)
(* workload was issued a JWT-SVID, exchanged it for a token and fetched    *)
(* the secret, in that order.  The external carrier and a malformed        *)
(* shipment id never reach any of the three.                               *)
(***************************************************************************)
EXTENDS Integers

CONSTANT Requests

VARIABLES
  asked,    \* what each request asks for, "none" before it arrives
  granted,  \* the last of the three grants made for it
  answer    \* the status code it was answered with, 0 before that

vars == <<asked, granted, answer>>

Kinds == {"get", "garbage", "badid", "internal", "external"}
Grants == {"nothing", "jwt", "token", "secret"}

\* The grant that each grant presupposes.
Before == [g \in Grants \ {"nothing"} |->
             CASE g = "jwt" -> "nothing" [] g = "token" -> "jwt" [] g = "secret" -> "token"]

\* The codes that a request may be answered with, given its kind and grants.
Allowed(k, g) ==
  CASE k = "get"     -> {405}
    [] k = "garbage" -> {400}
    [] k = "internal" /\ g = "secret" -> {200, 404, 502}
    [] OTHER -> {502}

Init ==
  /\ asked = [r \in Requests |-> "none"]
  /\ granted = [r \in Requests |-> "nothing"]
  /\ answer = [r \in Requests |-> 0]

\* A request arrives; one that is not a resolve is answered at once.
Ask(r, k) ==
  /\ asked[r] = "none"
  /\ asked' = [asked EXCEPT ![r] = k]
  /\ answer' = [answer EXCEPT ![r] =
                  CASE k = "get" -> 405 [] k = "garbage" -> 400 [] OTHER -> 0]
  /\ UNCHANGED granted

Grant(r, g) ==
  /\ asked[r] = "internal"
  /\ granted[r] = Before[g]
  /\ granted' = [granted EXCEPT ![r] = g]
  /\ UNCHANGED <<asked, answer>>

Answer(r, c) ==
  /\ asked[r] # "none"
  /\ answer[r] = 0
  /\ c \in Allowed(asked[r], granted[r])
  /\ answer' = [answer EXCEPT ![r] = c]
  /\ UNCHANGED <<asked, granted>>

Next ==
  \E r \in Requests :
    \/ \E k \in Kinds : Ask(r, k)
    \/ \E g \in Grants \ {"nothing"} : Grant(r, g)
    \/ \E c \in {200, 404, 502} : Answer(r, c)

Spec == Init /\ [][Next]_vars
=============================================================================
