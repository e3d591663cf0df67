--------------------------- MODULE VerifierPromise ---------------------------
(***************************************************************************)
(* What the control plane counts on when it asks the release verifier: an  *)
(* attestation answers the request it was made for, and a request is       *)
(* evaluated once, because the evaluation drives a real page and may       *)
(* change it.  The promise ends with the disk: once the verifier's replay  *)
(* file has lost a key it had admitted, a request may be evaluated again.  *)
(***************************************************************************)
EXTENDS Integers

CONSTANTS
    Requests,        \* signed requests of the control plane
    Identity,        \* those that ask for the verifier's identity
    MaxDeliveries    \* bound: times one request is evaluated

VARIABLES
    asked,       \* requests sent to the verifier
    evaluated,   \* how often each was evaluated
    attested,    \* the attestations that came back
    broken       \* the replay file lost a key

promiseVars == <<asked, evaluated, attested, broken>>

-----------------------------------------------------------------------------
Reports == {"passed", "failed"}
Replies == [request : Requests, id : 1 .. MaxDeliveries, report : Reports]

PromiseInit ==
    /\ asked = {}
    /\ evaluated = [r \in Requests |-> 0]
    /\ attested = {}
    /\ broken = FALSE

Ask(r) ==
    /\ asked' = asked \cup {r}
    /\ UNCHANGED <<evaluated, attested, broken>>

\* The bytes may be lost in the very step that evaluates a request.
Evaluate(r) ==
    /\ r \in asked
    /\ evaluated[r] < MaxDeliveries
    /\ evaluated[r] = 0 \/ broken
    /\ evaluated' = [evaluated EXCEPT ![r] = @ + 1]
    /\ broken' \in {broken, TRUE}
    /\ UNCHANGED <<asked, attested>>

\* The identity report has nothing to fail.
Answer(r, report) ==
    /\ evaluated[r] > 0
    /\ r \in Identity => report = "passed"
    /\ attested' = attested \cup {[request |-> r, id |-> evaluated[r], report |-> report]}
    /\ UNCHANGED <<asked, evaluated, broken>>

Break ==
    /\ broken' = TRUE
    /\ UNCHANGED <<asked, evaluated, attested>>

Serve ==
    \/ \E r \in Requests : Evaluate(r)
    \/ \E r \in Requests, report \in Reports : Answer(r, report)

PromiseNext == Serve \/ Break \/ \E r \in Requests : Ask(r)

Promise == PromiseInit /\ [][PromiseNext]_promiseVars
=============================================================================
