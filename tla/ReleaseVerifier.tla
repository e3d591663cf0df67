--------------------------- MODULE ReleaseVerifier ---------------------------
(***************************************************************************)
(* The release verifier process: the protocol check of                     *)
(* apps/release-verifier/src/protocol.ts, the replay store of              *)
(* replay-store.ts and the request handler of server.ts.                   *)
(*                                                                         *)
(* Every call of the control plane sends two signed requests, one for the  *)
(* verifier's identity and one for the attestation.  A request carries an  *)
(* id and a nonce of its own and expires; the network may lose it, delay   *)
(* it or deliver it again.  The replay file is kept as what a restart can  *)
(* read back from it: the keys of its whole lines, and whether it ends in  *)
(* the fragment of a line, to which the next line is then glued.           *)
(***************************************************************************)
EXTENDS Integers, FiniteSets

CONSTANTS
    Calls,           \* calls of the control plane, each with two requests
    MaxEntries,      \* limits.replayEntries
    MaxDeliveries,   \* bound: times the network delivers one request
    MaxFaults,       \* bound: appends that go wrong
    MaxRestarts      \* bound: restarts of the verifier

ASSUME VerifierBounds ==
    /\ MaxEntries \in Nat \ {0}
    /\ MaxDeliveries \in Nat \ {0}
    /\ MaxFaults \in Nat
    /\ MaxRestarts \in Nat

VARIABLES
    replay,     \* the replay store: its map, its file
    wire,       \* what the network has carried in each direction
    expired,    \* requests whose expiresAt has passed
    served      \* what the handler did, and what went wrong so far

verifierVars == <<replay, wire, expired, served>>

-----------------------------------------------------------------------------
Stages == {"readiness", "attest"}
Requests == Calls \X Stages
ReplayKeys == {"request", "nonce"} \X Requests
Reports == {"passed", "failed"}
Replies == [request : Requests, id : 1 .. MaxDeliveries, report : Reports]

\* What an append can come to.  writeSync may write less than it was given
\* without throwing ("short"), or throw having written nothing or a part; the
\* flush may fail after the whole line was written.
Appends == {"flushed", "short", "nothing", "part", "unflushed"}
AcceptedAppends == {"flushed", "short"}

\* Types, and the bound of the store: a line whose flush failed is in the file
\* although its key was refused, and a restart loads it without asking the limit.
VerifierTypeOK ==
    /\ Cardinality(replay.map) <= MaxEntries + served.faults
    /\ replay \in [map : SUBSET ReplayKeys, file : SUBSET ReplayKeys, fragment : BOOLEAN]
    /\ wire \in [sent : SUBSET Requests, delivered : [Requests -> 0 .. MaxDeliveries],
                 replies : SUBSET Replies]
    /\ expired \in SUBSET Requests
    /\ served \in [working : SUBSET Requests, evaluated : [Requests -> 0 .. MaxDeliveries],
                   faults : 0 .. MaxFaults, restarts : 0 .. MaxRestarts, damaged : BOOLEAN]

VerifierInit ==
    /\ replay = [map |-> {}, file |-> {}, fragment |-> FALSE]
    /\ wire = [sent |-> {}, delivered |-> [r \in Requests |-> 0], replies |-> {}]
    /\ expired = {}
    /\ served = [working |-> {}, evaluated |-> [r \in Requests |-> 0],
                 faults |-> 0, restarts |-> 0, damaged |-> FALSE]

-----------------------------------------------------------------------------
\* admitInto: the expired keys go first, then the key must be new and fit.
PurgedUnexpired(s) == [s EXCEPT !.map = {k \in @ : k[2] \in expired}]       \* mutant
Purged(s) == [s EXCEPT !.map = {k \in @ : k[2] \notin expired}]

AdmitsOneMore(s, key) ==                                                    \* mutant
    key \notin s.map /\ Cardinality(s.map) <= MaxEntries
Admits(s, key) == key \notin s.map /\ Cardinality(s.map) < MaxEntries

\* A refused append deletes the key from the map again.
Appended(s, key, outcome) ==
    [map |-> IF outcome \in AcceptedAppends THEN s.map \cup {key} ELSE s.map,
     file |-> IF outcome \in {"flushed", "unflushed"} /\ ~s.fragment
              THEN s.file \cup {key} ELSE s.file,
     fragment |-> \/ outcome \in {"short", "part"}
                  \/ outcome = "nothing" /\ s.fragment]

Faults(outcomes) == Cardinality({i \in DOMAIN outcomes : outcomes[i] # "flushed"})

Arrives(r) ==
    /\ r \in wire.sent
    /\ wire.delivered[r] < MaxDeliveries
    /\ wire' = [wire EXCEPT !.delivered[r] = @ + 1]
    /\ UNCHANGED expired

Recorded(s, outcomes) ==
    /\ served.faults + Faults(outcomes) <= MaxFaults
    /\ replay' = s

\* verifyVerifierRequest when both keys are admitted: the handler goes on to
\* evaluate the request.  The two lines are appended one after the other.
AcceptRequest(r, first, second) ==
    LET empty == Purged(replay)
        one == Appended(empty, <<"request", r>>, first)
        both == Appended(one, <<"nonce", r>>, second)
    IN  /\ Arrives(r)
        /\ r \notin expired
        /\ Admits(empty, <<"request", r>>) /\ first \in AcceptedAppends
        /\ Admits(one, <<"nonce", r>>) /\ second \in AcceptedAppends
        /\ Recorded(both, <<first, second>>)
        /\ served' = [served EXCEPT !.working = @ \cup {r},
                                    !.evaluated[r] = @ + 1,
                                    !.faults = @ + Faults(<<first, second>>),
                                    !.damaged = @ \/ ~(both.map \subseteq both.file)]

\* The request key is refused: a duplicate, a full store, or a failed append.
RefuseRequestKey(r, first) ==
    LET empty == Purged(replay)
        refused == ~Admits(empty, <<"request", r>>)
    IN  /\ Arrives(r)
        /\ r \notin expired
        /\ refused \/ first \notin AcceptedAppends
        /\ refused => first = "flushed"
        /\ Recorded(IF refused THEN empty ELSE Appended(empty, <<"request", r>>, first), <<first>>)
        /\ served' = [served EXCEPT !.faults = @ + Faults(<<first>>)]

\* The request key is admitted and stays so, the nonce key is refused.
RefuseNonceKey(r, first, second) ==
    LET empty == Purged(replay)
        one == Appended(empty, <<"request", r>>, first)
        refused == ~Admits(one, <<"nonce", r>>)
        left == IF refused THEN one ELSE Appended(one, <<"nonce", r>>, second)
    IN  /\ Arrives(r)
        /\ r \notin expired
        /\ Admits(empty, <<"request", r>>) /\ first \in AcceptedAppends
        /\ refused \/ second \notin AcceptedAppends
        /\ refused => second = "flushed"
        /\ Recorded(left, <<first, second>>)
        /\ served' = [served EXCEPT !.faults = @ + Faults(<<first, second>>),
                                    !.damaged = @ \/ ~(left.map \subseteq left.file)]

\* A request that arrives after its expiry is refused before the store is asked.
RefuseExpired(r) ==
    /\ Arrives(r)
    /\ r \in expired
    /\ UNCHANGED <<replay, served>>

\* The evaluation answers: a signed attestation with an id of its own.  A
\* readiness report has nothing to fail.
Attest(r, report) ==
    /\ r \in served.working
    /\ r[2] = "readiness" => report = "passed"
    /\ served' = [served EXCEPT !.working = @ \ {r}]
    /\ wire' = [wire EXCEPT !.replies =
                    @ \cup {[request |-> r, id |-> served.evaluated[r], report |-> report]}]
    /\ UNCHANGED <<replay, expired>>

\* The evaluation refuses, or its deadline passes: no attestation.
RefuseEvaluation(r) ==
    /\ r \in served.working
    /\ served' = [served EXCEPT !.working = @ \ {r}]
    /\ UNCHANGED <<replay, wire, expired>>

RestartForgetting ==                                                        \* mutant
    /\ served.restarts < MaxRestarts
    /\ replay' = [map |-> {}, file |-> {}, fragment |-> FALSE]
    /\ served' = [served EXCEPT !.working = {}, !.restarts = @ + 1]
    /\ UNCHANGED <<wire, expired>>

\* The process ends, with every evaluation it had in hand, and starts again:
\* the store loads the unexpired keys of the whole lines and rewrites the file.
RestartVerifier ==
    LET loaded == {k \in replay.file : k[2] \notin expired}
    IN  /\ served.restarts < MaxRestarts
        /\ replay' = [map |-> loaded, file |-> loaded, fragment |-> FALSE]
        /\ served' = [served EXCEPT !.working = {}, !.restarts = @ + 1]
        /\ UNCHANGED <<wire, expired>>

\* The restarted process cannot read the file, or finds it as a process left it
\* that ended in the middle of compact: an empty store either way.
RestartWithoutFile ==
    /\ served.restarts < MaxRestarts
    /\ replay' = [map |-> {}, file |-> {}, fragment |-> FALSE]
    /\ served' = [served EXCEPT !.working = {}, !.restarts = @ + 1, !.damaged = TRUE]
    /\ UNCHANGED <<wire, expired>>

Expire(r) ==
    /\ r \in wire.sent \ expired
    /\ expired' = expired \cup {r}
    /\ UNCHANGED <<replay, wire, served>>

ReceiveRequest(r) ==
    \/ \E first, second \in Appends : AcceptRequest(r, first, second)
    \/ \E first \in Appends : RefuseRequestKey(r, first)
    \/ \E first, second \in Appends : RefuseNonceKey(r, first, second)
    \/ RefuseExpired(r)

\* External: the control plane asks for the verifier's identity, then for its
\* attestation.
AskVerifier(r) ==
    /\ r[2] = "attest" => \E reply \in wire.replies : reply.request = <<r[1], "readiness">>
    /\ wire' = [wire EXCEPT !.sent = @ \cup {r}]
    /\ UNCHANGED <<replay, expired, served>>

VerifierNext ==
    \/ \E r \in Requests :
        \/ AskVerifier(r)
        \/ ReceiveRequest(r)
        \/ \E report \in Reports : Attest(r, report)
        \/ RefuseEvaluation(r)
        \/ Expire(r)
    \/ RestartVerifier
    \/ RestartWithoutFile

Spec == VerifierInit /\ [][VerifierNext]_verifierVars

-----------------------------------------------------------------------------
P == INSTANCE VerifierPromise WITH
         Identity <- Calls \X {"readiness"}, asked <- wire.sent, evaluated <- served.evaluated,
         attested <- wire.replies, broken <- served.damaged

\* The verifier keeps the promise the control plane publishes on: a request is
\* evaluated once, however often the network delivers it, whichever append
\* fails, however full the store is and whenever the process restarts, as long
\* as the file holds every key the store admitted; and every attestation
\* answers a request that was evaluated.
KeepsPromise == P!Promise

\* A failed append fails closed: whatever is being evaluated is remembered, so
\* that its request and its nonce are refused until they expire.
WorkIsRemembered ==
    \A r \in served.working \ expired :
        {<<"request", r>>, <<"nonce", r>>} \subseteq replay.map

=============================================================================
