------------------------- MODULE ReleaseVerifierProofs -------------------------
(***************************************************************************)
(* What TLAPS proves of ReleaseVerifier, for any number of calls, any size *)
(* of the replay store and any bound on deliveries, faults and restarts.   *)
(*                                                                         *)
(* The invariant of the store counts two sets: the keys of its map, and    *)
(* the keys that are in its file but not in its map and would come back    *)
(* with a restart.  Every append that goes wrong adds at most one of the   *)
(* second kind, which is why the map may pass its limit by the faults.     *)
(* The refinement adds what ties the store to the work done: a request     *)
(* that was evaluated has its key in the map until it expires, unless the  *)
(* file lost a key.                                                        *)
(***************************************************************************)
EXTENDS ReleaseVerifier, FiniteSetTheorems, TLAPS

-----------------------------------------------------------------------------
(* The replay store. *)

Stores == [map : SUBSET ReplayKeys, file : SUBSET ReplayKeys, fragment : BOOLEAN]

\* The keys a restart would load although the map does not have them.
Unmapped(s) == {k \in s.file : k[2] \notin expired} \ s.map

\* The store holds at most its limit and one key for every fault.
StoreFits(s, faults) ==
    /\ s \in Stores
    /\ IsFiniteSet(s.map) /\ IsFiniteSet(s.file)
    /\ Cardinality(Unmapped(s)) <= faults
    /\ Cardinality(s.map \cup Unmapped(s)) <= MaxEntries + faults

\* The fields of the store that admitInto purges.
LEMMA PurgedFields ==
    ASSUME NEW s \in Stores
    PROVE  /\ Purged(s) \in Stores
           /\ Purged(s).map = {k \in s.map : k[2] \notin expired}
           /\ Purged(s).file = s.file
           /\ Purged(s).fragment = s.fragment
  BY DEF Purged, Stores

\* The fields of the store an append leaves.
LEMMA AppendedFields ==
    ASSUME NEW s \in Stores, NEW key \in ReplayKeys, NEW outcome \in Appends
    PROVE  /\ Appended(s, key, outcome) \in Stores
           /\ Appended(s, key, outcome).map =
                 IF outcome \in AcceptedAppends THEN s.map \cup {key} ELSE s.map
           /\ s.file \subseteq Appended(s, key, outcome).file
           /\ Appended(s, key, outcome).file \subseteq s.file \cup {key}
           /\ outcome = "flushed" /\ ~s.fragment => key \in Appended(s, key, outcome).file
  BY DEF Appended, Stores

\* A fault is an append that is not flushed.
FaultOf(outcome) == IF outcome = "flushed" THEN 0 ELSE 1

\* Counting the faults of a request: one append, or two.
LEMMA FaultsCounted ==
    ASSUME NEW first \in Appends, NEW second \in Appends
    PROVE  /\ Faults(<<first>>) = FaultOf(first)
           /\ Faults(<<first, second>>) = FaultOf(first) + FaultOf(second)
<1>1. DOMAIN <<first>> = {1} /\ DOMAIN <<first, second>> = {1, 2}
  OBVIOUS
<1>2. Cardinality({}) = 0 /\ Cardinality({1}) = 1 /\ Cardinality({2}) = 1
  BY FS_EmptySet, FS_Singleton
<1>3. Cardinality({1, 2}) = 2
  <2>0. IsFiniteSet({1})
    BY FS_Singleton
  <2>1. Cardinality({1} \cup {2}) = Cardinality({1}) + 1
    <3>1. Cardinality({1} \cup {2}) = IF 2 \in {1} THEN Cardinality({1}) ELSE Cardinality({1}) + 1
      BY <2>0, FS_AddElement
    <3> QED BY <3>1
  <2>2. {1} \cup {2} = {1, 2}
    OBVIOUS
  <2> QED BY <1>2, <2>1, <2>2
<1>4. Faults(<<first>>) = FaultOf(first)
  <2>1. {i \in {1} : <<first>>[i] # "flushed"} = IF first = "flushed" THEN {} ELSE {1}
    OBVIOUS
  <2> QED BY <1>1, <1>2, <2>1 DEF Faults, FaultOf
<1>5. Faults(<<first, second>>) = FaultOf(first) + FaultOf(second)
  <2> DEFINE faulty == {i \in {1, 2} : <<first, second>>[i] # "flushed"}
  <2>1. CASE first = "flushed" /\ second = "flushed"
    <3>1. faulty = {}
      BY <2>1
    <3> QED BY <1>1, <1>2, <2>1, <3>1 DEF Faults, FaultOf
  <2>2. CASE first = "flushed" /\ second # "flushed"
    <3>1. faulty = {2}
      BY <2>2
    <3> QED BY <1>1, <1>2, <2>2, <3>1 DEF Faults, FaultOf
  <2>3. CASE first # "flushed" /\ second = "flushed"
    <3>1. faulty = {1}
      BY <2>3
    <3> QED BY <1>1, <1>2, <2>3, <3>1 DEF Faults, FaultOf
  <2>4. CASE first # "flushed" /\ second # "flushed"
    <3>1. faulty = {1, 2}
      BY <2>4
    <3> QED BY <1>1, <1>3, <2>4, <3>1 DEF Faults, FaultOf
  <2> QED BY <2>1, <2>2, <2>3, <2>4
<1> QED BY <1>4, <1>5

\* Adding one element to a finite set counts at most one more.
LEMMA OneMoreElement ==
    ASSUME NEW S, IsFiniteSet(S), NEW x
    PROVE  /\ IsFiniteSet(S \cup {x})
           /\ Cardinality(S \cup {x}) <= Cardinality(S) + 1
<1>1. IsFiniteSet(S \cup {x}) /\ (x \in S => Cardinality(S \cup {x}) = Cardinality(S))
  BY FS_AddElement
<1>2. x \notin S => Cardinality(S \cup {x}) = Cardinality(S) + 1
  BY FS_AddElement
<1>3. Cardinality(S) \in Nat
  BY FS_CardinalityType
<1> QED BY <1>1, <1>2, <1>3

\* Dropping expired keys makes room and hides nothing a restart would load.
LEMMA PurgedFits ==
    ASSUME NEW s, NEW faults \in Nat, StoreFits(s, faults)
    PROVE  StoreFits(Purged(s), faults)
<1>1. s \in Stores /\ IsFiniteSet(s.map) /\ IsFiniteSet(s.file)
  BY DEF StoreFits
<1>2. Purged(s).map \subseteq s.map /\ Unmapped(Purged(s)) \subseteq Unmapped(s)
  BY <1>1, PurgedFields DEF Unmapped
<1>3. IsFiniteSet(Unmapped(s)) /\ IsFiniteSet(s.map \cup Unmapped(s))
  BY <1>1, FS_Subset, FS_Union DEF Unmapped
<1>4. /\ IsFiniteSet(Purged(s).map)
      /\ Cardinality(Unmapped(Purged(s))) <= Cardinality(Unmapped(s))
      /\ Cardinality(Purged(s).map \cup Unmapped(Purged(s))) <= Cardinality(s.map \cup Unmapped(s))
  BY <1>1, <1>2, <1>3, FS_Subset
<1>5. /\ Cardinality(Unmapped(s)) \in Nat /\ Cardinality(Unmapped(Purged(s))) \in Nat
      /\ Cardinality(s.map \cup Unmapped(s)) \in Nat
      /\ Cardinality(Purged(s).map \cup Unmapped(Purged(s))) \in Nat
  BY <1>2, <1>3, FS_Subset, FS_CardinalityType
<1> QED BY <1>1, <1>4, <1>5, PurgedFields, VerifierBounds DEF StoreFits

\* An append that succeeds stays within the limit; one that goes wrong leaves
\* at most one more key behind in the file.
LEMMA AppendedFits ==
    ASSUME NEW s, NEW faults \in Nat, StoreFits(s, faults), NEW key \in ReplayKeys,
           NEW outcome \in Appends, Admits(s, key)
    PROVE  StoreFits(Appended(s, key, outcome), faults + FaultOf(outcome))
<1> DEFINE t == Appended(s, key, outcome)
<1>1. s \in Stores /\ IsFiniteSet(s.map) /\ IsFiniteSet(s.file)
  BY DEF StoreFits
<1>2. /\ t \in Stores /\ t.file \subseteq s.file \cup {key}
      /\ t.map = IF outcome \in AcceptedAppends THEN s.map \cup {key} ELSE s.map
  BY <1>1, AppendedFields
<1> HIDE DEF t
<1>3. IsFiniteSet(t.map) /\ IsFiniteSet(t.file)
  BY <1>1, <1>2, FS_AddElement, FS_Subset
<1>4. /\ IsFiniteSet(Unmapped(s)) /\ IsFiniteSet(Unmapped(t))
      /\ IsFiniteSet(s.map \cup Unmapped(s)) /\ IsFiniteSet(t.map \cup Unmapped(t))
  BY <1>1, <1>3, FS_Subset, FS_Union DEF Unmapped
<1>5. /\ Cardinality(s.map) \in Nat /\ Cardinality(t.map) \in Nat
      /\ Cardinality(Unmapped(s)) \in Nat /\ Cardinality(Unmapped(t)) \in Nat
      /\ Cardinality(s.map \cup Unmapped(s)) \in Nat /\ Cardinality(t.map \cup Unmapped(t)) \in Nat
  BY <1>1, <1>3, <1>4, FS_CardinalityType
<1>6. /\ Cardinality(Unmapped(s)) <= faults
      /\ Cardinality(s.map \cup Unmapped(s)) <= MaxEntries + faults
      /\ Cardinality(s.map) < MaxEntries /\ key \notin s.map
  BY DEF StoreFits, Admits
<1>7. FaultOf(outcome) \in {0, 1} /\ MaxEntries \in Nat
  BY VerifierBounds DEF FaultOf
<1>8. CASE outcome \in AcceptedAppends
  <2>1. Unmapped(t) \subseteq Unmapped(s)
    BY <1>2, <1>8 DEF Unmapped
  <2>2. Cardinality(Unmapped(t)) <= Cardinality(Unmapped(s))
    BY <1>4, <2>1, FS_Subset
  <2>3. Cardinality(t.map) = Cardinality(s.map) + 1
    BY <1>1, <1>2, <1>6, <1>8, FS_AddElement
  <2>4. Cardinality(t.map \cup Unmapped(t)) <= Cardinality(t.map) + Cardinality(Unmapped(t))
    <3>1. Cardinality(t.map \cup Unmapped(t)) =
             Cardinality(t.map) + Cardinality(Unmapped(t)) - Cardinality(t.map \cap Unmapped(t))
      BY <1>3, <1>4, FS_Union
    <3>2. Cardinality(t.map \cap Unmapped(t)) \in Nat
      BY <1>3, FS_Subset, FS_CardinalityType
    <3> QED BY <1>5, <3>1, <3>2
  <2>5. /\ Cardinality(Unmapped(t)) <= faults + FaultOf(outcome)
        /\ Cardinality(t.map \cup Unmapped(t)) <= MaxEntries + (faults + FaultOf(outcome))
    BY <1>5, <1>6, <1>7, <2>2, <2>3, <2>4
  <2> QED BY <1>2, <1>3, <2>5 DEF StoreFits, t
<1>9. CASE outcome \notin AcceptedAppends
  <2>1. FaultOf(outcome) = 1
    BY <1>9 DEF FaultOf, AcceptedAppends
  <2>2. /\ Unmapped(t) \subseteq Unmapped(s) \cup {key}
        /\ t.map \cup Unmapped(t) \subseteq (s.map \cup Unmapped(s)) \cup {key}
    BY <1>2, <1>9 DEF Unmapped
  <2>3. /\ IsFiniteSet(Unmapped(s) \cup {key})
        /\ Cardinality(Unmapped(s) \cup {key}) <= Cardinality(Unmapped(s)) + 1
        /\ IsFiniteSet((s.map \cup Unmapped(s)) \cup {key})
        /\ Cardinality((s.map \cup Unmapped(s)) \cup {key}) <= Cardinality(s.map \cup Unmapped(s)) + 1
    BY <1>4, OneMoreElement
  <2>4. /\ Cardinality(Unmapped(t)) <= Cardinality(Unmapped(s) \cup {key})
        /\ Cardinality(t.map \cup Unmapped(t)) <= Cardinality((s.map \cup Unmapped(s)) \cup {key})
    BY <2>2, <2>3, FS_Subset
  <2>5. /\ Cardinality(Unmapped(s) \cup {key}) \in Nat
        /\ Cardinality((s.map \cup Unmapped(s)) \cup {key}) \in Nat
    BY <2>3, FS_CardinalityType
  <2>6. /\ Cardinality(Unmapped(t)) <= faults + FaultOf(outcome)
        /\ Cardinality(t.map \cup Unmapped(t)) <= MaxEntries + (faults + FaultOf(outcome))
    BY <1>5, <1>6, <1>7, <2>1, <2>3, <2>4, <2>5
  <2> QED BY <1>2, <1>3, <2>6 DEF StoreFits, t
<1> QED BY <1>8, <1>9

-----------------------------------------------------------------------------
(* The state of the verifier. *)

\* Everything but the counts of the store: the types of the other variables,
\* and that nothing is evaluated more often than it was delivered.
ServedTyped ==
    /\ wire \in [sent : SUBSET Requests, delivered : [Requests -> 0 .. MaxDeliveries],
                 replies : SUBSET Replies]
    /\ expired \in SUBSET Requests
    /\ served \in [working : SUBSET Requests, evaluated : [Requests -> 0 .. MaxDeliveries],
                   faults : 0 .. MaxFaults, restarts : 0 .. MaxRestarts, damaged : BOOLEAN]
    /\ \A r \in Requests : served.evaluated[r] <= wire.delivered[r]
    /\ \A r \in served.working : served.evaluated[r] > 0

\* As long as the file is whole it holds every key of the map, and a request
\* that was evaluated has its key in the map until it expires.
EvaluatedIsRecorded ==
    ~served.damaged =>
        /\ replay.map \subseteq replay.file
        /\ \A r \in Requests \ expired :
               served.evaluated[r] > 0 => <<"request", r>> \in replay.map

VerifierOK ==
    /\ ServedTyped
    /\ StoreFits(replay, served.faults)
    /\ WorkIsRemembered
    /\ EvaluatedIsRecorded

\* The store of a step, as verifyVerifierRequest leaves it: purged, then with
\* the request key, then with the nonce key.
LEMMA TwoAppends ==
    ASSUME NEW s, NEW faults \in Nat, StoreFits(s, faults), NEW r \in Requests,
           NEW first \in Appends, NEW second \in Appends,
           Admits(s, <<"request", r>>),
           Admits(Appended(s, <<"request", r>>, first), <<"nonce", r>>)
    PROVE  StoreFits(Appended(Appended(s, <<"request", r>>, first), <<"nonce", r>>, second),
                     faults + Faults(<<first, second>>))
<1>1. <<"request", r>> \in ReplayKeys /\ <<"nonce", r>> \in ReplayKeys
  BY DEF ReplayKeys
<1>2. FaultOf(first) \in Nat /\ FaultOf(second) \in Nat
  BY DEF FaultOf
<1>3. StoreFits(Appended(s, <<"request", r>>, first), faults + FaultOf(first))
  BY <1>1, AppendedFits
<1>4. faults + FaultOf(first) \in Nat
  BY <1>2
<1>5. StoreFits(Appended(Appended(s, <<"request", r>>, first), <<"nonce", r>>, second),
                (faults + FaultOf(first)) + FaultOf(second))
  BY <1>1, <1>3, <1>4, AppendedFits
<1>6. Faults(<<first, second>>) = FaultOf(first) + FaultOf(second)
  BY FaultsCounted
<1>7. (faults + FaultOf(first)) + FaultOf(second) = faults + Faults(<<first, second>>)
  BY <1>2, <1>6
<1> QED BY <1>5, <1>7

\* The counters of a step that records its appends.
LEMMA FaultsBounded ==
    ASSUME NEW first \in Appends, NEW second \in Appends, served.faults \in Nat
    PROVE  /\ served.faults + Faults(<<first>>) \in Nat
           /\ served.faults + Faults(<<first, second>>) \in Nat
           /\ Faults(<<first>>) \in Nat /\ Faults(<<first, second>>) \in Nat
           /\ Faults(<<"flushed">>) = 0
           /\ Faults(<<first, "flushed">>) = FaultOf(first)
<1>1. FaultOf(first) \in Nat /\ FaultOf(second) \in Nat /\ FaultOf("flushed") = 0
  BY DEF FaultOf
<1>2. "flushed" \in Appends
  BY DEF Appends
<1>3. /\ Faults(<<first>>) = FaultOf(first)
      /\ Faults(<<first, second>>) = FaultOf(first) + FaultOf(second)
      /\ Faults(<<"flushed">>) = FaultOf("flushed")
      /\ Faults(<<first, "flushed">>) = FaultOf(first) + FaultOf("flushed")
  BY <1>2, FaultsCounted
<1> QED BY <1>1, <1>3

LEMMA VerifierOKInit == VerifierInit => VerifierOK
<1> SUFFICES ASSUME VerifierInit PROVE VerifierOK
  OBVIOUS
<1>1. ServedTyped
  BY VerifierBounds DEF VerifierInit, ServedTyped
<1>2. Unmapped(replay) = {} /\ replay.map = {} /\ replay.file = {} /\ replay \in Stores
  BY DEF VerifierInit, Unmapped, Stores
<1>3. IsFiniteSet({}) /\ Cardinality({}) = 0
  BY FS_EmptySet
<1>4. served.faults = 0 /\ MaxEntries + 0 >= 0
  BY VerifierBounds DEF VerifierInit
<1>5. StoreFits(replay, served.faults)
  BY <1>2, <1>3, <1>4 DEF StoreFits
<1>6. WorkIsRemembered /\ EvaluatedIsRecorded
  BY DEF VerifierInit, WorkIsRemembered, EvaluatedIsRecorded
<1> QED BY <1>1, <1>5, <1>6 DEF VerifierOK

\* The types and the counters, step by step.
LEMMA TypesNext ==
    ASSUME VerifierOK, VerifierNext
    PROVE  ServedTyped'
<1> USE VerifierBounds
<1>1. ServedTyped
  BY DEF VerifierOK
<1>0. /\ served.working \in SUBSET Requests
      /\ served.evaluated \in [Requests -> 0 .. MaxDeliveries]
      /\ wire.delivered \in [Requests -> 0 .. MaxDeliveries]
      /\ served.faults \in 0 .. MaxFaults /\ served.faults \in Nat
      /\ served.restarts \in 0 .. MaxRestarts
      /\ served.damaged \in BOOLEAN
  BY <1>1 DEF ServedTyped
<1>2. ASSUME NEW r \in Requests, AskVerifier(r)
      PROVE  ServedTyped'
  BY <1>1, <1>2 DEF AskVerifier, ServedTyped
<1>3. ASSUME NEW r \in Requests, Arrives(r)
      PROVE  /\ wire'.delivered = [wire.delivered EXCEPT ![r] = @ + 1]
             /\ wire' \in [sent : SUBSET Requests, delivered : [Requests -> 0 .. MaxDeliveries],
                           replies : SUBSET Replies]
             /\ expired' = expired
             /\ \A q \in Requests : wire.delivered[q] <= wire'.delivered[q]
             /\ wire'.delivered[r] = wire.delivered[r] + 1
  BY <1>1, <1>3 DEF Arrives, ServedTyped
<1>4. ASSUME NEW r \in Requests, NEW first \in Appends, NEW second \in Appends,
             AcceptRequest(r, first, second)
      PROVE  ServedTyped'
  <2>1. /\ Arrives(r)
        /\ served.faults + Faults(<<first, second>>) <= MaxFaults
        /\ served' = [served EXCEPT !.working = @ \cup {r},
                                    !.evaluated[r] = @ + 1,
                                    !.faults = served'.faults,
                                    !.damaged = served'.damaged]
        /\ served'.faults = served.faults + Faults(<<first, second>>)
        /\ served'.damaged \in BOOLEAN
    BY <1>1, <1>4 DEF AcceptRequest, Recorded, ServedTyped
  <2>2. served'.faults \in 0 .. MaxFaults
    <3>1. Faults(<<first, second>>) \in Nat
      BY <1>0, FaultsBounded
    <3>2. served.faults + Faults(<<first, second>>) \in 0 .. MaxFaults
      BY <1>0, <2>1, <3>1
    <3> QED BY <2>1, <3>2
  <2>3. /\ served.evaluated[r] <= wire.delivered[r] /\ wire.delivered[r] < MaxDeliveries
        /\ served.evaluated[r] \in Nat /\ wire.delivered[r] \in Nat
    BY <1>1, <2>1 DEF ServedTyped, Arrives
  <2>8. served'.evaluated = [served.evaluated EXCEPT ![r] = @ + 1]
    BY <1>1, <2>1 DEF ServedTyped
  <2>9. served.evaluated[r] + 1 \in 0 .. MaxDeliveries
    BY <2>3
  <2>4. /\ served'.evaluated \in [Requests -> 0 .. MaxDeliveries]
        /\ served'.evaluated[r] = served.evaluated[r] + 1
        /\ \A q \in Requests : q # r => served'.evaluated[q] = served.evaluated[q]
    BY <1>0, <2>8, <2>9
  <2>5. served' \in [working : SUBSET Requests, evaluated : [Requests -> 0 .. MaxDeliveries],
                     faults : 0 .. MaxFaults, restarts : 0 .. MaxRestarts, damaged : BOOLEAN]
    <3>1. served'.working = served.working \cup {r} /\ served'.restarts = served.restarts
      BY <1>1, <2>1 DEF ServedTyped
    <3>3. served'.working \in SUBSET Requests /\ served'.restarts \in 0 .. MaxRestarts
      BY <1>0, <3>1
    <3>2. served' = [working |-> served'.working, evaluated |-> served'.evaluated,
                     faults |-> served'.faults, restarts |-> served'.restarts,
                     damaged |-> served'.damaged]
      BY <1>1, <2>1 DEF ServedTyped
    <3> QED BY <2>1, <2>2, <2>4, <3>2, <3>3
  <2>6. \A q \in Requests : served'.evaluated[q] <= wire'.delivered[q]
    <3> TAKE q \in Requests
    <3>1. served.evaluated[q] \in Nat /\ wire.delivered[q] \in Nat
      BY <1>0
    <3>2. served.evaluated[q] <= wire.delivered[q]
      BY <1>1 DEF ServedTyped
    <3>3. wire'.delivered = [wire.delivered EXCEPT ![r] = @ + 1]
      BY <1>3, <2>1
    <3>4. wire'.delivered[q] = IF q = r THEN wire.delivered[q] + 1 ELSE wire.delivered[q]
      BY <1>0, <3>3
    <3> QED BY <2>4, <3>1, <3>2, <3>4
  <2>7. \A q \in served'.working : served'.evaluated[q] > 0
    <3>1. served'.working = served.working \cup {r}
      BY <1>1, <2>1 DEF ServedTyped
    <3> QED BY <1>1, <2>3, <2>4, <3>1 DEF ServedTyped
  <2> QED BY <1>1, <1>3, <2>1, <2>5, <2>6, <2>7 DEF ServedTyped
<1>5. ASSUME NEW r \in Requests, Arrives(r), served' = [served EXCEPT !.faults = served'.faults,
                                                                      !.damaged = served'.damaged],
             served'.faults \in 0 .. MaxFaults, served'.damaged \in BOOLEAN
      PROVE  ServedTyped'
  <2>1. /\ served' \in [working : SUBSET Requests, evaluated : [Requests -> 0 .. MaxDeliveries],
                        faults : 0 .. MaxFaults, restarts : 0 .. MaxRestarts, damaged : BOOLEAN]
        /\ served'.working = served.working /\ served'.evaluated = served.evaluated
    BY <1>1, <1>5 DEF ServedTyped
  <2>2. \A q \in Requests : served'.evaluated[q] <= wire'.delivered[q]
    <3> TAKE q \in Requests
    <3>1. served.evaluated[q] \in Nat /\ wire.delivered[q] \in Nat
      BY <1>0
    <3>2. served.evaluated[q] <= wire.delivered[q]
      BY <1>1 DEF ServedTyped
    <3>3. wire'.delivered = [wire.delivered EXCEPT ![r] = @ + 1]
      BY <1>3, <1>5
    <3>4. wire'.delivered[q] = IF q = r THEN wire.delivered[q] + 1 ELSE wire.delivered[q]
      BY <1>0, <3>3
    <3> QED BY <2>1, <3>1, <3>2, <3>4
  <2> QED BY <1>1, <1>3, <1>5, <2>1, <2>2 DEF ServedTyped
<1>6. ASSUME NEW r \in Requests, NEW first \in Appends, RefuseRequestKey(r, first)
      PROVE  ServedTyped'
  <2>1. /\ Arrives(r)
        /\ served.faults + Faults(<<first>>) <= MaxFaults
        /\ served'.faults = served.faults + Faults(<<first>>)
        /\ served'.damaged = served.damaged
        /\ served' = [served EXCEPT !.faults = served'.faults, !.damaged = served'.damaged]
    BY <1>1, <1>6 DEF RefuseRequestKey, Recorded, ServedTyped
  <2>2. served'.faults \in 0 .. MaxFaults
    <3>1. Faults(<<first>>) \in Nat
      BY <1>0, FaultsBounded
    <3>2. served.faults + Faults(<<first>>) \in 0 .. MaxFaults
      BY <1>0, <2>1, <3>1
    <3> QED BY <2>1, <3>2
  <2>3. served'.damaged \in BOOLEAN
    BY <1>1, <2>1 DEF ServedTyped
  <2> QED BY <1>5, <2>1, <2>2, <2>3
<1>7. ASSUME NEW r \in Requests, NEW first \in Appends, NEW second \in Appends,
             RefuseNonceKey(r, first, second)
      PROVE  ServedTyped'
  <2>1. /\ Arrives(r)
        /\ served.faults + Faults(<<first, second>>) <= MaxFaults
        /\ served'.faults = served.faults + Faults(<<first, second>>)
        /\ served'.damaged \in BOOLEAN
        /\ served' = [served EXCEPT !.faults = served'.faults, !.damaged = served'.damaged]
    BY <1>1, <1>7 DEF RefuseNonceKey, Recorded, ServedTyped
  <2>2. served'.faults \in 0 .. MaxFaults
    <3>1. Faults(<<first, second>>) \in Nat
      BY <1>0, FaultsBounded
    <3>2. served.faults + Faults(<<first, second>>) \in 0 .. MaxFaults
      BY <1>0, <2>1, <3>1
    <3> QED BY <2>1, <3>2
  <2> QED BY <1>5, <2>1, <2>2
<1>8. ASSUME NEW r \in Requests, RefuseExpired(r)
      PROVE  ServedTyped'
  <2>1. /\ Arrives(r) /\ served'.faults \in 0 .. MaxFaults /\ served'.damaged \in BOOLEAN
        /\ served' = [served EXCEPT !.faults = served'.faults, !.damaged = served'.damaged]
    BY <1>1, <1>8 DEF RefuseExpired, ServedTyped
  <2> QED BY <1>5, <2>1
<1>9. ASSUME NEW r \in Requests, NEW report \in Reports, Attest(r, report)
      PROVE  ServedTyped'
  <2>1. served.evaluated[r] \in 1 .. MaxDeliveries
    BY <1>1, <1>9 DEF ServedTyped, Attest
  <2>2. [request |-> r, id |-> served.evaluated[r], report |-> report] \in Replies
    BY <2>1 DEF Replies
  <2>3. /\ wire' \in [sent : SUBSET Requests, delivered : [Requests -> 0 .. MaxDeliveries],
                      replies : SUBSET Replies]
        /\ wire'.delivered = wire.delivered
    BY <1>1, <1>9, <2>2 DEF ServedTyped, Attest
  <2> QED BY <1>1, <1>9, <2>3 DEF ServedTyped, Attest
<1>10. ASSUME NEW r \in Requests, RefuseEvaluation(r)
       PROVE  ServedTyped'
  BY <1>1, <1>10 DEF RefuseEvaluation, ServedTyped
<1>11. ASSUME NEW r \in Requests, Expire(r)
       PROVE  ServedTyped'
  BY <1>1, <1>11 DEF Expire, ServedTyped
<1>12. ASSUME RestartVerifier \/ RestartWithoutFile
       PROVE  ServedTyped'
  <2>1. /\ served.restarts < MaxRestarts
        /\ served' = [served EXCEPT !.working = {}, !.restarts = @ + 1,
                                    !.damaged = served'.damaged]
        /\ served'.damaged \in BOOLEAN
        /\ UNCHANGED <<wire, expired>>
    BY <1>1, <1>12 DEF RestartVerifier, RestartWithoutFile, ServedTyped
  <2>2. served.restarts + 1 \in 0 .. MaxRestarts
    BY <1>0, <2>1
  <2> QED BY <1>1, <2>1, <2>2 DEF ServedTyped
<1> QED BY <1>2, <1>4, <1>6, <1>7, <1>8, <1>9, <1>10, <1>11, <1>12
        DEF VerifierNext, ReceiveRequest

\* A step that records the store s leaves it within its bounds.
LEMMA StoreRecorded ==
    ASSUME NEW s, NEW faults, StoreFits(s, faults), expired' = expired,
           replay' = s, served'.faults = faults
    PROVE  StoreFits(replay, served.faults)'
  BY DEF StoreFits, Unmapped

\* The replay store stays within its bounds, step by step.
LEMMA StoreNext ==
    ASSUME VerifierOK, VerifierNext
    PROVE  StoreFits(replay, served.faults)'
<1>1. /\ StoreFits(replay, served.faults) /\ served.faults \in Nat
      /\ replay \in Stores
      /\ served \in [working : SUBSET Requests, evaluated : [Requests -> 0 .. MaxDeliveries],
                     faults : 0 .. MaxFaults, restarts : 0 .. MaxRestarts, damaged : BOOLEAN]
  BY VerifierBounds DEF VerifierOK, ServedTyped, StoreFits
<1>2. StoreFits(Purged(replay), served.faults)
  BY <1>1, PurgedFits
<1>3. \A r \in Requests : <<"request", r>> \in ReplayKeys /\ <<"nonce", r>> \in ReplayKeys
  BY DEF ReplayKeys
<1>4. ASSUME expired' = expired, replay' = replay, served'.faults = served.faults
      PROVE  StoreFits(replay, served.faults)'
  BY <1>1, <1>4, StoreRecorded
<1>5. ASSUME NEW r \in Requests, NEW first \in Appends, NEW second \in Appends,
             AcceptRequest(r, first, second)
      PROVE  StoreFits(replay, served.faults)'
  <2>1. /\ Admits(Purged(replay), <<"request", r>>)
        /\ Admits(Appended(Purged(replay), <<"request", r>>, first), <<"nonce", r>>)
        /\ replay' = Appended(Appended(Purged(replay), <<"request", r>>, first), <<"nonce", r>>, second)
        /\ expired' = expired
        /\ served'.faults = served.faults + Faults(<<first, second>>)
    BY <1>1, <1>5 DEF AcceptRequest, Recorded, Arrives
  <2>2. StoreFits(Appended(Appended(Purged(replay), <<"request", r>>, first), <<"nonce", r>>, second),
                  served.faults + Faults(<<first, second>>))
    BY <1>1, <1>2, <2>1, TwoAppends
  <2> QED BY <2>1, <2>2, StoreRecorded
<1>6. ASSUME NEW r \in Requests, NEW first \in Appends, RefuseRequestKey(r, first)
      PROVE  StoreFits(replay, served.faults)'
  <2>1. expired' = expired /\ served'.faults = served.faults + Faults(<<first>>)
    BY <1>1, <1>6 DEF RefuseRequestKey, Arrives
  <2>2. CASE Admits(Purged(replay), <<"request", r>>)
    <3>1. replay' = Appended(Purged(replay), <<"request", r>>, first)
      BY <1>6, <2>2 DEF RefuseRequestKey, Recorded
    <3>2. StoreFits(Appended(Purged(replay), <<"request", r>>, first),
                    served.faults + FaultOf(first))
      BY <1>1, <1>2, <1>3, <2>2, AppendedFits
    <3>3. Faults(<<first>>) = FaultOf(first)
      BY FaultsCounted
    <3> QED BY <2>1, <3>1, <3>2, <3>3, StoreRecorded
  <2>3. CASE ~Admits(Purged(replay), <<"request", r>>)
    <3>1. replay' = Purged(replay) /\ first = "flushed"
      BY <1>6, <2>3 DEF RefuseRequestKey, Recorded
    <3>2. served'.faults = served.faults
      <4>1. Faults(<<first>>) = 0
        BY <3>1, FaultsCounted DEF FaultOf
      <4> QED BY <1>1, <2>1, <4>1
    <3> QED BY <1>2, <2>1, <3>1, <3>2, StoreRecorded
  <2> QED BY <2>2, <2>3
<1>7. ASSUME NEW r \in Requests, NEW first \in Appends, NEW second \in Appends,
             RefuseNonceKey(r, first, second)
      PROVE  StoreFits(replay, served.faults)'
  <2> DEFINE one == Appended(Purged(replay), <<"request", r>>, first)
  <2>1. /\ expired' = expired /\ served'.faults = served.faults + Faults(<<first, second>>)
        /\ Admits(Purged(replay), <<"request", r>>)
    BY <1>1, <1>7 DEF RefuseNonceKey, Arrives
  <2>2. CASE Admits(one, <<"nonce", r>>)
    <3>1. replay' = Appended(one, <<"nonce", r>>, second)
      BY <1>7, <2>2 DEF RefuseNonceKey, Recorded
    <3>2. StoreFits(Appended(one, <<"nonce", r>>, second),
                    served.faults + Faults(<<first, second>>))
      BY <1>1, <1>2, <2>1, <2>2, TwoAppends
    <3> QED BY <2>1, <3>1, <3>2, StoreRecorded
  <2>3. CASE ~Admits(one, <<"nonce", r>>)
    <3>1. replay' = one /\ second = "flushed"
      BY <1>7, <2>3 DEF RefuseNonceKey, Recorded
    <3>2. StoreFits(one, served.faults + FaultOf(first))
      BY <1>1, <1>2, <1>3, <2>1, AppendedFits
    <3>3. Faults(<<first, second>>) = FaultOf(first)
      <4>1. FaultOf(second) = 0 /\ FaultOf(first) \in Nat
        BY <3>1 DEF FaultOf
      <4>2. Faults(<<first, second>>) = FaultOf(first) + FaultOf(second)
        BY FaultsCounted
      <4> QED BY <4>1, <4>2
    <3> QED BY <2>1, <3>1, <3>2, <3>3, StoreRecorded
  <2> QED BY <2>2, <2>3
<1>8. ASSUME NEW r \in Requests, RefuseExpired(r)
      PROVE  StoreFits(replay, served.faults)'
  BY <1>4, <1>8 DEF RefuseExpired, Arrives
<1>9. ASSUME NEW r \in Requests, AskVerifier(r)
      PROVE  StoreFits(replay, served.faults)'
  BY <1>4, <1>9 DEF AskVerifier
<1>13. ASSUME NEW r \in Requests, NEW report \in Reports, Attest(r, report)
       PROVE  StoreFits(replay, served.faults)'
  <2>1. expired' = expired /\ replay' = replay /\ served'.faults = served.faults
    BY <1>1, <1>13 DEF Attest
  <2> QED BY <1>4, <2>1
<1>14. ASSUME NEW r \in Requests, RefuseEvaluation(r)
       PROVE  StoreFits(replay, served.faults)'
  <2>1. expired' = expired /\ replay' = replay /\ served'.faults = served.faults
    BY <1>1, <1>14 DEF RefuseEvaluation
  <2> QED BY <1>4, <2>1
<1>10. ASSUME NEW r \in Requests, Expire(r)
       PROVE  StoreFits(replay, served.faults)'
  <2>1. /\ replay' = replay /\ served' = served /\ expired \subseteq expired'
    BY <1>10 DEF Expire
  <2>2. IsFiniteSet(Unmapped(replay)) /\ IsFiniteSet(replay.map \cup Unmapped(replay))
    BY <1>1, FS_Subset, FS_Union DEF StoreFits, Unmapped
  <2>3. /\ Unmapped(replay)' \subseteq Unmapped(replay)
        /\ replay.map \cup Unmapped(replay)' \subseteq replay.map \cup Unmapped(replay)
    BY <2>1 DEF Unmapped
  <2>4. /\ Cardinality(Unmapped(replay)') <= Cardinality(Unmapped(replay))
        /\ Cardinality(replay.map \cup Unmapped(replay)') <= Cardinality(replay.map \cup Unmapped(replay))
        /\ Cardinality(Unmapped(replay)') \in Nat
        /\ Cardinality(replay.map \cup Unmapped(replay)') \in Nat
        /\ Cardinality(Unmapped(replay)) \in Nat
        /\ Cardinality(replay.map \cup Unmapped(replay)) \in Nat
    BY <2>2, <2>3, FS_Subset, FS_CardinalityType
  <2>5. /\ Cardinality(Unmapped(replay)') <= served.faults
        /\ Cardinality(replay.map \cup Unmapped(replay)') <= MaxEntries + served.faults
    BY <1>1, <2>4, VerifierBounds DEF StoreFits
  <2> QED BY <1>1, <2>1, <2>5 DEF StoreFits
<1>11. ASSUME RestartVerifier
       PROVE  StoreFits(replay, served.faults)'
  <2> DEFINE loaded == {k \in replay.file : k[2] \notin expired}
  <2>1. /\ replay' = [map |-> loaded, file |-> loaded, fragment |-> FALSE]
        /\ served'.faults = served.faults /\ expired' = expired
    BY <1>1, <1>11 DEF RestartVerifier
  <2>2. replay' \in Stores /\ replay'.map = loaded /\ replay'.file = loaded /\ Unmapped(replay)' = {}
    BY <1>1, <2>1 DEF Stores, Unmapped
  <2>3. /\ IsFiniteSet(Unmapped(replay)) /\ IsFiniteSet(replay.map \cup Unmapped(replay))
        /\ IsFiniteSet(loaded)
    BY <1>1, FS_Subset, FS_Union DEF StoreFits, Unmapped
  <2>4. loaded \subseteq replay.map \cup Unmapped(replay)
    BY DEF Unmapped
  <2>5. /\ Cardinality(loaded) <= Cardinality(replay.map \cup Unmapped(replay))
        /\ Cardinality(loaded) \in Nat
        /\ Cardinality(replay.map \cup Unmapped(replay)) \in Nat
    BY <2>3, <2>4, FS_Subset, FS_CardinalityType
  <2>6. Cardinality(loaded) <= MaxEntries + served.faults
    BY <1>1, <2>5, VerifierBounds DEF StoreFits
  <2>7. Cardinality({}) = 0 /\ loaded \cup {} = loaded
    BY FS_EmptySet
  <2> HIDE DEF loaded
  <2>8. /\ Cardinality(Unmapped(replay)') <= served'.faults
        /\ Cardinality(replay'.map \cup Unmapped(replay)') <= MaxEntries + served'.faults
    <3>1. replay'.map \cup Unmapped(replay)' = loaded
      BY <2>2
    <3>2. Cardinality(Unmapped(replay)') = 0
      BY <2>2, <2>7
    <3>3. Cardinality(replay'.map \cup Unmapped(replay)') = Cardinality(loaded)
      BY <3>1
    <3> QED BY <1>1, <2>1, <2>6, <3>2, <3>3
  <2> QED BY <2>2, <2>3, <2>8 DEF StoreFits
<1>12. ASSUME RestartWithoutFile
       PROVE  StoreFits(replay, served.faults)'
  <2>1. /\ replay' = [map |-> {}, file |-> {}, fragment |-> FALSE]
        /\ served'.faults = served.faults
    BY <1>1, <1>12 DEF RestartWithoutFile
  <2>2. /\ replay' \in Stores /\ replay'.map = {} /\ replay'.file = {}
        /\ Unmapped(replay)' = {} /\ replay'.map \cup Unmapped(replay)' = {}
    BY <2>1 DEF Stores, Unmapped
  <2>3. IsFiniteSet({}) /\ Cardinality({}) = 0
    BY FS_EmptySet
  <2>4. 0 <= MaxEntries + served'.faults /\ 0 <= served'.faults
    BY <1>1, <2>1, VerifierBounds
  <2>5. IsFiniteSet(replay'.map) /\ IsFiniteSet(replay'.file)
    BY <2>2, <2>3
  <2>6. /\ Cardinality(Unmapped(replay)') <= served'.faults
        /\ Cardinality(replay'.map \cup Unmapped(replay)') <= MaxEntries + served'.faults
    <3>1. Cardinality(Unmapped(replay)') = 0
      BY <2>2, <2>3
    <3>2. Cardinality(replay'.map \cup Unmapped(replay)') = 0
      BY <2>2, <2>3
    <3> QED BY <2>4, <3>1, <3>2
  <2> QED BY <2>2, <2>5, <2>6 DEF StoreFits
<1> QED BY <1>5, <1>6, <1>7, <1>8, <1>9, <1>10, <1>11, <1>12, <1>13, <1>14
        DEF VerifierNext, ReceiveRequest

\* A step of the store that keeps every unexpired key of the map, and that
\* evaluates nothing, keeps what is remembered.
LEMMA KeysKept ==
    ASSUME VerifierOK,
           expired \subseteq expired',
           served'.working \subseteq served.working,
           served'.evaluated = served.evaluated,
           served.damaged => served'.damaged,
           \A k \in replay.map : k[2] \notin expired' => k \in replay'.map,
           ~served'.damaged => replay'.map \subseteq replay'.file
    PROVE  WorkIsRemembered' /\ EvaluatedIsRecorded'
<1>1. WorkIsRemembered /\ EvaluatedIsRecorded /\ served.working \subseteq Requests
  BY DEF VerifierOK, ServedTyped
<1>2. WorkIsRemembered'
  BY <1>1 DEF WorkIsRemembered
<1>3. EvaluatedIsRecorded'
  BY <1>1 DEF EvaluatedIsRecorded
<1> QED BY <1>2, <1>3

\* What an append makes of the map: an accepted one adds its key.
LEMMA AppendCases ==
    ASSUME NEW s \in Stores, NEW key \in ReplayKeys, NEW outcome \in Appends
    PROVE  /\ outcome \in AcceptedAppends => Appended(s, key, outcome).map = s.map \cup {key}
           /\ outcome \notin AcceptedAppends => Appended(s, key, outcome).map = s.map
<1>1. Appended(s, key, outcome).map =
         IF outcome \in AcceptedAppends THEN s.map \cup {key} ELSE s.map
  BY AppendedFields
<1> QED BY <1>1

\* An append drops no key of the map.
LEMMA AppendsKeep ==
    ASSUME NEW s \in Stores, NEW key \in ReplayKeys, NEW outcome \in Appends
    PROVE  s.map \subseteq Appended(s, key, outcome).map
<1>1. Appended(s, key, outcome).map =
         IF outcome \in AcceptedAppends THEN s.map \cup {key} ELSE s.map
  BY AppendedFields
<1> QED BY <1>1

\* What is evaluated is remembered, step by step.
LEMMA RememberedNext ==
    ASSUME VerifierOK, VerifierNext
    PROVE  WorkIsRemembered' /\ EvaluatedIsRecorded'
<1>1. /\ replay \in Stores /\ Purged(replay) \in Stores
      /\ Purged(replay).map = {k \in replay.map : k[2] \notin expired}
      /\ Purged(replay).file = replay.file
  BY PurgedFields DEF VerifierOK, StoreFits
<1>2. /\ served \in [working : SUBSET Requests, evaluated : [Requests -> 0 .. MaxDeliveries],
                     faults : 0 .. MaxFaults, restarts : 0 .. MaxRestarts, damaged : BOOLEAN]
      /\ WorkIsRemembered /\ EvaluatedIsRecorded
  BY DEF VerifierOK, ServedTyped
<1>3. \A r \in Requests : /\ <<"request", r>> \in ReplayKeys /\ <<"nonce", r>> \in ReplayKeys
                          /\ <<"request", r>>[2] = r /\ <<"nonce", r>>[2] = r
  BY DEF ReplayKeys
<1>4. ASSUME NEW r \in Requests, NEW first \in Appends, NEW second \in Appends,
             AcceptRequest(r, first, second)
      PROVE  WorkIsRemembered' /\ EvaluatedIsRecorded'
  <2> DEFINE one == Appended(Purged(replay), <<"request", r>>, first)
             both == Appended(one, <<"nonce", r>>, second)
  <2>1. /\ expired' = expired /\ r \notin expired
        /\ first \in AcceptedAppends /\ second \in AcceptedAppends
        /\ replay' = both
        /\ served'.working = served.working \cup {r}
        /\ served'.evaluated = [served.evaluated EXCEPT ![r] = @ + 1]
        /\ served'.damaged = (served.damaged \/ ~(both.map \subseteq both.file))
    BY <1>2, <1>4 DEF AcceptRequest, Recorded, Arrives
  <2>2. one \in Stores /\ one.map = Purged(replay).map \cup {<<"request", r>>}
    BY <1>1, <1>3, <2>1, AppendedFields
  <2>3. replay'.map = {k \in replay.map : k[2] \notin expired}
                          \cup {<<"request", r>>, <<"nonce", r>>}
    <3> HIDE DEF one
    <3>0. one \in Stores /\ <<"nonce", r>> \in ReplayKeys
      BY <1>3, <2>2
    <3>1. second \in AcceptedAppends => both.map = one.map \cup {<<"nonce", r>>}
      BY ONLY <3>0, second \in Appends, AppendCases
    <3> QED BY <1>1, <2>1, <2>2, <3>1
  <2> HIDE DEF one, both
  <2>4. WorkIsRemembered'
    <3>1. \A q \in served'.working \ expired' :
              {<<"request", q>>, <<"nonce", q>>} \subseteq replay'.map
      <4> TAKE q \in served'.working \ expired'
      <4>1. CASE q = r
        BY <2>3, <4>1
      <4>2. CASE q # r
        <5>1. q \in served.working \ expired
          BY <2>1, <4>2
        <5>2. <<"request", q>> \in replay.map /\ <<"nonce", q>> \in replay.map
          BY <1>2, <5>1 DEF WorkIsRemembered
        <5> QED BY <2>1, <2>3, <5>1, <5>2
      <4> QED BY <4>1, <4>2
    <3> QED BY <3>1 DEF WorkIsRemembered
  <2>5. EvaluatedIsRecorded'
    <3> SUFFICES ASSUME ~served'.damaged
                 PROVE  /\ replay'.map \subseteq replay'.file
                        /\ \A q \in Requests \ expired' :
                               served'.evaluated[q] > 0 => <<"request", q>> \in replay'.map
      BY DEF EvaluatedIsRecorded
    <3>1. ~served.damaged /\ both.map \subseteq both.file
      BY <1>2, <2>1
    <3>2. ASSUME NEW q \in Requests \ expired', served'.evaluated[q] > 0
          PROVE  <<"request", q>> \in replay'.map
      <4>1. CASE q = r
        BY <2>3, <4>1
      <4>2. CASE q # r
        <5>1. served.evaluated[q] > 0
          BY <1>2, <2>1, <3>2, <4>2
        <5>2. <<"request", q>> \in replay.map
          BY <1>2, <2>1, <3>1, <5>1 DEF EvaluatedIsRecorded
        <5> QED BY <2>1, <2>3, <5>2
      <4> QED BY <4>1, <4>2
    <3> QED BY <2>1, <3>1, <3>2
  <2> QED BY <2>4, <2>5
<1>5. ASSUME NEW r \in Requests, NEW first \in Appends, RefuseRequestKey(r, first)
      PROVE  WorkIsRemembered' /\ EvaluatedIsRecorded'
  <2> DEFINE one == Appended(Purged(replay), <<"request", r>>, first)
  <2>1. /\ expired' = expired /\ served'.working = served.working
        /\ served'.evaluated = served.evaluated /\ served'.damaged = served.damaged
        /\ \/ replay' = Purged(replay)
           \/ first \notin AcceptedAppends /\ replay' = one
    BY <1>2, <1>5 DEF RefuseRequestKey, Recorded, Arrives
  <2>2. first \notin AcceptedAppends => one.map = Purged(replay).map /\ replay.file \subseteq one.file
    <3>0. Purged(replay) \in Stores /\ <<"request", r>> \in ReplayKeys
      BY <1>1, <1>3
    <3>1. first \notin AcceptedAppends => one.map = Purged(replay).map
      BY ONLY <3>0, first \in Appends, AppendCases
    <3>2. Purged(replay).file \subseteq one.file
      BY <1>1, <1>3, AppendedFields
    <3> QED BY <1>1, <3>1, <3>2
  <2>3. replay'.map = Purged(replay).map /\ replay.file \subseteq replay'.file
    BY <1>1, <2>1, <2>2
  <2>4. ~served'.damaged => replay'.map \subseteq replay'.file
    BY <1>1, <1>2, <2>1, <2>3 DEF EvaluatedIsRecorded
  <2> QED BY <1>1, <2>1, <2>3, <2>4, KeysKept
<1>6. ASSUME NEW r \in Requests, NEW first \in Appends, NEW second \in Appends,
             RefuseNonceKey(r, first, second)
      PROVE  WorkIsRemembered' /\ EvaluatedIsRecorded'
  <2> DEFINE one == Appended(Purged(replay), <<"request", r>>, first)
  <2>1. /\ expired' = expired /\ served'.working = served.working
        /\ served'.evaluated = served.evaluated
        /\ served'.damaged = (served.damaged \/ ~(replay'.map \subseteq replay'.file))
        /\ replay' = one \/ replay' = Appended(one, <<"nonce", r>>, second)
    BY <1>2, <1>6 DEF RefuseNonceKey, Recorded, Arrives
  <2>2. one \in Stores /\ Purged(replay).map \subseteq one.map
    BY <1>1, <1>3, AppendedFields, AppendsKeep
  <2>3. one.map \subseteq Appended(one, <<"nonce", r>>, second).map
    BY <1>3, <2>2, AppendsKeep
  <2>4. Purged(replay).map \subseteq replay'.map
    BY <2>1, <2>2, <2>3
  <2> HIDE DEF one
  <2>5. /\ \A k \in replay.map : k[2] \notin expired' => k \in replay'.map
        /\ served.damaged => served'.damaged
        /\ ~served'.damaged => replay'.map \subseteq replay'.file
    BY <1>1, <1>2, <2>1, <2>4
  <2> QED BY <2>1, <2>5, KeysKept
<1>7. ASSUME expired \subseteq expired', replay' = replay, served'.damaged = served.damaged,
             served'.working \subseteq served.working, served'.evaluated = served.evaluated
      PROVE  WorkIsRemembered' /\ EvaluatedIsRecorded'
  BY <1>2, <1>7, KeysKept DEF EvaluatedIsRecorded
<1>8. ASSUME NEW r \in Requests, RefuseExpired(r)
      PROVE  WorkIsRemembered' /\ EvaluatedIsRecorded'
  BY <1>7, <1>8 DEF RefuseExpired, Arrives
<1>9. ASSUME NEW r \in Requests, AskVerifier(r)
      PROVE  WorkIsRemembered' /\ EvaluatedIsRecorded'
  BY <1>7, <1>9 DEF AskVerifier
<1>10. ASSUME NEW r \in Requests, NEW report \in Reports, Attest(r, report)
       PROVE  WorkIsRemembered' /\ EvaluatedIsRecorded'
  BY <1>2, <1>7, <1>10 DEF Attest
<1>11. ASSUME NEW r \in Requests, RefuseEvaluation(r)
       PROVE  WorkIsRemembered' /\ EvaluatedIsRecorded'
  BY <1>2, <1>7, <1>11 DEF RefuseEvaluation
<1>12. ASSUME NEW r \in Requests, Expire(r)
       PROVE  WorkIsRemembered' /\ EvaluatedIsRecorded'
  BY <1>2, <1>7, <1>12 DEF Expire
<1>13. ASSUME RestartVerifier
       PROVE  WorkIsRemembered' /\ EvaluatedIsRecorded'
  <2>1. /\ replay'.map = {k \in replay.file : k[2] \notin expired}
        /\ replay'.file = {k \in replay.file : k[2] \notin expired}
        /\ served'.working = {} /\ served'.evaluated = served.evaluated
        /\ served'.damaged = served.damaged /\ expired' = expired
    BY <1>2, <1>13 DEF RestartVerifier
  <2>2. WorkIsRemembered'
    BY <2>1 DEF WorkIsRemembered
  <2>3. EvaluatedIsRecorded'
    BY <1>2, <1>3, <2>1 DEF EvaluatedIsRecorded
  <2> QED BY <2>2, <2>3
<1>14. ASSUME RestartWithoutFile
       PROVE  WorkIsRemembered' /\ EvaluatedIsRecorded'
  BY <1>2, <1>14 DEF RestartWithoutFile, WorkIsRemembered, EvaluatedIsRecorded
<1> QED BY <1>4, <1>5, <1>6, <1>8, <1>9, <1>10, <1>11, <1>12, <1>13, <1>14
        DEF VerifierNext, ReceiveRequest

-----------------------------------------------------------------------------
\* The invariant holds in every state of every behaviour.
LEMMA VerifierAlwaysOK == Spec => []VerifierOK
<1>1. VerifierInit => VerifierOK
  BY VerifierOKInit
<1>2. VerifierOK /\ [VerifierNext]_verifierVars => VerifierOK'
  <2> SUFFICES ASSUME VerifierOK, [VerifierNext]_verifierVars PROVE VerifierOK'
    OBVIOUS
  <2>1. CASE VerifierNext
    BY <2>1, TypesNext, StoreNext, RememberedNext DEF VerifierOK
  <2>2. CASE UNCHANGED verifierVars
    <3>1. ServedTyped' /\ WorkIsRemembered' /\ EvaluatedIsRecorded'
      BY <2>2 DEF VerifierOK, verifierVars, ServedTyped, WorkIsRemembered, EvaluatedIsRecorded
    <3>2. StoreFits(replay, served.faults)'
      BY <2>2 DEF VerifierOK, verifierVars, StoreFits, Unmapped
    <3> QED BY <3>1, <3>2 DEF VerifierOK
  <2> QED BY <2>1, <2>2
<1> QED BY <1>1, <1>2, PTL DEF Spec

\* VerifierTypeOK: the state of the verifier has its types, and the map of the
\* replay store holds no more than limits.replayEntries and one key for every
\* append that went wrong, whatever is replayed and whenever it restarts.
THEOREM VerifierTypeCorrect == Spec => []VerifierTypeOK
<1>1. VerifierOK => VerifierTypeOK
  <2> SUFFICES ASSUME VerifierOK PROVE VerifierTypeOK
    OBVIOUS
  <2>1. /\ replay \in Stores /\ ServedTyped /\ IsFiniteSet(replay.map) /\ IsFiniteSet(replay.file)
        /\ Cardinality(replay.map \cup Unmapped(replay)) <= MaxEntries + served.faults
        /\ served.faults \in Nat
    BY VerifierBounds DEF VerifierOK, StoreFits, ServedTyped
  <2>2. IsFiniteSet(replay.map \cup Unmapped(replay))
    BY <2>1, FS_Subset, FS_Union DEF Unmapped
  <2>3. /\ Cardinality(replay.map) <= Cardinality(replay.map \cup Unmapped(replay))
        /\ Cardinality(replay.map) \in Nat /\ Cardinality(replay.map \cup Unmapped(replay)) \in Nat
    BY <2>1, <2>2, FS_Subset, FS_CardinalityType
  <2>4. Cardinality(replay.map) <= MaxEntries + served.faults
    BY <2>1, <2>3, VerifierBounds
  <2> QED BY <2>1, <2>4 DEF VerifierTypeOK, ServedTyped, Stores
<1> QED BY <1>1, VerifierAlwaysOK, PTL

\* WorkIsRemembered: whatever is being evaluated has its request key and its
\* nonce key in the map until it expires, so a second delivery is refused.
THEOREM WorkStaysRemembered == Spec => []WorkIsRemembered
<1>1. VerifierOK => WorkIsRemembered
  BY DEF VerifierOK
<1> QED BY <1>1, VerifierAlwaysOK, PTL

-----------------------------------------------------------------------------
(* The promise. *)

\* A step that neither asks, evaluates nor answers is a step of the promise
\* only when the file loses a key.
LEMMA OtherwiseBreak ==
    ASSUME wire'.sent = wire.sent, wire'.replies = wire.replies,
           served'.evaluated = served.evaluated, served.damaged \in BOOLEAN,
           served'.damaged \in {served.damaged, TRUE}
    PROVE  [P!PromiseNext]_P!promiseVars
<1>1. CASE served'.damaged = served.damaged
  BY <1>1 DEF P!promiseVars
<1>2. CASE served'.damaged # served.damaged
  BY <1>2 DEF P!PromiseNext, P!Break
<1> QED BY <1>1, <1>2

\* Every step of the verifier is a step of the promise, or none.
LEMMA StepKeepsPromise ==
    ASSUME VerifierOK, VerifierNext
    PROVE  [P!PromiseNext]_P!promiseVars
<1>1. /\ wire \in [sent : SUBSET Requests, delivered : [Requests -> 0 .. MaxDeliveries],
                   replies : SUBSET Replies]
      /\ served \in [working : SUBSET Requests, evaluated : [Requests -> 0 .. MaxDeliveries],
                     faults : 0 .. MaxFaults, restarts : 0 .. MaxRestarts, damaged : BOOLEAN]
      /\ \A r \in Requests : served.evaluated[r] <= wire.delivered[r]
      /\ \A r \in served.working : served.evaluated[r] > 0
      /\ EvaluatedIsRecorded
      /\ replay \in Stores
  BY DEF VerifierOK, ServedTyped, StoreFits
<1>2. ASSUME NEW r \in Requests, Arrives(r)
      PROVE  /\ r \in wire.sent /\ wire.delivered[r] < MaxDeliveries
             /\ wire'.sent = wire.sent /\ wire'.replies = wire.replies
  BY <1>1, <1>2 DEF Arrives
<1>3. ASSUME NEW r \in Requests, AskVerifier(r)
      PROVE  [P!PromiseNext]_P!promiseVars
  <2>1. P!Ask(r)
    BY <1>1, <1>3 DEF AskVerifier, P!Ask
  <2> QED BY <2>1 DEF P!PromiseNext
<1>4. ASSUME NEW r \in Requests, NEW first \in Appends, NEW second \in Appends,
             AcceptRequest(r, first, second)
      PROVE  [P!PromiseNext]_P!promiseVars
  <2>1. /\ Arrives(r) /\ r \notin expired
        /\ Admits(Purged(replay), <<"request", r>>)
        /\ served'.evaluated = [served.evaluated EXCEPT ![r] = @ + 1]
        /\ served'.damaged \in {served.damaged, TRUE}
    BY <1>1, <1>4 DEF AcceptRequest
  <2>2. served.evaluated[r] = 0 \/ served.damaged
    <3> SUFFICES ASSUME ~served.damaged, served.evaluated[r] > 0
                 PROVE  FALSE
      BY <1>1
    <3>1. <<"request", r>> \in replay.map
      BY <1>1, <2>1 DEF EvaluatedIsRecorded
    <3>2. <<"request", r>> \in Purged(replay).map
      BY <1>1, <2>1, <3>1, PurgedFields
    <3> QED BY <2>1, <3>2 DEF Admits
  <2>3. served.evaluated[r] < MaxDeliveries
    <3>1. /\ served.evaluated[r] \in Nat /\ wire.delivered[r] \in Nat
          /\ served.evaluated[r] <= wire.delivered[r] /\ wire.delivered[r] < MaxDeliveries
      BY <1>1, <1>2, <2>1
    <3> QED BY <3>1, VerifierBounds
  <2>4. P!Evaluate(r)
    BY <1>2, <2>1, <2>2, <2>3 DEF P!Evaluate
  <2> QED BY <2>4 DEF P!PromiseNext, P!Serve
<1>5. ASSUME NEW r \in Requests, NEW first \in Appends, RefuseRequestKey(r, first)
      PROVE  [P!PromiseNext]_P!promiseVars
  <2>1. /\ Arrives(r) /\ served'.evaluated = served.evaluated
        /\ served'.damaged = served.damaged
    BY <1>1, <1>5 DEF RefuseRequestKey
  <2> QED BY <1>1, <1>2, <2>1, OtherwiseBreak
<1>6. ASSUME NEW r \in Requests, NEW first \in Appends, NEW second \in Appends,
             RefuseNonceKey(r, first, second)
      PROVE  [P!PromiseNext]_P!promiseVars
  <2>1. /\ Arrives(r) /\ served'.evaluated = served.evaluated
        /\ served'.damaged \in {served.damaged, TRUE}
    BY <1>1, <1>6 DEF RefuseNonceKey
  <2> QED BY <1>1, <1>2, <2>1, OtherwiseBreak
<1>7. ASSUME NEW r \in Requests, RefuseExpired(r)
      PROVE  [P!PromiseNext]_P!promiseVars
  <2>1. Arrives(r) /\ served' = served
    BY <1>7 DEF RefuseExpired
  <2> QED BY <1>1, <1>2, <2>1, OtherwiseBreak
<1>8. ASSUME NEW r \in Requests, NEW report \in Reports, Attest(r, report)
      PROVE  [P!PromiseNext]_P!promiseVars
  <2>1. /\ served.evaluated[r] > 0
        /\ r \in Calls \X {"readiness"} => report = "passed"
        /\ wire'.replies = wire.replies \cup
               {[request |-> r, id |-> served.evaluated[r], report |-> report]}
        /\ wire'.sent = wire.sent /\ served'.evaluated = served.evaluated
        /\ served'.damaged = served.damaged
    BY <1>1, <1>8 DEF Attest
  <2>2. P!Answer(r, report)
    BY <2>1 DEF P!Answer
  <2> QED BY <2>2 DEF P!PromiseNext, P!Serve, P!Reports, Reports
<1>9. ASSUME NEW r \in Requests, RefuseEvaluation(r)
      PROVE  [P!PromiseNext]_P!promiseVars
  BY <1>1, <1>9, OtherwiseBreak DEF RefuseEvaluation
<1>10. ASSUME NEW r \in Requests, Expire(r)
       PROVE  [P!PromiseNext]_P!promiseVars
  BY <1>1, <1>10, OtherwiseBreak DEF Expire
<1>11. ASSUME RestartVerifier
       PROVE  [P!PromiseNext]_P!promiseVars
  BY <1>1, <1>11, OtherwiseBreak DEF RestartVerifier
<1>12. ASSUME RestartWithoutFile
       PROVE  [P!PromiseNext]_P!promiseVars
  BY <1>1, <1>12, OtherwiseBreak DEF RestartWithoutFile
<1> QED BY <1>3, <1>4, <1>5, <1>6, <1>7, <1>8, <1>9, <1>10, <1>11, <1>12
        DEF VerifierNext, ReceiveRequest

\* KeepsPromise: the verifier implements VerifierPromise.  A request is
\* evaluated once, however often it is delivered and whatever fails, until the
\* replay file has lost a key; an attestation answers a request that was
\* evaluated.
THEOREM VerifierKeepsPromise == Spec => KeepsPromise
<1>1. VerifierInit => P!PromiseInit
  BY DEF VerifierInit, P!PromiseInit
<1>2. VerifierOK /\ [VerifierNext]_verifierVars => [P!PromiseNext]_P!promiseVars
  <2> SUFFICES ASSUME VerifierOK, [VerifierNext]_verifierVars
               PROVE  [P!PromiseNext]_P!promiseVars
    OBVIOUS
  <2>1. CASE VerifierNext
    BY <2>1, StepKeepsPromise
  <2>2. CASE UNCHANGED verifierVars
    BY <2>2 DEF verifierVars, P!promiseVars
  <2> QED BY <2>1, <2>2
<1>3. Spec => P!Promise
  BY <1>1, <1>2, VerifierAlwaysOK, PTL DEF Spec, P!Promise
<1> QED BY <1>3 DEF KeepsPromise

=============================================================================
