------------------------------ MODULE PhaseChain ------------------------------
(***************************************************************************)
(* What the phased workflow promises whoever starts a run, without workers,*)
(* leases, retries or waits: phases commit one at a time and in order, each*)
(* commits one output for good, and a run ends once, succeeding only after *)
(* its last phase.                                                         *)
(***************************************************************************)
EXTENDS Integers

CONSTANTS Runs, LastPhase, Digests, None

VARIABLES
    committed,   \* number of phases of the run that committed
    verdict,     \* "none" before the run starts, then "open", then how it ended
    output       \* what each phase committed

chainVars == <<committed, verdict, output>>

Ended == {"succeeded", "failed", "cancelled"}

ChainInit ==
    /\ committed = [r \in Runs |-> 0]
    /\ verdict = [r \in Runs |-> "none"]
    /\ output = [r \in Runs |-> [p \in 1 .. LastPhase |-> None]]

Open(r) ==
    /\ verdict[r] = "none"
    /\ verdict' = [verdict EXCEPT ![r] = "open"]
    /\ UNCHANGED <<committed, output>>

Commit(r, digest) ==
    /\ verdict[r] = "open"
    /\ committed[r] < LastPhase
    /\ committed' = [committed EXCEPT ![r] = @ + 1]
    /\ output' = [output EXCEPT ![r][committed[r] + 1] = digest]
    /\ verdict' = [verdict EXCEPT ![r] =
                     IF committed[r] + 1 = LastPhase THEN "succeeded" ELSE "open"]

Cancel(r) ==
    /\ verdict[r] = "open"
    /\ verdict' = [verdict EXCEPT ![r] = "cancelled"]
    /\ UNCHANGED <<committed, output>>

\* One repair transaction may give up on several runs at once.
GiveUp(lost) ==
    /\ \A r \in lost : verdict[r] = "open"
    /\ verdict' = [r \in Runs |-> IF r \in lost THEN "failed" ELSE verdict[r]]
    /\ UNCHANGED <<committed, output>>

ChainNext ==
    \/ \E r \in Runs : Open(r) \/ Cancel(r)
    \/ \E r \in Runs, d \in Digests : Commit(r, d)
    \/ \E lost \in SUBSET Runs : GiveUp(lost)

ChainSpec == ChainInit /\ [][ChainNext]_chainVars

=============================================================================
