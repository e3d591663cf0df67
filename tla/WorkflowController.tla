------------------------- MODULE WorkflowController -------------------------
(***************************************************************************)
(* The worker's half of the phased workflow: WorkflowController.runNext    *)
(* (packages/database/src/workflow.ts) with the side effect protocol       *)
(* around its GitHub port (apps/worker/src/github-workflow.ts), over the   *)
(* rows of WorkflowStore.  The phases are the last two of the registry,    *)
(* publish and install_verify, which change something at GitHub.           *)
(*                                                                         *)
(* GitHub (external) is what reconcileGitHubDraftPullRequest can tell      *)
(* apart: each object is looked up and created if it was not found, in two *)
(* calls that nothing makes one.  The branch is left out: its head is its  *)
(* own proof, and before the patch it is the base whoever created it.  A   *)
(* call of the repository that is refused ends the attempt, as an aborted  *)
(* lifecycle does; a heartbeat is the LeaseTick that does not happen.      *)
(***************************************************************************)
EXTENDS WorkflowStore

CONSTANTS
    References,   \* what a sandbox run may attest: its logs are part of it
    MaxFaults     \* bound: failed or unheard calls, crashes, silent heartbeats, closed requests

ASSUME FaultsAssumption == MaxFaults \in Nat

VARIABLES
    worker,   \* what each worker process is doing
    github,   \* by run: its branch, its pull requests and its checks
    draft,    \* public.github_draft_pull_requests, at most one row per task
    faults    \* what went wrong so far

controllerVars == <<vars, worker, github, draft, faults>>

-----------------------------------------------------------------------------
\* Objects of GitHub.  A commit is named by the attempt that made it, and a
\* pull request by its number; its head is the branch's.
Commits == Tokens
MaxPulls == MaxFaults + 1     \* each but the last was closed

GitHub ==
    [head : Commits \cup {None}, pulls : 0 .. MaxPulls, open : BOOLEAN,
     checks : [References -> 0 .. Cardinality(Workers)]]

NothingThere == [head |-> None, pulls |-> 0, open |-> FALSE, checks |-> [e \in References |-> 0]]

Row == [head : Commits, pull : 1 .. MaxPulls, check : References]

ASSUME ControllerAssumption ==
    /\ None \notin Commits /\ None \notin Row
    /\ IsFiniteSet(Workers)

\* The steps between the lookup and the end of the port's operation.
Operating ==
    {"verifying", "patch", "patching", "pull", "pulling", "check", "checking", "saving"}
Steps == Operating \cup {"idle", "beginning", "looking", "recording", "completing", "failing"}

WorkerRecord ==
    [at : Steps, of : Tasks \cup {None}, gen : Attempts, call : {"execute", "reconcile"},
     head : Commits \cup {None}, pull : 0 .. MaxPulls, check : References \cup {None},
     failure : Classifications]

Idle ==
    [at |-> "idle", of |-> None, gen |-> 0, call |-> "execute", head |-> None, pull |-> 0,
     check |-> None, failure |-> "transient"]

ControllerTypeOK ==
    /\ worker \in [Workers -> WorkerRecord]
    /\ github \in [Runs -> GitHub]
    /\ draft \in [Tasks -> Row \cup {None}]
    /\ faults \in 0 .. MaxFaults

ControllerInit ==
    /\ Init
    /\ worker = [w \in Workers |-> Idle]
    /\ github = [r \in Runs |-> NothingThere]
    /\ draft = [t \in Tasks |-> None]
    /\ faults = 0

-----------------------------------------------------------------------------
At(w, step) == worker[w].at = step
OwnsTask(w) == ~At(w, "idle") /\ HoldsLease(w, worker[w].of, worker[w].gen)
RunOf(w) == worker[w].of[1]
Hub(w) == github[RunOf(w)]
HubBecomes(w, state) == github' = [github EXCEPT ![RunOf(w)] = state]

Goes(w, step) == worker' = [worker EXCEPT ![w].at = step]
Rests(w) == worker' = [worker EXCEPT ![w] = Idle]
GivesUp(w, classification) ==
    worker' = [worker EXCEPT ![w] = [Idle EXCEPT !.at = "failing", !.of = worker[w].of,
                                        !.gen = worker[w].gen, !.failure = classification]]

\* The port failed: runNext asks it to reconcile, once.
Stumbles(w, classification) ==
    IF worker[w].call = "execute"
    THEN worker' = [worker EXCEPT ![w] = [Idle EXCEPT !.at = "looking", !.of = worker[w].of,
                                            !.gen = worker[w].gen, !.call = "reconcile"]]
    ELSE GivesUp(w, classification)

\* What is `well' costs nothing.
Costs(well) == faults' = faults + (IF well THEN 0 ELSE 1) /\ faults' <= MaxFaults

-----------------------------------------------------------------------------
(* runNext *)

Claim(w, t) ==
    /\ At(w, "idle")
    /\ ClaimWorkflowTask(w, t)
    /\ worker' = [worker EXCEPT ![w] =
          [Idle EXCEPT !.at = "beginning", !.of = t, !.gen = task[t].generation + 1]]
    /\ UNCHANGED <<github, draft, faults>>

\* assertWorkflowTaskLease, and the event that the effect started.
Begin(w) ==
    /\ At(w, "beginning") /\ OwnsTask(w)
    /\ Goes(w, "looking")
    /\ UNCHANGED <<vars, github, draft, faults>>

LookPastRow(w) ==                                                          \* mutant
    /\ At(w, "looking") /\ OwnsTask(w)
    /\ IF draft[worker[w].of] # None /\ worker[w].call = "execute"
       THEN Goes(w, "recording") ELSE Goes(w, "verifying")
    /\ UNCHANGED <<vars, github, draft, faults>>

\* The port's lookup, before it executes and again before it reconciles.
Look(w) ==
    /\ At(w, "looking") /\ OwnsTask(w)
    /\ IF draft[worker[w].of] # None THEN Goes(w, "recording") ELSE Goes(w, "verifying")
    /\ UNCHANGED <<vars, github, draft, faults>>

RecordEffect(w) ==
    /\ At(w, "recording") /\ OwnsTask(w)
    /\ Goes(w, "completing")
    /\ UNCHANGED <<vars, github, draft, faults>>

Complete(w, digest, heard) ==
    /\ At(w, "completing")
    /\ CompleteWorkflowTask(w, worker[w].of, worker[w].gen, digest)
    /\ IF heard THEN Rests(w) ELSE GivesUp(w, "transient")
    /\ Costs(heard)
    /\ UNCHANGED <<github, draft>>

\* Also after a completion whose answer was lost; a refusal is swallowed.
Fail(w) ==
    /\ At(w, "failing")
    /\ FailWorkflowTask(w, worker[w].of, worker[w].gen, worker[w].failure)
    /\ Rests(w)
    /\ UNCHANGED <<github, draft, faults>>

\* A call of the repository failed, or a heartbeat did and aborted the rest.
CallFails(w) ==
    /\ worker[w].at \notin {"idle", "failing"}
    /\ GivesUp(w, "transient")
    /\ Costs(FALSE)
    /\ UNCHANGED <<vars, github, draft>>

\* LEASE_LOST or CANCELLED, from a call or from a heartbeat; or a crash.
Leave(w) ==
    /\ ~At(w, "idle")
    /\ Rests(w)
    /\ Costs(~OwnsTask(w))
    /\ UNCHANGED <<vars, github, draft>>

-----------------------------------------------------------------------------
(* The port: operate and reconcileGitHubDraftPullRequest. *)

\* The material is read under the lease, the sandbox passes.
Verify(w, reference) ==
    /\ At(w, "verifying") /\ OwnsTask(w)
    /\ worker' = [worker EXCEPT ![w].at = "patch", ![w].check = reference]
    /\ UNCHANGED <<vars, github, draft, faults>>

PortFails(w, classification) ==
    /\ worker[w].at \in Operating
    /\ Stumbles(w, classification)
    /\ Costs(FALSE)
    /\ UNCHANGED <<vars, github, draft>>

LookupPatch(w) ==
    /\ At(w, "patch")
    /\ IF Hub(w).head = None THEN Goes(w, "patching")
       ELSE worker' = [worker EXCEPT ![w].at = "pull", ![w].head = Hub(w).head]
    /\ UNCHANGED <<vars, github, draft, faults>>

\* The ref moves without force: only from the base.  Somebody else's commit
\* there is a refusal, which the reconciliation finds as its own patch.
ApplyPatch(w, heard) ==
    LET t == worker[w].of
        commit == <<t[2], worker[w].gen>>
    IN  /\ At(w, "patching") /\ Hub(w).head = None
        /\ HubBecomes(w, [Hub(w) EXCEPT !.head = commit])
        /\ IF heard THEN worker' = [worker EXCEPT ![w].at = "pull", ![w].head = commit]
           ELSE Stumbles(w, "transient")
        /\ Costs(heard)
        /\ UNCHANGED <<vars, draft>>

PatchRefused(w) ==
    /\ At(w, "patching") /\ Hub(w).head # None
    /\ Stumbles(w, "transient")
    /\ UNCHANGED <<vars, github, draft, faults>>

\* Only an open request counts.
LookupPull(w) ==
    /\ At(w, "pull")
    /\ IF Hub(w).open /\ Hub(w).head = worker[w].head
       THEN worker' = [worker EXCEPT ![w].at = "check", ![w].pull = Hub(w).pulls]
       ELSE Goes(w, "pulling")
    /\ UNCHANGED <<vars, github, draft, faults>>

TrustPull(w, heard) ==                                                     \* mutant
    LET opened == [Hub(w) EXCEPT !.pulls = @ + 1, !.open = TRUE]
    IN  /\ At(w, "pulling") /\ ~Hub(w).open
        /\ HubBecomes(w, IF heard THEN opened ELSE Hub(w))
        /\ worker' = [worker EXCEPT ![w].at = "check", ![w].pull = opened.pulls]
        /\ Costs(heard)
        /\ UNCHANGED <<vars, draft>>

\* GitHub keeps one open request for a branch and its base.
CreatePull(w, heard) ==
    LET opened == [Hub(w) EXCEPT !.pulls = @ + 1, !.open = TRUE]
    IN  /\ At(w, "pulling") /\ ~Hub(w).open
        /\ HubBecomes(w, opened)
        /\ IF heard THEN worker' = [worker EXCEPT ![w].at = "check", ![w].pull = opened.pulls]
           ELSE Stumbles(w, "transient")
        /\ Costs(heard)
        /\ UNCHANGED <<vars, draft>>

PullRefused(w) ==
    /\ At(w, "pulling") /\ Hub(w).open
    /\ Stumbles(w, "transient")
    /\ UNCHANGED <<vars, github, draft, faults>>

CheckUnseen(w) ==                                                          \* mutant
    /\ At(w, "check")
    /\ Goes(w, "checking")
    /\ UNCHANGED <<vars, github, draft, faults>>

\* The check's key is the patch and what the sandbox attested.  Two of a key
\* are an invalid response, for good.
LookupCheck(w) ==
    LET found == Hub(w).checks[worker[w].check]
    IN  /\ At(w, "check")
        /\ \/ found = 0 /\ Goes(w, "checking")
           \/ found = 1 /\ Goes(w, "saving")
           \/ found > 1 /\ Stumbles(w, "permanent")
        /\ UNCHANGED <<vars, github, draft, faults>>

\* GitHub takes any number of checks of one key.
CreateCheck(w, heard) ==
    /\ At(w, "checking")
    /\ HubBecomes(w, [Hub(w) EXCEPT !.checks[worker[w].check] = @ + 1])
    /\ IF heard THEN Goes(w, "saving") ELSE Stumbles(w, "transient")
    /\ Costs(heard)
    /\ UNCHANGED <<vars, draft>>

\* saveGitHubDraftPullRequest: under the lease; a row that exists is kept, and
\* is an error unless it is the same.
Save(w, heard) ==
    LET t == worker[w].of
        row == [head |-> worker[w].head, pull |-> worker[w].pull, check |-> worker[w].check]
        accepted == draft[t] \in {None, row}
    IN  /\ At(w, "saving") /\ OwnsTask(w)
        /\ draft' = IF draft[t] = None THEN [draft EXCEPT ![t] = row] ELSE draft
        /\ IF heard /\ accepted THEN Goes(w, "recording") ELSE Stumbles(w, "transient")
        /\ Costs(heard)
        /\ UNCHANGED <<vars, github>>

-----------------------------------------------------------------------------
(* Everybody else. *)

\* A person closes or merges the pull request.
ClosePull(r) ==
    /\ github[r].open
    /\ github' = [github EXCEPT ![r].open = FALSE]
    /\ Costs(FALSE)
    /\ UNCHANGED <<vars, worker, draft>>

LeaseRunsOut(t) ==
    /\ LeaseTick(t)
    /\ Costs(~\E w \in Workers : worker[w].of = t /\ OwnsTask(w))
    /\ UNCHANGED <<worker, github, draft>>

StoreStep ==
    /\ \/ \E r \in Runs, digest \in Digests : StartWorkflow(r, digest)
       \/ \E r \in Runs, key \in AppKeys : CancelWorkflow(r, key)
       \/ \E found \in SUBSET {t \in Tasks : Repairable(t)} : ReconcileWorkflows(found)
       \/ \E t \in Tasks : RetryDue(t)
    /\ UNCHANGED <<worker, github, draft, faults>>

RunNext(w) ==
    \/ \E t \in Tasks : Claim(w, t)
    \/ Begin(w) \/ Look(w) \/ RecordEffect(w) \/ Fail(w) \/ CallFails(w) \/ Leave(w)
    \/ \E digest \in Digests, heard \in BOOLEAN : Complete(w, digest, heard)

Operate(w) ==
    \/ LookupPatch(w) \/ PatchRefused(w) \/ LookupPull(w) \/ PullRefused(w) \/ LookupCheck(w)
    \/ \E heard \in BOOLEAN :
          ApplyPatch(w, heard) \/ CreatePull(w, heard) \/ CreateCheck(w, heard) \/ Save(w, heard)
    \/ \E reference \in References : Verify(w, reference)
    \/ \E classification \in Classifications : PortFails(w, classification)

ControllerNext ==
    \/ StoreStep
    \/ \E w \in Workers : RunNext(w) \/ Operate(w)
    \/ \E r \in Runs : ClosePull(r)
    \/ \E t \in Tasks : LeaseRunsOut(t)

ControllerSpec == ControllerInit /\ [][ControllerNext]_controllerVars

-----------------------------------------------------------------------------
(* What the protocol is for. *)

\* "Never convert an unknown external effect into success": a phase succeeds
\* only with its row, and a row names only what is at GitHub: the commit the
\* branch still has, a pull request that was opened and a check that was made,
\* whatever answers were lost and whoever else was working on the task.
NoUnknownEffectRecorded ==
    \A t \in Tasks :
        /\ task[t].status = "succeeded" => draft[t] # None
        /\ draft[t] # None =>
              LET hub == github[t[1]]
              IN  /\ hub.head = draft[t].head
                  /\ draft[t].pull <= hub.pulls
                  /\ hub.checks[draft[t].check] > 0

\* What is recorded is not done again: an attempt that holds its lease drives
\* the port only while its task has no row, also when it saved the row itself
\* and did not hear of it.  So a save never meets another row.
NothingIsDoneTwice ==
    \A w \in Workers :
        worker[w].at \in Operating /\ OwnsTask(w) => draft[worker[w].of] = None

=============================================================================
