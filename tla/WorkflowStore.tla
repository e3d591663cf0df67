---------------------------- MODULE WorkflowStore ----------------------------
(***************************************************************************)
(* The durable half of the phased workflow: the rows of workflow_runs,     *)
(* workflow_tasks, workflow_commands and projects, and every repository    *)
(* operation of packages/database/src/postgres.ts that writes them for a   *)
(* run that is not an analysis.                                            *)
(*                                                                         *)
(* Each operation is one database transaction that locks its run row, so   *)
(* it is one action; a refused call (CANCELLED, LEASE_LOST, WAIT_EXPIRED,  *)
(* IDEMPOTENCY_CONFLICT, ...) and the replay of a recorded command write   *)
(* nothing and are the disabled action.  Time is what the guards can tell  *)
(* apart: a lease counts the heartbeat intervals it has left, a retry is   *)
(* delayed or due, a wait is open or past its expiry.                      *)
(*                                                                         *)
(* A definition marked "mutant" is no part of the model: it is a plausible *)
(* bug of the definition after it, and shows what some property catches.   *)
(***************************************************************************)
EXTENDS Integers, FiniteSets

CONSTANTS
    Workers,          \* worker identities (lease_owner)
    Runs,             \* possible workflow runs, one per start idempotency key
    Projects, Orgs,
    ProjectOf,        \* the project a run is started for
    OrgOf,            \* the organization a project belongs to
    LastPhase,        \* number of phases in the registry
    MaxAttempts,      \* workflow_tasks.max_attempts
    ActiveTaskQuota,  \* live leases one organization may hold
    LeaseTerm,        \* heartbeat intervals in one lease
    Digests,          \* input and output hashes
    AppKeys,          \* idempotency keys application callers choose
    None              \* SQL null

ASSUME BoundsAssumption ==
    /\ LastPhase \in Nat \ {0}
    /\ MaxAttempts \in Nat \ {0}
    /\ ActiveTaskQuota \in Nat \ {0}
    /\ LeaseTerm \in Nat \ {0}

ASSUME TenancyAssumption ==
    /\ ProjectOf \in [Runs -> Projects]
    /\ OrgOf \in [Projects -> Orgs]
    /\ IsFiniteSet(Runs)

ASSUME NullAssumption == None \notin Workers /\ None \notin Digests

VARIABLES
    run,      \* public.workflow_runs
    task,     \* private.workflow_tasks, at most one row per run and phase
    project,  \* public.projects.status
    command   \* private.workflow_commands, by scope

vars == <<run, task, project, command>>

-----------------------------------------------------------------------------
Phases == 1 .. LastPhase
Tasks == Runs \X Phases
Attempts == 0 .. MaxAttempts
Tokens == Phases \X Attempts        \* one per wait: its phase and generation

ActiveStatus == {"queued", "running", "waiting"}
TerminalStatus == {"succeeded", "failed", "cancelled"}
Status == {"none"} \cup ActiveStatus \cup TerminalStatus
Classifications == {"transient", "permanent"}

RunRecord == [status : Status, phase : Phases]

TaskRecord ==
    [status : Status, attempts : Attempts, generation : Attempts,
     owner : Workers \cup {None}, lease : 0 .. LeaseTerm,
     delayed : BOOLEAN, waitToken : Attempts, waitOpen : BOOLEAN,
     input : Digests \cup {None}, output : Digests \cup {None}]

CommandLog ==
    [complete : SUBSET [of : Tasks, key : Attempts, input : Digests],
     fail : SUBSET [of : Tasks, key : Attempts, input : Classifications],
     resume : SUBSET [of : Runs, key : AppKeys, input : Tokens],
     cancel : SUBSET [of : Runs, key : AppKeys]]

AbsentTask ==
    [status |-> "none", attempts |-> 0, generation |-> 0, owner |-> None,
     lease |-> 0, delayed |-> FALSE, waitToken |-> 0, waitOpen |-> FALSE,
     input |-> None, output |-> None]

\* The row an insert creates: every column enforce_workflow_task_phase demands.
NewTask(digest) == [AbsentTask EXCEPT !.status = "queued", !.input = digest]

TypeOK ==
    /\ run \in [Runs -> RunRecord]
    /\ task \in [Tasks -> TaskRecord]
    /\ project \in [Projects -> {"created", "analyzing", "analyzed", "failed"}]
    /\ command \in CommandLog

-----------------------------------------------------------------------------
AnythingNotCancelled(r) == run[r].status \notin {"none", "cancelled"}   \* mutant
RunIsActive(r) == run[r].status \in ActiveStatus

LeaseOfAnyAttempt(w, t, g) ==                                          \* mutant
    task[t].status = "running" /\ task[t].owner = w /\ task[t].lease > 0

\* A lease whose expiry has not passed, held under exactly this generation.
HoldsLease(w, t, g) ==
    /\ task[t].status = "running"
    /\ task[t].owner = w
    /\ task[t].generation = g
    /\ task[t].lease > 0

\* cancel_requested_at and the cancelled status are written by one transaction.
Cancelled(r) == run[r].status = "cancelled"

LeasedTasks(org) ==
    {t \in Tasks : /\ OrgOf[ProjectOf[t[1]]] = org
                   /\ task[t].status = "running"
                   /\ task[t].lease > 0}

LeaseExpired(t) == task[t].status = "running" /\ task[t].lease = 0

ExceedsQuotaByOne(org) == Cardinality(LeasedTasks(org)) <= ActiveTaskQuota   \* mutant
QuotaLeft(org) == Cardinality(LeasedTasks(org)) < ActiveTaskQuota

KeepsOwner(t, status) == [task[t] EXCEPT !.status = status, !.lease = 0]     \* mutant

\* What every transition out of "running" does to the lease columns.
Released(t, status) ==
    [task[t] EXCEPT !.status = status, !.owner = None, !.lease = 0]

\* A claim starts an attempt under a new generation.
Leased(t, w) ==
    [task[t] EXCEPT !.status = "running", !.attempts = @ + 1,
                    !.generation = @ + 1, !.owner = w, !.lease = LeaseTerm]

\* workflow_next_phase
SkipsLastPhase(t) == t[2] + 1 < LastPhase                                  \* mutant
HasSuccessor(t) == t[2] < LastPhase

NeverInserted(t, digest) == task[t]                                        \* mutant
ChainsInput(t, digest) ==                                                  \* mutant
    IF task[t].status = "none" THEN NewTask(task[<<t[1], t[2] - 1>>].input) ELSE task[t]

\* A successor is inserted unless its row exists (on conflict do nothing).
Successor(t, digest) == IF task[t].status = "none" THEN NewTask(digest) ELSE task[t]

Replayed(log, of, key) == \E c \in log : c.of = of /\ c.key = key

-----------------------------------------------------------------------------
Init ==
    /\ run = [r \in Runs |-> [status |-> "none", phase |-> 1]]
    /\ task = [t \in Tasks |-> AbsentTask]
    /\ project = [p \in Projects |-> "created"]
    /\ command = [complete |-> {}, fail |-> {}, resume |-> {}, cancel |-> {}]

StartBesideActiveRun(r, digest) ==                                         \* mutant
    /\ run[r].status = "none"
    /\ run' = [run EXCEPT ![r] = [status |-> "queued", phase |-> 1]]
    /\ task' = [task EXCEPT ![<<r, 1>>] = NewTask(digest)]
    /\ project' = [project EXCEPT ![ProjectOf[r]] = "analyzing"]
    /\ UNCHANGED command

\* The unique index workflow_runs_one_active_per_project_idx refuses the
\* insert while another run of the project is active.
StartWorkflow(r, digest) ==
    /\ run[r].status = "none"
    /\ \A s \in Runs : ProjectOf[s] = ProjectOf[r] => ~RunIsActive(s)
    /\ run' = [run EXCEPT ![r] = [status |-> "queued", phase |-> 1]]
    /\ task' = [task EXCEPT ![<<r, 1>>] = NewTask(digest)]
    /\ project' = [project EXCEPT ![ProjectOf[r]] = "analyzing"]
    /\ UNCHANGED command

Ready(t) == task[t].status = "queued" /\ ~task[t].delayed

ClaimableForever(t) == RunIsActive(t[1]) /\ (Ready(t) \/ LeaseExpired(t))   \* mutant

Claimable(t) ==
    /\ task[t].attempts < MaxAttempts
    /\ RunIsActive(t[1])
    /\ Ready(t) \/ LeaseExpired(t)

ClaimWorkflowTask(w, t) ==
    /\ Claimable(t)
    /\ QuotaLeft(OrgOf[ProjectOf[t[1]]])
    /\ task' = [task EXCEPT ![t] = Leased(t, w)]
    /\ run' = [run EXCEPT ![t[1]] = [status |-> "running", phase |-> t[2]]]
    /\ UNCHANGED <<project, command>>

HeartbeatAfterExpiry(w, t, g) ==                                           \* mutant
    /\ ~Cancelled(t[1])
    /\ task[t].status = "running" /\ task[t].owner = w /\ task[t].generation = g
    /\ task' = [task EXCEPT ![t].lease = LeaseTerm]
    /\ UNCHANGED <<run, project, command>>

HeartbeatWorkflowTask(w, t, g) ==
    /\ ~Cancelled(t[1])
    /\ HoldsLease(w, t, g)
    /\ task' = [task EXCEPT ![t].lease = LeaseTerm]
    /\ UNCHANGED <<run, project, command>>

CompleteWorkflowTask(w, t, g, digest) ==
    /\ ~Replayed(command.complete, t, g)
    /\ ~Cancelled(t[1])
    /\ HoldsLease(w, t, g)
    /\ command' = [command EXCEPT !.complete =
                     @ \cup {[of |-> t, key |-> g, input |-> digest]}]
    /\ LET done == [Released(t, "succeeded") EXCEPT !.output = digest]
           next == <<t[1], t[2] + 1>>
       IN  \/ /\ HasSuccessor(t)
              /\ task' = [task EXCEPT ![t] = done, ![next] = Successor(next, digest)]
              /\ run' = [run EXCEPT ![t[1]] = [status |-> "queued", phase |-> next[2]]]
              /\ UNCHANGED project
           \/ /\ ~HasSuccessor(t)
              /\ task' = [task EXCEPT ![t] = done]
              /\ run' = [run EXCEPT ![t[1]].status = "succeeded"]
              /\ project' = [project EXCEPT ![ProjectOf[t[1]]] = "analyzed"]

\* "rate_limited" differs from "transient" only in how long the delay is.
FailWorkflowTask(w, t, g, classification) ==
    /\ ~Replayed(command.fail, t, g)
    /\ ~Cancelled(t[1])
    /\ HoldsLease(w, t, g)
    /\ command' = [command EXCEPT !.fail =
                     @ \cup {[of |-> t, key |-> g, input |-> classification]}]
    /\ LET terminal == classification = "permanent" \/ task[t].attempts >= MaxAttempts
       IN  \/ /\ terminal
              /\ task' = [task EXCEPT ![t] = Released(t, "failed")]
              /\ run' = [run EXCEPT ![t[1]].status = "failed"]
              /\ project' = [project EXCEPT ![ProjectOf[t[1]]] = "failed"]
           \/ /\ ~terminal
              /\ task' = [task EXCEPT ![t] =
                            [Released(t, "queued") EXCEPT !.delayed = TRUE]]
              /\ run' = [run EXCEPT ![t[1]].status = "queued"]
              /\ UNCHANGED project

\* The token is fresh for each wait; its hash stays in the row after a resume.
WaitWorkflowTask(w, t, g) ==
    /\ ~Cancelled(t[1])
    /\ HoldsLease(w, t, g)
    /\ task' = [task EXCEPT ![t] =
                  [Released(t, "waiting") EXCEPT !.waitToken = g, !.waitOpen = TRUE]]
    /\ run' = [run EXCEPT ![t[1]].status = "waiting"]
    /\ UNCHANGED <<project, command>>

\* The command scope is the run, so one key serves every wait of a run once.
ResumeWorkflowTask(r, token, key) ==
    LET t == <<r, token[1]>>
    IN  /\ ~Replayed(command.resume, r, key)
        /\ ~Cancelled(r)
        /\ task[t].status = "waiting"
        /\ task[t].waitToken = token[2]
        /\ task[t].waitOpen
        /\ task' = [task EXCEPT ![t].status = "queued", ![t].delayed = FALSE]
        /\ run' = [run EXCEPT ![r].status = "queued"]
        /\ command' = [command EXCEPT !.resume =
                         @ \cup {[of |-> r, key |-> key, input |-> token]}]
        /\ UNCHANGED project

CancelWorkflow(r, key) ==
    /\ ~Replayed(command.cancel, r, key)
    /\ RunIsActive(r)
    /\ task' = [t \in Tasks |->
                  IF t[1] = r /\ task[t].status \in ActiveStatus
                  THEN Released(t, "cancelled") ELSE task[t]]
    /\ run' = [run EXCEPT ![r].status = "cancelled"]
    /\ command' = [command EXCEPT !.cancel = @ \cup {[of |-> r, key |-> key]}]
    /\ UNCHANGED project

\* One reconciler transaction repairs a set of expired leases: those it found
\* and could lock (for update skip locked, limit 100).
RepairsOnlyRetries(t) ==                                                   \* mutant
    LeaseExpired(t) /\ RunIsActive(t[1]) /\ task[t].attempts < MaxAttempts
Repairable(t) == LeaseExpired(t) /\ RunIsActive(t[1])

RetriesOnceMore(t) ==                                                      \* mutant
    IF task[t].attempts > MaxAttempts
    THEN Released(t, "failed")
    ELSE [Released(t, "queued") EXCEPT !.delayed = FALSE]

ForgetsAttempts(t) ==                                                      \* mutant
    IF task[t].attempts >= MaxAttempts
    THEN Released(t, "failed")
    ELSE [Released(t, "queued") EXCEPT !.delayed = FALSE, !.attempts = 0]

RepairedTask(t) ==
    IF task[t].attempts >= MaxAttempts
    THEN Released(t, "failed")
    ELSE [Released(t, "queued") EXCEPT !.delayed = FALSE]

ReconcileWorkflows(found) ==
    /\ found # {}
    /\ \A t \in found : Repairable(t)
    /\ task' = [t \in Tasks |-> IF t \in found THEN RepairedTask(t) ELSE task[t]]
    /\ run' = [r \in Runs |->
                 IF \E t \in found : t[1] = r
                 THEN [run[r] EXCEPT !.status =
                         IF \E t \in found : t[1] = r /\ task[t].attempts >= MaxAttempts
                         THEN "failed" ELSE "queued"]
                 ELSE run[r]]
    /\ UNCHANGED <<project, command>>

\* The reconciler's last query: a succeeded task whose successor row is missing.
MissingSuccessor(t) ==
    /\ task[t].status = "succeeded"
    /\ RunIsActive(t[1])
    /\ HasSuccessor(t)
    /\ task[<<t[1], t[2] + 1>>].status = "none"

-----------------------------------------------------------------------------
(* The passage of time. *)

LeaseTick(t) ==
    /\ task[t].status = "running"
    /\ task[t].lease > 0
    /\ task' = [task EXCEPT ![t].lease = @ - 1]
    /\ UNCHANGED <<run, project, command>>

RetryDue(t) ==
    /\ task[t].status = "queued"
    /\ task[t].delayed
    /\ task' = [task EXCEPT ![t].delayed = FALSE]
    /\ UNCHANGED <<run, project, command>>

WaitExpires(t) ==
    /\ task[t].status = "waiting"
    /\ task[t].waitOpen
    /\ task' = [task EXCEPT ![t].waitOpen = FALSE]
    /\ UNCHANGED <<run, project, command>>

-----------------------------------------------------------------------------
Next ==
    \/ \E r \in Runs, d \in Digests : StartWorkflow(r, d)
    \/ \E w \in Workers, t \in Tasks : ClaimWorkflowTask(w, t)
    \/ \E w \in Workers, t \in Tasks, g \in Attempts :
          \/ HeartbeatWorkflowTask(w, t, g)
          \/ \E d \in Digests : CompleteWorkflowTask(w, t, g, d)
          \/ \E c \in Classifications : FailWorkflowTask(w, t, g, c)
          \/ WaitWorkflowTask(w, t, g)
    \/ \E r \in Runs, token \in Tokens, key \in AppKeys : ResumeWorkflowTask(r, token, key)
    \/ \E r \in Runs, key \in AppKeys : CancelWorkflow(r, key)
    \/ \E found \in SUBSET {t \in Tasks : Repairable(t)} : ReconcileWorkflows(found)
    \/ \E t \in Tasks : LeaseTick(t) \/ RetryDue(t) \/ WaitExpires(t)

Spec == Init /\ [][Next]_vars

-----------------------------------------------------------------------------
(* What the store promises. *)

\* A run row and the row of its current phase move together: they have one
\* status, every earlier phase succeeded and no later phase has a row (so a run
\* that was not started has none).  Every operation updates the two tables
\* separately; a drifted pair is a run nobody can claim or one that two phases
\* advance.
RowsMatch(r) ==
    /\ run[r].status = "none" => run[r].phase = 1
    /\ run[r].status = task[<<r, run[r].phase>>].status
    /\ \A p \in Phases :
          /\ p < run[r].phase => task[<<r, p>>].status = "succeeded"
          /\ p > run[r].phase => task[<<r, p>>] = AbsentTask

RunMatchesCurrentTask == \A r \in Runs : RowsMatch(r)

\* The CHECK constraints of workflow_tasks hold in every reachable row, so no
\* repository operation is ever rolled back by the table; and a generation
\* names one attempt, since both counters are bumped only by a claim.
RowChecks(row) ==
    /\ (row.status = "running") <=> (row.owner # None)
    /\ row.lease > 0 => row.status = "running"
    /\ row.status = "waiting" => row.waitToken = row.generation
    /\ row.generation = row.attempts

TableChecks == \A t \in Tasks : RowChecks(task[t])

\* A phase works on exactly what its predecessor committed: its input hash is
\* the predecessor's output hash, whatever the predecessor's other attempts did.
OutputsChain ==
    \A t \in Tasks :
        task[t].status # "none" =>
            /\ task[t].input # None
            /\ t[2] > 1 => task[t].input = task[<<t[1], t[2] - 1>>].output

\* Replaying a recorded command answers before the cancel and lease checks, so
\* the record must tell the truth: a completion is recorded iff the task
\* succeeded, under the generation and with the output that won; and one
\* generation never both completes and fails.
CommandsMatchTasks ==
    /\ \A t \in Tasks :
          task[t].status = "succeeded" <=> \E c \in command.complete : c.of = t
    /\ \A c \in command.complete :
          c.key = task[c.of].generation /\ c.input = task[c.of].output
    /\ \A c \in command.fail :
          /\ c.key <= task[c.of].generation
          /\ c.key = task[c.of].generation =>
                task[c.of].status \in {"queued", "failed", "cancelled"}
          /\ c.input = "permanent" => task[c.of].status = "failed"

\* The project row never lies about work it still has: it is analyzing while a
\* run is active, and analyzed or failed only when a run of it ended that way.
ProjectStatusEarned ==
    \A p \in Projects :
        LET endedAs(status) ==
                \E r \in Runs : ProjectOf[r] = p /\ run[r].status = status
        IN  /\ (\E r \in Runs : ProjectOf[r] = p /\ RunIsActive(r))
                  => project[p] = "analyzing"
            /\ project[p] = "analyzed" => endedAs("succeeded")
            /\ project[p] = "failed" => endedAs("failed")

\* No interleaving of claims, expiries and heartbeats lets one organization
\* hold more live leases than its quota.
QuotaRespected ==
    \A org \in Orgs : Cardinality(LeasedTasks(org)) <= ActiveTaskQuota

\* The reconciler's missing-successor repair has nothing to repair: a
\* completion and the creation of the next task are never seen apart.
NoMissingSuccessor == \A t \in Tasks : ~MissingSuccessor(t)

-----------------------------------------------------------------------------
\* Legal status changes, as the transition triggers enforce them.
RunTransitions ==
    ({"queued", "running"} \X {"queued", "running", "waiting", "succeeded", "failed", "cancelled"})
        \cup ({"waiting"} \X {"waiting", "queued", "failed", "cancelled"})

TaskTransitions ==
    ({"queued"} \X {"queued", "running", "failed", "cancelled"})
        \cup ({"running"} \X {"running", "queued", "waiting", "succeeded", "failed", "cancelled"})
        \cup ({"waiting"} \X {"waiting", "queued", "failed", "cancelled"})

RunTriggersAccept(r) ==
    /\ run[r].status = "none" =>
          run'[r] = [status |-> "queued", phase |-> 1]
    /\ run[r].status # "none" =>
          /\ <<run[r].status, run'[r].status>> \in RunTransitions
          /\ run'[r].phase # run[r].phase =>
                /\ run'[r].phase = run[r].phase + 1
                /\ task'[<<r, run[r].phase>>].status = "succeeded"

TaskTriggersAccept(t) ==
    /\ task[t].status = "none" =>
          /\ task'[t].input # None
          /\ task'[t] = NewTask(task'[t].input)
          /\ run'[t[1]].phase = t[2]
          /\ t[2] > 1 =>
                LET predecessor == task'[<<t[1], t[2] - 1>>]
                IN  predecessor.status = "succeeded" /\ predecessor.output = task'[t].input
    /\ task[t].status # "none" =>
          /\ <<task[t].status, task'[t].status>> \in TaskTransitions
          /\ task'[t].input = task[t].input
          /\ task'[t].generation >= task[t].generation
          /\ task'[t].attempts >= task[t].attempts

\* The SQL triggers are a second, independent statement of the state machine.
\* No repository operation ever asks for a change they refuse, so none is
\* rolled back half way through its own logic.
StepAccepted ==
    /\ \A r \in Runs : run'[r] # run[r] => RunTriggersAccept(r)
    /\ \A t \in Tasks : task'[t] # task[t] => TaskTriggersAccept(t)

TriggersAccept == [][StepAccepted]_vars

\* A run that ended is never touched again: no late completion, retry, resume
\* or repair reaches its rows, although most handlers check only "cancelled".
TerminalRunsFrozen ==
    [][\A r \in Runs : run[r].status \in TerminalStatus =>
          /\ run'[r] = run[r]
          /\ \A p \in Phases : task'[<<r, p>>] = task[<<r, p>>]]_vars

\* A lease once lost stays lost: no heartbeat, claim, resume or repair makes a
\* generation that was handed out valid again for a worker that does not hold
\* it, so a worker told LEASE_LOST may drop its work for good.
LeaseLossIsFinal ==
    [][\A w \in Workers, t \in Tasks, g \in Attempts :
          g <= task[t].generation /\ ~HoldsLease(w, t, g) => ~HoldsLease(w, t, g)']_vars

-----------------------------------------------------------------------------
(* Whether a run's current task is in somebody's reach.                     *)

\* A task that was resumed from a wait its last attempt had entered.
Parked(t) == task[t].status = "queued" /\ task[t].attempts = MaxAttempts

\* The task has a worker or waits for a person, for its delay or for its turn in
\* the quota, or a worker's next iteration can claim or repair it.
Attended(t) ==
    \/ task[t].status = "running" /\ task[t].lease > 0
    \/ task[t].status = "waiting"
    \/ task[t].status = "queued" /\ task[t].delayed
    \/ Ready(t) /\ ~QuotaLeft(OrgOf[ProjectOf[t[1]]])
    \/ Claimable(t) \/ Repairable(t)

\* Whatever crashes, retries, waits and repairs did to it, an active run's current
\* task is taken up by somebody, or it is parked.
NoRunIsForgotten ==
    \A r \in Runs : RunIsActive(r) =>
        LET t == <<r, run[r].phase>> IN Attended(t) \/ Parked(t)

\* Only a resume parks a task, and from then on no claim or repair touches it:
\* nothing but a cancellation ends its run.
ParkedTasksWait ==
    [][\A t \in Tasks :
          /\ Parked(t) => Parked(t)' \/ run'[t[1]].status = "cancelled"
          /\ Parked(t)' => Parked(t) \/ task[t].status = "waiting"]_vars

-----------------------------------------------------------------------------
(* The store implements PhaseChain: workers, leases, retries, waits and     *)
(* repairs only decide when, and how often, a phase is attempted.           *)

CommittedPhases ==
    [r \in Runs |-> IF run[r].status = "succeeded" THEN LastPhase ELSE run[r].phase - 1]

Verdicts ==
    [r \in Runs |-> IF RunIsActive(r) THEN "open" ELSE run[r].status]

CommittedOutputs == [r \in Runs |-> [p \in Phases |-> task[<<r, p>>].output]]

Chain == INSTANCE PhaseChain WITH
    committed <- CommittedPhases, verdict <- Verdicts, output <- CommittedOutputs

\* However workers crash, race and retry, a caller sees phases commit once, in
\* order, with one output each, and one verdict.
ImplementsPhaseChain == Chain!ChainSpec

=============================================================================
