---------------------------- MODULE AnalysisQueue ----------------------------
(***************************************************************************)
(* Analysis runs: the rows of analysis_jobs, the analysis task and its     *)
(* workflow run, the website authentication checkpoint with its cleanup    *)
(* lease, and the live receipt, under every operation of                   *)
(* packages/database/src/postgres.ts that writes them.                     *)
(*                                                                         *)
(* A website analysis may stop at a login: the worker suspends it behind a *)
(* checkpoint, a person resumes it within ten minutes, any worker takes it *)
(* up again, stores its result on the receipt, closes the remote browser   *)
(* session and only then completes.  A checkpoint that ends any other way  *)
(* owes the session a cleanup, leased and retried like a task.             *)
(*                                                                         *)
(* As in WorkflowStore, a transaction is one action and a refused or       *)
(* replayed call is the disabled action; time is a lease's remaining       *)
(* heartbeat intervals, a retry delayed or due, a checkpoint fresh or past *)
(* its expiry.                                                             *)
(*                                                                         *)
(* A definition marked "mutant" is no part of the model: it is a plausible *)
(* bug of the definition after it, and shows what some property catches.   *)
(***************************************************************************)
EXTENDS Integers, FiniteSets

CONSTANTS
    Workers, Runs, Projects, Orgs,
    WebsiteRuns,      \* the runs whose source is a website
    ProjectOf, OrgOf,
    MaxAttempts,      \* 3 for jobs and for cleanups
    ActiveTaskQuota, LeaseTerm,
    Results,          \* hashes of analysis results
    None

ASSUME BoundsAssumption ==
    /\ MaxAttempts \in Nat \ {0}
    /\ ActiveTaskQuota \in Nat \ {0}
    /\ LeaseTerm \in Nat \ {0}

ASSUME TenancyAssumption ==
    /\ WebsiteRuns \subseteq Runs
    /\ ProjectOf \in [Runs -> Projects]
    /\ OrgOf \in [Projects -> Orgs]
    /\ IsFiniteSet(Runs)

ASSUME NullAssumption == None \notin Workers /\ None \notin Results

VARIABLES
    job,         \* private.analysis_jobs
    task,        \* private.workflow_tasks, phase 'analysis'
    flow,        \* public.workflow_runs.status
    project,     \* public.projects.status
    result,      \* public.analysis_runs.result
    checkpoint,  \* private.website_authentication_checkpoints
    cleanup,     \* its cleanup_* columns
    receipt      \* private.website_live_receipt_evidence; "disposed" once its
                 \* cleanup_resources name what became of the session

rows == <<job, task, flow>>
wait == <<checkpoint, cleanup, receipt>>
vars == <<job, task, flow, project, result, checkpoint, cleanup, receipt>>

-----------------------------------------------------------------------------
ActiveStatus == {"queued", "running", "waiting"}
TerminalStatus == {"succeeded", "failed", "cancelled"}
Status == {"none"} \cup ActiveStatus \cup TerminalStatus
Attempts == 0 .. MaxAttempts
OnlyWaiting == {"waiting"}                                                 \* mutant
OpenState == {"waiting", "consumed"}
OwingState == {"failed", "cancelled", "expired"}

JobRecord ==
    [status : Status, attempts : Attempts, owner : Workers \cup {None},
     lease : 0 .. LeaseTerm, delayed : BOOLEAN]

TaskRecord ==
    [status : Status, attempts : Attempts, generation : Attempts,
     owner : Workers \cup {None}, lease : 0 .. LeaseTerm]

CheckpointRecord ==
    [state : {"none", "completed"} \cup OpenState \cup OwingState, fresh : BOOLEAN]

\* cleanup_attempts and cleanup_lease_generation are bumped by the same update.
CleanupRecord ==
    [status : {"none", "pending", "running", "succeeded", "failed"},
     attempts : Attempts, owner : Workers \cup {None},
     lease : 0 .. LeaseTerm, delayed : BOOLEAN]

\* Who did what to the receipt, under which lease generation.
Deed == [by : Workers \cup {None}, generation : Attempts]

ReceiptRecord ==
    [suspended : Deed, resumed : Deed, stored : Deed, completed : Deed,
     hash : Results \cup {None}, restartVerified : BOOLEAN, disposed : BOOLEAN]

Nobody == [by |-> None, generation |-> 0]
NoCleanup == [status |-> "none", attempts |-> 0, owner |-> None, lease |-> 0, delayed |-> FALSE]

TypeOK ==
    /\ job \in [Runs -> JobRecord]
    /\ task \in [Runs -> TaskRecord]
    /\ flow \in [Runs -> Status]
    /\ project \in [Projects -> {"created", "analyzing", "analyzed", "failed"}]
    /\ result \in [Runs -> Results \cup {None}]
    /\ checkpoint \in [Runs -> CheckpointRecord]
    /\ cleanup \in [Runs -> CleanupRecord]
    /\ receipt \in [Runs -> ReceiptRecord]

-----------------------------------------------------------------------------
Live(row) == row.status = "running" /\ row.lease > 0
Expired(row) == row.status = "running" /\ row.lease = 0

\* Job and task row are leased to the worker and neither lease has expired.
HoldsLease(w, r, g) ==
    /\ Live(job[r]) /\ job[r].owner = w
    /\ Live(task[r]) /\ task[r].owner = w /\ task[r].generation = g

CleanupLeaseOfAnyAttempt(row, w, g) == Live(row) /\ row.owner = w            \* mutant
CleanupLease(row, w, g) == Live(row) /\ row.owner = w /\ row.attempts = g
HoldsCleanup(w, r, g) == CleanupLease(cleanup[r], w, g)

Cancelled(r) == flow[r] = "cancelled"

Picks == {{}} \cup {{r} : r \in Runs}      \* select ... limit 1

LeasedRuns(org) == {r \in Runs : OrgOf[ProjectOf[r]] = org /\ Live(task[r])}

Released(row, status) == [row EXCEPT !.status = status, !.owner = None, !.lease = 0]

\* sync_analysis_job_state: the project follows the job, except into "cancelled".
ProjectAfter(status) ==
    CASE status \in ActiveStatus -> "analyzing"
      [] status = "succeeded" -> "analyzed"
      [] status = "failed" -> "failed"

EndWithoutCleanup(runs, from, state) ==                                    \* mutant
    /\ checkpoint' = [r \in Runs |->
                         IF r \in runs /\ checkpoint[r].state \in from
                         THEN [checkpoint[r] EXCEPT !.state = state] ELSE checkpoint[r]]
    /\ UNCHANGED cleanup

\* An open checkpoint among `runs' in a state of `from' ends in `state', and the
\* trigger queue_website_authentication_checkpoint_cleanup queues its cleanup.
EndCheckpoints(runs, from, state) ==
    LET ending == {r \in runs : checkpoint[r].state \in from}
    IN  /\ checkpoint' = [r \in Runs |-> IF r \in ending
                            THEN [checkpoint[r] EXCEPT !.state = state] ELSE checkpoint[r]]
        /\ cleanup' = [r \in Runs |-> IF r \in ending
                         THEN [NoCleanup EXCEPT !.status = "pending"] ELSE cleanup[r]]

FailRowsOnly(runs) ==                                                      \* mutant
    /\ job' = [r \in Runs |-> IF r \in runs THEN Released(job[r], "failed") ELSE job[r]]
    /\ task' = [r \in Runs |-> IF r \in runs THEN Released(task[r], "failed") ELSE task[r]]
    /\ flow' = [r \in Runs |-> IF r \in runs THEN "failed" ELSE flow[r]]
    /\ UNCHANGED project

\* Job, task and workflow run of each of `runs' fail, and so do their projects.
FailRuns(runs) ==
    /\ job' = [r \in Runs |-> IF r \in runs THEN Released(job[r], "failed") ELSE job[r]]
    /\ task' = [r \in Runs |-> IF r \in runs THEN Released(task[r], "failed") ELSE task[r]]
    /\ flow' = [r \in Runs |-> IF r \in runs THEN "failed" ELSE flow[r]]
    /\ project' = [p \in Projects |->
                     IF \E r \in runs : ProjectOf[r] = p THEN "failed" ELSE project[p]]

\* The claim of a queued or expired row: the next attempt, a new lease.
LeasedRow(row, w) == [row EXCEPT !.status = "running", !.attempts = @ + 1,
                                 !.owner = w, !.lease = LeaseTerm]

-----------------------------------------------------------------------------
Init ==
    /\ job = [r \in Runs |-> [status |-> "none", attempts |-> 0, owner |-> None,
                              lease |-> 0, delayed |-> FALSE]]
    /\ task = [r \in Runs |-> [status |-> "none", attempts |-> 0, generation |-> 0,
                               owner |-> None, lease |-> 0]]
    /\ flow = [r \in Runs |-> "none"]
    /\ project = [p \in Projects |-> "created"]
    /\ result = [r \in Runs |-> None]
    /\ checkpoint = [r \in Runs |-> [state |-> "none", fresh |-> FALSE]]
    /\ cleanup = [r \in Runs |-> NoCleanup]
    /\ receipt = [r \in Runs |-> [suspended |-> Nobody, resumed |-> Nobody, stored |-> Nobody,
                                  completed |-> Nobody, hash |-> None, restartVerified |-> FALSE,
                                  disposed |-> FALSE]]

\* workflow_runs_one_active_per_project_idx refuses a second active run.
EnqueueAnalysis(r) ==
    /\ flow[r] = "none"
    /\ \A s \in Runs : ProjectOf[s] = ProjectOf[r] => flow[s] \notin ActiveStatus
    /\ job' = [job EXCEPT ![r].status = "queued"]
    /\ task' = [task EXCEPT ![r].status = "queued"]
    /\ flow' = [flow EXCEPT ![r] = "queued"]
    /\ project' = [project EXCEPT ![ProjectOf[r]] = ProjectAfter("queued")]
    /\ UNCHANGED <<result, wait>>

Exhausted(r) ==
    Expired(job[r]) /\ job[r].attempts >= MaxAttempts /\ flow[r] = "running"

Ready(row) == (row.status \in {"queued", "pending"} /\ ~row.delayed) \/ Expired(row)

\* An authenticated run is picked up again only before its checkpoint expires.
Resumable(r) == checkpoint[r].state = "consumed" /\ checkpoint[r].fresh

ClaimableForever(r) ==                                                     \* mutant
    /\ Ready(job[r])
    /\ checkpoint[r].state = "none" \/ Resumable(r)
    /\ flow[r] \notin TerminalStatus
    /\ task[r].status \in {"queued", "running"}
    /\ Cardinality(LeasedRuns(OrgOf[ProjectOf[r]])) < ActiveTaskQuota

Claimable(r) ==
    /\ Ready(job[r]) /\ job[r].attempts < MaxAttempts
    /\ checkpoint[r].state = "none" \/ Resumable(r)
    /\ flow[r] \notin TerminalStatus
    /\ task[r].status \in {"queued", "running"}
    /\ Cardinality(LeasedRuns(OrgOf[ProjectOf[r]])) < ActiveTaskQuota

NotesEveryResume(r) == checkpoint[r].state # "none"                        \* mutant
FirstResume(r) == checkpoint[r].state # "none" /\ receipt[r].resumed = Nobody

\* One transaction fails the exhausted jobs it could lock (of the worker's source
\* types, at most 100: `swept') and leases at most one other (`claimed').
ClaimAnalysis(w, swept, claimed) ==
    /\ swept \cup claimed # {}
    /\ \A r \in swept : Exhausted(r)
    /\ \A r \in claimed : Claimable(r)
    /\ job' = [r \in Runs |-> IF r \in swept THEN Released(job[r], "failed")
                              ELSE IF r \in claimed THEN LeasedRow(job[r], w)
                              ELSE job[r]]
    /\ LET failing == {r \in swept : task[r].status = "running"}
       IN  /\ task' = [r \in Runs |->
                         IF r \in failing THEN Released(task[r], "failed")
                         ELSE IF r \in claimed
                         THEN [status |-> "running", attempts |-> job[r].attempts + 1,
                               generation |-> task[r].generation + 1,
                               owner |-> w, lease |-> LeaseTerm]
                         ELSE task[r]]
           /\ flow' = [r \in Runs |-> IF r \in failing THEN "failed"
                                      ELSE IF r \in claimed THEN "running" ELSE flow[r]]
    /\ project' = [p \in Projects |->
                     IF \E r \in claimed : ProjectOf[r] = p THEN ProjectAfter("running")
                     ELSE IF \E r \in swept : ProjectOf[r] = p THEN ProjectAfter("failed")
                     ELSE project[p]]
    /\ receipt' = [r \in Runs |->
                     IF r \in claimed /\ FirstResume(r)
                     THEN [receipt[r] EXCEPT !.resumed =
                             [by |-> w, generation |-> task[r].generation + 1]]
                     ELSE receipt[r]]
    /\ EndCheckpoints(swept, {"consumed"}, "failed")
    /\ UNCHANGED result

HeartbeatAnalysis(w, r, g) ==
    /\ ~Cancelled(r)
    /\ HoldsLease(w, r, g)
    /\ job' = [job EXCEPT ![r].lease = LeaseTerm]
    /\ task' = [task EXCEPT ![r].lease = LeaseTerm]
    /\ UNCHANGED <<flow, project, result, wait>>

\* A run waits at most once: its checkpoint row is there for good.
WaitAnalysisForAuthentication(w, r, g) ==
    /\ checkpoint[r].state = "none"
    /\ ~Cancelled(r)
    /\ r \in WebsiteRuns
    /\ HoldsLease(w, r, g)
    /\ flow[r] = "running"
    /\ checkpoint' = [checkpoint EXCEPT ![r] = [state |-> "waiting", fresh |-> TRUE]]
    /\ receipt' = [receipt EXCEPT ![r].suspended = [by |-> w, generation |-> g]]
    /\ job' = [job EXCEPT ![r] = Released(@, "waiting")]
    /\ task' = [task EXCEPT ![r] = Released(@, "waiting")]
    /\ flow' = [flow EXCEPT ![r] = "waiting"]
    /\ UNCHANGED <<project, result, cleanup>>

Suspended(r) ==
    /\ checkpoint[r].state = "waiting"
    /\ flow[r] = "waiting" /\ job[r].status = "waiting" /\ task[r].status = "waiting"

ResumeAnalysisAfterAuthentication(r) ==
    /\ Suspended(r)
    /\ checkpoint[r].fresh
    /\ checkpoint' = [checkpoint EXCEPT ![r].state = "consumed"]
    /\ job' = [job EXCEPT ![r] = [Released(@, "queued") EXCEPT !.delayed = FALSE]]
    /\ task' = [task EXCEPT ![r] = Released(@, "queued")]
    /\ flow' = [flow EXCEPT ![r] = "queued"]
    /\ project' = [project EXCEPT ![ProjectOf[r]] = ProjectAfter("queued")]
    /\ UNCHANGED <<result, cleanup, receipt>>

TerminateAnalysisAuthentication(r, state) ==
    /\ Suspended(r)
    /\ state = "expired" => ~checkpoint[r].fresh
    /\ EndCheckpoints({r}, {"waiting"}, state)
    /\ FailRuns({r})
    /\ UNCHANGED <<result, receipt>>

WaitExpiredOnly(r) ==                                                      \* mutant
    /\ checkpoint[r].state = "waiting" /\ ~checkpoint[r].fresh
    /\ {job[r].status, task[r].status, flow[r]} \subseteq {"waiting", "queued"}

\* The reconciler's first query; the rows it could lock (limit 100).
AuthenticationExpired(r) ==
    /\ checkpoint[r].state \in OpenState /\ ~checkpoint[r].fresh
    /\ {job[r].status, task[r].status, flow[r]} \subseteq {"waiting", "queued"}

ReconcileExpiredAuthentication(found) ==
    /\ found # {}
    /\ \A r \in found : AuthenticationExpired(r)
    /\ EndCheckpoints(found, OpenState, "expired")
    /\ FailRuns(found)
    /\ UNCHANGED <<result, receipt>>

-----------------------------------------------------------------------------
\* The result of a resumed analysis is stored once, before the browser session
\* is closed; only the same worker, lease and result may repeat the call.
CheckpointAnalysisResult(w, r, g, hash) ==
    /\ ~Cancelled(r)
    /\ HoldsLease(w, r, g)
    /\ checkpoint[r].state = "consumed"
    /\ receipt[r].hash = None
    /\ receipt[r].resumed # Nobody /\ receipt[r].completed = Nobody
    /\ result' = [result EXCEPT ![r] = hash]
    /\ receipt' = [receipt EXCEPT ![r].hash = hash,
                                  ![r].stored = [by |-> w, generation |-> g]]
    /\ UNCHANGED <<rows, project, checkpoint, cleanup>>

\* The end of both completions.
Succeed(r) ==
    /\ job' = [job EXCEPT ![r] = Released(@, "succeeded")]
    /\ task' = [task EXCEPT ![r] = Released(@, "succeeded")]
    /\ flow' = [flow EXCEPT ![r] = "succeeded"]
    /\ project' = [project EXCEPT ![ProjectOf[r]] = ProjectAfter("succeeded")]

NothingStored(r) == receipt[r].hash = None                                 \* mutant
Unauthenticated(r) == receipt[r].suspended = Nobody

\* Refused once the run has a receipt: an authenticated run is completed below.
CompleteAnalysis(w, r, g, hash) ==
    /\ ~Cancelled(r)
    /\ HoldsLease(w, r, g)
    /\ Unauthenticated(r)
    /\ result' = [result EXCEPT ![r] = hash]
    /\ Succeed(r)
    /\ UNCHANGED wait

ResumedElsewhere(r, w) == receipt[r].suspended.by # receipt[r].resumed.by  \* mutant
CompletedElsewhere(r, w) == receipt[r].suspended.by # w

CompleteCheckpointedAnalysis(w, r, g, hash) ==
    /\ ~Cancelled(r)
    /\ HoldsLease(w, r, g)
    /\ checkpoint[r].state = "consumed"
    /\ receipt[r].hash = hash /\ result[r] # None
    /\ receipt[r].completed = Nobody
    /\ receipt' = [receipt EXCEPT ![r].completed = [by |-> w, generation |-> g],
                                  ![r].restartVerified = CompletedElsewhere(r, w),
                                  ![r].disposed = TRUE]
    /\ checkpoint' = [checkpoint EXCEPT ![r].state = "completed"]
    /\ cleanup' = [cleanup EXCEPT ![r] = [NoCleanup EXCEPT !.status = "succeeded"]]
    /\ Succeed(r)
    /\ UNCHANGED result

FailAnalysis(w, r, g, retryable) ==
    /\ ~Cancelled(r)
    /\ HoldsLease(w, r, g)
    /\ LET terminal == ~retryable \/ job[r].attempts >= MaxAttempts
       IN  \/ /\ terminal
              /\ FailRuns({r})
              /\ EndCheckpoints({r}, {"consumed"}, "failed")
           \/ /\ ~terminal
              /\ job' = [job EXCEPT ![r] = [Released(@, "queued") EXCEPT !.delayed = TRUE]]
              /\ task' = [task EXCEPT ![r] = Released(@, "queued")]
              /\ flow' = [flow EXCEPT ![r] = "queued"]
              /\ project' = [project EXCEPT ![ProjectOf[r]] = ProjectAfter("queued")]
              /\ UNCHANGED <<checkpoint, cleanup>>
    /\ UNCHANGED <<result, receipt>>

EverythingStarted(r) == flow[r] \notin {"none", "cancelled"}                 \* mutant
Active(r) == flow[r] \in ActiveStatus

CancelWorkflow(r) ==
    /\ Active(r)
    /\ flow' = [flow EXCEPT ![r] = "cancelled"]
    /\ task' = [task EXCEPT ![r] = IF @.status \in ActiveStatus THEN Released(@, "cancelled") ELSE @]
    /\ job' = [job EXCEPT ![r] = IF @.status \in ActiveStatus THEN Released(@, "cancelled") ELSE @]
    /\ EndCheckpoints({r}, OpenState, "cancelled")
    /\ UNCHANGED <<project, result, receipt>>

-----------------------------------------------------------------------------
(* The cleanup lease. *)

CleanupExhausted(r) == Ready(cleanup[r]) /\ cleanup[r].attempts >= MaxAttempts
CleanupClaimable(r) ==
    /\ checkpoint[r].state \in OwingState
    /\ Ready(cleanup[r]) /\ cleanup[r].attempts < MaxAttempts

ClaimWithoutSweep(w, claimed) ==                                           \* mutant
    /\ claimed # {} /\ \A r \in claimed : CleanupClaimable(r)
    /\ cleanup' = [r \in Runs |-> IF r \in claimed THEN LeasedRow(cleanup[r], w) ELSE cleanup[r]]
    /\ UNCHANGED <<rows, project, result, checkpoint, receipt>>

\* One statement gives up on every exhausted cleanup, the next leases at most
\* one other (`claimed' has one member, or none when all are locked or none is due).
ClaimCleanup(w, claimed) ==
    LET swept == {r \in Runs : CleanupExhausted(r)}
    IN  /\ swept \cup claimed # {}
        /\ \A r \in claimed : CleanupClaimable(r)
        /\ cleanup' = [r \in Runs |->
                         IF r \in swept THEN Released(cleanup[r], "failed")
                         ELSE IF r \in claimed THEN LeasedRow(cleanup[r], w)
                         ELSE cleanup[r]]
        /\ UNCHANGED <<rows, project, result, checkpoint, receipt>>

\* The lease is released first; the receipt's row level policy then shows the
\* row only to the holder of a lease, so the dispositions are written iff the
\* released row still counts as held.
CompleteCleanup(w, r, g) ==
    /\ HoldsCleanup(w, r, g)
    /\ LET done == Released(cleanup[r], "succeeded")
       IN  /\ cleanup' = [cleanup EXCEPT ![r] = done]
           /\ receipt' = [receipt EXCEPT ![r].disposed = @ \/ CleanupLease(done, w, g)]
    /\ UNCHANGED <<rows, project, result, checkpoint>>

\* The worker reports no dispositions with a failed cleanup.
RetryCleanup(w, r, g, retryable) ==
    /\ HoldsCleanup(w, r, g)
    /\ cleanup' = [cleanup EXCEPT ![r] =
                     IF ~retryable \/ @.attempts >= MaxAttempts
                     THEN Released(@, "failed")
                     ELSE [Released(@, "pending") EXCEPT !.delayed = TRUE]]
    /\ UNCHANGED <<rows, project, result, checkpoint, receipt>>

-----------------------------------------------------------------------------
(* The passage of time.  Job and task carry the same lease expiry. *)

LeaseTick(r) ==
    /\ Live(job[r])
    /\ job' = [job EXCEPT ![r].lease = @ - 1]
    /\ task' = [task EXCEPT ![r].lease = IF @ > 0 THEN @ - 1 ELSE 0]
    /\ UNCHANGED <<flow, project, result, wait>>

RetryDue(r) ==
    /\ job[r].status = "queued" /\ job[r].delayed
    /\ job' = [job EXCEPT ![r].delayed = FALSE]
    /\ UNCHANGED <<task, flow, project, result, wait>>

CheckpointExpires(r) ==
    /\ checkpoint[r].state \in OpenState /\ checkpoint[r].fresh
    /\ checkpoint' = [checkpoint EXCEPT ![r].fresh = FALSE]
    /\ UNCHANGED <<rows, project, result, cleanup, receipt>>

CleanupTick(r) ==
    /\ Live(cleanup[r])
    /\ cleanup' = [cleanup EXCEPT ![r].lease = @ - 1]
    /\ UNCHANGED <<rows, project, result, checkpoint, receipt>>

CleanupDue(r) ==
    /\ cleanup[r].status = "pending" /\ cleanup[r].delayed
    /\ cleanup' = [cleanup EXCEPT ![r].delayed = FALSE]
    /\ UNCHANGED <<rows, project, result, checkpoint, receipt>>

-----------------------------------------------------------------------------
Next ==
    \/ \E r \in Runs :
          \/ EnqueueAnalysis(r) \/ ResumeAnalysisAfterAuthentication(r) \/ CancelWorkflow(r)
          \/ \E state \in {"failed", "expired"} : TerminateAnalysisAuthentication(r, state)
          \/ LeaseTick(r) \/ RetryDue(r) \/ CheckpointExpires(r) \/ CleanupTick(r) \/ CleanupDue(r)
    \/ \E w \in Workers, r \in Runs :
          \E g \in Attempts :
                \/ HeartbeatAnalysis(w, r, g)
                \/ WaitAnalysisForAuthentication(w, r, g)
                \/ \E h \in Results :
                      \/ CheckpointAnalysisResult(w, r, g, h)
                      \/ CompleteAnalysis(w, r, g, h)
                      \/ CompleteCheckpointedAnalysis(w, r, g, h)
                \/ \E retryable \in BOOLEAN :
                      FailAnalysis(w, r, g, retryable) \/ RetryCleanup(w, r, g, retryable)
                \/ CompleteCleanup(w, r, g)
    \/ \E w \in Workers, swept \in SUBSET {r \in Runs : Exhausted(r)}, claimed \in Picks :
          ClaimAnalysis(w, swept, claimed)
    \/ \E w \in Workers, claimed \in Picks : ClaimCleanup(w, claimed)
    \/ \E found \in SUBSET {r \in Runs : AuthenticationExpired(r)} :
          ReconcileExpiredAuthentication(found)

Spec == Init /\ [][Next]_vars

-----------------------------------------------------------------------------
(* What the queue promises. *)

\* What RowsAgree says of one run.
RunAgrees(r) ==
    /\ task[r].status = job[r].status /\ flow[r] = job[r].status
    /\ task[r].owner = job[r].owner /\ task[r].lease = job[r].lease
    /\ task[r].attempts = job[r].attempts /\ task[r].generation = job[r].attempts
    /\ (job[r].owner # None) <=> (job[r].status = "running")
    /\ job[r].lease > 0 => job[r].status = "running"
    /\ checkpoint[r].state = "waiting" <=> flow[r] = "waiting"
    /\ checkpoint[r].state = "consumed" => flow[r] \in {"queued", "running"}
    /\ checkpoint[r].state = "completed" => flow[r] = "succeeded"
    /\ checkpoint[r].state = "cancelled" => flow[r] = "cancelled"
    /\ checkpoint[r].state \in {"failed", "expired"} => flow[r] = "failed"

\* One run is four rows that every operation updates one after the other: job,
\* task and workflow run share one status, job and task one lease and one
\* attempt, and the checkpoint is where that status says.  A drifted row is a
\* run the candidate query returns and the locks refuse, at the head of the
\* queue for ever.
RowsAgree == \A r \in Runs : RunAgrees(r)

\* What ReceiptTellsTheStory says of one run.
StoryInOrder(r) ==
    LET deeds == receipt[r]
        happened(deed) == deed # Nobody
    IN  /\ happened(deeds.suspended) <=> checkpoint[r].state # "none"
        /\ happened(deeds.resumed) =>
              happened(deeds.suspended) /\ deeds.suspended.generation < deeds.resumed.generation
        /\ happened(deeds.stored) =>
              happened(deeds.resumed) /\ deeds.resumed.generation <= deeds.stored.generation
        /\ happened(deeds.completed) =>
              happened(deeds.stored) /\ deeds.stored.generation <= deeds.completed.generation
        /\ happened(deeds.completed) <=> checkpoint[r].state = "completed"
        /\ deeds.restartVerified <=>
              happened(deeds.completed) /\ deeds.suspended.by # deeds.completed.by

\* The receipt tells the story in order: suspended under one lease, resumed
\* under a later one, stored and completed no earlier than that, whichever
\* workers crashed in between; completed iff the checkpoint is; and it claims a
\* verified restart only if another worker than the suspended one completed.
ReceiptTellsTheStory == \A r \in Runs : StoryInOrder(r)

\* What ResultIsReceipted says of one run.
RunReceipted(r) ==
    /\ receipt[r].hash # None => result[r] = receipt[r].hash
    /\ flow[r] = "succeeded" =>
          result[r] # None /\ (checkpoint[r].state # "none" => receipt[r].hash # None)
    /\ result[r] # None => receipt[r].hash # None \/ flow[r] = "succeeded"

\* The result a run succeeds with is the one its receipt vouches for, however
\* many workers analyzed it; until it succeeds, only a stored result is there.
ResultIsReceipted == \A r \in Runs : RunReceipted(r)

\* The project row tells how its runs stand: analyzing while one is active (or
\* after one was cancelled, which leaves it so), analyzed or failed only when one
\* ended that way.
ProjectStatusEarned ==
    \A p \in Projects :
        LET some(statuses) == \E r \in Runs : ProjectOf[r] = p /\ flow[r] \in statuses
        IN  /\ some(ActiveStatus) => project[p] = "analyzing"
            /\ project[p] = "analyzing" => some(ActiveStatus \cup {"cancelled"})
            /\ project[p] = "analyzed" => some({"succeeded"})
            /\ project[p] = "failed" => some({"failed"})

\* What CleanupOwed says of one run.
CleanupOwedBy(r) ==
    /\ cleanup[r].status = "none" <=> checkpoint[r].state \in {"none"} \cup OpenState
    /\ cleanup[r].status \in {"pending", "running", "failed"} =>
          checkpoint[r].state \in OwingState /\ ~Live(job[r]) /\ ~Live(task[r])

\* A browser session is always owed exactly one cleanup once its checkpoint has
\* ended, and none before; and no cleanup runs beside a live analysis lease,
\* whose worker may still be driving that session.
CleanupOwed == \A r \in Runs : CleanupOwedBy(r)

\* The triggers on checkpoint and receipt refuse to rewrite history.  No
\* operation ever asks them to: checkpoints only move forward, a deed or a
\* stored result is written once, and a later attempt reuses what it finds.
CheckpointTransitions ==
    {<<"none", "waiting">>}
        \cup ({"waiting"} \X {"consumed", "failed", "cancelled", "expired"})
        \cup ({"consumed"} \X {"completed", "failed", "cancelled", "expired"})

HistoryKept(r) ==
    /\ checkpoint'[r].state = checkpoint[r].state
          \/ <<checkpoint[r].state, checkpoint'[r].state>> \in CheckpointTransitions
    /\ \A deed \in {"suspended", "resumed", "stored", "completed"} :
          receipt[r][deed] # Nobody => receipt'[r][deed] = receipt[r][deed]
    /\ receipt[r].hash # None => receipt'[r].hash = receipt[r].hash /\ result'[r] = result[r]
    /\ receipt[r].restartVerified => receipt'[r].restartVerified
    /\ receipt[r].disposed => receipt'[r].disposed

HistoryIsNeverRewritten == [][\A r \in Runs : HistoryKept(r)]_vars

\* An ended run stays as it ended: a late answer of a replaced worker, a late
\* resume, a reconciliation or a cleanup changes none of its rows.
EndedRunsFrozen ==
    [][\A r \in Runs : flow[r] \in TerminalStatus =>
          /\ job'[r] = job[r] /\ task'[r] = task[r] /\ flow'[r] = flow[r]
          /\ result'[r] = result[r] /\ checkpoint'[r].state = checkpoint[r].state]_vars

\* A lease once lost stays lost, the analysis's and the cleanup's, even to the
\* same worker: no heartbeat, claim or resume makes a generation that was handed
\* out valid again, so nobody acts on the session under two of them.
LeaseLossIsFinal ==
    [][\A w \in Workers, r \in Runs, g \in Attempts :
          /\ g <= task[r].generation /\ ~HoldsLease(w, r, g) => ~HoldsLease(w, r, g)'
          /\ g <= cleanup[r].attempts /\ ~HoldsCleanup(w, r, g) => ~HoldsCleanup(w, r, g)']_vars

\* A resumed run whose worker was lost, or gave up on it, after its checkpoint
\* expired: no claim takes it, no sweep or reconciliation fails it.
Stranded(r) ==
    /\ Expired(job[r]) /\ job[r].attempts < MaxAttempts
    /\ checkpoint[r].state = "consumed" /\ ~checkpoint[r].fresh

\* The run has a worker, or waits for a time that comes, or for its turn in the
\* quota, or is in the reach of a worker's next iteration.
Attended(r) ==
    \/ Live(job[r])
    \/ job[r].status = "queued" /\ job[r].delayed
    \/ job[r].status # "running" /\ checkpoint[r].state \in OpenState /\ checkpoint[r].fresh
    \/ Ready(job[r]) /\ Cardinality(LeasedRuns(OrgOf[ProjectOf[r]])) >= ActiveTaskQuota
    \/ Claimable(r) \/ Exhausted(r) \/ AuthenticationExpired(r)

\* Whatever crashes, expiries and late resumes did to an active run, somebody
\* takes it up without being asked; the queries of claim, sweep and reconciler
\* leave out the stranded ones only.
NoRunIsForgotten == \A r \in Runs : flow[r] \in ActiveStatus => Attended(r) \/ Stranded(r)

\* A cleanup that is owed is leased, or will be due, or the next iteration claims
\* it or reports it as failed.
NoCleanupIsForgotten ==
    \A r \in Runs : cleanup[r].status \in {"pending", "running"} =>
        \/ Live(cleanup[r]) \/ (cleanup[r].status = "pending" /\ cleanup[r].delayed)
        \/ CleanupClaimable(r) \/ CleanupExhausted(r)

\* No operation but a person's cancellation gets a stranded run out of its state.
StrandedRunsWait ==
    [][\A r \in Runs : Stranded(r) => Stranded(r)' \/ flow'[r] = "cancelled"]_vars

\* Both repositories follow one contract, and in the in-memory one a cleanup
\* that completes leaves the dispositions its worker reported on the receipt.
CompletedCleanupIsRecorded ==
    \A r \in Runs : cleanup[r].status = "succeeded" => receipt[r].disposed

=============================================================================
