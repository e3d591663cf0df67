-------------------------- MODULE AnalysisQueueProofs --------------------------
(***************************************************************************)
(* What TLAPS proves of AnalysisQueue, for any number of runs, projects,   *)
(* workers, attempts and results, from the assumptions on its constants.   *)
(*                                                                         *)
(* Every operation touches a run's rows in one of the ways listed under    *)
(* "The moves of one run", whatever other runs the same transaction        *)
(* sweeps, claims or reconciles.  StepMoves shows that once, for all       *)
(* operations; what is said of one run is then proved move by move, and    *)
(* only the project row, which several runs share, needs the operations.   *)
(***************************************************************************)
EXTENDS AnalysisQueue, FiniteSetTheorems, TLAPS

-----------------------------------------------------------------------------
(* The moves of one run. *)

RowsKept(r) == job'[r] = job[r] /\ task'[r] = task[r] /\ flow'[r] = flow[r]
CheckpointKept(r) == checkpoint'[r] = checkpoint[r] /\ cleanup'[r] = cleanup[r]
ReceiptKept(r) == receipt'[r] = receipt[r]
ResultKept(r) == result'[r] = result[r]
WaitKept(r) == CheckpointKept(r) /\ ReceiptKept(r)

\* Job, task and workflow run change their status together and lose the lease.
RowsBecome(r, status) ==
    /\ job'[r] = Released(job[r], status)
    /\ task'[r] = Released(task[r], status)
    /\ flow'[r] = status

Untouched(r) == RowsKept(r) /\ WaitKept(r) /\ ResultKept(r)

Enqueued(r) ==
    /\ flow[r] = "none"
    /\ job'[r] = [job[r] EXCEPT !.status = "queued"]
    /\ task'[r] = [task[r] EXCEPT !.status = "queued"]
    /\ flow'[r] = "queued"
    /\ WaitKept(r) /\ ResultKept(r)

ClaimedBy(r, w) ==
    /\ Ready(job[r]) /\ job[r].attempts < MaxAttempts
    /\ checkpoint[r].state = "none" \/ Resumable(r)
    /\ flow[r] \notin TerminalStatus
    /\ job'[r] = LeasedRow(job[r], w)
    /\ task'[r] = [status |-> "running", attempts |-> job[r].attempts + 1,
                   generation |-> task[r].generation + 1, owner |-> w, lease |-> LeaseTerm]
    /\ flow'[r] = "running"
    /\ receipt'[r] = IF FirstResume(r)
                     THEN [receipt[r] EXCEPT !.resumed =
                             [by |-> w, generation |-> task[r].generation + 1]]
                     ELSE receipt[r]
    /\ CheckpointKept(r) /\ ResultKept(r)

Renewed(r) ==
    /\ Live(job[r]) /\ Live(task[r])
    /\ job'[r] = [job[r] EXCEPT !.lease = LeaseTerm]
    /\ task'[r] = [task[r] EXCEPT !.lease = LeaseTerm]
    /\ flow'[r] = flow[r]
    /\ WaitKept(r) /\ ResultKept(r)

SuspendedBy(r, w, g) ==
    /\ HoldsLease(w, r, g)
    /\ checkpoint[r].state = "none"
    /\ checkpoint'[r] = [state |-> "waiting", fresh |-> TRUE]
    /\ receipt'[r] = [receipt[r] EXCEPT !.suspended = [by |-> w, generation |-> g]]
    /\ RowsBecome(r, "waiting")
    /\ cleanup'[r] = cleanup[r] /\ ResultKept(r)

ResumedByUser(r) ==
    /\ checkpoint[r].state = "waiting"
    /\ checkpoint'[r] = [checkpoint[r] EXCEPT !.state = "consumed"]
    /\ job'[r] = [Released(job[r], "queued") EXCEPT !.delayed = FALSE]
    /\ task'[r] = Released(task[r], "queued")
    /\ flow'[r] = "queued"
    /\ cleanup'[r] = cleanup[r] /\ ReceiptKept(r) /\ ResultKept(r)

StoredBy(r, w, g, hash) ==
    /\ HoldsLease(w, r, g)
    /\ receipt[r].hash = None
    /\ receipt[r].resumed # Nobody /\ receipt[r].completed = Nobody
    /\ result'[r] = hash
    /\ receipt'[r] = [receipt[r] EXCEPT !.hash = hash, !.stored = [by |-> w, generation |-> g]]
    /\ RowsKept(r) /\ CheckpointKept(r)

CompletedWith(r, hash) ==
    /\ Live(job[r]) /\ receipt[r].suspended = Nobody
    /\ result'[r] = hash
    /\ RowsBecome(r, "succeeded")
    /\ WaitKept(r)

CompletedCheckpoint(r, w, g) ==
    /\ HoldsLease(w, r, g)
    /\ checkpoint[r].state = "consumed"
    /\ receipt[r].hash # None /\ result[r] # None
    /\ receipt[r].completed = Nobody
    /\ receipt'[r] = [receipt[r] EXCEPT !.completed = [by |-> w, generation |-> g],
                                        !.restartVerified = CompletedElsewhere(r, w),
                                        !.disposed = TRUE]
    /\ checkpoint'[r] = [checkpoint[r] EXCEPT !.state = "completed"]
    /\ cleanup'[r] = [NoCleanup EXCEPT !.status = "succeeded"]
    /\ RowsBecome(r, "succeeded")
    /\ ResultKept(r)

Requeued(r) ==
    /\ Live(job[r]) /\ job[r].attempts < MaxAttempts
    /\ job'[r] = [Released(job[r], "queued") EXCEPT !.delayed = TRUE]
    /\ task'[r] = Released(task[r], "queued")
    /\ flow'[r] = "queued"
    /\ WaitKept(r) /\ ResultKept(r)

\* An active run ends without a result; an open checkpoint ends with it, and
\* its cleanup is queued.  A lease that expired fails it in its last attempt only.
Ended(r, status, state) ==
    /\ flow[r] \in ActiveStatus
    /\ status = "failed" /\ Expired(job[r]) => job[r].attempts >= MaxAttempts
    /\ RowsBecome(r, status)
    /\ IF checkpoint[r].state \in OpenState
       THEN /\ checkpoint'[r] = [checkpoint[r] EXCEPT !.state = state]
            /\ cleanup'[r] = [NoCleanup EXCEPT !.status = "pending"]
       ELSE CheckpointKept(r)
    /\ ReceiptKept(r) /\ ResultKept(r)

Ticked(r) ==
    /\ Live(job[r])
    /\ job'[r] = [job[r] EXCEPT !.lease = @ - 1]
    /\ task'[r] = [task[r] EXCEPT !.lease = IF @ > 0 THEN @ - 1 ELSE 0]
    /\ flow'[r] = flow[r]
    /\ WaitKept(r) /\ ResultKept(r)

BecameDue(r) ==
    /\ job[r].status = "queued"
    /\ job'[r] = [job[r] EXCEPT !.delayed = FALSE]
    /\ task'[r] = task[r] /\ flow'[r] = flow[r]
    /\ WaitKept(r) /\ ResultKept(r)

CheckpointAged(r) ==
    /\ checkpoint[r].state \in OpenState
    /\ checkpoint'[r] = [checkpoint[r] EXCEPT !.fresh = FALSE]
    /\ RowsKept(r) /\ cleanup'[r] = cleanup[r] /\ ReceiptKept(r) /\ ResultKept(r)

\* What the cleanup lease goes through beside a run that has ended.
CleanupLeasedTo(r, w) == CleanupClaimable(r) /\ cleanup'[r] = LeasedRow(cleanup[r], w)
CleanupGivenUp(r) ==
    /\ CleanupExhausted(r) \/ Live(cleanup[r])
    /\ cleanup'[r] = Released(cleanup[r], "failed")
CleanupRequeued(r) ==
    /\ Live(cleanup[r])
    /\ cleanup'[r] = [Released(cleanup[r], "pending") EXCEPT !.delayed = TRUE]
CleanupTicked(r) ==
    /\ Live(cleanup[r])
    /\ cleanup'[r] = [cleanup[r] EXCEPT !.lease = @ - 1]
CleanupBecameDue(r) ==
    /\ cleanup[r].status = "pending"
    /\ cleanup'[r] = [cleanup[r] EXCEPT !.delayed = FALSE]

CleanupMoved(r) ==
    /\ RowsKept(r) /\ checkpoint'[r] = checkpoint[r] /\ ReceiptKept(r) /\ ResultKept(r)
    /\ \/ \E w \in Workers : CleanupLeasedTo(r, w)
       \/ CleanupGivenUp(r) \/ CleanupRequeued(r) \/ CleanupTicked(r) \/ CleanupBecameDue(r)

CleanupDone(r) ==
    /\ Live(cleanup[r])
    /\ cleanup'[r] = Released(cleanup[r], "succeeded")
    /\ RowsKept(r) /\ checkpoint'[r] = checkpoint[r] /\ ReceiptKept(r) /\ ResultKept(r)

RunMoves(r) ==
    \/ Untouched(r) \/ Enqueued(r) \/ Renewed(r) \/ ResumedByUser(r) \/ Requeued(r)
    \/ \E w \in Workers : ClaimedBy(r, w)
    \/ \E w \in Workers, g \in Attempts :
          \/ SuspendedBy(r, w, g) \/ CompletedCheckpoint(r, w, g)
          \/ \E hash \in Results : StoredBy(r, w, g, hash)
    \/ \E hash \in Results : CompletedWith(r, hash)
    \/ \E state \in {"failed", "expired"} : Ended(r, "failed", state)
    \/ Ended(r, "cancelled", "cancelled")
    \/ Ticked(r) \/ BecameDue(r) \/ CheckpointAged(r) \/ CleanupMoved(r) \/ CleanupDone(r)

RunTyped(r) ==
    /\ job[r] \in JobRecord /\ task[r] \in TaskRecord /\ flow[r] \in Status
    /\ result[r] \in Results \cup {None} /\ checkpoint[r] \in CheckpointRecord
    /\ cleanup[r] \in CleanupRecord /\ receipt[r] \in ReceiptRecord

\* The rows of every run are there; only their contents are in question.
Shaped ==
    /\ job = [r \in Runs |-> job[r]] /\ task = [r \in Runs |-> task[r]]
    /\ flow = [r \in Runs |-> flow[r]] /\ result = [r \in Runs |-> result[r]]
    /\ checkpoint = [r \in Runs |-> checkpoint[r]] /\ cleanup = [r \in Runs |-> cleanup[r]]
    /\ receipt = [r \in Runs |-> receipt[r]]

\* Well-typed tables are well-typed rows, and the other way round.
LEMMA TypesByRun ==
    TypeOK <=> /\ Shaped /\ \A r \in Runs : RunTyped(r)
               /\ project \in [Projects -> {"created", "analyzing", "analyzed", "failed"}]
<1>1. TypeOK => Shaped
  BY DEF TypeOK, Shaped
<1>2. TypeOK => \A r \in Runs : RunTyped(r)
  BY DEF TypeOK, RunTyped
<1>3. ASSUME Shaped, \A r \in Runs : RunTyped(r)
      PROVE  /\ job \in [Runs -> JobRecord] /\ task \in [Runs -> TaskRecord]
             /\ flow \in [Runs -> Status] /\ result \in [Runs -> Results \cup {None}]
             /\ checkpoint \in [Runs -> CheckpointRecord] /\ cleanup \in [Runs -> CleanupRecord]
             /\ receipt \in [Runs -> ReceiptRecord]
  BY <1>3 DEF Shaped, RunTyped
<1> QED
  BY <1>1, <1>2, <1>3 DEF TypeOK

\* No operation adds or loses a row.
LEMMA ShapeKept == Shaped /\ [Next]_vars => Shaped'
<1> SUFFICES ASSUME Shaped, [Next]_vars PROVE Shaped'
  OBVIOUS
<1> USE DEF Shaped, rows, wait, FailRuns, EndCheckpoints, Succeed
<1>1. ASSUME NEW r \in Runs, EnqueueAnalysis(r) \/ ResumeAnalysisAfterAuthentication(r)
                             \/ CancelWorkflow(r)
      PROVE Shaped'
  BY <1>1 DEF EnqueueAnalysis, ResumeAnalysisAfterAuthentication, CancelWorkflow
<1>2. ASSUME NEW r \in Runs, NEW state \in {"failed", "expired"},
             TerminateAnalysisAuthentication(r, state)
      PROVE Shaped'
  BY <1>2 DEF TerminateAnalysisAuthentication
<1>3. ASSUME NEW r \in Runs, LeaseTick(r) \/ RetryDue(r) \/ CheckpointExpires(r)
                             \/ CleanupTick(r) \/ CleanupDue(r)
      PROVE Shaped'
  BY <1>3 DEF LeaseTick, RetryDue, CheckpointExpires, CleanupTick, CleanupDue
<1>4. ASSUME NEW w \in Workers, NEW r \in Runs, NEW g \in Attempts,
             \/ HeartbeatAnalysis(w, r, g) \/ WaitAnalysisForAuthentication(w, r, g)
             \/ CompleteCleanup(w, r, g)
      PROVE Shaped'
  BY <1>4 DEF HeartbeatAnalysis, WaitAnalysisForAuthentication, CompleteCleanup
<1>5. ASSUME NEW w \in Workers, NEW r \in Runs, NEW g \in Attempts, NEW h \in Results,
             \/ CheckpointAnalysisResult(w, r, g, h) \/ CompleteAnalysis(w, r, g, h)
             \/ CompleteCheckpointedAnalysis(w, r, g, h)
      PROVE Shaped'
  BY <1>5 DEF CheckpointAnalysisResult, CompleteAnalysis, CompleteCheckpointedAnalysis
<1>6. ASSUME NEW w \in Workers, NEW r \in Runs, NEW g \in Attempts, NEW retryable \in BOOLEAN,
             FailAnalysis(w, r, g, retryable) \/ RetryCleanup(w, r, g, retryable)
      PROVE Shaped'
  BY <1>6 DEF FailAnalysis, RetryCleanup
<1>7. ASSUME NEW w \in Workers, NEW swept \in SUBSET {r \in Runs : Exhausted(r)},
             NEW claimed \in Picks, ClaimAnalysis(w, swept, claimed)
      PROVE Shaped'
  BY <1>7 DEF ClaimAnalysis
<1>8. ASSUME NEW w \in Workers, NEW claimed \in Picks, ClaimCleanup(w, claimed) PROVE Shaped'
  BY <1>8 DEF ClaimCleanup
<1>9. ASSUME NEW found \in SUBSET {r \in Runs : AuthenticationExpired(r)},
             ReconcileExpiredAuthentication(found)
      PROVE Shaped'
  BY <1>9 DEF ReconcileExpiredAuthentication
<1>10. CASE UNCHANGED vars
  BY <1>10 DEF vars
<1> QED
  BY <1>1, <1>2, <1>3, <1>4, <1>5, <1>6, <1>7, <1>8, <1>9, <1>10 DEF Next

\* Whatever an operation does to the tables, each run sees one of the moves.
LEMMA StepMoves ==
    ASSUME TypeOK, RowsAgree, [Next]_vars, NEW r \in Runs
    PROVE  RunMoves(r)
<1>0. RunTyped(r) /\ RunAgrees(r) /\ Shaped
  BY TypesByRun DEF RowsAgree
<1> USE DEF Shaped, rows, wait, RowsKept, CheckpointKept, ReceiptKept, ResultKept, WaitKept, RowsBecome
<1>1. ASSUME NEW s \in Runs, EnqueueAnalysis(s) PROVE RunMoves(r)
  <2>1. CASE s = r
    BY <1>0, <1>1, <2>1 DEF EnqueueAnalysis, Enqueued, RunMoves
  <2>2. CASE s # r
    BY <1>0, <1>1, <2>2 DEF EnqueueAnalysis, Untouched, RunMoves
  <2> QED BY <2>1, <2>2
<1>2. ASSUME NEW s \in Runs, ResumeAnalysisAfterAuthentication(s) PROVE RunMoves(r)
  <2>1. CASE s = r
    BY <1>0, <1>2, <2>1 DEF ResumeAnalysisAfterAuthentication, Suspended, ResumedByUser, RunMoves
  <2>2. CASE s # r
    BY <1>0, <1>2, <2>2 DEF ResumeAnalysisAfterAuthentication, Untouched, RunMoves
  <2> QED BY <2>1, <2>2
<1>3. ASSUME NEW s \in Runs, CancelWorkflow(s) PROVE RunMoves(r)
  <2>1. CASE s = r
    <3>1. flow[r] \in ActiveStatus /\ job[r].status = flow[r] /\ task[r].status = flow[r]
      BY <1>0, <1>3, <2>1 DEF CancelWorkflow, Active, RunAgrees
    <3>2. Ended(r, "cancelled", "cancelled")
      BY <1>0, <1>3, <2>1, <3>1 DEF CancelWorkflow, EndCheckpoints, Ended
    <3> QED BY <3>2 DEF RunMoves
  <2>2. CASE s # r
    BY <1>0, <1>3, <2>2 DEF CancelWorkflow, EndCheckpoints, Untouched, RunMoves
  <2> QED BY <2>1, <2>2
<1>4. ASSUME NEW s \in Runs, NEW state \in {"failed", "expired"},
             TerminateAnalysisAuthentication(s, state)
      PROVE RunMoves(r)
  <2>1. CASE s = r
    <3>1. Ended(r, "failed", state)
      BY <1>0, <1>4, <2>1
      DEF TerminateAnalysisAuthentication, Suspended, Expired, FailRuns, EndCheckpoints, Ended,
          ActiveStatus, OpenState
    <3> QED BY <3>1 DEF RunMoves
  <2>2. CASE s # r
    BY <1>0, <1>4, <2>2 DEF TerminateAnalysisAuthentication, FailRuns, EndCheckpoints, Untouched, RunMoves
  <2> QED BY <2>1, <2>2
<1>5. ASSUME NEW s \in Runs, LeaseTick(s) PROVE RunMoves(r)
  BY <1>0, <1>5 DEF LeaseTick, Ticked, Untouched, RunMoves
<1>6. ASSUME NEW s \in Runs, RetryDue(s) PROVE RunMoves(r)
  BY <1>0, <1>6 DEF RetryDue, BecameDue, Untouched, RunMoves
<1>7. ASSUME NEW s \in Runs, CheckpointExpires(s) PROVE RunMoves(r)
  BY <1>0, <1>7 DEF CheckpointExpires, CheckpointAged, Untouched, RunMoves
<1>8. ASSUME NEW s \in Runs, CleanupTick(s) \/ CleanupDue(s) PROVE RunMoves(r)
  <2>1. CASE CleanupTick(s)
    BY <1>0, <2>1 DEF CleanupTick, CleanupTicked, CleanupMoved, Untouched, RunMoves
  <2>2. CASE CleanupDue(s)
    BY <1>0, <2>2 DEF CleanupDue, CleanupBecameDue, CleanupMoved, Untouched, RunMoves
  <2> QED BY <1>8, <2>1, <2>2
<1>9. ASSUME NEW w \in Workers, NEW s \in Runs, NEW g \in Attempts, HeartbeatAnalysis(w, s, g)
      PROVE RunMoves(r)
  BY <1>0, <1>9 DEF HeartbeatAnalysis, HoldsLease, Renewed, Untouched, RunMoves
<1>10. ASSUME NEW w \in Workers, NEW s \in Runs, NEW g \in Attempts,
              WaitAnalysisForAuthentication(w, s, g)
       PROVE RunMoves(r)
  <2>1. CASE s = r
    <3>1. SuspendedBy(r, w, g)
      BY <1>0, <1>10, <2>1 DEF WaitAnalysisForAuthentication, SuspendedBy
    <3> QED BY <3>1 DEF RunMoves
  <2>2. CASE s # r
    BY <1>0, <1>10, <2>2 DEF WaitAnalysisForAuthentication, Untouched, RunMoves
  <2> QED BY <2>1, <2>2
<1>11. ASSUME NEW w \in Workers, NEW s \in Runs, NEW g \in Attempts, NEW h \in Results,
              CheckpointAnalysisResult(w, s, g, h)
       PROVE RunMoves(r)
  <2>1. CASE s = r
    <3>1. StoredBy(r, w, g, h)
      BY <1>0, <1>11, <2>1 DEF CheckpointAnalysisResult, StoredBy
    <3> QED BY <3>1 DEF RunMoves
  <2>2. CASE s # r
    BY <1>0, <1>11, <2>2 DEF CheckpointAnalysisResult, Untouched, RunMoves
  <2> QED BY <2>1, <2>2
<1>12. ASSUME NEW w \in Workers, NEW s \in Runs, NEW g \in Attempts, NEW h \in Results,
              CompleteAnalysis(w, s, g, h)
       PROVE RunMoves(r)
  <2>1. CASE s = r
    <3>1. CompletedWith(r, h)
      BY <1>0, <1>12, <2>1 DEF CompleteAnalysis, Succeed, HoldsLease, Unauthenticated, CompletedWith
    <3> QED BY <3>1 DEF RunMoves
  <2>2. CASE s # r
    BY <1>0, <1>12, <2>2 DEF CompleteAnalysis, Succeed, Untouched, RunMoves
  <2> QED BY <2>1, <2>2
<1>13. ASSUME NEW w \in Workers, NEW s \in Runs, NEW g \in Attempts, NEW h \in Results,
              CompleteCheckpointedAnalysis(w, s, g, h)
       PROVE RunMoves(r)
  <2>1. CASE s = r
    <3>1. CompletedCheckpoint(r, w, g)
      BY <1>0, <1>13, <2>1, NullAssumption
      DEF CompleteCheckpointedAnalysis, Succeed, CompletedCheckpoint
    <3> QED BY <3>1 DEF RunMoves
  <2>2. CASE s # r
    BY <1>0, <1>13, <2>2 DEF CompleteCheckpointedAnalysis, Succeed, Untouched, RunMoves
  <2> QED BY <2>1, <2>2
<1>14. ASSUME NEW w \in Workers, NEW s \in Runs, NEW g \in Attempts, NEW retryable \in BOOLEAN,
              FailAnalysis(w, s, g, retryable)
       PROVE RunMoves(r)
  <2>1. CASE s = r
    <3>1. flow[r] = "running" /\ checkpoint[r].state # "waiting" /\ Live(job[r])
      BY <1>0, <1>14, <2>1 DEF FailAnalysis, HoldsLease, Live, RunAgrees
    <3>2. CASE Requeued(r)
      BY <3>2 DEF RunMoves
    <3>3. CASE Ended(r, "failed", "failed")
      BY <3>3 DEF RunMoves
    <3>4. CASE FailRuns({r}) /\ EndCheckpoints({r}, {"consumed"}, "failed")
      <4>1. Ended(r, "failed", "failed")
        BY <1>0, <1>14, <2>1, <3>1, <3>4
        DEF FailAnalysis, Live, Expired, FailRuns, EndCheckpoints, Ended, ActiveStatus, OpenState
      <4> QED BY <4>1, <3>3
    <3>5. CASE ~(FailRuns({r}) /\ EndCheckpoints({r}, {"consumed"}, "failed"))
      <4>1. job[r].attempts \in Int /\ MaxAttempts \in Int
        BY <1>0, BoundsAssumption DEF RunTyped, JobRecord, Attempts
      <4>2. ~(job[r].attempts >= MaxAttempts) => job[r].attempts < MaxAttempts
        BY <4>1
      <4>3. Requeued(r)
        BY <1>0, <1>14, <2>1, <3>1, <3>5, <4>2 DEF FailAnalysis, Requeued
      <4> QED BY <4>3, <3>2
    <3> QED BY <3>4, <3>5
  <2>2. CASE s # r
    BY <1>0, <1>14, <2>2 DEF FailAnalysis, FailRuns, EndCheckpoints, Untouched, RunMoves
  <2> QED BY <2>1, <2>2
<1>15. ASSUME NEW w \in Workers, NEW s \in Runs, NEW g \in Attempts, NEW retryable \in BOOLEAN,
              RetryCleanup(w, s, g, retryable)
       PROVE RunMoves(r)
  <2>1. CASE s = r
    <3>1. CleanupGivenUp(r) \/ CleanupRequeued(r)
      BY <1>0, <1>15, <2>1
      DEF RetryCleanup, HoldsCleanup, CleanupLease, CleanupGivenUp, CleanupRequeued
    <3>2. CleanupMoved(r)
      BY <1>0, <1>15, <3>1 DEF RetryCleanup, CleanupMoved
    <3> QED BY <3>2 DEF RunMoves
  <2>2. CASE s # r
    BY <1>0, <1>15, <2>2 DEF RetryCleanup, Untouched, RunMoves
  <2> QED BY <2>1, <2>2
<1>16. ASSUME NEW w \in Workers, NEW s \in Runs, NEW g \in Attempts, CompleteCleanup(w, s, g)
       PROVE RunMoves(r)
  <2>1. CASE s = r
    <3> DEFINE done == Released(cleanup[r], "succeeded")
    <3>1. done.status = "succeeded"
      BY <1>0 DEF RunTyped, CleanupRecord, Released
    <3>2. ~CleanupLease(done, w, g)
      BY <3>1 DEF CleanupLease, Live
    <3>3. receipt'[r] = [receipt[r] EXCEPT !.disposed = receipt[r].disposed \/ CleanupLease(done, w, g)]
      BY <1>0, <1>16, <2>1 DEF CompleteCleanup
    <3>4. receipt[r] \in ReceiptRecord /\ receipt[r].disposed \in BOOLEAN
      BY <1>0 DEF RunTyped, ReceiptRecord
    <3> HIDE DEF done
    <3>5. (receipt[r].disposed \/ CleanupLease(done, w, g)) = receipt[r].disposed
      BY <3>2, <3>4, Zenon
    <3>6. receipt'[r] = [receipt[r] EXCEPT !.disposed = receipt[r].disposed]
      BY <3>3, <3>5
    <3>7. receipt'[r] = receipt[r]
      BY <3>4, <3>6 DEF ReceiptRecord
    <3>8. CleanupDone(r)
      BY <1>0, <1>16, <2>1, <3>7 DEF CompleteCleanup, HoldsCleanup, CleanupLease, CleanupDone
    <3> QED BY <3>8 DEF RunMoves
  <2>2. CASE s # r
    BY <1>0, <1>16, <2>2 DEF CompleteCleanup, Untouched, RunMoves
  <2> QED BY <2>1, <2>2
<1>17. ASSUME NEW w \in Workers, NEW swept \in SUBSET {s \in Runs : Exhausted(s)},
              NEW claimed \in Picks, ClaimAnalysis(w, swept, claimed)
       PROVE RunMoves(r)
  <2>1. CASE r \in swept
    <3>1. /\ Exhausted(r) /\ flow[r] = "running" /\ task[r].status = "running"
          /\ checkpoint[r].state # "waiting"
      BY <1>0, <1>17, <2>1 DEF ClaimAnalysis, Exhausted, Expired, RunAgrees
    <3>2. r \notin claimed
      <4>1. job[r].attempts \in Int /\ MaxAttempts \in Int /\ job[r].attempts >= MaxAttempts
        BY <1>0, <3>1, BoundsAssumption DEF Exhausted, RunTyped, JobRecord, Attempts
      <4>2. ~Claimable(r)
        BY <4>1 DEF Claimable
      <4> QED BY <1>17, <4>2 DEF ClaimAnalysis
    <3>3. Ended(r, "failed", "failed")
      BY <1>0, <1>17, <2>1, <3>1, <3>2
      DEF ClaimAnalysis, Exhausted, EndCheckpoints, Ended, ActiveStatus, OpenState
    <3> QED BY <3>3 DEF RunMoves
  <2>2. CASE r \notin swept /\ r \in claimed
    <3>1. Claimable(r)
      BY <1>17, <2>2 DEF ClaimAnalysis
    <3>2. ClaimedBy(r, w)
      BY <1>0, <1>17, <2>2, <3>1 DEF ClaimAnalysis, Claimable, EndCheckpoints, ClaimedBy
    <3> QED BY <3>2 DEF RunMoves
  <2>3. CASE r \notin swept /\ r \notin claimed
    BY <1>0, <1>17, <2>3 DEF ClaimAnalysis, EndCheckpoints, Untouched, RunMoves
  <2> QED BY <2>1, <2>2, <2>3
<1>18. ASSUME NEW w \in Workers, NEW claimed \in Picks, ClaimCleanup(w, claimed) PROVE RunMoves(r)
  <2>1. CASE CleanupExhausted(r)
    BY <1>0, <1>18, <2>1 DEF ClaimCleanup, CleanupGivenUp, CleanupMoved, RunMoves
  <2>2. CASE ~CleanupExhausted(r) /\ r \in claimed
    BY <1>0, <1>18, <2>2 DEF ClaimCleanup, CleanupLeasedTo, CleanupMoved, RunMoves
  <2>3. CASE ~CleanupExhausted(r) /\ r \notin claimed
    BY <1>0, <1>18, <2>3 DEF ClaimCleanup, Untouched, RunMoves
  <2> QED BY <2>1, <2>2, <2>3
<1>19. ASSUME NEW found \in SUBSET {s \in Runs : AuthenticationExpired(s)},
              ReconcileExpiredAuthentication(found)
       PROVE RunMoves(r)
  <2>1. CASE r \in found
    <3>1. AuthenticationExpired(r) /\ flow[r] \in ActiveStatus
      BY <1>19, <2>1 DEF ReconcileExpiredAuthentication, AuthenticationExpired, ActiveStatus
    <3>2. Ended(r, "failed", "expired")
      BY <1>0, <1>19, <2>1, <3>1
      DEF ReconcileExpiredAuthentication, AuthenticationExpired, Expired, FailRuns, EndCheckpoints, Ended
    <3> QED BY <3>2 DEF RunMoves
  <2>2. CASE r \notin found
    BY <1>0, <1>19, <2>2 DEF ReconcileExpiredAuthentication, FailRuns, EndCheckpoints, Untouched, RunMoves
  <2> QED BY <2>1, <2>2
<1>20. CASE UNCHANGED vars
  BY <1>20 DEF vars, Untouched, RunMoves
<1> QED
  BY <1>1, <1>2, <1>3, <1>4, <1>5, <1>6, <1>7, <1>8, <1>9, <1>10, <1>11, <1>12, <1>13, <1>14,
     <1>15, <1>16, <1>17, <1>18, <1>19, <1>20
  DEF Next

-----------------------------------------------------------------------------
(* The four rows of a run. *)

\* Every status that a move writes is one of the table's.
LEMMA StatusNames ==
    /\ {"queued", "running", "waiting", "succeeded", "failed", "cancelled"} \subseteq Status
    /\ {"none", "waiting", "consumed", "completed", "failed", "cancelled", "expired"}
         = {"none", "completed"} \cup OpenState \cup OwingState
  BY DEF Status, ActiveStatus, TerminalStatus, OpenState, OwingState

\* Releasing job and task together keeps their types and gives up the lease.
LEMMA RowsBecomeTyped ==
    ASSUME NEW r \in Runs, RunTyped(r), RunAgrees(r),
           NEW status \in Status \ {"running"}, RowsBecome(r, status)
    PROVE  /\ job'[r] \in JobRecord /\ task'[r] \in TaskRecord /\ flow'[r] = status
           /\ job'[r].status = status /\ task'[r].status = status
           /\ job'[r].owner = None /\ task'[r].owner = None
           /\ job'[r].lease = 0 /\ task'[r].lease = 0
           /\ job'[r].attempts = job[r].attempts /\ task'[r].attempts = task[r].attempts
           /\ task'[r].generation = task[r].generation
           /\ job'[r].delayed = job[r].delayed
<1>1. 0 \in 0 .. LeaseTerm
  BY BoundsAssumption
<1> QED
  BY <1>1 DEF RunTyped, RowsBecome, Released, JobRecord, TaskRecord

\* A move keeps every row of the run well typed.
LEMMA MoveKeepsTypes ==
    ASSUME NEW r \in Runs, RunTyped(r), RunAgrees(r), RunMoves(r)
    PROVE  RunTyped(r)'
<1>1. 0 \in 0 .. LeaseTerm /\ LeaseTerm \in 0 .. LeaseTerm /\ 0 \in Attempts /\ MaxAttempts \in Nat
  BY BoundsAssumption DEF Attempts
<1>2. \A n \in 0 .. LeaseTerm : n > 0 => n - 1 \in 0 .. LeaseTerm
  BY BoundsAssumption
<1>3. \A n \in Attempts : n < MaxAttempts => n + 1 \in Attempts
  BY BoundsAssumption DEF Attempts
<1>4. NoCleanup \in CleanupRecord
  BY <1>1 DEF NoCleanup, CleanupRecord
<1> USE DEF RowsKept, CheckpointKept, ReceiptKept, ResultKept, WaitKept
<1>5. CASE Untouched(r)
  BY <1>5 DEF Untouched, RunTyped
<1>6. CASE Enqueued(r)
  BY <1>6, StatusNames DEF Enqueued, RunTyped, JobRecord, TaskRecord
<1>7. CASE Renewed(r)
  BY <1>1, <1>7 DEF Renewed, RunTyped, JobRecord, TaskRecord
<1>8. CASE ResumedByUser(r)
  <2>1. job'[r] \in JobRecord /\ task'[r] \in TaskRecord /\ flow'[r] \in Status
    <3>1. job'[r] \in JobRecord
      BY <1>1, <1>8, StatusNames DEF ResumedByUser, RunTyped, Released, JobRecord
    <3>2. task'[r] \in TaskRecord
      BY <1>1, <1>8, StatusNames DEF ResumedByUser, RunTyped, Released, TaskRecord
    <3> QED BY <1>8, <3>1, <3>2, StatusNames DEF ResumedByUser
  <2>2. checkpoint'[r] \in CheckpointRecord
    BY <1>8 DEF ResumedByUser, RunTyped, CheckpointRecord, OpenState
  <2> QED BY <1>8, <2>1, <2>2 DEF ResumedByUser, RunTyped
<1>9. CASE Requeued(r)
  <2>1. job'[r] \in JobRecord
    BY <1>1, <1>9, StatusNames DEF Requeued, RunTyped, Released, JobRecord
  <2>2. task'[r] \in TaskRecord /\ flow'[r] \in Status
    BY <1>1, <1>9, StatusNames DEF Requeued, RunTyped, Released, TaskRecord
  <2> QED BY <1>9, <2>1, <2>2 DEF Requeued, RunTyped
<1>10. ASSUME NEW w \in Workers, ClaimedBy(r, w) PROVE RunTyped(r)'
  <2>1. job[r].attempts + 1 \in Attempts /\ task[r].generation + 1 \in Attempts
    BY <1>3, <1>10 DEF ClaimedBy, RunTyped, RunAgrees, JobRecord, TaskRecord
  <2>2. job'[r] \in JobRecord /\ task'[r] \in TaskRecord /\ flow'[r] \in Status
    <3>1. job'[r] \in JobRecord
      BY <1>1, <1>10, <2>1, StatusNames DEF ClaimedBy, RunTyped, LeasedRow, JobRecord
    <3>2. task'[r] \in TaskRecord
      BY <1>1, <1>10, <2>1, StatusNames DEF ClaimedBy, TaskRecord
    <3> QED BY <1>10, <3>1, <3>2, StatusNames DEF ClaimedBy
  <2>3. receipt'[r] \in ReceiptRecord
    BY <1>10, <2>1 DEF ClaimedBy, RunTyped, ReceiptRecord, Deed
  <2> QED BY <1>10, <2>2, <2>3 DEF ClaimedBy, RunTyped
<1>11. ASSUME NEW w \in Workers, NEW g \in Attempts, SuspendedBy(r, w, g) PROVE RunTyped(r)'
  <2>1. job'[r] \in JobRecord /\ task'[r] \in TaskRecord /\ flow'[r] \in Status
    BY <1>11, RowsBecomeTyped, StatusNames DEF SuspendedBy
  <2>2. receipt'[r] \in ReceiptRecord
    BY <1>11 DEF SuspendedBy, RunTyped, ReceiptRecord, Deed
  <2>3. checkpoint'[r] \in CheckpointRecord
    BY <1>11, StatusNames DEF SuspendedBy, CheckpointRecord
  <2> QED BY <1>11, <2>1, <2>2, <2>3 DEF SuspendedBy, RunTyped
<1>12. ASSUME NEW w \in Workers, NEW g \in Attempts, CompletedCheckpoint(r, w, g)
       PROVE RunTyped(r)'
  <2>1. job'[r] \in JobRecord /\ task'[r] \in TaskRecord /\ flow'[r] \in Status
    BY <1>12, RowsBecomeTyped, StatusNames DEF CompletedCheckpoint
  <2>2. CompletedElsewhere(r, w) \in BOOLEAN
    BY DEF CompletedElsewhere
  <2>3. receipt'[r] \in ReceiptRecord
    <3>1. [by |-> w, generation |-> g] \in Deed
      BY DEF Deed
    <3> QED BY <1>12, <2>2, <3>1 DEF CompletedCheckpoint, RunTyped, ReceiptRecord
  <2>4. checkpoint'[r] \in CheckpointRecord
    BY <1>12, StatusNames DEF CompletedCheckpoint, RunTyped, CheckpointRecord
  <2>5. cleanup'[r] \in CleanupRecord
    BY <1>4, <1>12 DEF CompletedCheckpoint, CleanupRecord
  <2> QED BY <1>12, <2>1, <2>3, <2>4, <2>5 DEF CompletedCheckpoint, RunTyped
<1>13. ASSUME NEW w \in Workers, NEW g \in Attempts, NEW hash \in Results, StoredBy(r, w, g, hash)
       PROVE RunTyped(r)'
  <2>1. receipt'[r] \in ReceiptRecord
    <3>1. [by |-> w, generation |-> g] \in Deed
      BY DEF Deed
    <3> QED BY <1>13, <3>1 DEF StoredBy, RunTyped, ReceiptRecord
  <2> QED BY <1>13, <2>1 DEF StoredBy, RunTyped
<1>14. ASSUME NEW hash \in Results, CompletedWith(r, hash) PROVE RunTyped(r)'
  <2>1. job'[r] \in JobRecord /\ task'[r] \in TaskRecord /\ flow'[r] \in Status
    BY <1>14, RowsBecomeTyped, StatusNames DEF CompletedWith
  <2> QED BY <1>14, <2>1 DEF CompletedWith, RunTyped
<1>15. ASSUME NEW status \in {"failed", "cancelled"}, NEW state \in OwingState, Ended(r, status, state)
       PROVE RunTyped(r)'
  <2>1. job'[r] \in JobRecord /\ task'[r] \in TaskRecord /\ flow'[r] \in Status
    BY <1>15, RowsBecomeTyped, StatusNames DEF Ended
  <2>2. checkpoint'[r] \in CheckpointRecord /\ cleanup'[r] \in CleanupRecord
    BY <1>4, <1>15 DEF Ended, RunTyped, CheckpointRecord, CleanupRecord
  <2> QED BY <1>15, <2>1, <2>2 DEF Ended, RunTyped
<1>16. CASE Ticked(r)
  <2>1. job[r].lease > 0 /\ job[r].lease \in 0 .. LeaseTerm /\ task[r].lease \in 0 .. LeaseTerm
    BY <1>16 DEF Ticked, Live, RunTyped, JobRecord, TaskRecord
  <2>2. job[r].lease - 1 \in 0 .. LeaseTerm
        /\ (IF task[r].lease > 0 THEN task[r].lease - 1 ELSE 0) \in 0 .. LeaseTerm
    BY <1>1, <1>2, <2>1
  <2> QED BY <1>16, <2>2 DEF Ticked, RunTyped, JobRecord, TaskRecord
<1>17. CASE BecameDue(r)
  BY <1>17 DEF BecameDue, RunTyped, JobRecord
<1>18. CASE CheckpointAged(r)
  BY <1>18 DEF CheckpointAged, RunTyped, CheckpointRecord
<1>19. CASE CleanupMoved(r)
  <2>0. cleanup[r] \in CleanupRecord
    BY DEF RunTyped
  <2>1. ASSUME NEW w \in Workers, CleanupLeasedTo(r, w) PROVE cleanup'[r] \in CleanupRecord
    <3>1. cleanup[r].attempts + 1 \in Attempts
      BY <1>3, <2>0, <2>1 DEF CleanupLeasedTo, CleanupClaimable, CleanupRecord
    <3> QED BY <1>1, <2>0, <2>1, <3>1 DEF CleanupLeasedTo, LeasedRow, CleanupRecord
  <2>2. cleanup'[r] \in CleanupRecord
    <3>1. CASE CleanupGivenUp(r)
      BY <1>1, <2>0, <3>1 DEF CleanupGivenUp, Released, CleanupRecord
    <3>2. CASE CleanupRequeued(r)
      BY <1>1, <2>0, <3>2 DEF CleanupRequeued, Released, CleanupRecord
    <3>3. CASE CleanupBecameDue(r)
      BY <1>1, <2>0, <3>3 DEF CleanupBecameDue, CleanupRecord
    <3>4. CASE CleanupTicked(r)
      <4>1. cleanup[r].lease - 1 \in 0 .. LeaseTerm
        BY <1>2, <2>0, <3>4 DEF CleanupTicked, Live, CleanupRecord
      <4> QED BY <2>0, <3>4, <4>1 DEF CleanupTicked, CleanupRecord
    <3> QED BY <1>19, <2>1, <3>1, <3>2, <3>3, <3>4 DEF CleanupMoved
  <2> QED BY <1>19, <2>2 DEF CleanupMoved, RunTyped
<1>20. CASE CleanupDone(r)
  BY <1>1, <1>20 DEF CleanupDone, RunTyped, Released, CleanupRecord
<1> QED
  BY <1>5, <1>6, <1>7, <1>8, <1>9, <1>10, <1>11, <1>12, <1>13, <1>14, <1>15, <1>16, <1>17,
     <1>18, <1>19, <1>20
  DEF RunMoves, OwingState

\* A move keeps job, task, workflow run and checkpoint of the run in step.
LEMMA MoveKeepsAgreement ==
    ASSUME NEW r \in Runs, RunTyped(r), RunAgrees(r), StoryInOrder(r), RunMoves(r)
    PROVE  RunAgrees(r)'
<1>1. /\ LeaseTerm \in Nat \ {0} /\ None \notin Workers
      /\ job[r] \in JobRecord /\ task[r] \in TaskRecord /\ checkpoint[r] \in CheckpointRecord
  BY BoundsAssumption, NullAssumption DEF RunTyped
<1> USE DEF RowsKept, CheckpointKept, ReceiptKept, ResultKept, WaitKept
<1>5. CASE Untouched(r) \/ CleanupMoved(r) \/ CleanupDone(r)
  BY <1>5 DEF Untouched, CleanupMoved, CleanupDone, RunAgrees
<1>6. CASE Enqueued(r)
  BY <1>1, <1>6 DEF Enqueued, RunAgrees, JobRecord, TaskRecord, CheckpointRecord, OpenState, OwingState
<1>7. CASE Renewed(r)
  BY <1>1, <1>7 DEF Renewed, Live, RunAgrees, JobRecord, TaskRecord
<1>8. CASE ResumedByUser(r)
  BY <1>1, <1>8 DEF ResumedByUser, RunAgrees, Released, JobRecord, TaskRecord, CheckpointRecord
<1>9. CASE Requeued(r)
  BY <1>1, <1>9 DEF Requeued, Live, RunAgrees, Released, JobRecord, TaskRecord
<1>10. ASSUME NEW w \in Workers, ClaimedBy(r, w) PROVE RunAgrees(r)'
  <2>1. /\ job'[r].status = "running" /\ job'[r].owner = w /\ job'[r].lease = LeaseTerm
        /\ job'[r].attempts = job[r].attempts + 1
        /\ task'[r].status = "running" /\ task'[r].owner = w /\ task'[r].lease = LeaseTerm
        /\ task'[r].attempts = job[r].attempts + 1 /\ task'[r].generation = task[r].generation + 1
    BY <1>1, <1>10 DEF ClaimedBy, LeasedRow, JobRecord
  <2>2. checkpoint[r].state \in {"none", "consumed"}
    BY <1>10 DEF ClaimedBy, Resumable
  <2> QED BY <1>1, <1>10, <2>1, <2>2 DEF ClaimedBy, RunAgrees
<1>11. ASSUME NEW w \in Workers, NEW g \in Attempts, SuspendedBy(r, w, g) PROVE RunAgrees(r)'
  BY <1>1, <1>11, RowsBecomeTyped, StatusNames DEF SuspendedBy, RunAgrees
<1>12. ASSUME NEW w \in Workers, NEW g \in Attempts, CompletedCheckpoint(r, w, g)
       PROVE RunAgrees(r)'
  <2>1. checkpoint'[r].state = "completed"
    BY <1>1, <1>12 DEF CompletedCheckpoint, CheckpointRecord
  <2> QED BY <1>1, <1>12, <2>1, RowsBecomeTyped, StatusNames DEF CompletedCheckpoint, RunAgrees
<1>13. ASSUME NEW w \in Workers, NEW g \in Attempts, NEW hash \in Results, StoredBy(r, w, g, hash)
       PROVE RunAgrees(r)'
  BY <1>13 DEF StoredBy, RunAgrees
<1>14. ASSUME NEW hash \in Results, CompletedWith(r, hash) PROVE RunAgrees(r)'
  <2>1. checkpoint[r].state = "none"
    BY <1>14 DEF CompletedWith, StoryInOrder
  <2> QED BY <1>1, <1>14, <2>1, RowsBecomeTyped, StatusNames DEF CompletedWith, RunAgrees
<1>15. ASSUME NEW status \in {"failed", "cancelled"}, NEW state \in OwingState, Ended(r, status, state),
              state = "cancelled" <=> status = "cancelled"
       PROVE RunAgrees(r)'
  <2>1. /\ job'[r].status = status /\ flow'[r] = status /\ task'[r].status = status
        /\ job'[r].owner = None /\ task'[r].owner = None
        /\ job'[r].lease = 0 /\ task'[r].lease = 0
        /\ job'[r].attempts = job[r].attempts /\ task'[r].attempts = task[r].attempts
        /\ task'[r].generation = task[r].generation
    BY <1>15, RowsBecomeTyped, StatusNames DEF Ended
  <2>2. checkpoint'[r].state = IF checkpoint[r].state \in OpenState THEN state ELSE checkpoint[r].state
    BY <1>1, <1>15 DEF Ended, CheckpointRecord
  <2> QED BY <1>1, <1>15, <2>1, <2>2
          DEF Ended, RunAgrees, ActiveStatus, OpenState, OwingState, CheckpointRecord
<1>16. CASE Ticked(r)
  BY <1>1, <1>16 DEF Ticked, Live, RunAgrees, JobRecord, TaskRecord
<1>17. CASE BecameDue(r)
  BY <1>1, <1>17 DEF BecameDue, RunAgrees, JobRecord
<1>18. CASE CheckpointAged(r)
  BY <1>1, <1>18 DEF CheckpointAged, RunAgrees, CheckpointRecord
<1> QED
  BY <1>5, <1>6, <1>7, <1>8, <1>9, <1>10, <1>11, <1>12, <1>13, <1>14, <1>15, <1>16, <1>17, <1>18
  DEF RunMoves, OwingState

-----------------------------------------------------------------------------
(* The receipt. *)

\* No deed is of a lease that was not handed out yet, and a deed of storing is
\* there with the hash it stored.
DeedsBounded(r) ==
    /\ receipt[r].suspended.generation <= task[r].generation
    /\ receipt[r].resumed.generation <= task[r].generation
    /\ receipt[r].stored.generation <= task[r].generation
    /\ receipt[r].completed.generation <= task[r].generation
    /\ receipt[r].stored # Nobody <=> receipt[r].hash # None

\* The inductive invariant of one run.
RunOK(r) == RunTyped(r) /\ RunAgrees(r) /\ StoryInOrder(r) /\ DeedsBounded(r)

\* What a worker does under a lease is a deed.
LEMMA DeedOfWorker ==
    ASSUME NEW w \in Workers, NEW g PROVE [by |-> w, generation |-> g] # Nobody
  BY NullAssumption DEF Nobody

\* The fields of a receipt, and that the generations in it are numbers.
LEMMA ReceiptFields ==
    ASSUME NEW r \in Runs, RunTyped(r)
    PROVE  /\ receipt[r].suspended.generation \in Int /\ receipt[r].resumed.generation \in Int
           /\ receipt[r].stored.generation \in Int /\ receipt[r].completed.generation \in Int
           /\ task[r].generation \in Int /\ job[r].attempts \in Int
           /\ receipt[r].restartVerified \in BOOLEAN
<1>1. Attempts \subseteq Int
  BY BoundsAssumption DEF Attempts
<1> QED BY <1>1 DEF RunTyped, ReceiptRecord, Deed, TaskRecord, JobRecord

\* A move that leaves the receipt alone leaves its story in order.
LEMMA KeptReceiptKeepsStory ==
    ASSUME NEW r \in Runs, RunOK(r), receipt'[r] = receipt[r],
           task'[r].generation = task[r].generation,
           checkpoint'[r].state = "none" <=> checkpoint[r].state = "none",
           checkpoint'[r].state = "completed" <=> checkpoint[r].state = "completed"
    PROVE  StoryInOrder(r)' /\ DeedsBounded(r)'
  BY DEF RunOK, StoryInOrder, DeedsBounded

\* A move of a run continues its receipt in the order of the story.
LEMMA MoveKeepsStory ==
    ASSUME NEW r \in Runs, RunOK(r), RunMoves(r)
    PROVE  StoryInOrder(r)' /\ DeedsBounded(r)'
<1>0. /\ job[r] \in JobRecord /\ task[r] \in TaskRecord
      /\ checkpoint[r] \in CheckpointRecord /\ receipt[r] \in ReceiptRecord
      /\ RunTyped(r) /\ RunAgrees(r) /\ StoryInOrder(r) /\ DeedsBounded(r)
  BY DEF RunOK, RunTyped
<1> USE DEF RowsKept, CheckpointKept, ReceiptKept, ResultKept, WaitKept
<1>1. CASE \/ Untouched(r) \/ Enqueued(r) \/ Renewed(r) \/ Requeued(r) \/ Ticked(r) \/ BecameDue(r)
           \/ CleanupMoved(r) \/ CleanupDone(r)
  <2>1. task'[r].generation = task[r].generation
    BY <1>0, <1>1
    DEF Untouched, Enqueued, Renewed, Requeued, Ticked, BecameDue, CleanupMoved, CleanupDone,
        Released, TaskRecord
  <2>2. checkpoint'[r] = checkpoint[r] /\ receipt'[r] = receipt[r]
    BY <1>1
    DEF Untouched, Enqueued, Renewed, Requeued, Ticked, BecameDue, CleanupMoved, CleanupDone
  <2> QED BY <2>1, <2>2, KeptReceiptKeepsStory
<1>2. CASE ResumedByUser(r) \/ CheckpointAged(r)
  <2>1. task'[r].generation = task[r].generation /\ receipt'[r] = receipt[r]
    BY <1>0, <1>2 DEF ResumedByUser, CheckpointAged, Released, TaskRecord
  <2>2. /\ checkpoint'[r].state = "none" <=> checkpoint[r].state = "none"
        /\ checkpoint'[r].state = "completed" <=> checkpoint[r].state = "completed"
    BY <1>0, <1>2 DEF ResumedByUser, CheckpointAged, CheckpointRecord
  <2> QED BY <2>1, <2>2, KeptReceiptKeepsStory
<1>3. ASSUME NEW status \in {"failed", "cancelled"}, NEW state \in OwingState, Ended(r, status, state)
      PROVE  StoryInOrder(r)' /\ DeedsBounded(r)'
  <2>1. task'[r].generation = task[r].generation /\ receipt'[r] = receipt[r]
    BY <1>0, <1>3, RowsBecomeTyped, StatusNames DEF Ended
  <2>2. /\ checkpoint'[r].state = "none" <=> checkpoint[r].state = "none"
        /\ checkpoint'[r].state = "completed" <=> checkpoint[r].state = "completed"
    BY <1>0, <1>3 DEF Ended, CheckpointRecord, OpenState, OwingState
  <2> QED BY <2>1, <2>2, KeptReceiptKeepsStory
<1>4. ASSUME NEW hash \in Results, CompletedWith(r, hash)
      PROVE  StoryInOrder(r)' /\ DeedsBounded(r)'
  <2>1. task'[r].generation = task[r].generation
    BY <1>0, <1>4, RowsBecomeTyped, StatusNames DEF CompletedWith
  <2> QED BY <1>4, <2>1, KeptReceiptKeepsStory DEF CompletedWith
<1>5. ASSUME NEW w \in Workers, ClaimedBy(r, w)
      PROVE  StoryInOrder(r)' /\ DeedsBounded(r)'
  <2>1. task'[r].generation = task[r].generation + 1 /\ checkpoint'[r] = checkpoint[r]
    BY <1>5 DEF ClaimedBy
  <2>2. CASE ~FirstResume(r)
    <3>1. receipt'[r] = receipt[r]
      BY <1>5, <2>2 DEF ClaimedBy
    <3> QED BY <1>0, <2>1, <3>1, ReceiptFields DEF StoryInOrder, DeedsBounded
  <2>3. CASE FirstResume(r)
    <3> DEFINE deed == [by |-> w, generation |-> task[r].generation + 1]
    <3>1. receipt'[r] = [receipt[r] EXCEPT !.resumed = deed]
      BY <1>5, <2>3 DEF ClaimedBy
    <3>2. deed # Nobody /\ deed.generation = task[r].generation + 1
      BY DeedOfWorker
    <3> HIDE DEF deed
    <3>3. /\ receipt'[r].suspended = receipt[r].suspended /\ receipt'[r].stored = receipt[r].stored
          /\ receipt'[r].completed = receipt[r].completed /\ receipt'[r].hash = receipt[r].hash
          /\ receipt'[r].restartVerified = receipt[r].restartVerified
          /\ receipt'[r].resumed = deed
      BY <1>0, <3>1 DEF ReceiptRecord
    <3>4. receipt[r].suspended # Nobody /\ receipt[r].resumed = Nobody
          /\ receipt[r].stored = Nobody /\ receipt[r].completed = Nobody
      BY <1>0, <2>3 DEF FirstResume, StoryInOrder
    <3> QED BY <1>0, <2>1, <3>2, <3>3, <3>4, ReceiptFields DEF StoryInOrder, DeedsBounded
  <2> QED BY <2>2, <2>3
<1>6. ASSUME NEW w \in Workers, NEW g \in Attempts, SuspendedBy(r, w, g)
      PROVE  StoryInOrder(r)' /\ DeedsBounded(r)'
  <2> DEFINE deed == [by |-> w, generation |-> g]
  <2>1. receipt'[r] = [receipt[r] EXCEPT !.suspended = deed]
    BY <1>6 DEF SuspendedBy
  <2>2. deed # Nobody /\ deed.generation = g /\ g = task[r].generation
    BY <1>6, DeedOfWorker DEF SuspendedBy, HoldsLease
  <2> HIDE DEF deed
  <2>3. /\ receipt'[r].resumed = receipt[r].resumed /\ receipt'[r].stored = receipt[r].stored
        /\ receipt'[r].completed = receipt[r].completed /\ receipt'[r].hash = receipt[r].hash
        /\ receipt'[r].restartVerified = receipt[r].restartVerified
        /\ receipt'[r].suspended = deed
    BY <1>0, <2>1 DEF ReceiptRecord
  <2>4. receipt[r].suspended = Nobody /\ receipt[r].resumed = Nobody
        /\ receipt[r].stored = Nobody /\ receipt[r].completed = Nobody
    BY <1>0, <1>6 DEF SuspendedBy, StoryInOrder
  <2>5. checkpoint'[r].state = "waiting" /\ task'[r].generation = task[r].generation
    BY <1>0, <1>6, RowsBecomeTyped, StatusNames DEF SuspendedBy
  <2> QED BY <1>0, <2>2, <2>3, <2>4, <2>5, ReceiptFields DEF StoryInOrder, DeedsBounded
<1>7. ASSUME NEW w \in Workers, NEW g \in Attempts, NEW hash \in Results, StoredBy(r, w, g, hash)
      PROVE  StoryInOrder(r)' /\ DeedsBounded(r)'
  <2> DEFINE deed == [by |-> w, generation |-> g]
  <2>1. receipt'[r] = [receipt[r] EXCEPT !.hash = hash, !.stored = deed]
    BY <1>7 DEF StoredBy
  <2>2. deed # Nobody /\ deed.generation = g /\ g = task[r].generation /\ hash # None
    BY <1>7, DeedOfWorker, NullAssumption DEF StoredBy, HoldsLease
  <2> HIDE DEF deed
  <2>3. /\ receipt'[r].resumed = receipt[r].resumed /\ receipt'[r].suspended = receipt[r].suspended
        /\ receipt'[r].completed = receipt[r].completed /\ receipt'[r].hash = hash
        /\ receipt'[r].restartVerified = receipt[r].restartVerified
        /\ receipt'[r].stored = deed
    BY <1>0, <2>1 DEF ReceiptRecord
  <2>4. receipt[r].resumed # Nobody /\ receipt[r].completed = Nobody
        /\ checkpoint'[r] = checkpoint[r] /\ task'[r] = task[r]
    BY <1>7 DEF StoredBy
  <2> QED BY <1>0, <2>2, <2>3, <2>4, ReceiptFields DEF StoryInOrder, DeedsBounded
<1>8. ASSUME NEW w \in Workers, NEW g \in Attempts, CompletedCheckpoint(r, w, g)
      PROVE  StoryInOrder(r)' /\ DeedsBounded(r)'
  <2> DEFINE deed == [by |-> w, generation |-> g]
  <2>1. receipt'[r] = [receipt[r] EXCEPT !.completed = deed,
                          !.restartVerified = CompletedElsewhere(r, w), !.disposed = TRUE]
    BY <1>8 DEF CompletedCheckpoint
  <2>2. deed # Nobody /\ deed.generation = g /\ deed.by = w /\ g = task[r].generation
    BY <1>8, DeedOfWorker DEF CompletedCheckpoint, HoldsLease
  <2> HIDE DEF deed
  <2>3. /\ receipt'[r].resumed = receipt[r].resumed /\ receipt'[r].suspended = receipt[r].suspended
        /\ receipt'[r].stored = receipt[r].stored /\ receipt'[r].hash = receipt[r].hash
        /\ receipt'[r].completed = deed
        /\ receipt'[r].restartVerified = CompletedElsewhere(r, w)
    BY <1>0, <2>1 DEF ReceiptRecord
  <2>4. /\ receipt[r].stored # Nobody
        /\ checkpoint'[r].state = "completed" /\ checkpoint[r].state # "none"
        /\ task'[r].generation = task[r].generation
    <3>1. task'[r].generation = task[r].generation
      BY <1>0, <1>8, RowsBecomeTyped, StatusNames DEF CompletedCheckpoint
    <3>2. checkpoint'[r].state = "completed" /\ checkpoint[r].state # "none"
      BY <1>0, <1>8 DEF CompletedCheckpoint, CheckpointRecord
    <3> QED BY <1>0, <1>8, <3>1, <3>2 DEF CompletedCheckpoint, DeedsBounded
  <2>5. receipt'[r].restartVerified <=> receipt'[r].suspended.by # receipt'[r].completed.by
    BY <2>2, <2>3 DEF CompletedElsewhere
  <2> QED BY <1>0, <2>2, <2>3, <2>4, <2>5, ReceiptFields DEF StoryInOrder, DeedsBounded
<1> QED
  BY <1>1, <1>2, <1>3, <1>4, <1>5, <1>6, <1>7, <1>8 DEF RunMoves, OwingState

\* Every run's rows are right before anything is enqueued.
LEMMA RunOKInit == ASSUME Init, NEW r \in Runs PROVE Shaped /\ RunOK(r)
<1>1. 0 \in 0 .. LeaseTerm /\ 0 \in Attempts
  BY BoundsAssumption DEF Attempts
<1>2. Nobody \in Deed /\ NoCleanup \in CleanupRecord
  BY <1>1 DEF Nobody, Deed, NoCleanup, CleanupRecord
<1>3. Shaped
  BY DEF Init, Shaped
<1>4. job[r] \in JobRecord /\ task[r] \in TaskRecord /\ flow[r] \in Status
  BY <1>1 DEF Init, JobRecord, TaskRecord, Status
<1>5. receipt[r] \in ReceiptRecord
  BY <1>2 DEF Init, ReceiptRecord
<1>6. RunTyped(r)
  BY <1>2, <1>4, <1>5 DEF Init, RunTyped, CheckpointRecord
<1>7. RunAgrees(r)
  BY DEF Init, RunAgrees
<1>8. StoryInOrder(r)
  BY DEF Init, StoryInOrder
<1>9. DeedsBounded(r)
  BY DEF Init, DeedsBounded, Nobody
<1> QED BY <1>3, <1>6, <1>7, <1>8, <1>9 DEF RunOK

\* The inductive invariant: every run's rows are right, and the projects' are typed.
QueueOK ==
    /\ Shaped /\ \A r \in Runs : RunOK(r)
    /\ project \in [Projects -> {"created", "analyzing", "analyzed", "failed"}]

\* It says of all runs what the type invariant and the agreement of rows say.
LEMMA QueueOKImplies == QueueOK => TypeOK /\ RowsAgree /\ ReceiptTellsTheStory
  BY TypesByRun DEF QueueOK, RunOK, RowsAgree, ReceiptTellsTheStory

\* An operation writes one of the four statuses to a project, if it writes one.
LEMMA ProjectTyped ==
    ASSUME project \in [Projects -> {"created", "analyzing", "analyzed", "failed"}], [Next]_vars
    PROVE  project' \in [Projects -> {"created", "analyzing", "analyzed", "failed"}]
<1>0. \A r \in Runs : ProjectOf[r] \in Projects
  BY TenancyAssumption
<1>1. /\ ProjectAfter("queued") = "analyzing" /\ ProjectAfter("running") = "analyzing"
      /\ ProjectAfter("succeeded") = "analyzed" /\ ProjectAfter("failed") = "failed"
  BY DEF ProjectAfter, ActiveStatus
<1>2. CASE UNCHANGED project
  BY <1>2
<1>3. ASSUME NEW r \in Runs, EnqueueAnalysis(r) \/ ResumeAnalysisAfterAuthentication(r)
      PROVE  project' \in [Projects -> {"created", "analyzing", "analyzed", "failed"}]
  BY <1>0, <1>1, <1>3 DEF EnqueueAnalysis, ResumeAnalysisAfterAuthentication
<1>4. ASSUME NEW runs, FailRuns(runs)
      PROVE  project' \in [Projects -> {"created", "analyzing", "analyzed", "failed"}]
  BY <1>4 DEF FailRuns
<1>5. ASSUME NEW r \in Runs, Succeed(r)
      PROVE  project' \in [Projects -> {"created", "analyzing", "analyzed", "failed"}]
  BY <1>0, <1>1, <1>5 DEF Succeed
<1>6. ASSUME NEW w \in Workers, NEW r \in Runs, NEW g \in Attempts, NEW retryable \in BOOLEAN,
             FailAnalysis(w, r, g, retryable)
      PROVE  project' \in [Projects -> {"created", "analyzing", "analyzed", "failed"}]
  BY <1>0, <1>1, <1>4, <1>6 DEF FailAnalysis
<1>7. ASSUME NEW w \in Workers, NEW swept \in SUBSET {r \in Runs : Exhausted(r)},
             NEW claimed \in Picks, ClaimAnalysis(w, swept, claimed)
      PROVE  project' \in [Projects -> {"created", "analyzing", "analyzed", "failed"}]
  BY <1>1, <1>7 DEF ClaimAnalysis
<1>8. ASSUME NEW r \in Runs, \/ CancelWorkflow(r) \/ LeaseTick(r) \/ RetryDue(r) \/ CheckpointExpires(r)
                            \/ CleanupTick(r) \/ CleanupDue(r)
      PROVE  UNCHANGED project
  BY <1>8 DEF CancelWorkflow, LeaseTick, RetryDue, CheckpointExpires, CleanupTick, CleanupDue
<1>9. ASSUME NEW r \in Runs, NEW state \in {"failed", "expired"}, TerminateAnalysisAuthentication(r, state)
      PROVE  FailRuns({r})
  BY <1>9 DEF TerminateAnalysisAuthentication
<1>10. ASSUME NEW w \in Workers, NEW r \in Runs, NEW g \in Attempts,
              HeartbeatAnalysis(w, r, g) \/ WaitAnalysisForAuthentication(w, r, g) \/ CompleteCleanup(w, r, g)
       PROVE  UNCHANGED project
  BY <1>10 DEF HeartbeatAnalysis, WaitAnalysisForAuthentication, CompleteCleanup
<1>11. ASSUME NEW w \in Workers, NEW r \in Runs, NEW g \in Attempts, NEW h \in Results,
              \/ CheckpointAnalysisResult(w, r, g, h) \/ CompleteAnalysis(w, r, g, h)
              \/ CompleteCheckpointedAnalysis(w, r, g, h)
       PROVE  UNCHANGED project \/ Succeed(r)
  BY <1>11 DEF CheckpointAnalysisResult, CompleteAnalysis, CompleteCheckpointedAnalysis
<1>12. ASSUME NEW w \in Workers, NEW r \in Runs, NEW g \in Attempts, NEW retryable \in BOOLEAN,
              RetryCleanup(w, r, g, retryable)
       PROVE  UNCHANGED project
  BY <1>12 DEF RetryCleanup
<1>13. ASSUME NEW w \in Workers, NEW claimed \in Picks, ClaimCleanup(w, claimed)
       PROVE  UNCHANGED project
  BY <1>13 DEF ClaimCleanup
<1>14. ASSUME NEW found \in SUBSET {r \in Runs : AuthenticationExpired(r)},
              ReconcileExpiredAuthentication(found)
       PROVE  FailRuns(found)
  BY <1>14 DEF ReconcileExpiredAuthentication
<1>15. CASE UNCHANGED vars
  BY <1>2, <1>15 DEF vars
<1> QED
  BY <1>2, <1>3, <1>4, <1>5, <1>6, <1>7, <1>8, <1>9, <1>10, <1>11, <1>12, <1>13, <1>14, <1>15
  DEF Next

\* Every operation keeps the inductive invariant.
LEMMA QueueOKNext == QueueOK /\ [Next]_vars => QueueOK'
<1> SUFFICES ASSUME QueueOK, [Next]_vars PROVE QueueOK'
  OBVIOUS
<1>1. ASSUME NEW r \in Runs PROVE RunOK(r)'
  <2>1. RunOK(r) /\ RunMoves(r)
    BY StepMoves, QueueOKImplies DEF QueueOK
  <2> QED BY <2>1, MoveKeepsTypes, MoveKeepsAgreement, MoveKeepsStory DEF RunOK
<1>2. Shaped'
  BY ShapeKept DEF QueueOK
<1>3. project' \in [Projects -> {"created", "analyzing", "analyzed", "failed"}]
  BY ProjectTyped DEF QueueOK
<1> QED BY <1>1, <1>2, <1>3 DEF QueueOK

LEMMA QueueOKInit == Init => QueueOK
<1> SUFFICES ASSUME Init PROVE QueueOK
  OBVIOUS
<1>1. Shaped
  BY DEF Init, Shaped
<1> QED BY <1>1, RunOKInit DEF QueueOK, Init

\* The invariant holds of every reachable state.
LEMMA QueueAlwaysOK == Spec => []QueueOK
  BY QueueOKInit, QueueOKNext, PTL DEF Spec

\* Every reachable row has its type: no counter passes its budget and no lease
\* its term, whatever sweeps, claims and reconciliations interleave.
THEOREM QueueTypeCorrect == Spec => []TypeOK
<1>1. QueueOK => TypeOK
  BY QueueOKImplies
<1> QED BY <1>1, QueueAlwaysOK, PTL

\* Job, task, workflow run and checkpoint of a run never drift apart, so the
\* candidate query never returns a run that the locks then refuse.
THEOREM RowsNeverDrift == Spec => []RowsAgree
<1>1. QueueOK => RowsAgree
  BY QueueOKImplies
<1> QED BY <1>1, QueueAlwaysOK, PTL

\* Whichever workers crash, the receipt records suspension, resumption, storage
\* and completion in that order, and claims a restart only if there was one.
THEOREM StoryHolds == Spec => []ReceiptTellsTheStory
<1>1. QueueOK => ReceiptTellsTheStory
  BY QueueOKImplies
<1> QED BY <1>1, QueueAlwaysOK, PTL

-----------------------------------------------------------------------------
(* Results and cleanups. *)

\* What a move does to the status of the workflow run and to the state of its
\* checkpoint, in one table.
LEMMA MoveStatuses ==
    ASSUME NEW r \in Runs, RunOK(r), RunMoves(r)
    PROVE  \/ flow'[r] = flow[r] /\ checkpoint'[r].state = checkpoint[r].state
           \/ /\ flow[r] \notin TerminalStatus /\ flow'[r] \in ActiveStatus
              /\ \/ checkpoint'[r].state = checkpoint[r].state
                 \/ checkpoint[r].state = "none" /\ checkpoint'[r].state = "waiting"
                 \/ checkpoint[r].state = "waiting" /\ checkpoint'[r].state = "consumed"
           \/ /\ flow[r] \in ActiveStatus /\ flow'[r] \in {"failed", "cancelled"}
              /\ IF checkpoint[r].state \in OpenState THEN checkpoint'[r].state \in OwingState
                                                      ELSE checkpoint'[r].state = checkpoint[r].state
           \/ /\ flow[r] = "running" /\ flow'[r] = "succeeded"
              /\ \/ checkpoint[r].state = "none" /\ checkpoint'[r].state = "none"
                 \/ checkpoint[r].state = "consumed" /\ checkpoint'[r].state = "completed"
<1>0. /\ job[r] \in JobRecord /\ task[r] \in TaskRecord /\ checkpoint[r] \in CheckpointRecord
      /\ RunTyped(r) /\ RunAgrees(r) /\ StoryInOrder(r)
  BY DEF RunOK, RunTyped
<1> USE DEF RowsKept, CheckpointKept, ReceiptKept, ResultKept, WaitKept
<1>1. CASE Untouched(r) \/ Renewed(r) \/ Ticked(r) \/ BecameDue(r) \/ CleanupMoved(r) \/ CleanupDone(r)
  BY <1>1 DEF Untouched, Renewed, Ticked, BecameDue, CleanupMoved, CleanupDone
<1>2. CASE CheckpointAged(r)
  BY <1>0, <1>2 DEF CheckpointAged, CheckpointRecord
<1>3. CASE Enqueued(r)
  BY <1>3 DEF Enqueued, ActiveStatus, TerminalStatus
<1>4. CASE ResumedByUser(r)
  <2>1. flow[r] = "waiting" /\ checkpoint'[r].state = "consumed" /\ checkpoint[r].state = "waiting"
    BY <1>0, <1>4 DEF ResumedByUser, RunAgrees, CheckpointRecord
  <2> QED BY <1>4, <2>1 DEF ResumedByUser, ActiveStatus, TerminalStatus
<1>5. CASE Requeued(r)
  <2>1. flow[r] = "running"
    BY <1>0, <1>5 DEF Requeued, Live, RunAgrees
  <2> QED BY <1>5, <2>1 DEF Requeued, ActiveStatus, TerminalStatus
<1>6. ASSUME NEW w \in Workers, ClaimedBy(r, w)
      PROVE  /\ flow[r] \notin TerminalStatus /\ flow'[r] \in ActiveStatus
             /\ checkpoint'[r].state = checkpoint[r].state
  BY <1>6 DEF ClaimedBy, ActiveStatus
<1>7. ASSUME NEW w \in Workers, NEW g \in Attempts, SuspendedBy(r, w, g)
      PROVE  /\ flow[r] \notin TerminalStatus /\ flow'[r] \in ActiveStatus
             /\ checkpoint[r].state = "none" /\ checkpoint'[r].state = "waiting"
  BY <1>0, <1>7 DEF SuspendedBy, RowsBecome, HoldsLease, Live, RunAgrees, ActiveStatus, TerminalStatus
<1>8. ASSUME NEW w \in Workers, NEW g \in Attempts, NEW hash \in Results, StoredBy(r, w, g, hash)
      PROVE  flow'[r] = flow[r] /\ checkpoint'[r].state = checkpoint[r].state
  BY <1>8 DEF StoredBy
<1>9. ASSUME NEW w \in Workers, NEW g \in Attempts, CompletedCheckpoint(r, w, g)
      PROVE  /\ flow[r] = "running" /\ flow'[r] = "succeeded"
             /\ checkpoint[r].state = "consumed" /\ checkpoint'[r].state = "completed"
  BY <1>0, <1>9 DEF CompletedCheckpoint, RowsBecome, HoldsLease, Live, RunAgrees, CheckpointRecord
<1>10. ASSUME NEW hash \in Results, CompletedWith(r, hash)
       PROVE  /\ flow[r] = "running" /\ flow'[r] = "succeeded"
              /\ checkpoint[r].state = "none" /\ checkpoint'[r].state = "none"
  BY <1>0, <1>10 DEF CompletedWith, RowsBecome, Live, RunAgrees, StoryInOrder
<1>11. ASSUME NEW status \in {"failed", "cancelled"}, NEW state \in OwingState, Ended(r, status, state)
       PROVE  /\ flow[r] \in ActiveStatus /\ flow'[r] \in {"failed", "cancelled"}
              /\ IF checkpoint[r].state \in OpenState THEN checkpoint'[r].state \in OwingState
                                                      ELSE checkpoint'[r].state = checkpoint[r].state
  BY <1>0, <1>11 DEF Ended, RowsBecome, CheckpointRecord
<1> QED
  BY <1>1, <1>2, <1>3, <1>4, <1>5, <1>6, <1>7, <1>8, <1>9, <1>10, <1>11 DEF RunMoves, OwingState

\* What a move does to the result and to the hash on the receipt.
LEMMA MoveResults ==
    ASSUME NEW r \in Runs, RunOK(r), RunMoves(r)
    PROVE  \/ /\ result'[r] = result[r] /\ receipt'[r].hash = receipt[r].hash
              /\ flow'[r] = "succeeded" /\ flow[r] # "succeeded" =>
                    receipt[r].hash # None /\ result[r] # None
           \/ /\ receipt[r].hash = None /\ result'[r] = receipt'[r].hash /\ result'[r] # None
              /\ flow'[r] = flow[r] /\ flow[r] = "running"
           \/ /\ result'[r] # None /\ receipt[r].hash = None /\ receipt'[r].hash = None
              /\ flow'[r] = "succeeded" /\ flow[r] = "running" /\ checkpoint'[r].state = "none"
<1>0. /\ job[r] \in JobRecord /\ task[r] \in TaskRecord /\ receipt[r] \in ReceiptRecord
      /\ RunAgrees(r) /\ StoryInOrder(r) /\ DeedsBounded(r)
  BY DEF RunOK, RunTyped
<1> USE DEF RowsKept, CheckpointKept, ReceiptKept, ResultKept, WaitKept
<1>1. CASE \/ Untouched(r) \/ Enqueued(r) \/ Renewed(r) \/ ResumedByUser(r) \/ Requeued(r)
           \/ Ticked(r) \/ BecameDue(r) \/ CheckpointAged(r) \/ CleanupMoved(r) \/ CleanupDone(r)
  BY <1>1
  DEF Untouched, Enqueued, Renewed, ResumedByUser, Requeued, Ticked, BecameDue, CheckpointAged,
      CleanupMoved, CleanupDone
<1>2. ASSUME NEW w \in Workers, ClaimedBy(r, w)
      PROVE  result'[r] = result[r] /\ receipt'[r].hash = receipt[r].hash /\ flow'[r] # "succeeded"
  BY <1>0, <1>2 DEF ClaimedBy, ReceiptRecord
<1>3. ASSUME NEW w \in Workers, NEW g \in Attempts, SuspendedBy(r, w, g)
      PROVE  result'[r] = result[r] /\ receipt'[r].hash = receipt[r].hash /\ flow'[r] # "succeeded"
  BY <1>0, <1>3 DEF SuspendedBy, RowsBecome, ReceiptRecord
<1>4. ASSUME NEW w \in Workers, NEW g \in Attempts, NEW hash \in Results, StoredBy(r, w, g, hash)
      PROVE  /\ receipt[r].hash = None /\ result'[r] = receipt'[r].hash /\ result'[r] # None
             /\ flow'[r] = flow[r] /\ flow[r] = "running"
  BY <1>0, <1>4, NullAssumption DEF StoredBy, HoldsLease, Live, RunAgrees, ReceiptRecord
<1>5. ASSUME NEW w \in Workers, NEW g \in Attempts, CompletedCheckpoint(r, w, g)
      PROVE  /\ result'[r] = result[r] /\ receipt'[r].hash = receipt[r].hash
             /\ receipt[r].hash # None /\ result[r] # None
  BY <1>0, <1>5 DEF CompletedCheckpoint, ReceiptRecord
<1>6. ASSUME NEW hash \in Results, CompletedWith(r, hash)
      PROVE  /\ result'[r] # None /\ receipt[r].hash = None /\ receipt'[r].hash = None
             /\ flow'[r] = "succeeded" /\ flow[r] = "running" /\ checkpoint'[r].state = "none"
  BY <1>0, <1>6, NullAssumption
  DEF CompletedWith, RowsBecome, Live, RunAgrees, StoryInOrder, DeedsBounded
<1>7. ASSUME NEW status \in {"failed", "cancelled"}, NEW state \in OwingState, Ended(r, status, state)
      PROVE  result'[r] = result[r] /\ receipt'[r].hash = receipt[r].hash /\ flow'[r] # "succeeded"
  BY <1>7 DEF Ended, RowsBecome
<1> QED
  BY <1>1, <1>2, <1>3, <1>4, <1>5, <1>6, <1>7 DEF RunMoves, OwingState

\* Results and receipts of all runs agree.
ResultsOK == QueueOK /\ ResultIsReceipted

\* No operation stores a result beside the receipt's, or succeeds without one.
LEMMA ResultsOKNext == ResultsOK /\ [Next]_vars => ResultsOK'
<1> SUFFICES ASSUME ResultsOK, [Next]_vars PROVE ResultsOK'
  OBVIOUS
<1>1. QueueOK'
  BY QueueOKNext DEF ResultsOK
<1>2. ASSUME NEW r \in Runs PROVE RunReceipted(r)'
  <2>1. RunOK(r) /\ RunMoves(r) /\ RunReceipted(r)
    BY StepMoves, QueueOKImplies DEF ResultsOK, QueueOK, ResultIsReceipted
  <2>2. \/ /\ result'[r] = result[r] /\ receipt'[r].hash = receipt[r].hash
           /\ flow'[r] = "succeeded" /\ flow[r] # "succeeded" =>
                 receipt[r].hash # None /\ result[r] # None
        \/ /\ receipt[r].hash = None /\ result'[r] = receipt'[r].hash /\ result'[r] # None
           /\ flow'[r] = flow[r] /\ flow[r] = "running"
        \/ /\ result'[r] # None /\ receipt[r].hash = None /\ receipt'[r].hash = None
           /\ flow'[r] = "succeeded" /\ flow[r] = "running" /\ checkpoint'[r].state = "none"
    BY <2>1, MoveResults
  <2>3. flow[r] = "succeeded" => flow'[r] = "succeeded" /\ checkpoint'[r].state = checkpoint[r].state
    BY <2>1, MoveStatuses DEF TerminalStatus, ActiveStatus
  <2> QED BY <2>1, <2>2, <2>3 DEF RunReceipted
<1> QED BY <1>1, <1>2 DEF ResultsOK, ResultIsReceipted

LEMMA ResultsOKInit == Init => ResultsOK
<1>1. Init => ResultIsReceipted
  BY DEF Init, ResultIsReceipted, RunReceipted
<1> QED BY <1>1, QueueOKInit DEF ResultsOK

\* A run succeeds with exactly the result its receipt vouches for.
THEOREM ResultsAreVouchedFor == Spec => []ResultIsReceipted
<1>1. ResultsOK => ResultIsReceipted
  BY DEF ResultsOK
<1> QED BY <1>1, ResultsOKInit, ResultsOKNext, PTL DEF Spec

\* What a move does to the cleanup, given what it does to the checkpoint.
LEMMA MoveCleanups ==
    ASSUME NEW r \in Runs, RunOK(r), RunMoves(r)
    PROVE  \/ cleanup'[r] = cleanup[r]
              /\ \/ checkpoint'[r].state = checkpoint[r].state
                 \/ {checkpoint[r].state, checkpoint'[r].state} \subseteq {"none"} \cup OpenState
           \/ /\ checkpoint[r].state \in OpenState /\ checkpoint'[r].state \in OwingState
              /\ cleanup'[r].status = "pending"
           \/ checkpoint'[r].state = "completed" /\ cleanup'[r].status = "succeeded"
           \/ /\ cleanup[r].status \in {"pending", "running"} /\ cleanup'[r].status # "none"
              /\ checkpoint'[r].state = checkpoint[r].state
<1>0. /\ cleanup[r] \in CleanupRecord /\ checkpoint[r] \in CheckpointRecord
      /\ RunAgrees(r) /\ StoryInOrder(r)
  BY DEF RunOK, RunTyped
<1> USE DEF RowsKept, CheckpointKept, ReceiptKept, ResultKept, WaitKept
<1>1. CASE Untouched(r) \/ Enqueued(r) \/ Renewed(r) \/ Requeued(r) \/ Ticked(r) \/ BecameDue(r)
  BY <1>1 DEF Untouched, Enqueued, Renewed, Requeued, Ticked, BecameDue
<1>2. CASE ResumedByUser(r) \/ CheckpointAged(r)
  BY <1>0, <1>2 DEF ResumedByUser, CheckpointAged, CheckpointRecord, OpenState
<1>3. ASSUME NEW w \in Workers, ClaimedBy(r, w)
      PROVE  cleanup'[r] = cleanup[r] /\ checkpoint'[r].state = checkpoint[r].state
  BY <1>3 DEF ClaimedBy
<1>4. ASSUME NEW w \in Workers, NEW g \in Attempts, SuspendedBy(r, w, g)
      PROVE  /\ cleanup'[r] = cleanup[r]
             /\ {checkpoint[r].state, checkpoint'[r].state} \subseteq {"none"} \cup OpenState
  BY <1>4 DEF SuspendedBy, OpenState
<1>5. ASSUME NEW w \in Workers, NEW g \in Attempts, NEW hash \in Results, StoredBy(r, w, g, hash)
      PROVE  cleanup'[r] = cleanup[r] /\ checkpoint'[r].state = checkpoint[r].state
  BY <1>5 DEF StoredBy
<1>6. ASSUME NEW w \in Workers, NEW g \in Attempts, CompletedCheckpoint(r, w, g)
      PROVE  checkpoint'[r].state = "completed" /\ cleanup'[r].status = "succeeded"
  BY <1>0, <1>6 DEF CompletedCheckpoint, CheckpointRecord, NoCleanup
<1>7. ASSUME NEW hash \in Results, CompletedWith(r, hash)
      PROVE  cleanup'[r] = cleanup[r] /\ checkpoint'[r].state = checkpoint[r].state
  BY <1>7 DEF CompletedWith
<1>8. ASSUME NEW status \in {"failed", "cancelled"}, NEW state \in OwingState, Ended(r, status, state)
      PROVE  \/ cleanup'[r] = cleanup[r] /\ checkpoint'[r].state = checkpoint[r].state
             \/ /\ checkpoint[r].state \in OpenState /\ checkpoint'[r].state \in OwingState
                /\ cleanup'[r].status = "pending"
  BY <1>0, <1>8 DEF Ended, CheckpointRecord, NoCleanup
<1>9. CASE CleanupMoved(r)
  <2>1. ASSUME NEW w \in Workers, CleanupLeasedTo(r, w)
        PROVE  cleanup[r].status \in {"pending", "running"} /\ cleanup'[r].status # "none"
    BY <1>0, <2>1 DEF CleanupLeasedTo, CleanupClaimable, Ready, Expired, LeasedRow, CleanupRecord
  <2>2. CASE CleanupGivenUp(r)
    BY <1>0, <1>9, <2>2
    DEF CleanupMoved, CleanupGivenUp, CleanupExhausted, Ready, Expired, Live, Released, CleanupRecord
  <2>3. CASE CleanupRequeued(r) \/ CleanupTicked(r) \/ CleanupBecameDue(r)
    BY <1>0, <1>9, <2>3
    DEF CleanupMoved, CleanupRequeued, CleanupTicked, CleanupBecameDue, Live, Released, CleanupRecord
  <2> QED BY <1>9, <2>1, <2>2, <2>3 DEF CleanupMoved
<1>10. CASE CleanupDone(r)
  BY <1>0, <1>10 DEF CleanupDone, Live, Released, CleanupRecord
<1> QED
  BY <1>1, <1>2, <1>3, <1>4, <1>5, <1>6, <1>7, <1>8, <1>9, <1>10 DEF RunMoves, OwingState

\* A session is owed exactly one cleanup from the end of its checkpoint on, and
\* none is under way while a worker may still be driving the session.
THEOREM CleanupsAreOwed == Spec => []CleanupOwed
<1>1. Init => CleanupOwed
  BY DEF Init, CleanupOwed, CleanupOwedBy, NoCleanup, OpenState
<1>2. QueueOK /\ CleanupOwed /\ [Next]_vars => CleanupOwed'
  <2> SUFFICES ASSUME QueueOK, CleanupOwed, [Next]_vars, NEW r \in Runs
               PROVE  CleanupOwedBy(r)'
    BY DEF CleanupOwed
  <2>1. RunOK(r) /\ RunMoves(r) /\ CleanupOwedBy(r) /\ RunOK(r)'
    BY StepMoves, QueueOKImplies, QueueOKNext DEF QueueOK, CleanupOwed
  <2>2. checkpoint'[r].state \in OwingState => ~Live(job'[r]) /\ ~Live(task'[r])
    BY <2>1 DEF RunOK, RunAgrees, Live, OwingState
  <2>3. /\ cleanup'[r].status = "none" <=> checkpoint'[r].state \in {"none"} \cup OpenState
        /\ cleanup'[r].status \in {"pending", "running", "failed"} => checkpoint'[r].state \in OwingState
    BY <2>1, MoveCleanups DEF CleanupOwedBy, OpenState, OwingState
  <2> QED BY <2>2, <2>3 DEF CleanupOwedBy
<1> QED BY <1>1, <1>2, QueueAlwaysOK, PTL DEF Spec

-----------------------------------------------------------------------------
(* What no step may do. *)

\* What a move does to the deeds on the receipt.
LEMMA MoveKeepsHistory ==
    ASSUME NEW r \in Runs, RunOK(r), RunMoves(r)
    PROVE  HistoryKept(r)
<1>0. /\ receipt[r] \in ReceiptRecord /\ checkpoint[r] \in CheckpointRecord
      /\ StoryInOrder(r) /\ DeedsBounded(r) /\ RunAgrees(r)
  BY DEF RunOK, RunTyped
<1>1. checkpoint'[r].state = checkpoint[r].state
         \/ <<checkpoint[r].state, checkpoint'[r].state>> \in CheckpointTransitions
  <2>1. checkpoint'[r].state = "completed" => checkpoint[r].state \in {"consumed", "completed"}
    BY <1>0, MoveStatuses DEF CheckpointRecord, OpenState, OwingState
  <2>2. \/ checkpoint'[r].state = checkpoint[r].state
        \/ checkpoint[r].state = "none" /\ checkpoint'[r].state = "waiting"
        \/ checkpoint[r].state = "waiting" /\ checkpoint'[r].state = "consumed"
        \/ checkpoint[r].state = "consumed" /\ checkpoint'[r].state = "completed"
        \/ checkpoint[r].state \in OpenState /\ checkpoint'[r].state \in OwingState
    BY MoveStatuses
  <2>3. <<"none", "waiting">> \in CheckpointTransitions
    BY DEF CheckpointTransitions
  <2>4. <<"waiting", "consumed">> \in CheckpointTransitions
    BY DEF CheckpointTransitions
  <2>5. <<"consumed", "completed">> \in CheckpointTransitions
    BY DEF CheckpointTransitions
  <2>6. \A from \in OpenState, to \in OwingState : <<from, to>> \in CheckpointTransitions
    BY DEF CheckpointTransitions, OpenState, OwingState
  <2>7. CASE checkpoint[r].state = "none" /\ checkpoint'[r].state = "waiting"
    BY <2>3, <2>7
  <2>8. CASE checkpoint[r].state = "waiting" /\ checkpoint'[r].state = "consumed"
    BY <2>4, <2>8
  <2>9. CASE checkpoint[r].state = "consumed" /\ checkpoint'[r].state = "completed"
    BY <2>5, <2>9
  <2> QED BY <2>2, <2>6, <2>7, <2>8, <2>9
<1>2. /\ receipt[r].suspended # Nobody => receipt'[r].suspended = receipt[r].suspended
      /\ receipt[r].resumed # Nobody => receipt'[r].resumed = receipt[r].resumed
      /\ receipt[r].stored # Nobody => receipt'[r].stored = receipt[r].stored
      /\ receipt[r].completed # Nobody => receipt'[r].completed = receipt[r].completed
      /\ receipt[r].restartVerified => receipt'[r].restartVerified
      /\ receipt[r].disposed => receipt'[r].disposed
  <2> DEFINE WrittenOnce ==
        /\ receipt[r].suspended # Nobody => receipt'[r].suspended = receipt[r].suspended
        /\ receipt[r].resumed # Nobody => receipt'[r].resumed = receipt[r].resumed
        /\ receipt[r].stored # Nobody => receipt'[r].stored = receipt[r].stored
        /\ receipt[r].completed # Nobody => receipt'[r].completed = receipt[r].completed
        /\ receipt[r].restartVerified => receipt'[r].restartVerified
        /\ receipt[r].disposed => receipt'[r].disposed
  <2> USE DEF RowsKept, CheckpointKept, ReceiptKept, ResultKept, WaitKept
  <2>1. receipt'[r] = receipt[r] => WrittenOnce
    OBVIOUS
  <2>2. ASSUME NEW w \in Workers, ClaimedBy(r, w) PROVE WrittenOnce
    <3>1. CASE FirstResume(r)
      <4>1. receipt[r].resumed = Nobody
        BY <3>1 DEF FirstResume
      <4>2. PICK deed : receipt'[r] = [receipt[r] EXCEPT !.resumed = deed]
        BY <2>2, <3>1 DEF ClaimedBy
      <4> QED BY <1>0, <4>1, <4>2 DEF ReceiptRecord
    <3>2. CASE ~FirstResume(r)
      BY <2>1, <2>2, <3>2 DEF ClaimedBy
    <3> QED BY <3>1, <3>2
  <2>3. ASSUME NEW w \in Workers, NEW g \in Attempts, SuspendedBy(r, w, g) PROVE WrittenOnce
    <3>1. receipt[r].suspended = Nobody
      BY <1>0, <2>3 DEF SuspendedBy, StoryInOrder
    <3>2. PICK deed : receipt'[r] = [receipt[r] EXCEPT !.suspended = deed]
      BY <2>3 DEF SuspendedBy
    <3> QED BY <1>0, <3>1, <3>2 DEF ReceiptRecord
  <2>4. ASSUME NEW w \in Workers, NEW g \in Attempts, NEW hash \in Results, StoredBy(r, w, g, hash)
        PROVE  WrittenOnce
    <3>1. receipt[r].stored = Nobody
      BY <1>0, <2>4 DEF StoredBy, DeedsBounded
    <3>2. PICK deed : receipt'[r] = [receipt[r] EXCEPT !.hash = hash, !.stored = deed]
      BY <2>4 DEF StoredBy
    <3> QED BY <1>0, <3>1, <3>2 DEF ReceiptRecord
  <2>5. ASSUME NEW w \in Workers, NEW g \in Attempts, CompletedCheckpoint(r, w, g) PROVE WrittenOnce
    <3>1. receipt[r].completed = Nobody /\ ~receipt[r].restartVerified
      BY <1>0, <2>5 DEF CompletedCheckpoint, StoryInOrder
    <3>2. PICK deed, restarted : receipt'[r] = [receipt[r] EXCEPT !.completed = deed,
                                   !.restartVerified = restarted, !.disposed = TRUE]
      BY <2>5 DEF CompletedCheckpoint
    <3> QED BY <1>0, <3>1, <3>2 DEF ReceiptRecord
  <2>6. ASSUME \/ Untouched(r) \/ Enqueued(r) \/ Renewed(r) \/ ResumedByUser(r) \/ Requeued(r)
               \/ Ticked(r) \/ BecameDue(r) \/ CheckpointAged(r) \/ CleanupMoved(r) \/ CleanupDone(r)
        PROVE  WrittenOnce
    <3>1. receipt'[r] = receipt[r]
      BY <2>6
      DEF Untouched, Enqueued, Renewed, ResumedByUser, Requeued, Ticked, BecameDue, CheckpointAged,
          CleanupMoved, CleanupDone
    <3> QED BY <2>1, <3>1
  <2>7. ASSUME NEW hash \in Results, CompletedWith(r, hash) PROVE WrittenOnce
    <3>1. receipt'[r] = receipt[r]
      BY <2>7 DEF CompletedWith
    <3> QED BY <2>1, <3>1
  <2>8. ASSUME NEW status, NEW state, Ended(r, status, state) PROVE WrittenOnce
    <3>1. receipt'[r] = receipt[r]
      BY <2>8 DEF Ended
    <3> QED BY <2>1, <3>1
  <2> HIDE DEF WrittenOnce
  <2>9. WrittenOnce
    BY <2>2, <2>3, <2>4, <2>5, <2>6, <2>7, <2>8 DEF RunMoves
  <2> QED BY <2>9 DEF WrittenOnce
<1>3. receipt[r].hash # None => receipt'[r].hash = receipt[r].hash /\ result'[r] = result[r]
  BY MoveResults
<1>4. \A deed \in {"suspended", "resumed", "stored", "completed"} :
         receipt[r][deed] # Nobody => receipt'[r][deed] = receipt[r][deed]
  BY <1>2
<1> QED BY <1>1, <1>2, <1>3, <1>4 DEF HistoryKept

\* Checkpoints only move forward, and no deed, result or disposition on a
\* receipt is ever written twice: the triggers that refuse it have no work.
THEOREM HistoryIsKept == Spec => HistoryIsNeverRewritten
<1> DEFINE Kept == \A r \in Runs : HistoryKept(r)
<1>1. QueueOK /\ [Next]_vars => [Kept]_vars
  <2> SUFFICES ASSUME QueueOK, [Next]_vars, NEW r \in Runs PROVE HistoryKept(r)
    OBVIOUS
  <2>1. RunOK(r) /\ RunMoves(r)
    BY StepMoves, QueueOKImplies DEF QueueOK
  <2> QED BY <2>1, MoveKeepsHistory
<1> HIDE DEF Kept
<1>2. Spec => [][Kept]_vars
  BY <1>1, QueueAlwaysOK, PTL DEF Spec
<1> QED BY <1>2 DEF HistoryIsNeverRewritten, Kept

\* What a move does to a run that has ended: nothing but its cleanup.
LEMMA MoveFreezes ==
    ASSUME NEW r \in Runs, RunOK(r), RunMoves(r), flow[r] \in TerminalStatus
    PROVE  /\ job'[r] = job[r] /\ task'[r] = task[r] /\ flow'[r] = flow[r]
           /\ result'[r] = result[r] /\ checkpoint'[r].state = checkpoint[r].state
<1>0. /\ RunAgrees(r) /\ checkpoint[r] \in CheckpointRecord
      /\ flow[r] \notin ActiveStatus \cup {"none"} /\ job[r].status = flow[r]
  BY DEF RunOK, RunTyped, RunAgrees, TerminalStatus, ActiveStatus
<1>1. ~Live(job[r]) /\ job[r].status # "queued" /\ checkpoint[r].state # "waiting"
      /\ checkpoint[r].state \notin OpenState
  BY <1>0 DEF Live, RunAgrees, ActiveStatus, TerminalStatus, OpenState
<1>2. /\ ~Enqueued(r) /\ ~Renewed(r) /\ ~ResumedByUser(r) /\ ~Requeued(r) /\ ~Ticked(r)
      /\ ~BecameDue(r) /\ ~CheckpointAged(r)
  BY <1>0, <1>1 DEF Enqueued, Renewed, ResumedByUser, Requeued, Ticked, BecameDue, CheckpointAged
<1>3. ASSUME NEW w \in Workers PROVE ~ClaimedBy(r, w)
  BY DEF ClaimedBy
<1>4. ASSUME NEW w \in Workers, NEW g \in Attempts PROVE ~HoldsLease(w, r, g)
  BY <1>1 DEF HoldsLease
<1>5. ASSUME NEW w \in Workers, NEW g \in Attempts
      PROVE  /\ ~SuspendedBy(r, w, g) /\ ~CompletedCheckpoint(r, w, g)
             /\ \A hash \in Results : ~StoredBy(r, w, g, hash)
  BY <1>4 DEF SuspendedBy, CompletedCheckpoint, StoredBy
<1>6. ASSUME NEW hash \in Results PROVE ~CompletedWith(r, hash)
  BY <1>1 DEF CompletedWith
<1>7. ASSUME NEW status, NEW state PROVE ~Ended(r, status, state)
  BY <1>0 DEF Ended
<1>8. Untouched(r) \/ CleanupMoved(r) \/ CleanupDone(r)
  BY <1>2, <1>3, <1>5, <1>6, <1>7 DEF RunMoves
<1> QED BY <1>8 DEF Untouched, CleanupMoved, CleanupDone, RowsKept, CheckpointKept, WaitKept, ResultKept

\* Late answers, late resumes, reconciliations and cleanups leave an ended run
\* as it ended.
THEOREM EndedStaysEnded == Spec => EndedRunsFrozen
<1> DEFINE Frozen == \A r \in Runs : flow[r] \in TerminalStatus =>
              /\ job'[r] = job[r] /\ task'[r] = task[r] /\ flow'[r] = flow[r]
              /\ result'[r] = result[r] /\ checkpoint'[r].state = checkpoint[r].state
<1>1. QueueOK /\ [Next]_vars => [Frozen]_vars
  <2> SUFFICES ASSUME QueueOK, [Next]_vars, NEW r \in Runs, flow[r] \in TerminalStatus
               PROVE  /\ job'[r] = job[r] /\ task'[r] = task[r] /\ flow'[r] = flow[r]
                      /\ result'[r] = result[r] /\ checkpoint'[r].state = checkpoint[r].state
    OBVIOUS
  <2>1. RunOK(r) /\ RunMoves(r)
    BY StepMoves, QueueOKImplies DEF QueueOK
  <2> QED BY <2>1, MoveFreezes
<1> HIDE DEF Frozen
<1>2. Spec => [][Frozen]_vars
  BY <1>1, QueueAlwaysOK, PTL DEF Spec
<1> QED BY <1>2 DEF EndedRunsFrozen, Frozen

\* A move hands out no lease but the next one, neither the analysis's nor the
\* cleanup's.
LEMMA MoveLeases ==
    ASSUME NEW r \in Runs, RunOK(r), RunMoves(r), NEW w \in Workers, NEW g \in Attempts
    PROVE  /\ HoldsLease(w, r, g)' => HoldsLease(w, r, g) \/ g = task[r].generation + 1
           /\ HoldsCleanup(w, r, g)' => HoldsCleanup(w, r, g) \/ g = cleanup[r].attempts + 1
<1>0. /\ job[r] \in JobRecord /\ task[r] \in TaskRecord /\ cleanup[r] \in CleanupRecord
      /\ RunTyped(r) /\ RunAgrees(r)
  BY DEF RunOK, RunTyped
<1>1. /\ job[r].lease \in Int /\ task[r].lease \in Int /\ cleanup[r].lease \in Int
      /\ task[r].generation \in Int /\ cleanup[r].attempts \in Int /\ g \in Int
  BY <1>0, BoundsAssumption DEF JobRecord, TaskRecord, CleanupRecord, Attempts
<1> USE DEF RowsKept, CheckpointKept, ReceiptKept, ResultKept, WaitKept
<1>2. HoldsLease(w, r, g)' => HoldsLease(w, r, g) \/ g = task[r].generation + 1
  <2>1. CASE RowsKept(r)
    BY <2>1 DEF HoldsLease, Live
  <2>2. CASE job'[r].status # "running"
    BY <2>2 DEF HoldsLease, Live
  <2>3. CASE Enqueued(r) \/ ResumedByUser(r) \/ Requeued(r)
    <3>1. job'[r].status = "queued"
      BY <1>0, <2>3 DEF Enqueued, ResumedByUser, Requeued, Released, JobRecord
    <3> QED BY <2>2, <3>1
  <2>4. ASSUME NEW status, status # "running", RowsBecome(r, status)
        PROVE  job'[r].status # "running"
    BY <1>0, <2>4 DEF RowsBecome, Released, JobRecord
  <2>5. ASSUME NEW v \in Workers, NEW h \in Attempts
        PROVE  /\ SuspendedBy(r, v, h) \/ CompletedCheckpoint(r, v, h) => job'[r].status # "running"
               /\ \A hash \in Results : StoredBy(r, v, h, hash) => RowsKept(r)
    BY <2>4 DEF SuspendedBy, CompletedCheckpoint, StoredBy
  <2>6. ASSUME NEW hash \in Results, CompletedWith(r, hash) PROVE job'[r].status # "running"
    BY <2>4, <2>6 DEF CompletedWith
  <2>7. ASSUME NEW status \in {"failed", "cancelled"}, NEW state, Ended(r, status, state)
        PROVE  job'[r].status # "running"
    BY <2>4, <2>7 DEF Ended
  <2>8. CASE Renewed(r)
    BY <1>0, <2>8 DEF Renewed, HoldsLease, Live, JobRecord, TaskRecord
  <2>9. ASSUME NEW v \in Workers, ClaimedBy(r, v) PROVE task'[r].generation = task[r].generation + 1
    BY <2>9 DEF ClaimedBy
  <2>10. CASE Ticked(r)
    <3>1. /\ job[r].status = "running" /\ job'[r].owner = job[r].owner
          /\ job'[r].lease = job[r].lease - 1
          /\ task'[r].owner = task[r].owner /\ task'[r].generation = task[r].generation
          /\ task'[r].status = task[r].status /\ task[r].lease = job[r].lease
          /\ job[r].lease > 0
      BY <1>0, <2>10 DEF Ticked, Live, RunAgrees, JobRecord, TaskRecord
    <3> QED BY <1>1, <3>1 DEF HoldsLease, Live
  <2>11. CASE BecameDue(r)
    BY <1>0, <2>11 DEF BecameDue, HoldsLease, Live, JobRecord
  <2>12. CASE Untouched(r) \/ CheckpointAged(r) \/ CleanupMoved(r) \/ CleanupDone(r)
    BY <2>1, <2>12 DEF Untouched, CheckpointAged, CleanupMoved, CleanupDone
  <2>13. HoldsLease(w, r, g)' => task'[r].generation = g
    BY DEF HoldsLease
  <2> QED BY <2>1, <2>2, <2>3, <2>5, <2>6, <2>7, <2>8, <2>9, <2>10, <2>11, <2>12, <2>13 DEF RunMoves
<1>3. HoldsCleanup(w, r, g)' => HoldsCleanup(w, r, g) \/ g = cleanup[r].attempts + 1
  <2>1. CASE cleanup'[r] = cleanup[r]
    BY <2>1 DEF HoldsCleanup, CleanupLease, Live
  <2>2. CASE cleanup'[r].status # "running"
    BY <2>2 DEF HoldsCleanup, CleanupLease, Live
  <2>3. ASSUME NEW v \in Workers, NEW h \in Attempts, SuspendedBy(r, v, h) PROVE cleanup'[r] = cleanup[r]
    BY <2>3 DEF SuspendedBy
  <2>4. ASSUME NEW v \in Workers, NEW h \in Attempts, CompletedCheckpoint(r, v, h)
        PROVE  cleanup'[r].status # "running"
    BY <2>4 DEF CompletedCheckpoint, NoCleanup
  <2>5. ASSUME NEW v \in Workers, NEW h \in Attempts, NEW hash \in Results, StoredBy(r, v, h, hash)
        PROVE  cleanup'[r] = cleanup[r]
    BY <2>5 DEF StoredBy
  <2>6. ASSUME NEW v \in Workers, ClaimedBy(r, v) PROVE cleanup'[r] = cleanup[r]
    BY <2>6 DEF ClaimedBy
  <2>7. ASSUME NEW hash \in Results, CompletedWith(r, hash) PROVE cleanup'[r] = cleanup[r]
    BY <2>7 DEF CompletedWith
  <2>8. ASSUME NEW status, NEW state, Ended(r, status, state)
        PROVE  cleanup'[r] = cleanup[r] \/ cleanup'[r].status # "running"
    BY <2>8 DEF Ended, NoCleanup
  <2>9. CASE \/ Untouched(r) \/ Enqueued(r) \/ Renewed(r) \/ ResumedByUser(r) \/ Requeued(r)
             \/ Ticked(r) \/ BecameDue(r) \/ CheckpointAged(r)
    BY <2>1, <2>9
    DEF Untouched, Enqueued, Renewed, ResumedByUser, Requeued, Ticked, BecameDue, CheckpointAged
  <2>10. CASE CleanupDone(r)
    <3>1. cleanup'[r].status = "succeeded"
      BY <1>0, <2>10 DEF CleanupDone, Released, CleanupRecord
    <3> QED BY <2>2, <3>1
  <2>11. CASE CleanupMoved(r)
    <3>1. ASSUME NEW v \in Workers, CleanupLeasedTo(r, v)
          PROVE  cleanup'[r].attempts = cleanup[r].attempts + 1
      BY <1>0, <3>1 DEF CleanupLeasedTo, LeasedRow, CleanupRecord
    <3>2. CleanupGivenUp(r) \/ CleanupRequeued(r) => cleanup'[r].status # "running"
      BY <1>0 DEF CleanupGivenUp, CleanupRequeued, Released, CleanupRecord
    <3>3. CASE CleanupTicked(r)
      BY <1>0, <1>1, <3>3 DEF CleanupTicked, HoldsCleanup, CleanupLease, Live, CleanupRecord
    <3>4. CASE CleanupBecameDue(r)
      BY <1>0, <3>4 DEF CleanupBecameDue, HoldsCleanup, CleanupLease, Live, CleanupRecord
    <3>5. HoldsCleanup(w, r, g)' => cleanup'[r].attempts = g
      BY DEF HoldsCleanup, CleanupLease
    <3> QED BY <2>2, <2>11, <3>1, <3>2, <3>3, <3>4, <3>5 DEF CleanupMoved
  <2> QED BY <2>1, <2>2, <2>3, <2>4, <2>5, <2>6, <2>7, <2>8, <2>9, <2>10, <2>11 DEF RunMoves
<1> QED BY <1>2, <1>3

\* Once a worker has lost a lease, its generation is never good again, whoever
\* claims, renews or resumes: nobody acts on a session under two leases.
THEOREM LostLeaseIsFinal == Spec => LeaseLossIsFinal
<1> DEFINE Final == \A w \in Workers, r \in Runs, g \in Attempts :
              /\ g <= task[r].generation /\ ~HoldsLease(w, r, g) => ~HoldsLease(w, r, g)'
              /\ g <= cleanup[r].attempts /\ ~HoldsCleanup(w, r, g) => ~HoldsCleanup(w, r, g)'
<1>1. QueueOK /\ [Next]_vars => [Final]_vars
  <2> SUFFICES ASSUME QueueOK, [Next]_vars, NEW w \in Workers, NEW r \in Runs, NEW g \in Attempts
               PROVE  /\ g <= task[r].generation /\ ~HoldsLease(w, r, g) => ~HoldsLease(w, r, g)'
                      /\ g <= cleanup[r].attempts /\ ~HoldsCleanup(w, r, g) => ~HoldsCleanup(w, r, g)'
    OBVIOUS
  <2>1. RunOK(r) /\ RunMoves(r)
    BY StepMoves, QueueOKImplies DEF QueueOK
  <2>2. /\ HoldsLease(w, r, g)' => HoldsLease(w, r, g) \/ g = task[r].generation + 1
        /\ HoldsCleanup(w, r, g)' => HoldsCleanup(w, r, g) \/ g = cleanup[r].attempts + 1
    BY <2>1, MoveLeases
  <2>3. task[r].generation \in Int /\ cleanup[r].attempts \in Int /\ g \in Int
    BY <2>1, BoundsAssumption DEF RunOK, RunTyped, TaskRecord, CleanupRecord, Attempts
  <2> QED BY <2>2, <2>3
<1> HIDE DEF Final
<1>2. Spec => [][Final]_vars
  BY <1>1, QueueAlwaysOK, PTL DEF Spec
<1> QED BY <1>2 DEF LeaseLossIsFinal, Final

-----------------------------------------------------------------------------
(* The projects. *)

\* workflow_runs_one_active_per_project_idx, as an invariant.
OneActive ==
    \A r, s \in Runs : /\ ProjectOf[r] = ProjectOf[s]
                       /\ flow[r] \in ActiveStatus /\ flow[s] \in ActiveStatus
                       => r = s

\* How a step moves a run as far as its project can tell.
StaysActive(r) == flow[r] \in ActiveStatus /\ flow'[r] \in ActiveStatus
IsCancelled(r) == flow[r] \in ActiveStatus /\ flow'[r] = "cancelled"

\* What one step may do to project p and the statuses of its runs.
ProjectMoves(p) ==
    \/ /\ project'[p] = project[p]
       /\ \A r \in Runs : ProjectOf[r] = p =>
             flow'[r] = flow[r] \/ StaysActive(r) \/ IsCancelled(r)
    \/ project'[p] = "analyzing" /\ \E r \in Runs : ProjectOf[r] = p /\ flow'[r] \in ActiveStatus
    \/ /\ project'[p] = "failed"
       /\ \E r \in Runs : ProjectOf[r] = p /\ flow[r] \in ActiveStatus /\ flow'[r] = "failed"
    \/ /\ project'[p] = "analyzed"
       /\ \E r \in Runs : ProjectOf[r] = p /\ flow[r] \in ActiveStatus /\ flow'[r] = "succeeded"

\* A run becomes active only when no run of its project is, and alone.
StartsAlone(s) ==
    flow[s] \notin ActiveStatus /\ flow'[s] \in ActiveStatus =>
       \A r \in Runs : ProjectOf[r] = ProjectOf[s] =>
          flow[r] \notin ActiveStatus /\ (r # s => flow'[r] = flow[r])

\* A step that only touches the status of one active run, and leaves it active,
\* and sets its project to analyzing if it sets it at all, is a project move.
LEMMA ActiveRunMoves ==
    ASSUME QueueOK, NEW s \in Runs, flow[s] \in ActiveStatus, NEW status \in ActiveStatus,
           flow' = [flow EXCEPT ![s] = status],
           \/ UNCHANGED project
           \/ project' = [project EXCEPT ![ProjectOf[s]] = "analyzing"]
    PROVE  (\A p \in Projects : ProjectMoves(p)) /\ (\A r \in Runs : StartsAlone(r))
<1>1. flow = [r \in Runs |-> flow[r]] /\ DOMAIN project = Projects /\ ProjectOf[s] \in Projects
  BY TenancyAssumption DEF QueueOK, Shaped
<1>2. \A r \in Runs : flow'[r] = IF r = s THEN status ELSE flow[r]
  BY <1>1
<1>3. \A r \in Runs : flow'[r] = flow[r] \/ StaysActive(r)
  BY <1>2 DEF StaysActive
<1>4. \A r \in Runs : StartsAlone(r)
  BY <1>3 DEF StartsAlone, StaysActive
<1>5. ASSUME NEW p \in Projects PROVE ProjectMoves(p)
  <2>1. CASE project'[p] = project[p]
    BY <1>3, <2>1 DEF ProjectMoves
  <2>2. CASE project'[p] # project[p]
    <3>1. p = ProjectOf[s] /\ project'[p] = "analyzing"
      BY <1>1, <2>2 DEF QueueOK
    <3> QED BY <1>2, <3>1 DEF ProjectMoves
  <2> QED BY <2>1, <2>2
<1> QED BY <1>4, <1>5

\* A step that leaves the status of every run and every project alone is one.
LEMMA QuietMoves ==
    ASSUME UNCHANGED <<flow, project>>
    PROVE  (\A p \in Projects : ProjectMoves(p)) /\ (\A r \in Runs : StartsAlone(r))
  BY DEF ProjectMoves, StartsAlone

\* Failing a set of active runs is one.
LEMMA FailingMoves ==
    ASSUME QueueOK, NEW runs \in SUBSET Runs, FailRuns(runs),
           \A r \in runs : flow[r] \in ActiveStatus
    PROVE  (\A p \in Projects : ProjectMoves(p)) /\ (\A r \in Runs : StartsAlone(r))
<1>1. \A r \in Runs : flow'[r] = IF r \in runs THEN "failed" ELSE flow[r]
  BY DEF FailRuns
<1>2. \A r \in Runs : StartsAlone(r)
  BY <1>1 DEF StartsAlone, ActiveStatus
<1>3. ASSUME NEW p \in Projects PROVE ProjectMoves(p)
  <2>1. CASE \E r \in runs : ProjectOf[r] = p
    <3>1. project'[p] = "failed"
      BY <2>1 DEF FailRuns
    <3> QED BY <1>1, <2>1, <3>1 DEF ProjectMoves
  <2>2. CASE ~\E r \in runs : ProjectOf[r] = p
    <3>1. project'[p] = project[p]
      BY <2>2 DEF FailRuns
    <3> QED BY <1>1, <2>2, <3>1 DEF ProjectMoves
  <2> QED BY <2>1, <2>2
<1> QED BY <1>2, <1>3

\* A run that succeeds takes its project with it.
LEMMA SucceedingMoves ==
    ASSUME QueueOK, NEW s \in Runs, Succeed(s), flow[s] \in ActiveStatus
    PROVE  (\A p \in Projects : ProjectMoves(p)) /\ (\A r \in Runs : StartsAlone(r))
<1>1. flow = [r \in Runs |-> flow[r]] /\ DOMAIN project = Projects /\ ProjectOf[s] \in Projects
  BY TenancyAssumption DEF QueueOK, Shaped
<1>2. ProjectAfter("succeeded") = "analyzed"
  BY DEF ProjectAfter, ActiveStatus
<1>3. \A r \in Runs : flow'[r] = IF r = s THEN "succeeded" ELSE flow[r]
  BY <1>1 DEF Succeed
<1>4. \A r \in Runs : StartsAlone(r)
  BY <1>3 DEF StartsAlone, ActiveStatus
<1>5. ASSUME NEW p \in Projects PROVE ProjectMoves(p)
  <2>1. CASE p = ProjectOf[s]
    <3>1. project'[p] = "analyzed"
      BY <1>1, <1>2, <2>1 DEF Succeed, QueueOK
    <3> QED BY <1>3, <2>1, <3>1 DEF ProjectMoves
  <2>2. CASE p # ProjectOf[s]
    <3>1. project'[p] = project[p]
      BY <1>1, <2>2 DEF Succeed, QueueOK
    <3> QED BY <1>3, <2>2, <3>1 DEF ProjectMoves
  <2> QED BY <2>1, <2>2
<1> QED BY <1>4, <1>5

\* Every operation moves every project in one of these ways.
LEMMA StepProjectMoves ==
    ASSUME QueueOK, [Next]_vars
    PROVE  (\A p \in Projects : ProjectMoves(p)) /\ (\A r \in Runs : StartsAlone(r))
<1> DEFINE Goal == (\A p \in Projects : ProjectMoves(p)) /\ (\A r \in Runs : StartsAlone(r))
<1>0. /\ \A r \in Runs : RunTyped(r) /\ RunAgrees(r)
      /\ \A r \in Runs : ProjectOf[r] \in Projects
      /\ flow = [r \in Runs |-> flow[r]] /\ DOMAIN project = Projects
  BY TenancyAssumption DEF QueueOK, RunOK, Shaped
<1>1. /\ ProjectAfter("queued") = "analyzing" /\ ProjectAfter("running") = "analyzing"
      /\ ProjectAfter("failed") = "failed"
  BY DEF ProjectAfter, ActiveStatus
<1>2. "queued" \in ActiveStatus /\ "running" \in ActiveStatus /\ "waiting" \in ActiveStatus
  BY DEF ActiveStatus
<1>3. UNCHANGED <<flow, project>> => Goal
  BY QuietMoves
<1> HIDE DEF Goal
<1>4. ASSUME NEW s \in Runs, EnqueueAnalysis(s) PROVE Goal
  <2>1. \A r \in Runs : flow'[r] = IF r = s THEN "queued" ELSE flow[r]
    BY <1>0, <1>4 DEF EnqueueAnalysis
  <2>2. \A r \in Runs : ProjectOf[r] = ProjectOf[s] => flow[r] \notin ActiveStatus
    BY <1>4 DEF EnqueueAnalysis
  <2>3. \A r \in Runs : StartsAlone(r)
    BY <2>1, <2>2 DEF StartsAlone
  <2>4. ASSUME NEW p \in Projects PROVE ProjectMoves(p)
    <3>1. CASE p = ProjectOf[s]
      <4>1. project'[p] = "analyzing"
        BY <1>0, <1>1, <1>4, <3>1 DEF EnqueueAnalysis, QueueOK
      <4> QED BY <1>2, <2>1, <3>1, <4>1 DEF ProjectMoves
    <3>2. CASE p # ProjectOf[s]
      <4>1. project'[p] = project[p]
        BY <1>0, <1>4, <3>2 DEF EnqueueAnalysis, QueueOK
      <4> QED BY <2>1, <3>2, <4>1 DEF ProjectMoves
    <3> QED BY <3>1, <3>2
  <2> QED BY <2>3, <2>4 DEF Goal
<1>5. ASSUME NEW s \in Runs, ResumeAnalysisAfterAuthentication(s) PROVE Goal
  <2>1. /\ flow[s] \in ActiveStatus /\ flow' = [flow EXCEPT ![s] = "queued"]
        /\ project' = [project EXCEPT ![ProjectOf[s]] = "analyzing"]
    BY <1>1, <1>2, <1>5 DEF ResumeAnalysisAfterAuthentication, Suspended
  <2> QED BY <1>2, <2>1, ActiveRunMoves DEF Goal
<1>6. ASSUME NEW s \in Runs, CancelWorkflow(s) PROVE Goal
  <2>1. \A r \in Runs : flow'[r] = IF r = s THEN "cancelled" ELSE flow[r]
    BY <1>0, <1>6 DEF CancelWorkflow
  <2>2. flow[s] \in ActiveStatus /\ project' = project
    BY <1>6 DEF CancelWorkflow, Active
  <2>3. \A r \in Runs : StartsAlone(r)
    BY <2>1 DEF StartsAlone, ActiveStatus
  <2>4. \A p \in Projects : ProjectMoves(p)
    BY <2>1, <2>2 DEF ProjectMoves, IsCancelled
  <2> QED BY <2>3, <2>4 DEF Goal
<1>7. ASSUME NEW s \in Runs, NEW state \in {"failed", "expired"},
             TerminateAnalysisAuthentication(s, state)
      PROVE  Goal
  <2>1. FailRuns({s}) /\ flow[s] \in ActiveStatus
    BY <1>2, <1>7 DEF TerminateAnalysisAuthentication, Suspended
  <2> QED BY <2>1, FailingMoves DEF Goal
<1>8. ASSUME NEW s \in Runs, \/ LeaseTick(s) \/ RetryDue(s) \/ CheckpointExpires(s)
                             \/ CleanupTick(s) \/ CleanupDue(s)
      PROVE  Goal
  <2>1. UNCHANGED <<flow, project>>
    BY <1>8 DEF LeaseTick, RetryDue, CheckpointExpires, CleanupTick, CleanupDue, rows
  <2> QED BY <1>3, <2>1
<1>9. ASSUME NEW w \in Workers, NEW s \in Runs, NEW g \in Attempts,
             HeartbeatAnalysis(w, s, g) \/ CompleteCleanup(w, s, g)
      PROVE  Goal
  <2>1. UNCHANGED <<flow, project>>
    BY <1>9 DEF HeartbeatAnalysis, CompleteCleanup, rows
  <2> QED BY <1>3, <2>1
<1>10. ASSUME NEW w \in Workers, NEW s \in Runs, NEW g \in Attempts,
              WaitAnalysisForAuthentication(w, s, g)
       PROVE  Goal
  <2>1. /\ flow[s] \in ActiveStatus /\ flow' = [flow EXCEPT ![s] = "waiting"]
        /\ UNCHANGED project
    BY <1>2, <1>10 DEF WaitAnalysisForAuthentication
  <2> QED BY <1>2, <2>1, ActiveRunMoves DEF Goal
<1>11. ASSUME NEW w \in Workers, NEW s \in Runs, NEW g \in Attempts, HoldsLease(w, s, g)
       PROVE  flow[s] = "running"
  BY <1>0, <1>11 DEF HoldsLease, Live, RunAgrees
<1>12. ASSUME NEW w \in Workers, NEW s \in Runs, NEW g \in Attempts, NEW h \in Results,
              \/ CheckpointAnalysisResult(w, s, g, h) \/ CompleteAnalysis(w, s, g, h)
              \/ CompleteCheckpointedAnalysis(w, s, g, h)
       PROVE  Goal
  <2>1. HoldsLease(w, s, g) /\ (UNCHANGED <<flow, project>> \/ Succeed(s))
    BY <1>12 DEF CheckpointAnalysisResult, CompleteAnalysis, CompleteCheckpointedAnalysis, rows
  <2> QED BY <1>2, <1>3, <1>11, <2>1, SucceedingMoves DEF Goal
<1>13. ASSUME NEW w \in Workers, NEW s \in Runs, NEW g \in Attempts, NEW retryable \in BOOLEAN,
              FailAnalysis(w, s, g, retryable)
       PROVE  Goal
  <2>1. flow[s] \in ActiveStatus
    BY <1>2, <1>11, <1>13 DEF FailAnalysis
  <2>2. \/ FailRuns({s})
        \/ /\ flow' = [flow EXCEPT ![s] = "queued"]
           /\ project' = [project EXCEPT ![ProjectOf[s]] = "analyzing"]
    BY <1>1, <1>13 DEF FailAnalysis
  <2>3. CASE FailRuns({s})
    BY <2>1, <2>3, FailingMoves DEF Goal
  <2>4. CASE /\ flow' = [flow EXCEPT ![s] = "queued"]
             /\ project' = [project EXCEPT ![ProjectOf[s]] = "analyzing"]
    BY <1>2, <2>1, <2>4, ActiveRunMoves DEF Goal
  <2> QED BY <2>2, <2>3, <2>4
<1>14. ASSUME NEW w \in Workers, NEW s \in Runs, NEW g \in Attempts, NEW retryable \in BOOLEAN,
              RetryCleanup(w, s, g, retryable)
       PROVE  Goal
  <2>1. UNCHANGED <<flow, project>>
    BY <1>14 DEF RetryCleanup, rows
  <2> QED BY <1>3, <2>1
<1>15. ASSUME NEW w \in Workers, NEW claimed \in Picks, ClaimCleanup(w, claimed) PROVE Goal
  <2>1. UNCHANGED <<flow, project>>
    BY <1>15 DEF ClaimCleanup, rows
  <2> QED BY <1>3, <2>1
<1>16. ASSUME NEW found \in SUBSET {r \in Runs : AuthenticationExpired(r)},
              ReconcileExpiredAuthentication(found)
       PROVE  Goal
  <2>1. FailRuns(found) /\ found \in SUBSET Runs
    BY <1>16 DEF ReconcileExpiredAuthentication
  <2>2. \A r \in found : flow[r] \in ActiveStatus
    BY <1>2, <1>16 DEF ReconcileExpiredAuthentication, AuthenticationExpired
  <2> QED BY <2>1, <2>2, FailingMoves DEF Goal
<1>17. ASSUME NEW w \in Workers, NEW swept \in SUBSET {r \in Runs : Exhausted(r)},
              NEW claimed \in Picks, ClaimAnalysis(w, swept, claimed)
       PROVE  Goal
  <2>1. \A r \in swept : r \in Runs /\ flow[r] = "running" /\ task[r].status = "running"
    BY <1>0, <1>17 DEF ClaimAnalysis, Exhausted, Expired, RunAgrees
  <2>2. \A r \in Runs : r \in claimed => flow[r] \in ActiveStatus /\ r \notin swept
    <3> SUFFICES ASSUME NEW r \in Runs, r \in claimed PROVE flow[r] \in ActiveStatus /\ r \notin swept
      OBVIOUS
    <3>1. Claimable(r) /\ job[r].attempts \in Int /\ MaxAttempts \in Int /\ flow[r] = task[r].status
      BY <1>0, <1>17, BoundsAssumption DEF ClaimAnalysis, RunTyped, JobRecord, Attempts, RunAgrees
    <3>2. ~(job[r].attempts >= MaxAttempts) /\ flow[r] \in ActiveStatus
      BY <1>2, <3>1 DEF Claimable
    <3> QED BY <1>17, <3>2 DEF ClaimAnalysis, Exhausted
  <2>3. \A r \in Runs : flow'[r] = IF r \in swept THEN "failed"
                                   ELSE IF r \in claimed THEN "running" ELSE flow[r]
    BY <1>17, <2>1 DEF ClaimAnalysis
  <2>4. \A r \in Runs : StartsAlone(r)
    BY <2>2, <2>3 DEF StartsAlone, ActiveStatus
  <2>5. claimed \subseteq Runs
    BY <1>17 DEF Picks
  <2>6. ASSUME NEW p \in Projects PROVE ProjectMoves(p)
    <3>1. CASE \E r \in claimed : ProjectOf[r] = p
      <4>1. project'[p] = "analyzing"
        BY <1>1, <1>17, <3>1 DEF ClaimAnalysis
      <4>2. \E r \in Runs : ProjectOf[r] = p /\ flow'[r] \in ActiveStatus
        BY <1>2, <2>2, <2>3, <2>5, <3>1
      <4> QED BY <4>1, <4>2 DEF ProjectMoves
    <3>2. CASE (~\E r \in claimed : ProjectOf[r] = p) /\ \E r \in swept : ProjectOf[r] = p
      <4>1. project'[p] = "failed"
        BY <1>1, <1>17, <3>2 DEF ClaimAnalysis
      <4>2. \E r \in Runs : ProjectOf[r] = p /\ flow[r] \in ActiveStatus /\ flow'[r] = "failed"
        BY <1>2, <2>1, <2>3, <3>2
      <4> QED BY <4>1, <4>2 DEF ProjectMoves
    <3>3. CASE (~\E r \in claimed : ProjectOf[r] = p) /\ ~\E r \in swept : ProjectOf[r] = p
      <4>1. project'[p] = project[p]
        BY <1>17, <3>3 DEF ClaimAnalysis
      <4> QED BY <2>3, <3>3, <4>1 DEF ProjectMoves
    <3> QED BY <3>1, <3>2, <3>3
  <2> QED BY <2>4, <2>6 DEF Goal
<1>18. CASE UNCHANGED vars
  <2>1. Goal
    BY <1>3, <1>18 DEF vars
  <2> QED BY <2>1 DEF Goal
<1>19. Goal
  BY <1>4, <1>5, <1>6, <1>7, <1>8, <1>9, <1>10, <1>12, <1>13, <1>14, <1>15, <1>16, <1>17, <1>18
  DEF Next, Goal
<1> QED BY <1>19 DEF Goal

\* At most one run of a project is active: only a run that starts alone starts.
LEMMA OneActiveNext ==
    ASSUME QueueOK, OneActive, [Next]_vars
    PROVE  OneActive'
<1>1. \A r \in Runs : StartsAlone(r)
  BY StepProjectMoves
<1> SUFFICES ASSUME NEW r \in Runs, NEW s \in Runs, ProjectOf[r] = ProjectOf[s],
                    flow'[r] \in ActiveStatus, flow'[s] \in ActiveStatus, r # s
             PROVE  FALSE
  BY DEF OneActive
<1>2. CASE flow[r] \in ActiveStatus /\ flow[s] \in ActiveStatus
  BY <1>2 DEF OneActive
<1>3. CASE flow[r] \notin ActiveStatus
  BY <1>1, <1>3 DEF StartsAlone
<1>4. CASE flow[s] \notin ActiveStatus
  BY <1>1, <1>4 DEF StartsAlone
<1> QED BY <1>2, <1>3, <1>4

\* No operation leaves a project with a status that none of its runs has earned.
LEMMA ProjectEarnedNext ==
    ASSUME QueueOK, OneActive, ProjectStatusEarned, [Next]_vars
    PROVE  ProjectStatusEarned'
<1> DEFINE some(p, statuses) == \E r \in Runs : ProjectOf[r] = p /\ flow[r] \in statuses
<1>0. /\ \A p \in Projects : ProjectMoves(p)
      /\ \A r \in Runs : StartsAlone(r)
      /\ OneActive'
  BY StepProjectMoves, OneActiveNext
<1>1. \A r \in Runs : flow[r] \in {"succeeded", "failed", "cancelled"} => flow'[r] = flow[r]
  <2> SUFFICES ASSUME NEW r \in Runs, flow[r] \in {"succeeded", "failed", "cancelled"}
               PROVE  flow'[r] = flow[r]
    OBVIOUS
  <2>1. RunOK(r) /\ RunMoves(r)
    BY StepMoves, QueueOKImplies DEF QueueOK
  <2> QED BY <2>1, MoveFreezes DEF TerminalStatus
<1>2. ASSUME NEW p \in Projects
      PROVE  /\ some(p, ActiveStatus)' => project'[p] = "analyzing"
             /\ project'[p] = "analyzing" => some(p, ActiveStatus \cup {"cancelled"})'
             /\ project'[p] = "analyzed" => some(p, {"succeeded"})'
             /\ project'[p] = "failed" => some(p, {"failed"})'
  <2>0. /\ some(p, ActiveStatus) => project[p] = "analyzing"
        /\ project[p] = "analyzing" => some(p, ActiveStatus \cup {"cancelled"})
        /\ project[p] = "analyzed" => some(p, {"succeeded"})
        /\ project[p] = "failed" => some(p, {"failed"})
    BY DEF ProjectStatusEarned
  <2>1. CASE /\ project'[p] = project[p]
             /\ \A r \in Runs : ProjectOf[r] = p =>
                   flow'[r] = flow[r] \/ StaysActive(r) \/ IsCancelled(r)
    <3>1. some(p, ActiveStatus)' => some(p, ActiveStatus)
      BY <2>1 DEF StaysActive, IsCancelled, ActiveStatus
    <3>2. some(p, ActiveStatus \cup {"cancelled"}) => some(p, ActiveStatus \cup {"cancelled"})'
      BY <2>1 DEF StaysActive, IsCancelled
    <3>3. some(p, {"succeeded"}) => some(p, {"succeeded"})'
      BY <1>1
    <3>4. some(p, {"failed"}) => some(p, {"failed"})'
      BY <1>1
    <3> QED BY <2>0, <2>1, <3>1, <3>2, <3>3, <3>4
  <2>2. CASE project'[p] = "analyzing" /\ \E r \in Runs : ProjectOf[r] = p /\ flow'[r] \in ActiveStatus
    BY <2>2
  <2>3. ASSUME NEW status \in {"failed", "succeeded"}, NEW r \in Runs, ProjectOf[r] = p,
               flow[r] \in ActiveStatus, flow'[r] = status
        PROVE  ~some(p, ActiveStatus)'
    <3> SUFFICES ASSUME NEW s \in Runs, ProjectOf[s] = p, flow'[s] \in ActiveStatus PROVE FALSE
      OBVIOUS
    <3>1. s # r
      BY <2>3 DEF ActiveStatus
    <3>2. flow[s] \notin ActiveStatus
      BY <2>3, <3>1 DEF OneActive
    <3> QED BY <1>0, <2>3, <3>2 DEF StartsAlone
  <2>4. CASE /\ project'[p] = "failed"
             /\ \E r \in Runs : ProjectOf[r] = p /\ flow[r] \in ActiveStatus /\ flow'[r] = "failed"
    BY <2>3, <2>4
  <2>5. CASE /\ project'[p] = "analyzed"
             /\ \E r \in Runs : ProjectOf[r] = p /\ flow[r] \in ActiveStatus /\ flow'[r] = "succeeded"
    BY <2>3, <2>5
  <2> QED BY <1>0, <2>1, <2>2, <2>4, <2>5 DEF ProjectMoves
<1> QED BY <1>2 DEF ProjectStatusEarned

\* A project says analyzing while a run of it is active, and analyzed or failed
\* only when one ended that way, whatever its other runs did before.
THEOREM ProjectsTellTheTruth == Spec => []ProjectStatusEarned
<1>1. Init => OneActive /\ ProjectStatusEarned
  BY DEF Init, OneActive, ProjectStatusEarned, ActiveStatus
<1>2. QueueOK /\ OneActive /\ ProjectStatusEarned /\ [Next]_vars => OneActive' /\ ProjectStatusEarned'
  BY OneActiveNext, ProjectEarnedNext
<1> QED BY <1>1, <1>2, QueueAlwaysOK, PTL DEF Spec

\* No project ever has two active runs: refusing the enqueue is enough, since
\* nothing else makes an inactive run active.
THEOREM OneActiveRun == Spec => []OneActive
<1>1. Init => OneActive
  BY DEF Init, OneActive, ActiveStatus
<1>2. QueueOK /\ OneActive /\ [Next]_vars => OneActive'
  BY OneActiveNext
<1> QED BY <1>1, <1>2, QueueAlwaysOK, PTL DEF Spec

-----------------------------------------------------------------------------
(* No run and no cleanup is forgotten.                                      *)

\* A run that was never suspended is queued only with an attempt left.
BudgetLeft(r) ==
    /\ job[r].status = "none" => job[r].attempts = 0
    /\ job[r].status = "queued" /\ checkpoint[r].state = "none" => job[r].attempts < MaxAttempts

LEMMA MoveLeavesBudget ==
    ASSUME NEW r \in Runs, RunOK(r), BudgetLeft(r), RunMoves(r)
    PROVE  BudgetLeft(r)'
<1>0. /\ job[r] \in JobRecord /\ checkpoint[r] \in CheckpointRecord /\ RunAgrees(r)
      /\ MaxAttempts \in Nat \ {0}
  BY BoundsAssumption DEF RunOK, RunTyped
<1> USE DEF RowsKept, CheckpointKept, ReceiptKept, ResultKept, WaitKept
<1>1. CASE Untouched(r) \/ CleanupMoved(r) \/ CleanupDone(r)
  BY <1>1 DEF Untouched, CleanupMoved, CleanupDone, BudgetLeft
<1>2. CASE Enqueued(r) \/ Renewed(r) \/ Ticked(r) \/ BecameDue(r)
  BY <1>0, <1>2 DEF Enqueued, Renewed, Ticked, BecameDue, BudgetLeft, RunAgrees, JobRecord
<1>3. CASE Requeued(r)
  BY <1>0, <1>3 DEF Requeued, Released, BudgetLeft, JobRecord
<1>4. ASSUME NEW w \in Workers, ClaimedBy(r, w) PROVE BudgetLeft(r)'
  BY <1>0, <1>4 DEF ClaimedBy, LeasedRow, BudgetLeft, JobRecord
<1>5. CASE ResumedByUser(r)
  BY <1>0, <1>5 DEF ResumedByUser, Released, BudgetLeft, JobRecord, CheckpointRecord
<1>6. ASSUME NEW w \in Workers, NEW g \in Attempts, SuspendedBy(r, w, g) PROVE BudgetLeft(r)'
  BY <1>0, <1>6 DEF SuspendedBy, RowsBecome, Released, BudgetLeft, JobRecord
<1>7. ASSUME NEW w \in Workers, NEW g \in Attempts, CompletedCheckpoint(r, w, g) PROVE BudgetLeft(r)'
  BY <1>0, <1>7 DEF CompletedCheckpoint, RowsBecome, Released, BudgetLeft, JobRecord
<1>8. ASSUME NEW w \in Workers, NEW g \in Attempts, NEW hash, StoredBy(r, w, g, hash)
      PROVE  BudgetLeft(r)'
  BY <1>8 DEF StoredBy, BudgetLeft
<1>9. ASSUME NEW hash, CompletedWith(r, hash) PROVE BudgetLeft(r)'
  BY <1>0, <1>9 DEF CompletedWith, RowsBecome, Released, BudgetLeft, JobRecord
<1>10. ASSUME NEW status \in {"failed", "cancelled"}, NEW state, Ended(r, status, state)
       PROVE  BudgetLeft(r)'
  BY <1>0, <1>10 DEF Ended, RowsBecome, Released, BudgetLeft, JobRecord
<1>11. CASE CheckpointAged(r)
  BY <1>0, <1>11 DEF CheckpointAged, BudgetLeft, CheckpointRecord
<1> QED BY <1>1, <1>2, <1>3, <1>4, <1>5, <1>6, <1>7, <1>8, <1>9, <1>10, <1>11 DEF RunMoves

LEMMA AnybodyAttended ==
    ASSUME NEW r \in Runs, RunOK(r), BudgetLeft(r), flow[r] \in ActiveStatus
    PROVE  Attended(r) \/ Stranded(r)
<1>0. /\ job[r] \in JobRecord /\ checkpoint[r] \in CheckpointRecord /\ RunAgrees(r)
      /\ MaxAttempts \in Nat \ {0} /\ LeaseTerm \in Nat \ {0} /\ ActiveTaskQuota \in Nat \ {0}
  BY BoundsAssumption DEF RunOK, RunTyped
<1> DEFINE leased == Cardinality(LeasedRuns(OrgOf[ProjectOf[r]]))
<1>1. leased \in Nat
  <2>1. IsFiniteSet(Runs) /\ LeasedRuns(OrgOf[ProjectOf[r]]) \subseteq Runs
    BY TenancyAssumption DEF LeasedRuns
  <2>2. IsFiniteSet(LeasedRuns(OrgOf[ProjectOf[r]]))
    BY <2>1, FS_Subset
  <2> QED BY <2>2, FS_CardinalityType
<1>2. leased < ActiveTaskQuota \/ leased >= ActiveTaskQuota
  BY <1>0, <1>1
<1>3. /\ job[r].attempts \in Nat /\ job[r].lease \in Nat /\ job[r].delayed \in BOOLEAN
      /\ checkpoint[r].fresh \in BOOLEAN
  BY <1>0 DEF JobRecord, CheckpointRecord, Attempts
<1>4. /\ job[r].status = flow[r] /\ task[r].status = flow[r]
      /\ flow[r] \in {"queued", "running", "waiting"} /\ flow[r] \notin TerminalStatus
  BY <1>0 DEF RunAgrees, ActiveStatus, TerminalStatus
<1>5. checkpoint[r].state \in {"none", "waiting", "consumed"}
  BY <1>0, <1>4 DEF RunAgrees, CheckpointRecord, OpenState, OwingState
\* What is ready, has an attempt left and is not kept back by its checkpoint is
\* claimable, or the quota is spent.
<1>6. ASSUME Ready(job[r]), job[r].attempts < MaxAttempts, flow[r] # "waiting",
             checkpoint[r].state = "none" \/ Resumable(r)
      PROVE  Attended(r)
  <2>1. CASE leased >= ActiveTaskQuota
    BY <1>6, <2>1 DEF Attended
  <2>2. CASE leased < ActiveTaskQuota
    <3>1. Claimable(r)
      BY <1>4, <1>6, <2>2 DEF Claimable
    <3> QED BY <3>1 DEF Attended
  <2> QED BY <1>2, <2>1, <2>2
<1> HIDE DEF leased
\* An open checkpoint of a run nobody works on expires, or has expired.
<1>7. ASSUME checkpoint[r].state \in OpenState, flow[r] # "running" PROVE Attended(r)
  <2>1. CASE checkpoint[r].fresh
    BY <1>4, <1>7, <2>1 DEF Attended
  <2>2. CASE ~checkpoint[r].fresh
    <3>1. AuthenticationExpired(r)
      BY <1>4, <1>7, <2>2 DEF AuthenticationExpired
    <3> QED BY <3>1 DEF Attended
  <2> QED BY <2>1, <2>2
<1>8. CASE flow[r] = "waiting"
  BY <1>0, <1>7, <1>8 DEF RunAgrees, OpenState
<1>9. CASE flow[r] = "queued"
  <2>1. CASE job[r].delayed
    BY <1>4, <1>9, <2>1 DEF Attended
  <2>2. CASE ~job[r].delayed /\ checkpoint[r].state = "none"
    <3>1. Ready(job[r]) /\ job[r].attempts < MaxAttempts
      BY <1>4, <1>9, <2>2 DEF Ready, BudgetLeft
    <3> QED BY <1>6, <1>9, <2>2, <3>1
  <2>3. CASE checkpoint[r].state \in OpenState
    BY <1>7, <1>9, <2>3
  <2> QED BY <1>5, <2>1, <2>2, <2>3 DEF OpenState
<1>10. CASE flow[r] = "running"
  <2>1. CASE Live(job[r])
    BY <2>1 DEF Attended
  <2>2. CASE ~Live(job[r]) /\ job[r].attempts >= MaxAttempts
    <3>1. Exhausted(r)
      BY <1>3, <1>4, <1>10, <2>2 DEF Exhausted, Live, Expired
    <3> QED BY <3>1 DEF Attended
  <2>3. CASE ~Live(job[r]) /\ job[r].attempts < MaxAttempts
    <3>1. Expired(job[r])
      BY <1>3, <1>4, <1>10, <2>3 DEF Live, Expired
    <3>2. CASE checkpoint[r].state = "none" \/ Resumable(r)
      BY <1>6, <1>10, <2>3, <3>1, <3>2 DEF Ready
    <3>3. CASE checkpoint[r].state = "consumed" /\ ~checkpoint[r].fresh
      BY <2>3, <3>1, <3>3 DEF Stranded
    <3>4. checkpoint[r].state # "waiting"
      BY <1>0, <1>10 DEF RunAgrees
    <3> QED BY <1>5, <3>2, <3>3, <3>4 DEF Resumable
  <2> QED BY <1>0, <1>3, <2>1, <2>2, <2>3
<1> QED BY <1>4, <1>8, <1>9, <1>10

\* Every active run has a worker, waits for a time that comes or for the quota,
\* or is in the reach of a claim, a sweep or the reconciler, except the
\* stranded ones: what the queries of the three leave out is exactly that.
THEOREM RunsAreAttended == Spec => []NoRunIsForgotten
<1> DEFINE Budgets == \A r \in Runs : BudgetLeft(r)
<1>1. Init => Budgets
  BY BoundsAssumption DEF Init, BudgetLeft
<1>2. QueueOK /\ Budgets /\ [Next]_vars => Budgets'
  <2> SUFFICES ASSUME QueueOK, Budgets, [Next]_vars, NEW r \in Runs PROVE BudgetLeft(r)'
    OBVIOUS
  <2>1. RunOK(r) /\ RunMoves(r)
    BY StepMoves, QueueOKImplies DEF QueueOK
  <2> QED BY <2>1, MoveLeavesBudget
<1>3. QueueOK /\ Budgets => NoRunIsForgotten
  BY AnybodyAttended DEF QueueOK, NoRunIsForgotten
<1> HIDE DEF Budgets
<1> QED BY <1>1, <1>2, <1>3, QueueAlwaysOK, PTL DEF Spec

\* A cleanup that is owed is under way, delayed, claimable or about to be given
\* up; none is left out by the query that claims them.
THEOREM CleanupsAreAttended == Spec => []NoCleanupIsForgotten
<1>1. QueueOK /\ CleanupOwed => NoCleanupIsForgotten
  <2> SUFFICES ASSUME QueueOK, CleanupOwed, NEW r \in Runs, cleanup[r].status \in {"pending", "running"}
               PROVE  \/ Live(cleanup[r]) \/ (cleanup[r].status = "pending" /\ cleanup[r].delayed)
                      \/ CleanupClaimable(r) \/ CleanupExhausted(r)
    BY DEF NoCleanupIsForgotten
  <2>1. cleanup[r] \in CleanupRecord /\ checkpoint[r].state \in OwingState
    BY DEF QueueOK, RunOK, RunTyped, CleanupOwed, CleanupOwedBy
  <2>2. /\ cleanup[r].attempts \in Nat /\ MaxAttempts \in Nat
        /\ cleanup[r].lease \in Nat /\ cleanup[r].delayed \in BOOLEAN
    BY <2>1, BoundsAssumption DEF CleanupRecord, Attempts
  <2>3. Ready(cleanup[r]) \/ Live(cleanup[r]) \/ (cleanup[r].status = "pending" /\ cleanup[r].delayed)
    BY <2>2 DEF Ready, Live, Expired
  <2>4. Ready(cleanup[r]) => CleanupClaimable(r) \/ CleanupExhausted(r)
    BY <2>1, <2>2 DEF CleanupClaimable, CleanupExhausted
  <2> QED BY <2>3, <2>4
<1> QED BY <1>1, QueueAlwaysOK, CleanupsAreOwed, PTL

LEMMA MoveStrands ==
    ASSUME NEW r \in Runs, RunOK(r), RunMoves(r), Stranded(r)
    PROVE  Stranded(r)' \/ flow'[r] = "cancelled"
<1>0. /\ job[r] \in JobRecord /\ checkpoint[r] \in CheckpointRecord /\ RunAgrees(r)
      /\ job[r].status = "running" /\ job[r].lease = 0 /\ MaxAttempts \in Nat
      /\ job[r].attempts \in Nat /\ job[r].attempts < MaxAttempts
      /\ checkpoint[r].state = "consumed" /\ ~checkpoint[r].fresh
  BY BoundsAssumption DEF RunOK, RunTyped, Stranded, Expired, JobRecord, Attempts
<1>1. ~Live(job[r]) /\ ~Resumable(r) /\ flow[r] = "running"
  BY <1>0 DEF Live, Resumable, RunAgrees
<1>2. /\ ~Enqueued(r) /\ ~Renewed(r) /\ ~ResumedByUser(r) /\ ~Requeued(r) /\ ~Ticked(r) /\ ~BecameDue(r)
  BY <1>0, <1>1 DEF Enqueued, Renewed, ResumedByUser, Requeued, Ticked, BecameDue
<1>3. ASSUME NEW w \in Workers PROVE ~ClaimedBy(r, w)
  BY <1>0, <1>1 DEF ClaimedBy
<1>4. ASSUME NEW w \in Workers, NEW g \in Attempts
      PROVE  /\ ~SuspendedBy(r, w, g) /\ ~CompletedCheckpoint(r, w, g)
             /\ \A hash \in Results : ~StoredBy(r, w, g, hash)
  BY <1>1 DEF HoldsLease, SuspendedBy, CompletedCheckpoint, StoredBy
<1>5. ASSUME NEW hash \in Results PROVE ~CompletedWith(r, hash)
  BY <1>1 DEF CompletedWith
<1>6. ASSUME NEW state PROVE ~Ended(r, "failed", state)
  BY <1>0 DEF Ended, Expired
<1>7. Ended(r, "cancelled", "cancelled") => flow'[r] = "cancelled"
  BY DEF Ended, RowsBecome
<1>8. Untouched(r) \/ CheckpointAged(r) \/ CleanupMoved(r) \/ CleanupDone(r) => Stranded(r)'
  BY <1>0 DEF Untouched, CheckpointAged, CleanupMoved, CleanupDone, RowsKept, CheckpointKept,
     WaitKept, Stranded, Expired, CheckpointRecord
<1> QED BY <1>2, <1>3, <1>4, <1>5, <1>6, <1>7, <1>8 DEF RunMoves

\* No claim, sweep, reconciliation, late answer or late resume gets a stranded run
\* out of its state; only a person's cancellation does.
THEOREM StrandedForGood == Spec => StrandedRunsWait
<1> DEFINE Waits == \A r \in Runs : Stranded(r) => Stranded(r)' \/ flow'[r] = "cancelled"
<1>1. QueueOK /\ [Next]_vars => [Waits]_vars
  <2> SUFFICES ASSUME QueueOK, [Next]_vars, NEW r \in Runs, Stranded(r)
               PROVE  Stranded(r)' \/ flow'[r] = "cancelled"
    OBVIOUS
  <2>1. RunOK(r) /\ RunMoves(r)
    BY StepMoves, QueueOKImplies DEF QueueOK
  <2> QED BY <2>1, MoveStrands
<1> HIDE DEF Waits
<1>2. Spec => [][Waits]_vars
  BY <1>1, QueueAlwaysOK, PTL DEF Spec
<1> QED BY <1>2 DEF StrandedRunsWait, Waits

=============================================================================
