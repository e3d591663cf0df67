-------------------------- MODULE WorkflowStoreProofs --------------------------
(***************************************************************************)
(* What TLAPS proves of WorkflowStore, for any number of runs, phases,     *)
(* attempts, workers and digests, from the three assumptions on its        *)
(* constants.                                                              *)
(*                                                                         *)
(* The inductive invariant is RowsOK /\ RunMatchesCurrentTask.  RowsOK is  *)
(* inductive by itself; that the rows match needs it, because a handler    *)
(* that looks at the task row alone must not find it in a run another      *)
(* phase has taken over.  Every other theorem follows from the two and     *)
(* from what one step may do (StepAccepted, LeaseStep).                    *)
(***************************************************************************)
EXTENDS WorkflowStore, FiniteSetTheorems, TLAPS

\* Releasing a row keeps it well typed.
LEMMA ReleasedType ==
    ASSUME TypeOK, NEW t \in Tasks, NEW s \in Status
    PROVE  Released(t, s) \in TaskRecord
<1>1. task[t] \in TaskRecord
  BY DEF TypeOK
<1>2. 0 \in 0 .. LeaseTerm
  BY BoundsAssumption
<1> QED
  BY <1>1, <1>2 DEF Released, TaskRecord

\* The row that starting a run or completing a phase inserts is well formed.
LEMMA NewTaskType ==
    ASSUME NEW d \in Digests
    PROVE  NewTask(d) \in TaskRecord /\ RowChecks(NewTask(d))
<1>1. 0 \in 0 .. LeaseTerm /\ 0 \in Attempts
  BY BoundsAssumption DEF Attempts
<1>2. NewTask(d) \in TaskRecord
  BY <1>1 DEF NewTask, AbsentTask, TaskRecord, Status, ActiveStatus
<1>3. RowChecks(NewTask(d))
  BY DEF NewTask, AbsentTask, RowChecks
<1> QED
  BY <1>2, <1>3

\* Every row has its type and satisfies the CHECK constraints of its table.
RowsOK == TypeOK /\ TableChecks

\* Before the first run starts there are no rows to be wrong.
LEMMA RowsOKInit == Init => RowsOK
<1> SUFFICES ASSUME Init PROVE RowsOK
  OBVIOUS
<1>1. 0 \in 0 .. LeaseTerm /\ 0 \in Attempts /\ 1 \in Phases
  BY BoundsAssumption DEF Attempts, Phases
<1>2. AbsentTask \in TaskRecord
  BY <1>1 DEF AbsentTask, TaskRecord, Status
<1>3. TypeOK
  BY <1>1, <1>2 DEF Init, TypeOK, RunRecord, CommandLog, Status
<1>4. TableChecks
  BY <1>1 DEF Init, TableChecks, RowChecks, AbsentTask
<1> QED
  BY <1>3, <1>4 DEF RowsOK

\* A claim yields a well-formed row whose generation is one no worker held.
LEMMA LeasedType ==
    ASSUME RowsOK, NEW t \in Tasks, NEW w \in Workers, task[t].attempts < MaxAttempts
    PROVE  Leased(t, w) \in TaskRecord /\ RowChecks(Leased(t, w))
<1>1. task[t] \in TaskRecord /\ RowChecks(task[t])
  BY DEF RowsOK, TypeOK, TableChecks
<1>2. task[t].attempts + 1 \in Attempts /\ task[t].generation + 1 \in Attempts
  BY <1>1, BoundsAssumption DEF TaskRecord, RowChecks, Attempts
<1>3. LeaseTerm \in 0 .. LeaseTerm /\ "running" \in Status
  BY BoundsAssumption DEF Status, ActiveStatus
<1>4. Leased(t, w) \in TaskRecord
  BY <1>1, <1>2, <1>3 DEF Leased, TaskRecord
<1>5. RowChecks(Leased(t, w))
  BY <1>1, NullAssumption DEF Leased, TaskRecord, RowChecks
<1> QED
  BY <1>4, <1>5

\* A repaired row is well formed: it has no holder and keeps its counters.
LEMMA RepairedTaskOK ==
    ASSUME RowsOK, NEW t \in Tasks
    PROVE  RepairedTask(t) \in TaskRecord /\ RowChecks(RepairedTask(t))
<1>1. \A s \in {"failed", "queued"} : Released(t, s) \in TaskRecord
  BY ReleasedType DEF RowsOK, Status, TerminalStatus, ActiveStatus
<1>2. task[t] \in TaskRecord /\ RowChecks(task[t])
  BY DEF RowsOK, TypeOK, TableChecks
<1>3. \A s \in {"failed", "queued"} : RowChecks(Released(t, s))
  BY <1>2 DEF Released, TaskRecord, RowChecks
<1>4. CASE task[t].attempts >= MaxAttempts
  BY <1>1, <1>3, <1>4 DEF RepairedTask
<1>5. CASE ~(task[t].attempts >= MaxAttempts)
  BY <1>1, <1>3, <1>5 DEF RepairedTask, TaskRecord, RowChecks
<1> QED BY <1>4, <1>5

\* No operation, and no passage of time, leaves a malformed row behind.
LEMMA RowsOKNext == RowsOK /\ [Next]_vars => RowsOK'
<1> SUFFICES ASSUME RowsOK, [Next]_vars PROVE RowsOK'
  OBVIOUS
<1>1. ASSUME NEW r \in Runs, NEW d \in Digests, StartWorkflow(r, d) PROVE RowsOK'
  <2>1. <<r, 1>> \in Tasks /\ 1 \in Phases
    BY BoundsAssumption DEF Tasks, Phases
  <2>2. TypeOK'
    BY <1>1, <2>1, NewTaskType, TenancyAssumption DEF RowsOK, TypeOK, StartWorkflow, RunRecord, Status, ActiveStatus
  <2>3. TableChecks'
    BY <1>1, <2>1, NewTaskType DEF RowsOK, TypeOK, TableChecks, StartWorkflow
  <2> QED BY <2>2, <2>3 DEF RowsOK
<1>2. ASSUME NEW w \in Workers, NEW t \in Tasks, ClaimWorkflowTask(w, t) PROVE RowsOK'
  <2>0. t[1] \in Runs /\ t[2] \in Phases
    BY DEF Tasks
  <2>1. Leased(t, w) \in TaskRecord /\ RowChecks(Leased(t, w))
    BY <1>2, LeasedType DEF ClaimWorkflowTask, Claimable
  <2>2. TypeOK'
    BY <1>2, <2>0, <2>1 DEF RowsOK, TypeOK, ClaimWorkflowTask, Claimable, RunRecord, Status, ActiveStatus
  <2>3. TableChecks'
    BY <1>2, <2>1 DEF RowsOK, TypeOK, TableChecks, ClaimWorkflowTask
  <2> QED BY <2>2, <2>3 DEF RowsOK
<1>3. ASSUME NEW w \in Workers, NEW t \in Tasks, NEW g \in Attempts,
             HeartbeatWorkflowTask(w, t, g) PROVE RowsOK'
  <2>1. task[t] \in TaskRecord /\ RowChecks(task[t]) /\ task[t].status = "running"
    BY <1>3 DEF RowsOK, TypeOK, TableChecks, HeartbeatWorkflowTask, HoldsLease
  <2>2. LeaseTerm \in 0 .. LeaseTerm
    BY BoundsAssumption
  <2> DEFINE renewed == [task[t] EXCEPT !.lease = LeaseTerm]
  <2>3. renewed \in TaskRecord /\ RowChecks(renewed)
    BY <2>1, <2>2 DEF TaskRecord, RowChecks
  <2>4. task' = [task EXCEPT ![t] = renewed]
    BY <1>3 DEF HeartbeatWorkflowTask
  <2> HIDE DEF renewed
  <2>5. TypeOK'
    BY <1>3, <2>3, <2>4 DEF RowsOK, TypeOK, HeartbeatWorkflowTask
  <2>6. TableChecks'
    BY <2>3, <2>4 DEF RowsOK, TypeOK, TableChecks
  <2> QED BY <2>5, <2>6 DEF RowsOK
<1>4. ASSUME NEW w \in Workers, NEW t \in Tasks, NEW g \in Attempts, NEW d \in Digests,
             CompleteWorkflowTask(w, t, g, d) PROVE RowsOK'
  <2> DEFINE done == [Released(t, "succeeded") EXCEPT !.output = d]
             next == <<t[1], t[2] + 1>>
  <2>1. t[1] \in Runs /\ t[2] \in Phases /\ t = <<t[1], t[2]>>
    BY DEF Tasks
  <2>2. Released(t, "succeeded") \in TaskRecord
    BY ReleasedType DEF RowsOK, Status, TerminalStatus
  <2>3. task[t] \in TaskRecord /\ RowChecks(task[t])
    BY DEF RowsOK, TypeOK, TableChecks
  <2>4. done \in TaskRecord /\ RowChecks(done)
    <3>1. done \in TaskRecord
      BY <2>2 DEF TaskRecord
    <3>2. RowChecks(done)
      BY <2>2, <2>3 DEF Released, TaskRecord, RowChecks
    <3> QED BY <3>1, <3>2
  <2>5. command' \in CommandLog
    BY <1>4 DEF CompleteWorkflowTask, RowsOK, TypeOK, CommandLog
  <2>6. CASE /\ t[2] < LastPhase
             /\ task' = [task EXCEPT ![t] = done,
                                     ![next] = IF @.status = "none"
                                               THEN NewTask(d) ELSE @]
             /\ run' = [run EXCEPT ![t[1]] = [status |-> "queued", phase |-> next[2]]]
             /\ UNCHANGED project
    <3>1. next \in Tasks /\ next[2] \in Phases
      BY <2>1, <2>6, BoundsAssumption DEF Tasks, Phases
    <3> HIDE DEF done
    <3>2. TypeOK'
      <4>1. task' \in [Tasks -> TaskRecord]
        BY <2>4, <2>6, <3>1, NewTaskType DEF RowsOK, TypeOK
      <4>2. run' \in [Runs -> RunRecord]
        BY <2>1, <2>6, <3>1 DEF RowsOK, TypeOK, RunRecord, Status, ActiveStatus
      <4> QED BY <2>5, <2>6, <4>1, <4>2 DEF RowsOK, TypeOK
    <3>3. TableChecks'
      BY <2>4, <2>6, <3>1, NewTaskType DEF RowsOK, TypeOK, TableChecks
    <3> QED BY <3>2, <3>3 DEF RowsOK
  <2>7. CASE /\ ~(t[2] < LastPhase)
             /\ task' = [task EXCEPT ![t] = done]
             /\ run' = [run EXCEPT ![t[1]].status = "succeeded"]
             /\ project' = [project EXCEPT ![ProjectOf[t[1]]] = "analyzed"]
    <3> HIDE DEF done
    <3>1. TypeOK'
      BY <2>1, <2>4, <2>5, <2>7, TenancyAssumption
      DEF RowsOK, TypeOK, RunRecord, Status, TerminalStatus
    <3>2. TableChecks'
      BY <2>4, <2>7 DEF RowsOK, TypeOK, TableChecks
    <3> QED BY <3>1, <3>2 DEF RowsOK
  <2> QED BY <1>4, <2>6, <2>7 DEF CompleteWorkflowTask, HasSuccessor, Successor
<1>5. ASSUME NEW w \in Workers, NEW t \in Tasks, NEW g \in Attempts, NEW c \in Classifications,
             FailWorkflowTask(w, t, g, c) PROVE RowsOK'
  <2>1. t[1] \in Runs /\ task[t] \in TaskRecord /\ RowChecks(task[t])
    BY DEF Tasks, RowsOK, TypeOK, TableChecks
  <2>2. \A s \in {"failed", "queued"} :
          Released(t, s) \in TaskRecord /\ RowChecks(Released(t, s))
    <3>1. \A s \in {"failed", "queued"} : Released(t, s) \in TaskRecord
      BY ReleasedType DEF RowsOK, Status, TerminalStatus, ActiveStatus
    <3>2. \A s \in {"failed", "queued"} : RowChecks(Released(t, s))
      BY <2>1 DEF Released, TaskRecord, RowChecks
    <3> QED BY <3>1, <3>2
  <2>3. command' \in CommandLog
    BY <1>5 DEF FailWorkflowTask, RowsOK, TypeOK, CommandLog
  <2>4. CASE /\ task' = [task EXCEPT ![t] = Released(t, "failed")]
             /\ run' = [run EXCEPT ![t[1]].status = "failed"]
             /\ project' = [project EXCEPT ![ProjectOf[t[1]]] = "failed"]
    <3>1. TypeOK'
      BY <2>1, <2>2, <2>3, <2>4, TenancyAssumption
      DEF RowsOK, TypeOK, RunRecord, Status, TerminalStatus
    <3>2. TableChecks'
      BY <2>2, <2>4 DEF RowsOK, TypeOK, TableChecks
    <3> QED BY <3>1, <3>2 DEF RowsOK
  <2>5. CASE /\ task' = [task EXCEPT ![t] = [Released(t, "queued") EXCEPT !.delayed = TRUE]]
             /\ run' = [run EXCEPT ![t[1]].status = "queued"]
             /\ UNCHANGED project
    <3> DEFINE delayed == [Released(t, "queued") EXCEPT !.delayed = TRUE]
    <3>1. delayed \in TaskRecord /\ RowChecks(delayed)
      BY <2>2 DEF TaskRecord, RowChecks
    <3> HIDE DEF delayed
    <3>2. TypeOK'
      BY <2>1, <2>3, <2>5, <3>1 DEF RowsOK, TypeOK, RunRecord, Status, ActiveStatus, delayed
    <3>3. TableChecks'
      BY <2>5, <3>1 DEF RowsOK, TypeOK, TableChecks, delayed
    <3> QED BY <3>2, <3>3 DEF RowsOK
  <2> QED BY <1>5, <2>4, <2>5 DEF FailWorkflowTask
<1>6. ASSUME NEW w \in Workers, NEW t \in Tasks, NEW g \in Attempts,
             WaitWorkflowTask(w, t, g) PROVE RowsOK'
  <2> DEFINE suspended == [Released(t, "waiting") EXCEPT !.waitToken = g, !.waitOpen = TRUE]
  <2>1. t[1] \in Runs /\ task[t] \in TaskRecord /\ RowChecks(task[t]) /\ task[t].generation = g
    BY <1>6 DEF Tasks, RowsOK, TypeOK, TableChecks, WaitWorkflowTask, HoldsLease
  <2>2. Released(t, "waiting") \in TaskRecord
    BY ReleasedType DEF RowsOK, Status, ActiveStatus
  <2>3. suspended \in TaskRecord
    BY <2>2 DEF TaskRecord
  <2>4. RowChecks(suspended)
    <3>1. /\ suspended.status = "waiting" /\ suspended.owner = None
          /\ suspended.lease = 0 /\ suspended.waitToken = g
      BY <2>1, <2>2 DEF Released, TaskRecord
    <3>2. suspended.generation = g /\ suspended.attempts = g
      BY <2>1, <2>2 DEF Released, TaskRecord, RowChecks
    <3> HIDE DEF suspended
    <3> QED BY <3>1, <3>2 DEF RowChecks
  <2>5. /\ task' = [task EXCEPT ![t] = suspended]
        /\ run' = [run EXCEPT ![t[1]].status = "waiting"]
        /\ UNCHANGED <<project, command>>
    BY <1>6 DEF WaitWorkflowTask
  <2> HIDE DEF suspended
  <2>6. TypeOK'
    BY <2>1, <2>3, <2>5 DEF RowsOK, TypeOK, RunRecord, Status, ActiveStatus
  <2>7. TableChecks'
    BY <2>4, <2>5 DEF RowsOK, TypeOK, TableChecks
  <2> QED BY <2>6, <2>7 DEF RowsOK
<1>7. ASSUME NEW r \in Runs, NEW token \in Tokens, NEW key \in AppKeys,
             ResumeWorkflowTask(r, token, key) PROVE RowsOK'
  <2> DEFINE t == <<r, token[1]>>
             resumed == [task[t] EXCEPT !.status = "queued", !.delayed = FALSE]
  <2>1. t \in Tasks
    BY DEF Tasks, Tokens
  <2>2. task[t] \in TaskRecord /\ RowChecks(task[t]) /\ task[t].status = "waiting"
    BY <1>7, <2>1 DEF RowsOK, TypeOK, TableChecks, ResumeWorkflowTask
  <2>3. resumed \in TaskRecord /\ RowChecks(resumed)
    BY <2>2 DEF TaskRecord, RowChecks, Status, ActiveStatus
  <2>4. /\ task' = [task EXCEPT ![t] = resumed]
        /\ run' = [run EXCEPT ![r].status = "queued"]
        /\ UNCHANGED project
    BY <1>7, <2>1 DEF ResumeWorkflowTask, RowsOK, TypeOK
  <2>5. command' \in CommandLog
    BY <1>7 DEF ResumeWorkflowTask, RowsOK, TypeOK, CommandLog
  <2> HIDE DEF resumed
  <2>6. TypeOK'
    BY <2>1, <2>3, <2>4, <2>5 DEF RowsOK, TypeOK, RunRecord, Status, ActiveStatus
  <2>7. TableChecks'
    BY <2>1, <2>3, <2>4 DEF RowsOK, TypeOK, TableChecks
  <2> QED BY <2>6, <2>7 DEF RowsOK
<1>8. ASSUME NEW r \in Runs, NEW key \in AppKeys, CancelWorkflow(r, key) PROVE RowsOK'
  <2>1. \A t \in Tasks : /\ Released(t, "cancelled") \in TaskRecord
                         /\ RowChecks(Released(t, "cancelled"))
    <3>1. \A t \in Tasks : Released(t, "cancelled") \in TaskRecord
      BY ReleasedType DEF RowsOK, Status, TerminalStatus
    <3>2. \A t \in Tasks : task[t] \in TaskRecord /\ RowChecks(task[t])
      BY DEF RowsOK, TypeOK, TableChecks
    <3>3. \A t \in Tasks : RowChecks(Released(t, "cancelled"))
      BY <3>2 DEF Released, TaskRecord, RowChecks
    <3> QED BY <3>1, <3>3
  <2>2. command' \in CommandLog
    BY <1>8 DEF CancelWorkflow, RowsOK, TypeOK, CommandLog
  <2>3. TypeOK'
    BY <1>8, <2>1, <2>2 DEF CancelWorkflow, RowsOK, TypeOK, RunRecord, Status, TerminalStatus
  <2>4. TableChecks'
    BY <1>8, <2>1 DEF CancelWorkflow, RowsOK, TypeOK, TableChecks
  <2> QED BY <2>3, <2>4 DEF RowsOK
<1>9. ASSUME NEW found \in SUBSET {t \in Tasks : Repairable(t)}, ReconcileWorkflows(found)
      PROVE RowsOK'
  <2>1. \A t \in Tasks : RepairedTask(t) \in TaskRecord /\ RowChecks(RepairedTask(t))
    BY RepairedTaskOK
  <2>2. run' \in [Runs -> RunRecord]
    BY <1>9 DEF ReconcileWorkflows, RowsOK, TypeOK, RunRecord, Status, ActiveStatus, TerminalStatus
  <2>3. TypeOK'
    BY <1>9, <2>1, <2>2 DEF ReconcileWorkflows, RowsOK, TypeOK
  <2>4. TableChecks'
    BY <1>9, <2>1 DEF ReconcileWorkflows, RowsOK, TypeOK, TableChecks
  <2> QED BY <2>3, <2>4 DEF RowsOK
<1>10. ASSUME NEW t \in Tasks, LeaseTick(t) \/ RetryDue(t) \/ WaitExpires(t) PROVE RowsOK'
  <2>1. task[t] \in TaskRecord /\ RowChecks(task[t])
    BY DEF RowsOK, TypeOK, TableChecks
  <2>2. PICK row \in TaskRecord : RowChecks(row) /\ task' = [task EXCEPT ![t] = row]
    <3>1. CASE LeaseTick(t)
      <4> DEFINE row == [task[t] EXCEPT !.lease = @ - 1]
      <4>1. row \in TaskRecord /\ RowChecks(row)
        BY <2>1, <3>1, BoundsAssumption DEF LeaseTick, TaskRecord, RowChecks
      <4>2. task' = [task EXCEPT ![t] = row]
        BY <3>1 DEF LeaseTick
      <4> QED BY <4>1, <4>2
    <3>2. CASE RetryDue(t)
      <4> DEFINE row == [task[t] EXCEPT !.delayed = FALSE]
      <4>1. row \in TaskRecord /\ RowChecks(row)
        BY <2>1 DEF TaskRecord, RowChecks
      <4>2. task' = [task EXCEPT ![t] = row]
        BY <3>2 DEF RetryDue
      <4> QED BY <4>1, <4>2
    <3>3. CASE WaitExpires(t)
      <4> DEFINE row == [task[t] EXCEPT !.waitOpen = FALSE]
      <4>1. row \in TaskRecord /\ RowChecks(row)
        BY <2>1 DEF TaskRecord, RowChecks
      <4>2. task' = [task EXCEPT ![t] = row]
        BY <3>3 DEF WaitExpires
      <4> QED BY <4>1, <4>2
    <3> QED BY <1>10, <3>1, <3>2, <3>3
  <2>3. UNCHANGED <<run, project, command>>
    BY <1>10 DEF LeaseTick, RetryDue, WaitExpires
  <2>4. TypeOK'
    BY <2>2, <2>3 DEF RowsOK, TypeOK
  <2>5. TableChecks'
    BY <2>2 DEF RowsOK, TypeOK, TableChecks
  <2> QED BY <2>4, <2>5 DEF RowsOK
<1>11. CASE UNCHANGED vars
  BY <1>11 DEF vars, RowsOK, TypeOK, TableChecks
<1> QED
  BY <1>1, <1>2, <1>3, <1>4, <1>5, <1>6, <1>7, <1>8, <1>9, <1>10, <1>11 DEF Next

\* Every reachable row has its type: no counter passes its budget, no lease
\* its term, no status leaves its set.
THEOREM TypeCorrect == Spec => []TypeOK
<1>1. RowsOK => TypeOK
  BY DEF RowsOK
<1> QED
  BY <1>1, RowsOKInit, RowsOKNext, PTL DEF Spec

\* The CHECK constraints of workflow_tasks hold in every reachable row, for
\* any number of runs, phases, attempts and workers.
THEOREM TableChecksHold == Spec => []TableChecks
<1>1. RowsOK => TableChecks
  BY DEF RowsOK
<1> QED
  BY <1>1, RowsOKInit, RowsOKNext, PTL DEF Spec

-----------------------------------------------------------------------------
(* A run row and the row of its current phase move together.                *)

\* Only the current phase of a run can be queued, running or waiting.
LEMMA ActiveTaskIsCurrent ==
    ASSUME RowsOK, RunMatchesCurrentTask, NEW t \in Tasks, task[t].status \in ActiveStatus
    PROVE  /\ t[1] \in Runs /\ t[2] = run[t[1]].phase
           /\ run[t[1]].status = task[t].status
<1>1. t[1] \in Runs /\ t[2] \in Phases /\ t = <<t[1], t[2]>>
  BY DEF Tasks
<1>2. run[t[1]].phase \in Phases
  BY <1>1 DEF RowsOK, TypeOK, RunRecord
<1>3. ~(t[2] < run[t[1]].phase)
  BY <1>1 DEF RunMatchesCurrentTask, RowsMatch, ActiveStatus
<1>4. ~(t[2] > run[t[1]].phase)
  <2>1. AbsentTask.status = "none"
    BY DEF AbsentTask
  <2>2. ASSUME t[2] > run[t[1]].phase PROVE task[<<t[1], t[2]>>] = AbsentTask
    BY <1>1, <2>2 DEF RunMatchesCurrentTask, RowsMatch
  <2> QED BY <1>1, <2>1, <2>2 DEF ActiveStatus
<1>5. t[2] = run[t[1]].phase
  BY <1>1, <1>2, <1>3, <1>4 DEF Phases
<1> QED
  BY <1>1, <1>5 DEF RunMatchesCurrentTask, RowsMatch

\* Most operations change the row of the current phase and give its new status
\* to the run.
LEMMA CurrentRowChange ==
    ASSUME RowsOK, RunMatchesCurrentTask, NEW t \in Tasks, NEW row,
           task[t].status \in ActiveStatus, row.status # "none",
           task' = [task EXCEPT ![t] = row],
           run' = [run EXCEPT ![t[1]] = [status |-> row.status, phase |-> t[2]]]
    PROVE  RunMatchesCurrentTask'
<1>1. t[1] \in Runs /\ t[2] = run[t[1]].phase /\ t = <<t[1], t[2]>>
  BY ActiveTaskIsCurrent DEF Tasks
<1>2. run \in [Runs -> RunRecord] /\ DOMAIN task = Tasks
  BY DEF RowsOK, TypeOK
<1>3. ASSUME NEW r \in Runs
      PROVE  /\ run'[r].phase = run[r].phase /\ run[r].phase \in Phases
             /\ run'[r].status = IF r = t[1] THEN row.status ELSE run[r].status
  BY <1>1, <1>2 DEF RunRecord
<1>4. ASSUME NEW r \in Runs, NEW p \in Phases
      PROVE  task'[<<r, p>>] = IF r = t[1] /\ p = run[r].phase THEN row ELSE task[<<r, p>>]
  <2>1. <<r, p>> \in Tasks
    BY DEF Tasks
  <2>2. <<r, p>> = t <=> r = t[1] /\ p = run[r].phase
    BY <1>1
  <2> QED BY <1>2, <2>1, <2>2
<1> SUFFICES ASSUME NEW r \in Runs
             PROVE  /\ run'[r].status = "none" => run'[r].phase = 1
                    /\ run'[r].status = task'[<<r, run'[r].phase>>].status
                    /\ \A p \in Phases :
                          /\ p < run'[r].phase => task'[<<r, p>>].status = "succeeded"
                          /\ p > run'[r].phase => task'[<<r, p>>] = AbsentTask
  BY DEF RunMatchesCurrentTask, RowsMatch
<1>5. run'[r].status = "none" => run'[r].phase = 1
  <2>1. run[r].status = "none" => run[r].phase = 1
    BY DEF RunMatchesCurrentTask, RowsMatch
  <2>2. CASE r = t[1]
    BY <1>3, <2>2
  <2>3. CASE r # t[1]
    BY <1>3, <2>1, <2>3
  <2> QED BY <2>2, <2>3
<1>6. run'[r].status = task'[<<r, run'[r].phase>>].status
  BY <1>3, <1>4 DEF RunMatchesCurrentTask, RowsMatch
<1>7. ASSUME NEW p \in Phases, p < run'[r].phase PROVE task'[<<r, p>>].status = "succeeded"
  <2>1. p < run[r].phase /\ p # run[r].phase
    BY <1>3, <1>7 DEF Phases
  <2>2. task'[<<r, p>>] = task[<<r, p>>]
    BY <1>4, <2>1
  <2> QED BY <2>1, <2>2 DEF RunMatchesCurrentTask, RowsMatch
<1>8. ASSUME NEW p \in Phases, p > run'[r].phase PROVE task'[<<r, p>>] = AbsentTask
  <2>1. p > run[r].phase /\ p # run[r].phase
    BY <1>3, <1>8 DEF Phases
  <2>2. task'[<<r, p>>] = task[<<r, p>>]
    BY <1>4, <2>1
  <2> QED BY <2>1, <2>2 DEF RunMatchesCurrentTask, RowsMatch
<1> QED
  BY <1>5, <1>6, <1>7, <1>8

\* A run whose rows an operation leaves alone still matches.
LEMMA UntouchedRun ==
    ASSUME RowsOK, NEW r \in Runs, RowsMatch(r), run'[r] = run[r],
           \A p \in Phases : task'[<<r, p>>] = task[<<r, p>>]
    PROVE  RowsMatch(r)'
<1>1. run[r].phase \in Phases
  BY DEF RowsOK, TypeOK, RunRecord
<1> QED BY <1>1 DEF RowsMatch

\* A run that was not started has no task rows.
LEMMA MatchInit == Init => RunMatchesCurrentTask
<1> SUFFICES ASSUME Init, NEW r \in Runs PROVE RowsMatch(r)
  BY DEF RunMatchesCurrentTask
<1>1. run[r] = [status |-> "none", phase |-> 1] /\ 1 \in Phases
  BY BoundsAssumption DEF Init, Phases
<1>2. \A p \in Phases : task[<<r, p>>] = AbsentTask
  BY DEF Init, Tasks
<1>3. \A p \in Phases : ~(p < 1)
  BY DEF Phases
<1>4. AbsentTask.status = "none"
  BY DEF AbsentTask
<1> QED BY <1>1, <1>2, <1>3, <1>4 DEF RowsMatch

\* startWorkflow gives a run its first phase and that phase its row.
LEMMA StartKeepsMatch ==
    ASSUME RowsOK, RunMatchesCurrentTask, NEW r \in Runs, NEW d \in Digests, StartWorkflow(r, d)
    PROVE  RunMatchesCurrentTask'
<1>1. run \in [Runs -> RunRecord] /\ task \in [Tasks -> TaskRecord] /\ 1 \in Phases
  BY BoundsAssumption DEF RowsOK, TypeOK, Phases
<1> SUFFICES ASSUME NEW s \in Runs PROVE RowsMatch(s)'
  BY DEF RunMatchesCurrentTask
<1>2. \A p \in Phases : task'[<<s, p>>] = IF s = r /\ p = 1 THEN NewTask(d) ELSE task[<<s, p>>]
  BY <1>1 DEF StartWorkflow, Tasks
<1>3. CASE s # r
  <2>1. run'[s] = run[s]
    BY <1>1, <1>3 DEF StartWorkflow
  <2> QED BY <1>2, <1>3, <2>1, UntouchedRun DEF RunMatchesCurrentTask
<1>4. CASE s = r
  <2>1. run'[s] = [status |-> "queued", phase |-> 1]
    BY <1>1, <1>4 DEF StartWorkflow
  <2>2. run[s].phase = 1
    BY <1>4 DEF StartWorkflow, RunMatchesCurrentTask, RowsMatch
  <2>3. NewTask(d).status = "queued"
    BY DEF NewTask, AbsentTask
  <2>4. \A p \in Phases : ~(p < 1) /\ (p > 1 => p # 1)
    BY DEF Phases
  <2>5. \A p \in Phases : p > 1 => task'[<<s, p>>] = AbsentTask
    BY <1>2, <2>2, <2>4 DEF RunMatchesCurrentTask, RowsMatch
  <2>6. task'[<<s, 1>>] = NewTask(d)
    BY <1>1, <1>2, <1>4
  <2> QED BY <2>1, <2>3, <2>4, <2>5, <2>6 DEF RowsMatch
<1> QED BY <1>3, <1>4

\* Setting the status of a run keeps its phase.
LEMMA StatusUpdate ==
    ASSUME RowsOK, NEW r \in Runs, NEW s
    PROVE  [run EXCEPT ![r].status = s]
             = [run EXCEPT ![r] = [status |-> s, phase |-> run[r].phase]]
<1>1. run[r] \in RunRecord
  BY DEF RowsOK, TypeOK
<1>2. [run[r] EXCEPT !.status = s] = [status |-> s, phase |-> run[r].phase]
  BY <1>1 DEF RunRecord
<1> QED BY <1>2

\* An operation that gives one status to the current row and to its run.
LEMMA StatusChange ==
    ASSUME RowsOK, RunMatchesCurrentTask, NEW t \in Tasks, NEW row,
           task[t].status \in ActiveStatus, row.status # "none",
           task' = [task EXCEPT ![t] = row],
           run' = [run EXCEPT ![t[1]].status = row.status]
    PROVE  RunMatchesCurrentTask'
<1>1. t[1] \in Runs /\ t[2] = run[t[1]].phase
  BY ActiveTaskIsCurrent
<1> DEFINE r == t[1]
           s == row.status
<1>2. run' = [run EXCEPT ![r] = [status |-> s, phase |-> t[2]]]
  <2>1. r \in Runs /\ t[2] = run[r].phase /\ run' = [run EXCEPT ![r].status = s]
    BY <1>1
  <2> HIDE DEF r, s
  <2>2. [run EXCEPT ![r].status = s] = [run EXCEPT ![r] = [status |-> s, phase |-> run[r].phase]]
    BY <2>1, StatusUpdate
  <2> QED BY <2>1, <2>2
<1> QED BY <1>2, CurrentRowChange

\* An operation that changes no status and no run.
LEMMA QuietChange ==
    ASSUME RowsOK, RunMatchesCurrentTask, NEW t \in Tasks, NEW row,
           task[t].status \in ActiveStatus, row.status = task[t].status,
           task' = [task EXCEPT ![t] = row], run' = run
    PROVE  RunMatchesCurrentTask'
<1>1. t[1] \in Runs /\ t[2] = run[t[1]].phase /\ run[t[1]].status = row.status
  BY ActiveTaskIsCurrent
<1>2. run[t[1]] \in RunRecord
  BY <1>1 DEF RowsOK, TypeOK
<1>3. run[t[1]] = [status |-> row.status, phase |-> t[2]]
  BY <1>1, <1>2 DEF RunRecord
<1>4. run' = [run EXCEPT ![t[1]] = [status |-> row.status, phase |-> t[2]]]
  <2>1. run \in [Runs -> RunRecord]
    BY DEF RowsOK, TypeOK
  <2>2. [run EXCEPT ![t[1]] = run[t[1]]] = run
    BY <2>1
  <2> QED BY <1>3, <2>2
<1>5. row.status # "none"
  BY DEF ActiveStatus
<1> QED BY <1>4, <1>5, CurrentRowChange

\* completeWorkflowTask hands the run to the successor it inserts, or ends it
\* with its last phase.
LEMMA CompleteKeepsMatch ==
    ASSUME RowsOK, RunMatchesCurrentTask, NEW w \in Workers, NEW t \in Tasks,
           NEW g \in Attempts, NEW d \in Digests, CompleteWorkflowTask(w, t, g, d)
    PROVE  RunMatchesCurrentTask'
<1> DEFINE done == [Released(t, "succeeded") EXCEPT !.output = d]
           r == t[1]
           next == <<t[1], t[2] + 1>>
<1>1. run \in [Runs -> RunRecord] /\ task \in [Tasks -> TaskRecord]
  BY DEF RowsOK, TypeOK
<1>2. task[t].status \in ActiveStatus
  BY DEF CompleteWorkflowTask, HoldsLease, ActiveStatus
<1>3. r \in Runs /\ t[2] \in Phases /\ t = <<r, t[2]>> /\ run[r].phase = t[2]
  BY <1>2, ActiveTaskIsCurrent DEF Tasks
<1>4. done.status = "succeeded"
  BY <1>1 DEF Released, TaskRecord
<1>5. CASE /\ t[2] < LastPhase
           /\ task' = [task EXCEPT ![t] = done,
                                   ![next] = IF @.status = "none" THEN NewTask(d) ELSE @]
           /\ run' = [run EXCEPT ![r] = [status |-> "queued", phase |-> next[2]]]
  <2>1. next \in Tasks /\ next[2] \in Phases /\ next # t /\ next[2] > t[2]
    BY <1>3, <1>5, BoundsAssumption DEF Tasks, Phases
  <2>2. task[next] = AbsentTask
    BY <1>3, <2>1 DEF RunMatchesCurrentTask, RowsMatch
  <2>3. task'[next] = NewTask(d)
    <3>1. AbsentTask.status = "none"
      BY DEF AbsentTask
    <3> QED BY <1>1, <1>5, <2>1, <2>2, <3>1
  <2>4. task'[t] = done
    BY <1>1, <1>5, <2>1
  <2>5. \A u \in Tasks : u # t /\ u # next => task'[u] = task[u]
    BY <1>1, <1>5
  <2>6. ASSUME NEW s \in Runs, s # r PROVE RowsMatch(s)'
    <3>1. run'[s] = run[s]
      BY <1>1, <1>5, <2>6
    <3>2. \A p \in Phases : task'[<<s, p>>] = task[<<s, p>>]
      BY <1>3, <2>5, <2>6 DEF Tasks
    <3> QED BY <3>1, <3>2, UntouchedRun DEF RunMatchesCurrentTask
  <2>7. RowsMatch(r)'
    <3>1. run'[r] = [status |-> "queued", phase |-> t[2] + 1]
      BY <1>1, <1>3, <1>5
    <3>2. NewTask(d).status = "queued"
      BY DEF NewTask, AbsentTask
    <3>3. ASSUME NEW p \in Phases, p < t[2] + 1 PROVE task'[<<r, p>>].status = "succeeded"
      <4>1. CASE p = t[2]
        BY <1>3, <1>4, <2>4, <4>1
      <4>2. CASE p # t[2]
        <5>1. p < t[2] /\ <<r, p>> # t /\ <<r, p>> # next /\ <<r, p>> \in Tasks
          BY <1>3, <3>3, <4>2 DEF Phases, Tasks
        <5>2. task[<<r, p>>].status = "succeeded"
          BY <1>3, <5>1 DEF RunMatchesCurrentTask, RowsMatch
        <5> QED BY <2>5, <5>1, <5>2
      <4> QED BY <4>1, <4>2
    <3>4. ASSUME NEW p \in Phases, p > t[2] + 1 PROVE task'[<<r, p>>] = AbsentTask
      <4>1. p > t[2] /\ <<r, p>> # t /\ <<r, p>> # next /\ <<r, p>> \in Tasks
        BY <1>3, <3>4 DEF Phases, Tasks
      <4>2. task[<<r, p>>] = AbsentTask
        BY <1>3, <4>1 DEF RunMatchesCurrentTask, RowsMatch
      <4> QED BY <2>5, <4>1, <4>2
    <3>5. task'[<<r, t[2] + 1>>].status = "queued"
      BY <2>3, <3>2
    <3> QED BY <3>1, <3>3, <3>4, <3>5 DEF RowsMatch
  <2> QED BY <2>6, <2>7 DEF RunMatchesCurrentTask
<1>6. CASE /\ task' = [task EXCEPT ![t] = done]
           /\ run' = [run EXCEPT ![r].status = "succeeded"]
  <2> HIDE DEF done
  <2>0. run' = [run EXCEPT ![r] = [status |-> "succeeded", phase |-> run[r].phase]]
    BY <1>3, <1>6, StatusUpdate
  <2>1. run' = [run EXCEPT ![r] = [status |-> done.status, phase |-> t[2]]]
    BY <1>3, <1>4, <2>0
  <2> QED BY <1>2, <1>4, <1>6, <2>1, CurrentRowChange
<1> QED BY <1>5, <1>6 DEF CompleteWorkflowTask, HasSuccessor, Successor

\* cancelWorkflow ends a run with the one task of it that is still active.
LEMMA CancelKeepsMatch ==
    ASSUME RowsOK, RunMatchesCurrentTask, NEW r \in Runs, NEW key \in AppKeys,
           CancelWorkflow(r, key)
    PROVE  RunMatchesCurrentTask'
<1>1. run \in [Runs -> RunRecord] /\ task \in [Tasks -> TaskRecord]
  BY DEF RowsOK, TypeOK
<1> SUFFICES ASSUME NEW s \in Runs PROVE RowsMatch(s)'
  BY DEF RunMatchesCurrentTask
<1>2. \A p \in Phases : <<s, p>> \in Tasks
  BY DEF Tasks
<1>3. CASE s # r
  <2>1. run'[s] = run[s]
    BY <1>1, <1>3 DEF CancelWorkflow
  <2>2. \A p \in Phases : task'[<<s, p>>] = task[<<s, p>>]
    BY <1>2, <1>3 DEF CancelWorkflow
  <2> QED BY <2>1, <2>2, UntouchedRun DEF RunMatchesCurrentTask
<1>4. CASE s = r
  <2> DEFINE n == run[r].phase
  <2>1. run'[r] = [status |-> "cancelled", phase |-> n] /\ n \in Phases
    BY <1>1, StatusUpdate DEF CancelWorkflow, RunRecord
  <2>2. task'[<<r, n>>] = Released(<<r, n>>, "cancelled")
    BY <1>2, <1>4, <2>1 DEF CancelWorkflow, RunIsActive, RunMatchesCurrentTask, RowsMatch
  <2>3. Released(<<r, n>>, "cancelled").status = "cancelled"
    BY <1>1, <1>2, <1>4, <2>1 DEF Released, TaskRecord
  <2>4. \A p \in Phases : task[<<r, p>>].status \notin ActiveStatus => task'[<<r, p>>] = task[<<r, p>>]
    BY <1>2, <1>4 DEF CancelWorkflow
  <2>5. ASSUME NEW p \in Phases, p < n PROVE task'[<<r, p>>].status = "succeeded"
    BY <2>4, <2>5 DEF RunMatchesCurrentTask, RowsMatch, ActiveStatus
  <2>6. ASSUME NEW p \in Phases, p > n PROVE task'[<<r, p>>] = AbsentTask
    <3>1. AbsentTask.status \notin ActiveStatus
      BY DEF AbsentTask, ActiveStatus
    <3>2. task[<<r, p>>] = AbsentTask
      BY <2>6 DEF RunMatchesCurrentTask, RowsMatch
    <3> QED BY <2>4, <3>1, <3>2
  <2> HIDE DEF n
  <2> QED BY <1>4, <2>1, <2>2, <2>3, <2>5, <2>6 DEF RowsMatch
<1> QED BY <1>3, <1>4

\* A repair may touch many runs, but of each it touches the current row.
LEMMA ReconcileKeepsMatch ==
    ASSUME RowsOK, RunMatchesCurrentTask, NEW found \in SUBSET {t \in Tasks : Repairable(t)},
           ReconcileWorkflows(found)
    PROVE  RunMatchesCurrentTask'
<1>1. run \in [Runs -> RunRecord] /\ task \in [Tasks -> TaskRecord]
  BY DEF RowsOK, TypeOK
<1>2. ASSUME NEW t \in found
      PROVE  /\ t \in Tasks /\ t[1] \in Runs /\ t = <<t[1], t[2]>> /\ t[2] = run[t[1]].phase
             /\ task[t].status \in ActiveStatus
  <2>1. t \in Tasks /\ task[t].status \in ActiveStatus
    BY DEF Repairable, LeaseExpired, ActiveStatus
  <2> QED BY <2>1, ActiveTaskIsCurrent DEF Tasks
<1> SUFFICES ASSUME NEW s \in Runs PROVE RowsMatch(s)'
  BY DEF RunMatchesCurrentTask
<1>3. run[s].phase \in Phases /\ \A p \in Phases : <<s, p>> \in Tasks
  BY <1>1 DEF RunRecord, Tasks
<1>4. \A p \in Phases : p # run[s].phase => task'[<<s, p>>] = task[<<s, p>>]
  <2>1. \A p \in Phases : p # run[s].phase => <<s, p>> \notin found
    BY <1>2
  <2> QED BY <1>3, <2>1 DEF ReconcileWorkflows
<1>5. CASE ~\E t \in found : t[1] = s
  <2>1. run'[s] = run[s]
    BY <1>5 DEF ReconcileWorkflows
  <2>2. <<s, run[s].phase>> \notin found
    BY <1>5
  <2>3. task'[<<s, run[s].phase>>] = task[<<s, run[s].phase>>]
    BY <1>3, <2>2 DEF ReconcileWorkflows
  <2>4. \A p \in Phases : task'[<<s, p>>] = task[<<s, p>>]
    BY <1>4, <2>3
  <2> QED BY <2>1, <2>4, UntouchedRun DEF RunMatchesCurrentTask
<1>6. CASE \E t \in found : t[1] = s
  <2> DEFINE u == <<s, run[s].phase>>
             verdict == IF task[u].attempts >= MaxAttempts THEN "failed" ELSE "queued"
  <2>1. u \in found /\ u[1] = s /\ \A t \in found : t[1] = s => t = u
    BY <1>2, <1>6
  <2>2. run'[s] = [run[s] EXCEPT !.status = verdict]
    BY <2>1 DEF ReconcileWorkflows
  <2>3. run'[s].status = verdict /\ run'[s].phase = run[s].phase
    BY <1>1, <2>2 DEF RunRecord
  <2>4. task'[u] = RepairedTask(u)
    BY <1>3, <2>1 DEF ReconcileWorkflows
  <2>5. RepairedTask(u).status = verdict
    <3>1. \A v \in Status : Released(u, v) \in TaskRecord /\ Released(u, v).status = v
      BY <1>1, <1>3, ReleasedType DEF RowsOK, Released, TaskRecord
    <3>2. "failed" \in Status /\ "queued" \in Status
      BY DEF Status, TerminalStatus, ActiveStatus
    <3> QED BY <3>1, <3>2 DEF RepairedTask, TaskRecord
  <2>6. verdict # "none"
    OBVIOUS
  <2> HIDE DEF verdict
  <2>7. \A p \in Phases : p < run[s].phase \/ p > run[s].phase => p # run[s].phase
    BY <1>3 DEF Phases
  <2> QED BY <1>4, <2>3, <2>4, <2>5, <2>6, <2>7 DEF RunMatchesCurrentTask, RowsMatch
<1> QED BY <1>5, <1>6

\* Every operation moves a run and the row of its current phase together.
LEMMA MatchNext == RowsOK /\ RunMatchesCurrentTask /\ [Next]_vars => RunMatchesCurrentTask'
<1> SUFFICES ASSUME RowsOK, RunMatchesCurrentTask, [Next]_vars PROVE RunMatchesCurrentTask'
  OBVIOUS
<1>0. run \in [Runs -> RunRecord] /\ task \in [Tasks -> TaskRecord]
  BY DEF RowsOK, TypeOK
<1>1. ASSUME NEW r \in Runs, NEW d \in Digests, StartWorkflow(r, d) PROVE RunMatchesCurrentTask'
  BY <1>1, StartKeepsMatch
<1>2. ASSUME NEW w \in Workers, NEW t \in Tasks, ClaimWorkflowTask(w, t)
      PROVE RunMatchesCurrentTask'
  <2>1. task[t].status \in ActiveStatus
    BY <1>2 DEF ClaimWorkflowTask, Claimable, Ready, LeaseExpired, ActiveStatus
  <2>2. Leased(t, w).status = "running"
    BY <1>0 DEF Leased, TaskRecord
  <2> QED BY <1>2, <2>1, <2>2, CurrentRowChange DEF ClaimWorkflowTask
<1>3. ASSUME NEW w \in Workers, NEW t \in Tasks, NEW g \in Attempts,
             HeartbeatWorkflowTask(w, t, g) PROVE RunMatchesCurrentTask'
  <2> DEFINE row == [task[t] EXCEPT !.lease = LeaseTerm]
  <2>1. task[t].status \in ActiveStatus
    BY <1>3 DEF HeartbeatWorkflowTask, HoldsLease, ActiveStatus
  <2>2. row.status = task[t].status
    BY <1>0 DEF TaskRecord
  <2>3. task' = [task EXCEPT ![t] = row] /\ run' = run
    BY <1>3 DEF HeartbeatWorkflowTask, HoldsLease
  <2> HIDE DEF row
  <2> QED BY <2>1, <2>2, <2>3, QuietChange
<1>4. ASSUME NEW w \in Workers, NEW t \in Tasks, NEW g \in Attempts, NEW d \in Digests,
             CompleteWorkflowTask(w, t, g, d) PROVE RunMatchesCurrentTask'
  BY <1>4, CompleteKeepsMatch
<1>5. ASSUME NEW w \in Workers, NEW t \in Tasks, NEW g \in Attempts, NEW c \in Classifications,
             FailWorkflowTask(w, t, g, c) PROVE RunMatchesCurrentTask'
  <2>1. task[t].status \in ActiveStatus
    BY <1>5 DEF FailWorkflowTask, HoldsLease, ActiveStatus
  <2>2. CASE /\ task' = [task EXCEPT ![t] = Released(t, "failed")]
             /\ run' = [run EXCEPT ![t[1]].status = "failed"]
    <3>1. Released(t, "failed").status = "failed"
      BY <1>0 DEF Released, TaskRecord
    <3> QED BY <2>1, <2>2, <3>1, StatusChange
  <2>3. CASE /\ task' = [task EXCEPT ![t] = [Released(t, "queued") EXCEPT !.delayed = TRUE]]
             /\ run' = [run EXCEPT ![t[1]].status = "queued"]
    <3> DEFINE delayed == [Released(t, "queued") EXCEPT !.delayed = TRUE]
    <3>1. delayed.status = "queued"
      BY <1>0 DEF Released, TaskRecord
    <3> HIDE DEF delayed
    <3> QED BY <2>1, <2>3, <3>1, StatusChange DEF delayed
  <2> QED BY <1>5, <2>2, <2>3 DEF FailWorkflowTask
<1>6. ASSUME NEW w \in Workers, NEW t \in Tasks, NEW g \in Attempts,
             WaitWorkflowTask(w, t, g) PROVE RunMatchesCurrentTask'
  <2> DEFINE suspended == [Released(t, "waiting") EXCEPT !.waitToken = g, !.waitOpen = TRUE]
  <2>1. task[t].status \in ActiveStatus
    BY <1>6 DEF WaitWorkflowTask, HoldsLease, ActiveStatus
  <2>2. suspended.status = "waiting"
    BY <1>0 DEF Released, TaskRecord
  <2> QED BY <1>6, <2>1, <2>2, StatusChange DEF WaitWorkflowTask
<1>7. ASSUME NEW r \in Runs, NEW token \in Tokens, NEW key \in AppKeys,
             ResumeWorkflowTask(r, token, key) PROVE RunMatchesCurrentTask'
  <2> DEFINE t == <<r, token[1]>>
             resumed == [task[t] EXCEPT !.status = "queued", !.delayed = FALSE]
  <2>1. t \in Tasks /\ t[1] = r
    BY DEF Tasks, Tokens
  <2>2. task[t].status \in ActiveStatus
    BY <1>7 DEF ResumeWorkflowTask, ActiveStatus
  <2>3. task' = [task EXCEPT ![t] = resumed]
    BY <1>0, <1>7, <2>1 DEF ResumeWorkflowTask
  <2>4. resumed.status = "queued"
    BY <1>0, <2>1 DEF TaskRecord
  <2> HIDE DEF t, resumed
  <2>5. run' = [run EXCEPT ![t[1]].status = "queued"]
    BY <1>7, <2>1 DEF ResumeWorkflowTask
  <2> QED BY <2>1, <2>2, <2>3, <2>4, <2>5, StatusChange
<1>8. ASSUME NEW r \in Runs, NEW key \in AppKeys, CancelWorkflow(r, key)
      PROVE RunMatchesCurrentTask'
  BY <1>8, CancelKeepsMatch
<1>9. ASSUME NEW found \in SUBSET {t \in Tasks : Repairable(t)}, ReconcileWorkflows(found)
      PROVE RunMatchesCurrentTask'
  BY <1>9, ReconcileKeepsMatch
<1>10. ASSUME NEW t \in Tasks, LeaseTick(t) \/ RetryDue(t) \/ WaitExpires(t)
       PROVE RunMatchesCurrentTask'
  <2>1. CASE LeaseTick(t)
    <3> DEFINE row == [task[t] EXCEPT !.lease = @ - 1]
    <3>1. task[t].status \in ActiveStatus
      BY <2>1 DEF LeaseTick, ActiveStatus
    <3>2. row.status = task[t].status
      BY <1>0 DEF TaskRecord
    <3>3. task' = [task EXCEPT ![t] = row] /\ run' = run
      BY <2>1 DEF LeaseTick
    <3> HIDE DEF row
    <3> QED BY <3>1, <3>2, <3>3, QuietChange
  <2>2. CASE RetryDue(t)
    <3> DEFINE row == [task[t] EXCEPT !.delayed = FALSE]
    <3>1. task[t].status \in ActiveStatus
      BY <2>2 DEF RetryDue, ActiveStatus
    <3>2. row.status = task[t].status
      BY <1>0 DEF TaskRecord
    <3>3. task' = [task EXCEPT ![t] = row] /\ run' = run
      BY <2>2 DEF RetryDue
    <3> HIDE DEF row
    <3> QED BY <3>1, <3>2, <3>3, QuietChange
  <2>3. CASE WaitExpires(t)
    <3> DEFINE row == [task[t] EXCEPT !.waitOpen = FALSE]
    <3>1. task[t].status \in ActiveStatus
      BY <2>3 DEF WaitExpires, ActiveStatus
    <3>2. row.status = task[t].status
      BY <1>0 DEF TaskRecord
    <3>3. task' = [task EXCEPT ![t] = row] /\ run' = run
      BY <2>3 DEF WaitExpires
    <3> HIDE DEF row
    <3> QED BY <3>1, <3>2, <3>3, QuietChange
  <2> QED BY <1>10, <2>1, <2>2, <2>3
<1>11. CASE UNCHANGED vars
  BY <1>11 DEF vars, RunMatchesCurrentTask, RowsMatch
<1> QED
  BY <1>1, <1>2, <1>3, <1>4, <1>5, <1>6, <1>7, <1>8, <1>9, <1>10, <1>11 DEF Next

\* At every reachable state the run row and the row of its current phase agree,
\* whatever the number of runs, phases, workers and attempts.
THEOREM RunMatches == Spec => []RunMatchesCurrentTask
<1>1. Init => RowsOK /\ RunMatchesCurrentTask
  BY RowsOKInit, MatchInit
<1>2. RowsOK /\ RunMatchesCurrentTask /\ [Next]_vars => (RowsOK /\ RunMatchesCurrentTask)'
  BY RowsOKNext, MatchNext
<1> QED
  BY <1>1, <1>2, PTL DEF Spec

-----------------------------------------------------------------------------
(* The transition triggers accept every step.                               *)

\* A legal change of the row of the current phase, with its run following.
LEMMA CurrentRowAccepted ==
    ASSUME RowsOK, RunMatchesCurrentTask, NEW t \in Tasks, NEW row,
           task[t].status \in ActiveStatus,
           <<task[t].status, row.status>> \in TaskTransitions,
           row.input = task[t].input,
           row.generation >= task[t].generation, row.attempts >= task[t].attempts,
           task' = [task EXCEPT ![t] = row],
           \A s \in Runs : run'[s] # run[s] =>
              s = t[1] /\ run'[s] = [status |-> row.status, phase |-> run[s].phase]
    PROVE  StepAccepted
<1>1. task \in [Tasks -> TaskRecord]
  BY DEF RowsOK, TypeOK
<1>2. t[1] \in Runs /\ run[t[1]].status = task[t].status
  BY ActiveTaskIsCurrent
<1>3. task[t].status # "none"
  BY DEF ActiveStatus
<1>4. ASSUME NEW s \in Runs, run'[s] # run[s] PROVE RunTriggersAccept(s)
  <2>0. s = t[1] /\ run'[s] = [status |-> row.status, phase |-> run[s].phase]
    BY <1>4
  <2>1. run'[s].status = row.status /\ run'[s].phase = run[s].phase /\ run[s].status = task[t].status
    <3>1. run'[s].status = row.status
      BY <2>0
    <3>2. run'[s].phase = run[s].phase
      BY <2>0
    <3> QED BY <1>2, <2>0, <3>1, <3>2
  <2>2. <<task[t].status, row.status>> \in RunTransitions
    BY DEF TaskTransitions, RunTransitions
  <2> QED BY <1>3, <2>1, <2>2 DEF RunTriggersAccept
<1>5. ASSUME NEW u \in Tasks, task'[u] # task[u] PROVE TaskTriggersAccept(u)
  <2>1. u = t /\ task'[u] = row
    BY <1>1, <1>5
  <2> QED BY <1>3, <2>1 DEF TaskTriggersAccept
<1> QED BY <1>4, <1>5 DEF StepAccepted

\* The insert triggers accept what startWorkflow inserts.
LEMMA StartAccepted ==
    ASSUME RowsOK, RunMatchesCurrentTask, NEW r \in Runs, NEW d \in Digests, StartWorkflow(r, d)
    PROVE  StepAccepted
<1>1. run \in [Runs -> RunRecord] /\ task \in [Tasks -> TaskRecord] /\ <<r, 1>> \in Tasks
  BY BoundsAssumption DEF RowsOK, TypeOK, Phases, Tasks
<1>2. run[r].status = "none" /\ task[<<r, 1>>].status = "none"
  BY DEF StartWorkflow, RunMatchesCurrentTask, RowsMatch
<1>3. run'[r] = [status |-> "queued", phase |-> 1] /\ task'[<<r, 1>>] = NewTask(d)
  BY <1>1 DEF StartWorkflow
<1>4. ASSUME NEW s \in Runs, run'[s] # run[s] PROVE RunTriggersAccept(s)
  <2>1. s = r
    BY <1>1, <1>4 DEF StartWorkflow
  <2> QED BY <1>2, <1>3, <2>1 DEF RunTriggersAccept
<1>5. ASSUME NEW u \in Tasks, task'[u] # task[u] PROVE TaskTriggersAccept(u)
  <2>1. u = <<r, 1>>
    BY <1>1, <1>5 DEF StartWorkflow
  <2>2. NewTask(d).input = d /\ d # None
    BY NullAssumption DEF NewTask, AbsentTask
  <2>3. task'[u] = NewTask(task'[u].input) /\ task'[u].input # None
    BY <1>3, <2>1, <2>2
  <2>4. run'[u[1]].phase = u[2] /\ ~(u[2] > 1)
    BY <1>3, <2>1
  <2>5. task[u].status = "none"
    BY <1>2, <2>1
  <2> QED BY <2>3, <2>4, <2>5 DEF TaskTriggersAccept
<1> QED BY <1>4, <1>5 DEF StepAccepted

\* The triggers accept a completion: the phase advances by one, after the
\* predecessor succeeded and with its output as the input of the successor.
LEMMA CompleteAccepted ==
    ASSUME RowsOK, RunMatchesCurrentTask, NEW w \in Workers, NEW t \in Tasks,
           NEW g \in Attempts, NEW d \in Digests, CompleteWorkflowTask(w, t, g, d)
    PROVE  StepAccepted
<1> DEFINE done == [Released(t, "succeeded") EXCEPT !.output = d]
           r == t[1]
           next == <<t[1], t[2] + 1>>
<1>1. run \in [Runs -> RunRecord] /\ task \in [Tasks -> TaskRecord]
  BY DEF RowsOK, TypeOK
<1>2. task[t].status = "running"
  BY DEF CompleteWorkflowTask, HoldsLease
<1>3. r \in Runs /\ t[2] \in Phases /\ t = <<r, t[2]>> /\ run[r].phase = t[2]
      /\ run[r].status = "running"
  BY <1>2, ActiveTaskIsCurrent DEF Tasks, ActiveStatus
<1>4. /\ done.status = "succeeded" /\ done.output = d
      /\ done.input = task[t].input
      /\ done.generation = task[t].generation /\ done.attempts = task[t].attempts
  BY <1>1 DEF Released, TaskRecord
<1>5. /\ task[t].generation \in Nat /\ task[t].attempts \in Nat
  BY <1>1, BoundsAssumption DEF TaskRecord, Attempts
<1>6. <<"running", "succeeded">> \in TaskTransitions
  BY DEF TaskTransitions
<1>7. CASE /\ t[2] < LastPhase
           /\ task' = [task EXCEPT ![t] = done,
                                   ![next] = IF @.status = "none" THEN NewTask(d) ELSE @]
           /\ run' = [run EXCEPT ![r] = [status |-> "queued", phase |-> next[2]]]
  <2> HIDE DEF done
  <2>1. next \in Tasks /\ next # t /\ next[2] > t[2] /\ next[2] > 1 /\ next[2] - 1 = t[2]
    BY <1>3, <1>7, BoundsAssumption DEF Tasks, Phases
  <2>2. task[next].status = "none"
    <3>1. task[next] = AbsentTask
      BY <1>3, <2>1 DEF RunMatchesCurrentTask, RowsMatch, Tasks
    <3> QED BY <3>1 DEF AbsentTask
  <2>3. task'[next] = NewTask(d) /\ task'[t] = done
    BY <1>1, <1>7, <2>1, <2>2
  <2>4. run'[r] = [status |-> "queued", phase |-> t[2] + 1]
    BY <1>1, <1>3, <1>7
  <2>5. ASSUME NEW s \in Runs, run'[s] # run[s] PROVE RunTriggersAccept(s)
    <3>1. s = r
      BY <1>1, <1>7, <2>5
    <3>2. <<"running", "queued">> \in RunTransitions
      BY DEF RunTransitions
    <3>3. task'[<<r, run[r].phase>>].status = "succeeded"
      BY <1>3, <1>4, <2>3
    <3> QED BY <1>3, <2>4, <3>1, <3>2, <3>3 DEF RunTriggersAccept
  <2>6. TaskTriggersAccept(t)
    BY <1>2, <1>4, <1>5, <1>6, <2>3 DEF TaskTriggersAccept
  <2>7. TaskTriggersAccept(next)
    <3>1. NewTask(d).input = d /\ d # None
      BY NullAssumption DEF NewTask, AbsentTask
    <3>2. task'[<<next[1], next[2] - 1>>] = done
      BY <1>3, <2>1, <2>3
    <3>3. run'[next[1]].phase = next[2]
      BY <2>4
    <3> HIDE DEF next
    <3> QED BY <1>4, <2>2, <2>3, <3>1, <3>2, <3>3 DEF TaskTriggersAccept
  <2>8. ASSUME NEW u \in Tasks, task'[u] # task[u] PROVE u = t \/ u = next
    BY <1>1, <1>7, <2>8
  <2> QED BY <2>5, <2>6, <2>7, <2>8 DEF StepAccepted
<1>8. CASE /\ task' = [task EXCEPT ![t] = done]
           /\ run' = [run EXCEPT ![r].status = "succeeded"]
  <2>1. ASSUME NEW s \in Runs, run'[s] # run[s]
        PROVE  s = r /\ run'[s] = [status |-> "succeeded", phase |-> run[s].phase]
    <3>1. run' = [run EXCEPT ![r] = [status |-> "succeeded", phase |-> run[r].phase]]
      BY <1>3, <1>8, StatusUpdate
    <3> QED BY <1>1, <1>3, <2>1, <3>1
  <2> HIDE DEF done
  <2>2. task[t].status \in ActiveStatus
    BY <1>2 DEF ActiveStatus
  <2>3. done.generation >= task[t].generation /\ done.attempts >= task[t].attempts
    BY <1>4, <1>5
  <2> QED BY <1>2, <1>4, <1>6, <1>8, <2>1, <2>2, <2>3, CurrentRowAccepted
<1> QED BY <1>7, <1>8 DEF CompleteWorkflowTask, HasSuccessor, Successor

\* Releasing a row changes nothing but its status and its lease.
LEMMA ReleasedKeeps ==
    ASSUME TypeOK, NEW t \in Tasks, NEW s
    PROVE  /\ Released(t, s).status = s
           /\ Released(t, s).input = task[t].input
           /\ Released(t, s).output = task[t].output
           /\ Released(t, s).generation = task[t].generation
           /\ Released(t, s).attempts = task[t].attempts
           /\ task[t].generation \in Nat /\ task[t].attempts \in Nat
<1>1. task[t] \in TaskRecord
  BY DEF TypeOK
<1>2. task[t].generation \in Nat /\ task[t].attempts \in Nat
  BY <1>1, BoundsAssumption DEF TaskRecord, Attempts
<1> QED BY <1>1, <1>2 DEF Released, TaskRecord

\* A legal status change of the current row, written to its run as well.
LEMMA StatusAccepted ==
    ASSUME RowsOK, RunMatchesCurrentTask, NEW t \in Tasks, NEW row,
           <<task[t].status, row.status>> \in TaskTransitions,
           row.input = task[t].input,
           row.generation = task[t].generation, row.attempts = task[t].attempts,
           task' = [task EXCEPT ![t] = row],
           run' = [run EXCEPT ![t[1]].status = row.status]
    PROVE  StepAccepted
<1> DEFINE r == t[1]
           v == row.status
<1>1. task[t].status \in ActiveStatus
  BY DEF TaskTransitions, ActiveStatus
<1>2. r \in Runs
  BY DEF Tasks
<1>3. task[t].generation \in Nat /\ task[t].attempts \in Nat
  BY ReleasedKeeps DEF RowsOK
<1>4. ASSUME NEW s \in Runs, run'[s] # run[s]
      PROVE  s = r /\ run'[s] = [status |-> v, phase |-> run[s].phase]
  <2>1. run' = [run EXCEPT ![r].status = v]
    OBVIOUS
  <2> HIDE DEF r, v
  <2>2. run' = [run EXCEPT ![r] = [status |-> v, phase |-> run[r].phase]]
    BY <1>2, <2>1, StatusUpdate
  <2> QED BY <1>2, <1>4, <2>2 DEF RowsOK, TypeOK
<1>5. row.generation >= task[t].generation /\ row.attempts >= task[t].attempts
  BY <1>3
<1> QED BY <1>1, <1>4, <1>5, CurrentRowAccepted

\* A change of the current row that leaves its status and its run alone.
LEMMA QuietAccepted ==
    ASSUME RowsOK, RunMatchesCurrentTask, NEW t \in Tasks, NEW row,
           task[t].status \in ActiveStatus, row.status = task[t].status,
           row.input = task[t].input,
           row.generation = task[t].generation, row.attempts = task[t].attempts,
           task' = [task EXCEPT ![t] = row], run' = run
    PROVE  StepAccepted
<1>1. <<task[t].status, row.status>> \in TaskTransitions
  BY DEF TaskTransitions, ActiveStatus
<1>2. task[t].generation \in Nat /\ task[t].attempts \in Nat
  BY ReleasedKeeps DEF RowsOK
<1>3. row.generation >= task[t].generation /\ row.attempts >= task[t].attempts
  BY <1>2
<1> QED BY <1>1, <1>3, CurrentRowAccepted

\* A transaction that releases several rows and gives their runs their status.
LEMMA ReleasesAccepted ==
    ASSUME RowsOK, NEW touched \in SUBSET Tasks,
           \A t \in Tasks \ touched : task'[t] = task[t],
           \A t \in touched :
              /\ <<task[t].status, task'[t].status>> \in TaskTransitions
              /\ task'[t].input = task[t].input
              /\ task'[t].generation = task[t].generation
              /\ task'[t].attempts = task[t].attempts,
           \A s \in Runs : run'[s] # run[s] =>
              /\ <<run[s].status, run'[s].status>> \in RunTransitions
              /\ run'[s].phase = run[s].phase
    PROVE  StepAccepted
<1>1. ASSUME NEW t \in Tasks, task'[t] # task[t] PROVE TaskTriggersAccept(t)
  <2>1. t \in touched
    BY <1>1
  <2>2. task[t].generation \in Nat /\ task[t].attempts \in Nat
    BY ReleasedKeeps DEF RowsOK
  <2>3. task[t].status # "none"
    BY <2>1 DEF TaskTransitions
  <2> QED BY <2>1, <2>2, <2>3 DEF TaskTriggersAccept
<1>2. ASSUME NEW s \in Runs, run'[s] # run[s] PROVE RunTriggersAccept(s)
  <2>1. run[s].status # "none"
    BY <1>2 DEF RunTransitions
  <2> QED BY <1>2, <2>1 DEF RunTriggersAccept
<1> QED BY <1>1, <1>2 DEF StepAccepted

\* The triggers accept the rows cancelWorkflow cancels.
LEMMA CancelAccepted ==
    ASSUME RowsOK, RunMatchesCurrentTask, NEW r \in Runs, NEW key \in AppKeys,
           CancelWorkflow(r, key)
    PROVE  StepAccepted
<1> DEFINE touched == {t \in Tasks : t[1] = r /\ task[t].status \in ActiveStatus}
<1>1. \A t \in Tasks \ touched : task'[t] = task[t]
  BY DEF CancelWorkflow
<1>2. ASSUME NEW t \in touched
      PROVE  /\ <<task[t].status, task'[t].status>> \in TaskTransitions
             /\ task'[t].input = task[t].input
             /\ task'[t].generation = task[t].generation
             /\ task'[t].attempts = task[t].attempts
  <2>1. task'[t] = Released(t, "cancelled")
    BY DEF CancelWorkflow
  <2>2. <<task[t].status, "cancelled">> \in TaskTransitions
    BY DEF TaskTransitions, ActiveStatus
  <2> QED BY <2>1, <2>2, ReleasedKeeps DEF RowsOK
<1>3. ASSUME NEW s \in Runs, run'[s] # run[s]
      PROVE  /\ <<run[s].status, run'[s].status>> \in RunTransitions
             /\ run'[s].phase = run[s].phase
  <2>1. run' = [run EXCEPT ![r] = [status |-> "cancelled", phase |-> run[r].phase]]
    BY StatusUpdate DEF CancelWorkflow
  <2>2. s = r /\ run'[s] = [status |-> "cancelled", phase |-> run[r].phase]
    BY <1>3, <2>1 DEF RowsOK, TypeOK
  <2>3. <<run[r].status, "cancelled">> \in RunTransitions
    BY DEF CancelWorkflow, RunIsActive, ActiveStatus, RunTransitions
  <2> QED BY <2>2, <2>3
<1> QED BY <1>1, <1>2, <1>3, ReleasesAccepted

\* The triggers accept what the reconciler makes of expired leases, however
\* many runs it repairs in one transaction.
LEMMA ReconcileAccepted ==
    ASSUME RowsOK, RunMatchesCurrentTask, NEW found \in SUBSET {t \in Tasks : Repairable(t)},
           ReconcileWorkflows(found)
    PROVE  StepAccepted
<1>1. \A t \in Tasks \ found : task'[t] = task[t]
  BY DEF ReconcileWorkflows
<1>2. ASSUME NEW t \in found
      PROVE  /\ <<task[t].status, task'[t].status>> \in TaskTransitions
             /\ task'[t].input = task[t].input
             /\ task'[t].generation = task[t].generation
             /\ task'[t].attempts = task[t].attempts
  <2>1. t \in Tasks /\ task'[t] = RepairedTask(t) /\ task[t].status = "running"
    BY DEF ReconcileWorkflows, Repairable, LeaseExpired
  <2>2. /\ RepairedTask(t).status \in {"failed", "queued"}
        /\ RepairedTask(t).input = task[t].input
        /\ RepairedTask(t).generation = task[t].generation
        /\ RepairedTask(t).attempts = task[t].attempts
    <3>1. Released(t, "queued") \in TaskRecord
      BY <2>1, ReleasedType DEF RowsOK, Status, ActiveStatus
    <3>2. CASE task[t].attempts >= MaxAttempts
      BY <2>1, <3>2, ReleasedKeeps DEF RowsOK, RepairedTask
    <3>3. CASE ~(task[t].attempts >= MaxAttempts)
      <4> DEFINE old == Released(t, "queued")
      <4>1. /\ old \in TaskRecord /\ old.status = "queued" /\ old.input = task[t].input
            /\ old.generation = task[t].generation /\ old.attempts = task[t].attempts
        BY <2>1, <3>1, ReleasedKeeps DEF RowsOK
      <4>2. RepairedTask(t) = [old EXCEPT !.delayed = FALSE]
        BY <3>3 DEF RepairedTask
      <4> HIDE DEF old
      <4> QED BY <4>1, <4>2 DEF TaskRecord
    <3> QED BY <3>2, <3>3
  <2>3. {<<"running", "failed">>, <<"running", "queued">>} \subseteq TaskTransitions
    BY DEF TaskTransitions
  <2> QED BY <2>1, <2>2, <2>3
<1>3. ASSUME NEW s \in Runs, run'[s] # run[s]
      PROVE  /\ <<run[s].status, run'[s].status>> \in RunTransitions
             /\ run'[s].phase = run[s].phase
  <2>1. PICK t \in found : t[1] = s
    BY <1>3 DEF ReconcileWorkflows
  <2>2. run[s].status = "running"
    BY <2>1, ActiveTaskIsCurrent DEF Repairable, LeaseExpired, ActiveStatus
  <2>3. PICK v \in {"failed", "queued"} : run'[s] = [run[s] EXCEPT !.status = v]
    BY <2>1 DEF ReconcileWorkflows
  <2>4. run[s] \in RunRecord
    BY DEF RowsOK, TypeOK
  <2>5. run'[s].status = v /\ run'[s].phase = run[s].phase
    BY <2>3, <2>4 DEF RunRecord
  <2>6. <<"running", v>> \in RunTransitions
    BY DEF RunTransitions
  <2> QED BY <2>2, <2>5, <2>6
<1> QED BY <1>1, <1>2, <1>3, ReleasesAccepted

\* No operation asks for a change the triggers refuse.
LEMMA NextAccepted == RowsOK /\ RunMatchesCurrentTask /\ [Next]_vars => [StepAccepted]_vars
<1> SUFFICES ASSUME RowsOK, RunMatchesCurrentTask, Next PROVE StepAccepted
  BY DEF RunMatchesCurrentTask
<1>0. run \in [Runs -> RunRecord] /\ task \in [Tasks -> TaskRecord]
  BY DEF RowsOK, TypeOK
<1>1. ASSUME NEW r \in Runs, NEW d \in Digests, StartWorkflow(r, d) PROVE StepAccepted
  BY <1>1, StartAccepted
<1>2. ASSUME NEW w \in Workers, NEW t \in Tasks, ClaimWorkflowTask(w, t) PROVE StepAccepted
  <2> DEFINE row == Leased(t, w)
  <2>1. task[t].status \in ActiveStatus /\ <<task[t].status, "running">> \in TaskTransitions
    BY <1>2 DEF ClaimWorkflowTask, Claimable, Ready, LeaseExpired, ActiveStatus, TaskTransitions
  <2>2. task[t].generation \in Nat /\ task[t].attempts \in Nat
    BY ReleasedKeeps DEF RowsOK
  <2>3. /\ row.status = "running" /\ row.input = task[t].input
        /\ row.generation >= task[t].generation /\ row.attempts >= task[t].attempts
    BY <1>0, <2>2 DEF Leased, TaskRecord
  <2>4. t[1] \in Runs /\ t[2] = run[t[1]].phase
    BY <2>1, ActiveTaskIsCurrent
  <2>5. /\ task' = [task EXCEPT ![t] = row]
        /\ run' = [run EXCEPT ![t[1]] = [status |-> "running", phase |-> t[2]]]
    BY <1>2 DEF ClaimWorkflowTask
  <2>6. ASSUME NEW s \in Runs, run'[s] # run[s]
        PROVE  s = t[1] /\ run'[s] = [status |-> row.status, phase |-> run[s].phase]
    BY <1>0, <2>3, <2>4, <2>5, <2>6
  <2> HIDE DEF row
  <2> QED BY <2>1, <2>3, <2>5, <2>6, CurrentRowAccepted
<1>3. ASSUME NEW w \in Workers, NEW t \in Tasks, NEW g \in Attempts,
             HeartbeatWorkflowTask(w, t, g) PROVE StepAccepted
  <2> DEFINE row == [task[t] EXCEPT !.lease = LeaseTerm]
  <2>1. task[t].status \in ActiveStatus
    BY <1>3 DEF HeartbeatWorkflowTask, HoldsLease, ActiveStatus
  <2>2. /\ row.status = task[t].status /\ row.input = task[t].input
       /\ row.generation = task[t].generation /\ row.attempts = task[t].attempts
    BY <1>0 DEF TaskRecord
  <2>3. task' = [task EXCEPT ![t] = row] /\ run' = run
    BY <1>3 DEF HeartbeatWorkflowTask, HoldsLease
  <2> HIDE DEF row
  <2> QED BY <2>1, <2>2, <2>3, QuietAccepted
<1>4. ASSUME NEW w \in Workers, NEW t \in Tasks, NEW g \in Attempts, NEW d \in Digests,
             CompleteWorkflowTask(w, t, g, d) PROVE StepAccepted
  BY <1>4, CompleteAccepted
<1>5. ASSUME NEW w \in Workers, NEW t \in Tasks, NEW g \in Attempts, NEW c \in Classifications,
             FailWorkflowTask(w, t, g, c) PROVE StepAccepted
  <2>1. task[t].status = "running"
    BY <1>5 DEF FailWorkflowTask, HoldsLease
  <2>2. CASE /\ task' = [task EXCEPT ![t] = Released(t, "failed")]
             /\ run' = [run EXCEPT ![t[1]].status = "failed"]
    <3> DEFINE row == Released(t, "failed")
    <3>1. /\ row.status = "failed" /\ row.input = task[t].input
          /\ row.generation = task[t].generation /\ row.attempts = task[t].attempts
      BY ReleasedKeeps DEF RowsOK
    <3>2. task' = [task EXCEPT ![t] = row]
      BY <2>2
    <3> HIDE DEF row
    <3>3. <<task[t].status, row.status>> \in TaskTransitions
      BY <2>1, <3>1 DEF TaskTransitions
    <3> QED BY <2>2, <3>1, <3>2, <3>3, StatusAccepted
  <2>3. CASE /\ task' = [task EXCEPT ![t] = [Released(t, "queued") EXCEPT !.delayed = TRUE]]
             /\ run' = [run EXCEPT ![t[1]].status = "queued"]
    <3> DEFINE row == [Released(t, "queued") EXCEPT !.delayed = TRUE]
    <3>1. /\ row.status = "queued" /\ row.input = task[t].input
          /\ row.generation = task[t].generation /\ row.attempts = task[t].attempts
      BY <1>0 DEF Released, TaskRecord
    <3>2. task' = [task EXCEPT ![t] = row]
      BY <2>3
    <3> HIDE DEF row
    <3>3. <<task[t].status, row.status>> \in TaskTransitions
      BY <2>1, <3>1 DEF TaskTransitions
    <3> QED BY <2>3, <3>1, <3>2, <3>3, StatusAccepted
  <2> QED BY <1>5, <2>2, <2>3 DEF FailWorkflowTask
<1>6. ASSUME NEW w \in Workers, NEW t \in Tasks, NEW g \in Attempts,
             WaitWorkflowTask(w, t, g) PROVE StepAccepted
  <2> DEFINE row == [Released(t, "waiting") EXCEPT !.waitToken = g, !.waitOpen = TRUE]
  <2>1. task[t].status = "running"
    BY <1>6 DEF WaitWorkflowTask, HoldsLease
  <2>2. /\ row.status = "waiting" /\ row.input = task[t].input
        /\ row.generation = task[t].generation /\ row.attempts = task[t].attempts
    BY <1>0 DEF Released, TaskRecord
  <2>3. task' = [task EXCEPT ![t] = row] /\ run' = [run EXCEPT ![t[1]].status = "waiting"]
    BY <1>6 DEF WaitWorkflowTask
  <2> HIDE DEF row
  <2>4. <<task[t].status, row.status>> \in TaskTransitions
    BY <2>1, <2>2 DEF TaskTransitions
  <2> QED BY <2>2, <2>3, <2>4, StatusAccepted
<1>7. ASSUME NEW r \in Runs, NEW token \in Tokens, NEW key \in AppKeys,
             ResumeWorkflowTask(r, token, key) PROVE StepAccepted
  <2> DEFINE t == <<r, token[1]>>
             row == [task[t] EXCEPT !.status = "queued", !.delayed = FALSE]
  <2>1. t \in Tasks /\ t[1] = r /\ task[t].status = "waiting"
    BY <1>7 DEF Tasks, Tokens, ResumeWorkflowTask
  <2>2. task' = [task EXCEPT ![t] = row]
    BY <1>0, <1>7, <2>1 DEF ResumeWorkflowTask
  <2>3. /\ row.status = "queued" /\ row.input = task[t].input
        /\ row.generation = task[t].generation /\ row.attempts = task[t].attempts
    BY <1>0, <2>1 DEF TaskRecord
  <2> HIDE DEF t, row
  <2>4. run' = [run EXCEPT ![t[1]].status = "queued"]
    BY <1>7, <2>1 DEF ResumeWorkflowTask
  <2>5. <<task[t].status, row.status>> \in TaskTransitions
    BY <2>1, <2>3 DEF TaskTransitions
  <2> QED BY <2>1, <2>2, <2>3, <2>4, <2>5, StatusAccepted
<1>8. ASSUME NEW r \in Runs, NEW key \in AppKeys, CancelWorkflow(r, key) PROVE StepAccepted
  BY <1>8, CancelAccepted
<1>9. ASSUME NEW found \in SUBSET {t \in Tasks : Repairable(t)}, ReconcileWorkflows(found)
      PROVE StepAccepted
  BY <1>9, ReconcileAccepted
<1>10. ASSUME NEW t \in Tasks, LeaseTick(t) \/ RetryDue(t) \/ WaitExpires(t) PROVE StepAccepted
  <2>1. CASE LeaseTick(t)
    <3> DEFINE row == [task[t] EXCEPT !.lease = @ - 1]
    <3>1. task[t].status \in ActiveStatus
      BY <2>1 DEF LeaseTick, ActiveStatus
    <3>2. /\ row.status = task[t].status /\ row.input = task[t].input
         /\ row.generation = task[t].generation /\ row.attempts = task[t].attempts
      BY <1>0 DEF TaskRecord
    <3>3. task' = [task EXCEPT ![t] = row] /\ run' = run
      BY <2>1 DEF LeaseTick
    <3> HIDE DEF row
    <3> QED BY <3>1, <3>2, <3>3, QuietAccepted
  <2>2. CASE RetryDue(t)
    <3> DEFINE row == [task[t] EXCEPT !.delayed = FALSE]
    <3>1. task[t].status \in ActiveStatus
      BY <2>2 DEF RetryDue, ActiveStatus
    <3>2. /\ row.status = task[t].status /\ row.input = task[t].input
         /\ row.generation = task[t].generation /\ row.attempts = task[t].attempts
      BY <1>0 DEF TaskRecord
    <3>3. task' = [task EXCEPT ![t] = row] /\ run' = run
      BY <2>2 DEF RetryDue
    <3> HIDE DEF row
    <3> QED BY <3>1, <3>2, <3>3, QuietAccepted
  <2>3. CASE WaitExpires(t)
    <3> DEFINE row == [task[t] EXCEPT !.waitOpen = FALSE]
    <3>1. task[t].status \in ActiveStatus
      BY <2>3 DEF WaitExpires, ActiveStatus
    <3>2. /\ row.status = task[t].status /\ row.input = task[t].input
         /\ row.generation = task[t].generation /\ row.attempts = task[t].attempts
      BY <1>0 DEF TaskRecord
    <3>3. task' = [task EXCEPT ![t] = row] /\ run' = run
      BY <2>3 DEF WaitExpires
    <3> HIDE DEF row
    <3> QED BY <3>1, <3>2, <3>3, QuietAccepted
  <2> QED BY <1>10, <2>1, <2>2, <2>3
<1> QED
  BY <1>1, <1>2, <1>3, <1>4, <1>5, <1>6, <1>7, <1>8, <1>9, <1>10 DEF Next

\* No operation ever asks the database for a status change, a phase change or
\* an insert that the SQL triggers refuse.
THEOREM NoStepRefused == Spec => TriggersAccept
<1>1. Spec => []RowsOK
  BY RowsOKInit, RowsOKNext, PTL DEF Spec
<1>2. Spec => []RunMatchesCurrentTask
  BY RunMatches
<1> QED
  BY <1>1, <1>2, NextAccepted, PTL DEF Spec, TriggersAccept

\* A run that ended keeps its rows for ever: the triggers let no terminal row
\* change, and a run that ended has no active task row left to change.
THEOREM EndedRunsFrozen == Spec => TerminalRunsFrozen
<1> DEFINE Frozen == \A r \in Runs : run[r].status \in TerminalStatus =>
                        /\ run'[r] = run[r]
                        /\ \A p \in Phases : task'[<<r, p>>] = task[<<r, p>>]
<1>1. RowsOK /\ RunMatchesCurrentTask /\ [StepAccepted]_vars => [Frozen]_vars
  <2> SUFFICES ASSUME RowsOK, RunMatchesCurrentTask, StepAccepted,
                      NEW r \in Runs, run[r].status \in TerminalStatus
               PROVE  /\ run'[r] = run[r]
                      /\ \A p \in Phases : task'[<<r, p>>] = task[<<r, p>>]
    OBVIOUS
  <2>1. run'[r] = run[r]
    BY DEF StepAccepted, RunTriggersAccept, RunTransitions, TerminalStatus
  <2>2. ASSUME NEW p \in Phases, task'[<<r, p>>] # task[<<r, p>>] PROVE FALSE
    <3> DEFINE t == <<r, p>>
    <3>1. t \in Tasks /\ t[1] = r /\ t[2] = p
      BY DEF Tasks
    <3>2. TaskTriggersAccept(t)
      BY <2>2, <3>1 DEF StepAccepted
    <3>3. CASE task[t].status = "none"
      <4>1. run[r].phase = p
        BY <2>1, <3>1, <3>2, <3>3 DEF TaskTriggersAccept
      <4> QED BY <3>3, <4>1 DEF RunMatchesCurrentTask, RowsMatch, TerminalStatus
    <3>4. CASE task[t].status # "none"
      <4>1. task[t].status \in ActiveStatus
        BY <3>2, <3>4 DEF TaskTriggersAccept, TaskTransitions, ActiveStatus
      <4>2. run[r].status \in ActiveStatus
        BY <3>1, <4>1, ActiveTaskIsCurrent
      <4> QED BY <4>2 DEF ActiveStatus, TerminalStatus
    <3> QED BY <3>3, <3>4
  <2> QED BY <2>1, <2>2
<1>2. Spec => []RowsOK
  BY RowsOKInit, RowsOKNext, PTL DEF Spec
<1>3. Spec => []RunMatchesCurrentTask
  BY RunMatches
<1> QED
  BY <1>1, <1>2, <1>3, NextAccepted, PTL DEF Spec, TerminalRunsFrozen

\* No reachable state needs the reconciler's missing-successor repair: the
\* phase after a committed one has its row, or the run is over.
THEOREM SuccessorsExist == Spec => []NoMissingSuccessor
<1>1. RowsOK /\ RunMatchesCurrentTask => NoMissingSuccessor
  <2> SUFFICES ASSUME RowsOK, RunMatchesCurrentTask, NEW t \in Tasks, MissingSuccessor(t)
               PROVE  FALSE
    BY DEF NoMissingSuccessor
  <2> DEFINE r == t[1]
             n == run[r].phase
  <2>1. r \in Runs /\ t[2] \in Phases /\ t = <<r, t[2]>> /\ n \in Phases
    BY DEF Tasks, RowsOK, TypeOK, RunRecord
  <2>2. t[2] + 1 \in Phases
    BY <2>1, BoundsAssumption DEF MissingSuccessor, HasSuccessor, Phases
  <2>3. run[r].status = task[<<r, n>>].status /\ run[r].status \in ActiveStatus
    BY <2>1 DEF MissingSuccessor, RunIsActive, RunMatchesCurrentTask, RowsMatch
  <2>4. CASE n = t[2] \/ n = t[2] + 1
    BY <2>1, <2>3, <2>4 DEF MissingSuccessor, ActiveStatus
  <2>5. CASE n < t[2]
    <3>1. task[<<r, t[2]>>] = AbsentTask
      BY <2>1, <2>5 DEF RunMatchesCurrentTask, RowsMatch, Phases
    <3> QED BY <2>1, <3>1 DEF MissingSuccessor, AbsentTask
  <2>6. CASE n > t[2] + 1
    <3>1. task[<<r, t[2] + 1>>].status = "succeeded"
      BY <2>1, <2>2, <2>6 DEF RunMatchesCurrentTask, RowsMatch, Phases
    <3> QED BY <3>1 DEF MissingSuccessor
  <2> QED BY <2>1, <2>4, <2>5, <2>6 DEF Phases
<1>2. Spec => []RowsOK
  BY RowsOKInit, RowsOKNext, PTL DEF Spec
<1> QED
  BY <1>1, <1>2, RunMatches, PTL

\* Each phase works on exactly the output its predecessor committed, for any
\* number of phases: no retry or late answer changes a committed output.
THEOREM PhasesChain == Spec => []OutputsChain
<1>1. Init => OutputsChain
  <2>1. AbsentTask.status = "none"
    BY DEF AbsentTask
  <2> QED BY <2>1 DEF Init, OutputsChain
<1>2. RowsOK /\ RunMatchesCurrentTask /\ OutputsChain /\ [Next]_vars => OutputsChain'
  <2> SUFFICES ASSUME RowsOK, RunMatchesCurrentTask, OutputsChain, [Next]_vars, StepAccepted,
                      NEW t \in Tasks, task'[t].status # "none"
               PROVE  /\ task'[t].input # None
                      /\ t[2] > 1 => task'[t].input = task'[<<t[1], t[2] - 1>>].output
    <3>1. CASE UNCHANGED vars
      BY <3>1 DEF vars, OutputsChain
    <3>2. CASE ~UNCHANGED vars
      BY <3>2, NextAccepted DEF OutputsChain
    <3> QED BY <3>1, <3>2
  <2> DEFINE r == t[1]
             before == <<t[1], t[2] - 1>>
  <2>1. r \in Runs /\ t[2] \in Phases /\ t = <<r, t[2]>> /\ run[r].phase \in Phases
    BY DEF Tasks, RowsOK, TypeOK, RunRecord
  <2>2. CASE task[t].status = "none"
    <3>1. TaskTriggersAccept(t)
      BY <2>2 DEF StepAccepted
    <3> QED BY <2>2, <3>1 DEF TaskTriggersAccept
  <2>3. CASE task[t].status # "none"
    <3>1. task'[t].input = task[t].input /\ task[t].input # None
      BY <2>3 DEF StepAccepted, TaskTriggersAccept, OutputsChain
    <3>2. ASSUME t[2] > 1 PROVE task'[t].input = task'[before].output
      <4>1. before \in Tasks /\ t[2] - 1 \in Phases
        <5>1. t[2] - 1 \in Phases
          BY <2>1, <3>2, BoundsAssumption DEF Phases
        <5> QED BY <2>1, <5>1 DEF Tasks
      <4>2. ~(t[2] > run[r].phase)
        <5>1. AbsentTask.status = "none"
          BY DEF AbsentTask
        <5>2. ASSUME t[2] > run[r].phase PROVE task[<<r, t[2]>>] = AbsentTask
          BY <2>1, <5>2 DEF RunMatchesCurrentTask, RowsMatch
        <5> QED BY <2>1, <2>3, <5>1, <5>2
      <4>3. t[2] - 1 < run[r].phase
        BY <2>1, <4>2 DEF Phases
      <4>4. task[before].status = "succeeded"
        BY <2>1, <4>1, <4>3 DEF RunMatchesCurrentTask, RowsMatch
      <4>5. task'[before] = task[before]
        BY <4>1, <4>4 DEF StepAccepted, TaskTriggersAccept, TaskTransitions
      <4> QED BY <2>3, <3>1, <3>2, <4>5 DEF OutputsChain
    <3> QED BY <3>1, <3>2
  <2> QED BY <2>2, <2>3
<1>3. Spec => []RowsOK
  BY RowsOKInit, RowsOKNext, PTL DEF Spec
<1> QED
  BY <1>1, <1>2, <1>3, RunMatches, PTL DEF Spec

-----------------------------------------------------------------------------
(* Leases.                                                                  *)

\* A step leaves a row without a holder, gives it to a new generation, or
\* keeps its holder and does not bring an expired lease back to life.
LeaseStep(t) ==
    \/ task'[t].status # "running"
    \/ task'[t].generation > task[t].generation
    \/ /\ task[t].status = "running"
       /\ task'[t].owner = task[t].owner
       /\ task'[t].generation = task[t].generation
       /\ task'[t].lease > 0 => task[t].lease > 0

\* An operation that rewrites one row takes a LeaseStep if that row does.
LEMMA OneRowLeaseStep ==
    ASSUME TypeOK, NEW t \in Tasks, NEW u \in Tasks, NEW row,
           task' = [task EXCEPT ![u] = row],
           \/ row.status # "running"
           \/ row.generation > task[u].generation
           \/ /\ task[u].status = "running" /\ task[u].lease > 0
              /\ row.owner = task[u].owner /\ row.generation = task[u].generation
    PROVE  LeaseStep(t)
<1>1. task'[t] = IF t = u THEN row ELSE task[t]
  BY DEF TypeOK
<1> QED BY <1>1 DEF LeaseStep

\* No operation hands a lost lease back.
LEMMA NextLeaseStep ==
    ASSUME RowsOK, RunMatchesCurrentTask, [Next]_vars, NEW t \in Tasks
    PROVE  LeaseStep(t)
<1>0. TypeOK /\ task \in [Tasks -> TaskRecord]
  BY DEF RowsOK, TypeOK
<1>1. ASSUME NEW r \in Runs, NEW d \in Digests, StartWorkflow(r, d) PROVE LeaseStep(t)
  <2>1. <<r, 1>> \in Tasks /\ NewTask(d).status = "queued"
    BY BoundsAssumption DEF Tasks, Phases, NewTask, AbsentTask
  <2> QED BY <1>0, <1>1, <2>1, OneRowLeaseStep DEF StartWorkflow
<1>2. ASSUME NEW w \in Workers, NEW u \in Tasks, ClaimWorkflowTask(w, u) PROVE LeaseStep(t)
  <2>1. task[u].generation \in Nat
    BY <1>0, ReleasedKeeps
  <2>2. Leased(u, w).generation > task[u].generation
    BY <1>0, <2>1 DEF Leased, TaskRecord
  <2> QED BY <1>0, <1>2, <2>2, OneRowLeaseStep DEF ClaimWorkflowTask
<1>3. ASSUME NEW w \in Workers, NEW u \in Tasks, NEW g \in Attempts,
             HeartbeatWorkflowTask(w, u, g) PROVE LeaseStep(t)
  <2> DEFINE row == [task[u] EXCEPT !.lease = LeaseTerm]
  <2>1. row.owner = task[u].owner /\ row.generation = task[u].generation
    BY <1>0 DEF TaskRecord
  <2>2. task' = [task EXCEPT ![u] = row] /\ task[u].status = "running" /\ task[u].lease > 0
    BY <1>3 DEF HeartbeatWorkflowTask, HoldsLease
  <2> HIDE DEF row
  <2> QED BY <1>0, <2>1, <2>2, OneRowLeaseStep
<1>4. ASSUME NEW w \in Workers, NEW u \in Tasks, NEW g \in Attempts, NEW d \in Digests,
             CompleteWorkflowTask(w, u, g, d) PROVE LeaseStep(t)
  <2> DEFINE done == [Released(u, "succeeded") EXCEPT !.output = d]
             next == <<u[1], u[2] + 1>>
  <2>1. done.status = "succeeded" /\ NewTask(d).status = "queued"
    BY <1>0 DEF Released, TaskRecord, NewTask, AbsentTask
  <2>2. CASE task' = [task EXCEPT ![u] = done,
                                  ![next] = IF @.status = "none" THEN NewTask(d) ELSE @]
    <3> HIDE DEF done, next
    <3>1. CASE t = next /\ t # u
      <4>1. task'[t] = IF task[t].status = "none" THEN NewTask(d) ELSE task[t]
        BY <1>0, <2>2, <3>1
      <4> QED BY <2>1, <4>1 DEF LeaseStep
    <3>2. CASE t # next
      BY <1>0, <2>1, <2>2, <3>2 DEF LeaseStep
    <3>3. CASE t = u /\ t = next
      BY <1>0, <2>1, <2>2, <3>3 DEF LeaseStep
    <3> QED BY <3>1, <3>2, <3>3
  <2>3. CASE task' = [task EXCEPT ![u] = done]
    <3> HIDE DEF done
    <3> QED BY <1>0, <2>1, <2>3, OneRowLeaseStep
  <2> QED BY <1>4, <2>2, <2>3 DEF CompleteWorkflowTask, HasSuccessor, Successor
<1>5. ASSUME NEW w \in Workers, NEW u \in Tasks, NEW g \in Attempts, NEW c \in Classifications,
             FailWorkflowTask(w, u, g, c) PROVE LeaseStep(t)
  <2> DEFINE delayed == [Released(u, "queued") EXCEPT !.delayed = TRUE]
  <2>1. delayed.status = "queued" /\ Released(u, "failed").status = "failed"
    BY <1>0 DEF Released, TaskRecord
  <2>2. task' = [task EXCEPT ![u] = Released(u, "failed")] \/ task' = [task EXCEPT ![u] = delayed]
    BY <1>5 DEF FailWorkflowTask
  <2> HIDE DEF delayed
  <2> QED BY <1>0, <2>1, <2>2, OneRowLeaseStep
<1>6. ASSUME NEW w \in Workers, NEW u \in Tasks, NEW g \in Attempts,
             WaitWorkflowTask(w, u, g) PROVE LeaseStep(t)
  <2> DEFINE row == [Released(u, "waiting") EXCEPT !.waitToken = g, !.waitOpen = TRUE]
  <2>1. row.status = "waiting"
    BY <1>0 DEF Released, TaskRecord
  <2>2. task' = [task EXCEPT ![u] = row]
    BY <1>6 DEF WaitWorkflowTask
  <2> HIDE DEF row
  <2> QED BY <1>0, <2>1, <2>2, OneRowLeaseStep
<1>7. ASSUME NEW r \in Runs, NEW token \in Tokens, NEW key \in AppKeys,
             ResumeWorkflowTask(r, token, key) PROVE LeaseStep(t)
  <2> DEFINE u == <<r, token[1]>>
             row == [task[u] EXCEPT !.status = "queued", !.delayed = FALSE]
  <2>1. u \in Tasks
    BY DEF Tasks, Tokens
  <2>2. task' = [task EXCEPT ![u] = row] /\ row.status = "queued"
    BY <1>0, <1>7, <2>1 DEF ResumeWorkflowTask, TaskRecord
  <2> HIDE DEF u, row
  <2> QED BY <1>0, <2>1, <2>2, OneRowLeaseStep
<1>8. ASSUME NEW r \in Runs, NEW key \in AppKeys, CancelWorkflow(r, key) PROVE LeaseStep(t)
  <2>1. task'[t] = task[t] \/ task'[t] = Released(t, "cancelled")
    BY <1>8 DEF CancelWorkflow
  <2>2. Released(t, "cancelled").status = "cancelled"
    BY <1>0, ReleasedKeeps
  <2> QED BY <2>1, <2>2 DEF LeaseStep
<1>9. ASSUME NEW found \in SUBSET {u \in Tasks : Repairable(u)}, ReconcileWorkflows(found)
      PROVE LeaseStep(t)
  <2>1. task'[t] = task[t] \/ task'[t] = RepairedTask(t)
    BY <1>9 DEF ReconcileWorkflows
  <2>2. RepairedTask(t).status # "running"
    BY <1>0 DEF RepairedTask, Released, TaskRecord
  <2> QED BY <2>1, <2>2 DEF LeaseStep
<1>10. ASSUME NEW u \in Tasks, LeaseTick(u) PROVE LeaseStep(t)
  <2> DEFINE row == [task[u] EXCEPT !.lease = @ - 1]
  <2>1. row.owner = task[u].owner /\ row.generation = task[u].generation
    BY <1>0 DEF TaskRecord
  <2>2. task' = [task EXCEPT ![u] = row] /\ task[u].status = "running" /\ task[u].lease > 0
    BY <1>10 DEF LeaseTick
  <2> HIDE DEF row
  <2> QED BY <1>0, <2>1, <2>2, OneRowLeaseStep
<1>11. ASSUME NEW u \in Tasks, RetryDue(u) PROVE LeaseStep(t)
  <2> DEFINE row == [task[u] EXCEPT !.delayed = FALSE]
  <2>1. row.status # "running"
    BY <1>0, <1>11 DEF RetryDue, TaskRecord
  <2>2. task' = [task EXCEPT ![u] = row]
    BY <1>11 DEF RetryDue
  <2> HIDE DEF row
  <2> QED BY <1>0, <2>1, <2>2, OneRowLeaseStep
<1>12. ASSUME NEW u \in Tasks, WaitExpires(u) PROVE LeaseStep(t)
  <2> DEFINE row == [task[u] EXCEPT !.waitOpen = FALSE]
  <2>1. row.status # "running"
    BY <1>0, <1>12 DEF WaitExpires, TaskRecord
  <2>2. task' = [task EXCEPT ![u] = row]
    BY <1>12 DEF WaitExpires
  <2> HIDE DEF row
  <2> QED BY <1>0, <2>1, <2>2, OneRowLeaseStep
<1>13. CASE UNCHANGED vars
  BY <1>13 DEF vars, LeaseStep
<1> QED
  BY <1>1, <1>2, <1>3, <1>4, <1>5, <1>6, <1>7, <1>8, <1>9, <1>10, <1>11, <1>12, <1>13 DEF Next

\* A worker that finds its lease lost may drop its work for good: no later
\* step makes its generation valid again.
THEOREM LostLeasesStayLost == Spec => LeaseLossIsFinal
<1> DEFINE Final == \A w \in Workers, t \in Tasks, g \in Attempts :
              g <= task[t].generation /\ ~HoldsLease(w, t, g) => ~HoldsLease(w, t, g)'
<1>1. RowsOK /\ RunMatchesCurrentTask /\ [Next]_vars => [Final]_vars
  <2> SUFFICES ASSUME RowsOK, RunMatchesCurrentTask, [Next]_vars,
                      NEW w \in Workers, NEW t \in Tasks, NEW g \in Attempts,
                      g <= task[t].generation, ~HoldsLease(w, t, g), HoldsLease(w, t, g)'
               PROVE  FALSE
    OBVIOUS
  <2>1. LeaseStep(t)
    BY NextLeaseStep
  <2>2. task[t].generation \in Nat /\ g \in Nat
    BY BoundsAssumption, ReleasedKeeps DEF RowsOK, Attempts
  <2> QED BY <2>1, <2>2 DEF LeaseStep, HoldsLease
<1>2. Spec => []RowsOK
  BY RowsOKInit, RowsOKNext, PTL DEF Spec
<1> QED
  BY <1>1, <1>2, RunMatches, PTL DEF Spec, LeaseLossIsFinal

=============================================================================
