------------------------- MODULE WorkflowPromiseProofs -------------------------
(***************************************************************************)
(* What TLAPS proves of WorkflowStore as its callers see it: the command   *)
(* log a retry is answered from, the status of the project, the quota of   *)
(* an organization, and the chain of phases it implements.                 *)
(*                                                                         *)
(* Every operation makes one of six moves of each task row (RowMoves); the *)
(* log and the quota follow from the moves alone.  The project row needs   *)
(* that a project has one active run, and the chain needs that a row that  *)
(* does not exist is blank.                                                *)
(***************************************************************************)
EXTENDS WorkflowStoreProofs

\* A row that no insert created yet.
AbsentRow(t) == task[t].status = "none" => task[t] = AbsentTask

CompletionsOf(t) == {c \in command.complete : c.of = t}
FailuresOf(t) == {c \in command.fail : c.of = t}

\* What CommandsMatchTasks says of one task.
CommandsTell(t) ==
    /\ task[t].status = "succeeded" <=> CompletionsOf(t) # {}
    /\ \A c \in CompletionsOf(t) : c.key = task[t].generation /\ c.input = task[t].output
    /\ \A c \in FailuresOf(t) :
          /\ c.key <= task[t].generation
          /\ c.key = task[t].generation => task[t].status \in {"queued", "failed", "cancelled"}
          /\ c.input = "permanent" => task[t].status = "failed"

RowsTell == \A t \in Tasks : AbsentRow(t) /\ CommandsTell(t)

-----------------------------------------------------------------------------
(* The moves of one row.                                                    *)

SameCommands(t) == CompletionsOf(t)' = CompletionsOf(t) /\ FailuresOf(t)' = FailuresOf(t)

RowKept(t) == task'[t] = task[t] /\ SameCommands(t)

RowInserted(t) ==
    /\ task[t].status = "none"
    /\ \E d \in Digests : task'[t] = NewTask(d)
    /\ SameCommands(t)

RowClaimed(t) ==
    /\ \E w \in Workers : ClaimWorkflowTask(w, t)
    /\ task[t].status \in {"queued", "running"}
    /\ task'[t].status = "running"
    /\ task'[t].generation = task[t].generation + 1
    /\ task'[t].output = task[t].output
    /\ SameCommands(t)

\* A change of status, or of the lease, that starts no attempt and commits nothing.
RowMoved(t) ==
    /\ task[t].status \in ActiveStatus
    /\ task'[t].status \in {"queued", "running", "waiting", "failed", "cancelled"}
    /\ task[t].status = "queued" => task'[t].status \in {"queued", "failed", "cancelled"}
    /\ task'[t].generation = task[t].generation
    /\ task'[t].output = task[t].output
    /\ task'[t].status = "running" /\ task'[t].lease > 0 =>
          task[t].status = "running" /\ task[t].lease > 0
    /\ SameCommands(t)

RowCommitted(t) ==
    /\ \E w \in Workers, g \in Attempts, d \in Digests : CompleteWorkflowTask(w, t, g, d)
    /\ task[t].status = "running"
    /\ task'[t].status = "succeeded"
    /\ task'[t].generation = task[t].generation
    /\ CompletionsOf(t)' = CompletionsOf(t) \cup
          {[of |-> t, key |-> task[t].generation, input |-> task'[t].output]}
    /\ FailuresOf(t)' = FailuresOf(t)

RowFailed(t) ==
    /\ task[t].status = "running"
    /\ task'[t].status \in {"queued", "failed"}
    /\ task'[t].generation = task[t].generation
    /\ task'[t].output = task[t].output
    /\ CompletionsOf(t)' = CompletionsOf(t)
    /\ \E c \in Classifications :
          /\ c = "permanent" => task'[t].status = "failed"
          /\ FailuresOf(t)' = FailuresOf(t) \cup
                {[of |-> t, key |-> task[t].generation, input |-> c]}

RowMoves(t) ==
    \/ RowKept(t) \/ RowInserted(t) \/ RowClaimed(t)
    \/ RowMoved(t) \/ RowCommitted(t) \/ RowFailed(t)

\* An operation that rewrites one row and records no completion or failure.
LEMMA OneRow ==
    ASSUME TypeOK, NEW u \in Tasks, NEW row, task' = [task EXCEPT ![u] = row],
           command'.complete = command.complete, command'.fail = command.fail
    PROVE  /\ task'[u] = row
           /\ \A t \in Tasks : SameCommands(t)
           /\ \A t \in Tasks : t # u => RowKept(t)
<1>1. \A t \in Tasks : task'[t] = IF t = u THEN row ELSE task[t]
  BY DEF TypeOK
<1>2. \A t \in Tasks : SameCommands(t)
  BY DEF SameCommands, CompletionsOf, FailuresOf
<1> QED BY <1>1, <1>2 DEF RowKept

\* Every operation, and every passage of time, makes one of the moves.
LEMMA NextRowMoves ==
    ASSUME RowsOK, RunMatchesCurrentTask, [Next]_vars, NEW t \in Tasks
    PROVE  RowMoves(t)
<1>0. TypeOK /\ task \in [Tasks -> TaskRecord] /\ command \in CommandLog
  BY DEF RowsOK, TypeOK
<1>1. ASSUME NEW r \in Runs, NEW d \in Digests, StartWorkflow(r, d) PROVE RowMoves(t)
  <2> DEFINE u == <<r, 1>>
  <2>1. u \in Tasks /\ task[u].status = "none"
    <3>1. u \in Tasks
      BY BoundsAssumption DEF Tasks, Phases
    <3>2. run[r].status = "none"
      BY <1>1 DEF StartWorkflow
    <3>3. task[u].status = "none"
      BY <3>2 DEF RunMatchesCurrentTask, RowsMatch
    <3> QED BY <3>1, <3>3
  <2>2. task' = [task EXCEPT ![u] = NewTask(d)] /\ command' = command
    BY <1>1 DEF StartWorkflow
  <2> HIDE DEF u
  <2>3. /\ task'[u] = NewTask(d)
        /\ \A v \in Tasks : SameCommands(v)
        /\ \A v \in Tasks : v # u => RowKept(v)
    BY <1>0, <2>1, <2>2, OneRow
  <2> QED BY <2>1, <2>3 DEF RowMoves, RowInserted
<1>2. ASSUME NEW w \in Workers, NEW u \in Tasks, ClaimWorkflowTask(w, u) PROVE RowMoves(t)
  <2>1. task' = [task EXCEPT ![u] = Leased(u, w)] /\ command' = command
    BY <1>2 DEF ClaimWorkflowTask
  <2>2. /\ task'[u] = Leased(u, w)
        /\ \A v \in Tasks : SameCommands(v)
        /\ \A v \in Tasks : v # u => RowKept(v)
    BY <1>0, <2>1, OneRow
  <2>3. task[u].status \in {"queued", "running"}
    BY <1>2 DEF ClaimWorkflowTask, Claimable, Ready, LeaseExpired
  <2>4. /\ Leased(u, w).status = "running"
        /\ Leased(u, w).generation = task[u].generation + 1
        /\ Leased(u, w).output = task[u].output
    BY <1>0 DEF Leased, TaskRecord
  <2>5. RowClaimed(u)
    BY <1>2, <2>2, <2>3, <2>4 DEF RowClaimed
  <2> QED BY <2>2, <2>5 DEF RowMoves
\* A row an operation moves while it keeps its generation and its output.
<1>3. ASSUME NEW u \in Tasks, NEW row, task' = [task EXCEPT ![u] = row],
             command'.complete = command.complete, command'.fail = command.fail,
             task[u].status \in ActiveStatus,
             row.status \in {"queued", "running", "waiting", "failed", "cancelled"},
             task[u].status = "queued" => row.status \in {"queued", "failed", "cancelled"},
             row.generation = task[u].generation, row.output = task[u].output,
             row.status = "running" => task[u].status = "running" /\ task[u].lease > 0
      PROVE  RowMoves(t)
  <2>1. /\ task'[u] = row
        /\ \A v \in Tasks : SameCommands(v)
        /\ \A v \in Tasks : v # u => RowKept(v)
    BY <1>0, <1>3, OneRow
  <2>2. RowMoved(u)
    BY <1>3, <2>1 DEF RowMoved
  <2> QED BY <2>1, <2>2 DEF RowMoves
<1>4. ASSUME NEW w \in Workers, NEW u \in Tasks, NEW g \in Attempts,
             HeartbeatWorkflowTask(w, u, g) PROVE RowMoves(t)
  <2> DEFINE row == [task[u] EXCEPT !.lease = LeaseTerm]
  <2>1. task[u].status = "running" /\ task[u].lease > 0 /\ command' = command
    BY <1>4 DEF HeartbeatWorkflowTask, HoldsLease
  <2>2. /\ row.status = "running" /\ row.generation = task[u].generation
        /\ row.output = task[u].output
    BY <1>0, <2>1 DEF TaskRecord
  <2>3. task' = [task EXCEPT ![u] = row]
    BY <1>4 DEF HeartbeatWorkflowTask
  <2> HIDE DEF row
  <2> QED BY <1>3, <2>1, <2>2, <2>3 DEF ActiveStatus
<1>5. ASSUME NEW w \in Workers, NEW u \in Tasks, NEW g \in Attempts,
             WaitWorkflowTask(w, u, g) PROVE RowMoves(t)
  <2> DEFINE row == [Released(u, "waiting") EXCEPT !.waitToken = g, !.waitOpen = TRUE]
  <2>1. task[u].status = "running" /\ command' = command
    BY <1>5 DEF WaitWorkflowTask, HoldsLease
  <2>2. /\ row.status = "waiting" /\ row.generation = task[u].generation
        /\ row.output = task[u].output
    BY <1>0 DEF Released, TaskRecord
  <2>3. task' = [task EXCEPT ![u] = row]
    BY <1>5 DEF WaitWorkflowTask
  <2> HIDE DEF row
  <2> QED BY <1>3, <2>1, <2>2, <2>3 DEF ActiveStatus
<1>6. ASSUME NEW r \in Runs, NEW token \in Tokens, NEW key \in AppKeys,
             ResumeWorkflowTask(r, token, key) PROVE RowMoves(t)
  <2> DEFINE u == <<r, token[1]>>
             row == [task[u] EXCEPT !.status = "queued", !.delayed = FALSE]
  <2>1. u \in Tasks /\ task[u].status = "waiting"
    BY <1>6 DEF Tasks, Tokens, ResumeWorkflowTask
  <2>2. /\ task' = [task EXCEPT ![u] = row]
        /\ row.status = "queued" /\ row.generation = task[u].generation
        /\ row.output = task[u].output
    BY <1>0, <1>6, <2>1 DEF ResumeWorkflowTask, TaskRecord
  <2>3. command'.complete = command.complete /\ command'.fail = command.fail
    BY <1>0, <1>6 DEF ResumeWorkflowTask, CommandLog
  <2> HIDE DEF u, row
  <2> QED BY <1>3, <2>1, <2>2, <2>3 DEF ActiveStatus
<1>7. ASSUME NEW u \in Tasks, LeaseTick(u) \/ RetryDue(u) \/ WaitExpires(u) PROVE RowMoves(t)
  <2>1. CASE LeaseTick(u)
    <3> DEFINE row == [task[u] EXCEPT !.lease = @ - 1]
    <3>1. task[u].status = "running" /\ task[u].lease > 0 /\ command' = command
      BY <2>1 DEF LeaseTick
    <3>2. /\ row.status = "running" /\ row.generation = task[u].generation
          /\ row.output = task[u].output
      BY <1>0, <3>1 DEF TaskRecord
    <3>3. task' = [task EXCEPT ![u] = row]
      BY <2>1 DEF LeaseTick
    <3> HIDE DEF row
    <3> QED BY <1>3, <3>1, <3>2, <3>3 DEF ActiveStatus
  <2>2. CASE RetryDue(u)
    <3> DEFINE row == [task[u] EXCEPT !.delayed = FALSE]
    <3>1. task[u].status = "queued" /\ command' = command
      BY <2>2 DEF RetryDue
    <3>2. /\ row.status = "queued" /\ row.generation = task[u].generation
          /\ row.output = task[u].output
      BY <1>0, <3>1 DEF TaskRecord
    <3>3. task' = [task EXCEPT ![u] = row]
      BY <2>2 DEF RetryDue
    <3> HIDE DEF row
    <3> QED BY <1>3, <3>1, <3>2, <3>3 DEF ActiveStatus
  <2>3. CASE WaitExpires(u)
    <3> DEFINE row == [task[u] EXCEPT !.waitOpen = FALSE]
    <3>1. task[u].status = "waiting" /\ command' = command
      BY <2>3 DEF WaitExpires
    <3>2. /\ row.status = "waiting" /\ row.generation = task[u].generation
          /\ row.output = task[u].output
      BY <1>0, <3>1 DEF TaskRecord
    <3>3. task' = [task EXCEPT ![u] = row]
      BY <2>3 DEF WaitExpires
    <3> HIDE DEF row
    <3> QED BY <1>3, <3>1, <3>2, <3>3 DEF ActiveStatus
  <2> QED BY <1>7, <2>1, <2>2, <2>3
<1>8. ASSUME NEW r \in Runs, NEW key \in AppKeys, CancelWorkflow(r, key) PROVE RowMoves(t)
  <2>1. SameCommands(t)
    BY <1>0, <1>8 DEF CancelWorkflow, CommandLog, SameCommands, CompletionsOf, FailuresOf
  <2>2. \/ task'[t] = task[t]
        \/ task[t].status \in ActiveStatus /\ task'[t] = Released(t, "cancelled")
    BY <1>8 DEF CancelWorkflow
  <2>3. /\ Released(t, "cancelled").status = "cancelled"
        /\ Released(t, "cancelled").generation = task[t].generation
        /\ Released(t, "cancelled").output = task[t].output
    BY <1>0, ReleasedKeeps
  <2> QED BY <2>1, <2>2, <2>3 DEF RowMoves, RowKept, RowMoved
<1>9. ASSUME NEW found \in SUBSET {u \in Tasks : Repairable(u)}, ReconcileWorkflows(found)
      PROVE RowMoves(t)
  <2>1. SameCommands(t)
    BY <1>9 DEF ReconcileWorkflows, SameCommands, CompletionsOf, FailuresOf
  <2>2. \/ task'[t] = task[t]
        \/ task[t].status = "running" /\ task'[t] = RepairedTask(t)
    BY <1>9 DEF ReconcileWorkflows, Repairable, LeaseExpired
  <2>3. /\ RepairedTask(t).status \in {"failed", "queued"}
        /\ RepairedTask(t).generation = task[t].generation
        /\ RepairedTask(t).output = task[t].output
    BY <1>0 DEF RepairedTask, Released, TaskRecord
  <2> QED BY <2>1, <2>2, <2>3 DEF RowMoves, RowKept, RowMoved, ActiveStatus
<1>10. ASSUME NEW w \in Workers, NEW u \in Tasks, NEW g \in Attempts, NEW d \in Digests,
              CompleteWorkflowTask(w, u, g, d) PROVE RowMoves(t)
  <2> DEFINE done == [Released(u, "succeeded") EXCEPT !.output = d]
             next == <<u[1], u[2] + 1>>
  <2>1. /\ task[u].status = "running" /\ g = task[u].generation
        /\ command'.complete = command.complete \cup {[of |-> u, key |-> g, input |-> d]}
        /\ command'.fail = command.fail
    BY <1>0, <1>10 DEF CompleteWorkflowTask, HoldsLease, CommandLog
  <2>2. /\ done.status = "succeeded" /\ done.generation = task[u].generation /\ done.output = d
    BY <1>0 DEF Released, TaskRecord
  <2>3. next # u
    <3>1. u[2] + 1 # u[2]
      BY BoundsAssumption DEF Tasks, Phases
    <3> QED BY <3>1 DEF Tasks
  <2>4. /\ task'[u] = done
        /\ t # u => task'[t] = task[t] \/ (task[t].status = "none" /\ task'[t] = NewTask(d))
    <3>1. CASE task' = [task EXCEPT ![u] = done,
                                    ![next] = IF @.status = "none" THEN NewTask(d) ELSE @]
      <4> HIDE DEF done, next
      <4>1. task'[u] = done
        BY <1>0, <2>3, <3>1
      <4>2. CASE t = next
        <5>1. task'[t] = IF task[t].status = "none" THEN NewTask(d) ELSE task[t]
          BY <1>0, <2>3, <3>1, <4>2
        <5> QED BY <4>1, <5>1
      <4>3. CASE t # next
        BY <1>0, <3>1, <4>1, <4>3
      <4> QED BY <4>2, <4>3
    <3>2. CASE task' = [task EXCEPT ![u] = done]
      <4> HIDE DEF done
      <4> QED BY <1>0, <3>2
    <3> QED BY <1>10, <3>1, <3>2 DEF CompleteWorkflowTask, HasSuccessor, Successor
  <2>5. t # u => SameCommands(t)
    BY <2>1 DEF SameCommands, CompletionsOf, FailuresOf
  <2>6. t = u => RowCommitted(t)
    <3>1. t = u => /\ FailuresOf(t)' = FailuresOf(t)
                   /\ CompletionsOf(t)' = CompletionsOf(t) \cup
                         {[of |-> t, key |-> task[t].generation, input |-> d]}
      BY <2>1 DEF CompletionsOf, FailuresOf
    <3> HIDE DEF done
    <3> QED BY <1>10, <2>1, <2>2, <2>4, <3>1 DEF RowCommitted
  <2> QED BY <2>4, <2>5, <2>6 DEF RowMoves, RowKept, RowInserted
<1>11. ASSUME NEW w \in Workers, NEW u \in Tasks, NEW g \in Attempts, NEW c \in Classifications,
              FailWorkflowTask(w, u, g, c) PROVE RowMoves(t)
  <2> DEFINE delayed == [Released(u, "queued") EXCEPT !.delayed = TRUE]
  <2>1. /\ task[u].status = "running" /\ g = task[u].generation
        /\ command'.fail = command.fail \cup {[of |-> u, key |-> g, input |-> c]}
        /\ command'.complete = command.complete
    BY <1>0, <1>11 DEF FailWorkflowTask, HoldsLease, CommandLog
  <2>2. /\ delayed.status = "queued" /\ delayed.generation = task[u].generation
        /\ delayed.output = task[u].output
        /\ Released(u, "failed").status = "failed"
        /\ Released(u, "failed").generation = task[u].generation
        /\ Released(u, "failed").output = task[u].output
    BY <1>0 DEF Released, TaskRecord
  <2>3. \/ task' = [task EXCEPT ![u] = Released(u, "failed")]
        \/ c # "permanent" /\ task' = [task EXCEPT ![u] = delayed]
    BY <1>11 DEF FailWorkflowTask
  <2> HIDE DEF delayed
  <2>4. /\ \/ task'[u] = Released(u, "failed")
           \/ c # "permanent" /\ task'[u] = delayed
        /\ t # u => task'[t] = task[t]
    BY <1>0, <2>3
  <2>5. t # u => SameCommands(t)
    BY <2>1 DEF SameCommands, CompletionsOf, FailuresOf
  <2>6. t = u => RowFailed(t)
    <3>1. t = u => /\ CompletionsOf(t)' = CompletionsOf(t)
                   /\ FailuresOf(t)' = FailuresOf(t) \cup
                         {[of |-> t, key |-> task[t].generation, input |-> c]}
      BY <2>1 DEF CompletionsOf, FailuresOf
    <3> QED BY <2>1, <2>2, <2>4, <3>1 DEF RowFailed
  <2> QED BY <2>4, <2>5, <2>6 DEF RowMoves, RowKept
<1>12. CASE UNCHANGED vars
  BY <1>12 DEF vars, RowMoves, RowKept, SameCommands, CompletionsOf, FailuresOf
<1> QED
  BY <1>1, <1>2, <1>4, <1>5, <1>6, <1>7, <1>8, <1>9, <1>10, <1>11, <1>12 DEF Next

-----------------------------------------------------------------------------
(* The command log.                                                         *)

\* Before the first run there is nothing to tell.
LEMMA RowsTellInit == Init => RowsTell
<1> SUFFICES ASSUME Init, NEW t \in Tasks PROVE AbsentRow(t) /\ CommandsTell(t)
  BY DEF RowsTell
<1>1. task[t] = AbsentTask /\ CompletionsOf(t) = {} /\ FailuresOf(t) = {}
  BY DEF Init, CompletionsOf, FailuresOf
<1>2. AbsentTask.status = "none"
  BY DEF AbsentTask
<1> QED BY <1>1, <1>2 DEF AbsentRow, CommandsTell

\* Each move keeps the log and the row it tells of together.
LEMMA MoveKeepsLog ==
    ASSUME RowsOK, NEW t \in Tasks, AbsentRow(t), CommandsTell(t), RowMoves(t)
    PROVE  AbsentRow(t)' /\ CommandsTell(t)'
<1>1. /\ task[t].generation \in Nat
      /\ \A c \in FailuresOf(t) : c.key \in Nat
  BY BoundsAssumption
     DEF RowsOK, TypeOK, TaskRecord, CommandLog, FailuresOf, Attempts
<1>2. CASE RowKept(t)
  BY <1>2 DEF RowKept, SameCommands, AbsentRow, CommandsTell
<1>3. CASE RowInserted(t)
  <2>1. task[t].generation = 0 /\ task[t].status = "none"
    BY <1>3 DEF RowInserted, AbsentRow, AbsentTask
  <2>2. task'[t].status = "queued" /\ task'[t].generation = 0
    BY <1>3 DEF RowInserted, NewTask, AbsentTask
  <2>3. CompletionsOf(t) = {} /\ FailuresOf(t) = {}
    BY <1>1, <2>1 DEF CommandsTell
  <2> QED BY <1>3, <2>2, <2>3 DEF RowInserted, SameCommands, AbsentRow, CommandsTell
<1>4. CASE RowClaimed(t)
  <2>1. CompletionsOf(t) = {} /\ \A c \in FailuresOf(t) : c.input # "permanent"
    BY <1>4 DEF RowClaimed, CommandsTell
  <2>2. \A c \in FailuresOf(t) : c.key < task'[t].generation
    BY <1>1, <1>4 DEF RowClaimed, CommandsTell
  <2> QED BY <1>1, <1>4, <2>1, <2>2 DEF RowClaimed, SameCommands, AbsentRow, CommandsTell
<1>5. CASE RowMoved(t)
  <2>1. CompletionsOf(t) = {} /\ \A c \in FailuresOf(t) : c.input # "permanent"
    BY <1>5 DEF RowMoved, CommandsTell, ActiveStatus
  <2>2. \A c \in FailuresOf(t) : c.key = task[t].generation => task[t].status = "queued"
    BY <1>5 DEF RowMoved, CommandsTell, ActiveStatus
  <2> QED BY <1>5, <2>1, <2>2 DEF RowMoved, SameCommands, AbsentRow, CommandsTell
<1>6. CASE RowCommitted(t)
  <2>1. CompletionsOf(t) = {}
    BY <1>6 DEF RowCommitted, CommandsTell
  <2>2. \A c \in FailuresOf(t) : c.key # task[t].generation /\ c.input # "permanent"
    BY <1>6 DEF RowCommitted, CommandsTell
  <2> QED BY <1>6, <2>1, <2>2 DEF RowCommitted, AbsentRow, CommandsTell
<1>7. CASE RowFailed(t)
  <2>1. CompletionsOf(t) = {}
    BY <1>7 DEF RowFailed, CommandsTell
  <2>2. \A c \in FailuresOf(t) : c.key # task[t].generation /\ c.input # "permanent"
    BY <1>7 DEF RowFailed, CommandsTell
  <2>3. PICK c \in Classifications :
           /\ c = "permanent" => task'[t].status = "failed"
           /\ FailuresOf(t)' = FailuresOf(t) \cup
                 {[of |-> t, key |-> task[t].generation, input |-> c]}
    BY <1>7 DEF RowFailed
  <2>4. AbsentRow(t)'
    BY <1>7 DEF RowFailed, AbsentRow
  <2>5. ~(task'[t].status = "succeeded") /\ CompletionsOf(t)' = {}
    BY <1>7, <2>1 DEF RowFailed
  <2>6. \A b \in FailuresOf(t)' :
          /\ b.key <= task'[t].generation
          /\ b.key = task'[t].generation => task'[t].status \in {"queued", "failed", "cancelled"}
          /\ b.input = "permanent" => task'[t].status = "failed"
    BY <1>1, <1>7, <2>2, <2>3 DEF RowFailed, CommandsTell
  <2> QED BY <2>4, <2>5, <2>6 DEF CommandsTell
<1> QED BY <1>2, <1>3, <1>4, <1>5, <1>6, <1>7 DEF RowMoves

\* The log tells the truth in every reachable state.
LEMMA RowsAlwaysTell == Spec => []RowsTell
<1>1. RowsOK /\ RunMatchesCurrentTask /\ RowsTell /\ [Next]_vars => RowsTell'
  <2> SUFFICES ASSUME RowsOK, RunMatchesCurrentTask, RowsTell, [Next]_vars, NEW t \in Tasks
               PROVE  AbsentRow(t)' /\ CommandsTell(t)'
    BY DEF RowsTell
  <2>1. RowMoves(t)
    BY NextRowMoves
  <2> QED BY <2>1, MoveKeepsLog DEF RowsTell
<1>2. Spec => []RowsOK
  BY RowsOKInit, RowsOKNext, PTL DEF Spec
<1> QED
  BY <1>1, <1>2, RunMatches, RowsTellInit, PTL DEF Spec

\* CommandsMatchTasks: a retry answered from workflow_commands is told what
\* happened.  A completion is recorded iff the task succeeded, under the
\* generation and with the output that won, and no generation both completes
\* and fails.
THEOREM LogTellsTheTruth == Spec => []CommandsMatchTasks
<1>1. RowsOK /\ RowsTell => CommandsMatchTasks
  <2> SUFFICES ASSUME RowsOK, RowsTell PROVE CommandsMatchTasks
    OBVIOUS
  <2>1. /\ \A c \in command.complete : c.of \in Tasks /\ c \in CompletionsOf(c.of)
        /\ \A c \in command.fail : c.of \in Tasks /\ c \in FailuresOf(c.of)
    BY DEF RowsOK, TypeOK, CommandLog, CompletionsOf, FailuresOf
  <2>2. \A t \in Tasks : task[t].status = "succeeded" <=> \E c \in command.complete : c.of = t
    <3> TAKE t \in Tasks
    <3>1. task[t].status = "succeeded" <=> CompletionsOf(t) # {}
      BY DEF RowsTell, CommandsTell
    <3>2. CompletionsOf(t) # {} <=> \E c \in command.complete : c.of = t
      BY DEF CompletionsOf
    <3> QED BY <3>1, <3>2
  <2>3. \A c \in command.complete : c.key = task[c.of].generation /\ c.input = task[c.of].output
    BY <2>1 DEF RowsTell, CommandsTell
  <2>4. \A c \in command.fail :
          /\ c.key <= task[c.of].generation
          /\ c.key = task[c.of].generation =>
                task[c.of].status \in {"queued", "failed", "cancelled"}
          /\ c.input = "permanent" => task[c.of].status = "failed"
    BY <2>1 DEF RowsTell, CommandsTell
  <2> QED BY <2>2, <2>3, <2>4 DEF CommandsMatchTasks
<1>2. Spec => []RowsOK
  BY RowsOKInit, RowsOKNext, PTL DEF Spec
<1> QED
  BY <1>1, <1>2, RowsAlwaysTell, PTL

-----------------------------------------------------------------------------
(* The quota.                                                               *)

Live(t) == task[t].status = "running" /\ task[t].lease > 0

\* There are finitely many rows, so leases can be counted.
LEMMA LeasesFinite ==
    ASSUME NEW org
    PROVE  /\ IsFiniteSet(Tasks)
           /\ IsFiniteSet(LeasedTasks(org)) /\ Cardinality(LeasedTasks(org)) \in Nat
<1>1. IsFiniteSet(Phases)
  BY BoundsAssumption, FS_Interval DEF Phases
<1>2. IsFiniteSet(Tasks)
  BY <1>1, TenancyAssumption, FS_Product DEF Tasks
<1>3. IsFiniteSet(LeasedTasks(org))
  BY <1>2, FS_Subset DEF LeasedTasks
<1> QED BY <1>2, <1>3, FS_CardinalityType

\* Only a claim makes a lease, and it makes one.
LEMMA OnlyClaimsLease ==
    ASSUME RowsOK, RunMatchesCurrentTask, [Next]_vars,
           \A w \in Workers, u \in Tasks : ~ClaimWorkflowTask(w, u),
           NEW t \in Tasks, Live(t)'
    PROVE  Live(t)
<1>1. RowMoves(t)
  BY NextRowMoves
<1>2. ~RowClaimed(t)
  BY DEF RowClaimed
<1> QED
  BY <1>1, <1>2
     DEF RowMoves, RowKept, RowInserted, RowMoved, RowCommitted, RowFailed, Live, NewTask, AbsentTask

\* QuotaRespected: claims count the live leases of the organization, whatever
\* expires or is renewed between them, and never hand out one too many.
THEOREM QuotaIsRespected == Spec => []QuotaRespected
<1>1. Init => QuotaRespected
  <2> SUFFICES ASSUME Init, NEW org \in Orgs
               PROVE  Cardinality(LeasedTasks(org)) <= ActiveTaskQuota
    BY DEF QuotaRespected
  <2>1. LeasedTasks(org) = {}
    BY DEF Init, LeasedTasks, AbsentTask
  <2>2. Cardinality({}) = 0
    BY FS_EmptySet
  <2> QED BY <2>1, <2>2, BoundsAssumption
<1>2. RowsOK /\ RunMatchesCurrentTask /\ QuotaRespected /\ [Next]_vars => QuotaRespected'
  <2> SUFFICES ASSUME RowsOK, RunMatchesCurrentTask, QuotaRespected, [Next]_vars,
                      NEW org \in Orgs
               PROVE  Cardinality(LeasedTasks(org)') <= ActiveTaskQuota
    BY DEF QuotaRespected
  <2>1. /\ IsFiniteSet(LeasedTasks(org)) /\ Cardinality(LeasedTasks(org)) \in Nat
        /\ Cardinality(LeasedTasks(org)) <= ActiveTaskQuota
    BY LeasesFinite DEF QuotaRespected
  <2>2. CASE \A w \in Workers, u \in Tasks : ~ClaimWorkflowTask(w, u)
    <3>1. LeasedTasks(org)' \subseteq LeasedTasks(org)
      BY <2>2, OnlyClaimsLease DEF LeasedTasks, Live
    <3>2. /\ Cardinality(LeasedTasks(org)') <= Cardinality(LeasedTasks(org))
          /\ Cardinality(LeasedTasks(org)') \in Nat
      BY <2>1, <3>1, FS_Subset, FS_CardinalityType
    <3> QED BY <2>1, <3>2, BoundsAssumption
  <2>3. ASSUME NEW w \in Workers, NEW u \in Tasks, ClaimWorkflowTask(w, u)
        PROVE  Cardinality(LeasedTasks(org)') <= ActiveTaskQuota
    <3>1. \A t \in Tasks : t # u => task'[t] = task[t]
      BY <2>3 DEF RowsOK, TypeOK, ClaimWorkflowTask
    <3>2. CASE OrgOf[ProjectOf[u[1]]] = org
      <4>1. Cardinality(LeasedTasks(org)) < ActiveTaskQuota
        BY <2>3, <3>2 DEF ClaimWorkflowTask, QuotaLeft
      <4>2. LeasedTasks(org)' \subseteq LeasedTasks(org) \cup {u}
        BY <3>1 DEF LeasedTasks
      <4>3. IsFiniteSet(LeasedTasks(org) \cup {u})
        BY <2>1, FS_AddElement
      <4>4. Cardinality(LeasedTasks(org) \cup {u}) <= Cardinality(LeasedTasks(org)) + 1
        <5>1. CASE u \in LeasedTasks(org)
          <6>1. Cardinality(LeasedTasks(org) \cup {u}) = Cardinality(LeasedTasks(org))
            BY <2>1, <5>1, FS_AddElement
          <6> QED BY <2>1, <6>1
        <5>2. CASE u \notin LeasedTasks(org)
          <6>1. Cardinality(LeasedTasks(org) \cup {u}) = Cardinality(LeasedTasks(org)) + 1
            BY <2>1, <5>2, FS_AddElement
          <6> QED BY <2>1, <6>1
        <5> QED BY <5>1, <5>2
      <4>5. /\ Cardinality(LeasedTasks(org)') <= Cardinality(LeasedTasks(org) \cup {u})
            /\ Cardinality(LeasedTasks(org)') \in Nat
            /\ Cardinality(LeasedTasks(org) \cup {u}) \in Nat
        BY <4>2, <4>3, FS_Subset, FS_CardinalityType
      <4> QED BY <2>1, <4>1, <4>4, <4>5, BoundsAssumption
    <3>3. CASE OrgOf[ProjectOf[u[1]]] # org
      <4>1. LeasedTasks(org)' = LeasedTasks(org)
        BY <3>1, <3>3 DEF LeasedTasks
      <4> QED BY <2>1, <4>1
    <3> QED BY <3>2, <3>3
  <2> QED BY <2>2, <2>3
<1>3. Spec => []RowsOK
  BY RowsOKInit, RowsOKNext, PTL DEF Spec
<1> QED
  BY <1>1, <1>2, <1>3, RunMatches, PTL DEF Spec

-----------------------------------------------------------------------------
(* The project.                                                             *)

\* workflow_runs_one_active_per_project_idx
OneActive ==
    \A r, s \in Runs :
        RunIsActive(r) /\ RunIsActive(s) /\ ProjectOf[r] = ProjectOf[s] => r = s

\* An operation that takes the run r out of its project's work, and says how.
Ends(r, status, verdict) ==
    /\ RunIsActive(r)
    /\ run'[r].status = status
    /\ project' = [project EXCEPT ![ProjectOf[r]] = verdict]

\* What an operation does to the runs and projects: it starts a run, or makes no
\* run active and leaves the projects alone unless it ends a run.
ProjectMove ==
    \/ \E r \in Runs, d \in Digests : StartWorkflow(r, d)
    \/ /\ \A s \in Runs : RunIsActive(s)' => RunIsActive(s)
       /\ \/ project' = project
          \/ \E r \in Runs : Ends(r, "succeeded", "analyzed") \/ Ends(r, "failed", "failed")

\* An operation that changes one active run and no project.
LEMMA OneRunMoves ==
    ASSUME RowsOK, NEW r \in Runs, RunIsActive(r), NEW row,
           run' = [run EXCEPT ![r] = row]
    PROVE  /\ \A s \in Runs : RunIsActive(s)' => RunIsActive(s)
           /\ run'[r] = row
<1>1. \A s \in Runs : run'[s] = IF s = r THEN row ELSE run[s]
  BY DEF RowsOK, TypeOK
<1> QED BY <1>1 DEF RunIsActive

LEMMA NextProjectMove ==
    ASSUME RowsOK, RunMatchesCurrentTask, [Next]_vars
    PROVE  ProjectMove
<1>0. run \in [Runs -> RunRecord]
  BY DEF RowsOK, TypeOK
<1>1. ASSUME NEW r \in Runs, NEW d \in Digests, StartWorkflow(r, d) PROVE ProjectMove
  BY <1>1 DEF ProjectMove
<1>2. ASSUME NEW t \in Tasks, task[t].status \in ActiveStatus
      PROVE  t[1] \in Runs /\ RunIsActive(t[1])
  BY <1>2, ActiveTaskIsCurrent DEF RunIsActive
<1>3. ASSUME NEW w \in Workers, NEW t \in Tasks, ClaimWorkflowTask(w, t) PROVE ProjectMove
  <2>1. /\ t[1] \in Runs /\ RunIsActive(t[1]) /\ project' = project
        /\ run' = [run EXCEPT ![t[1]] = [status |-> "running", phase |-> t[2]]]
    BY <1>3 DEF ClaimWorkflowTask, Claimable, Tasks
  <2> QED BY <2>1, OneRunMoves DEF ProjectMove
<1>4. ASSUME run' = run, project' = project PROVE ProjectMove
  BY <1>4 DEF ProjectMove, RunIsActive
<1>5. ASSUME NEW w \in Workers, NEW t \in Tasks, NEW g \in Attempts,
             HeartbeatWorkflowTask(w, t, g) PROVE ProjectMove
  BY <1>4, <1>5 DEF HeartbeatWorkflowTask
<1>6. ASSUME NEW t \in Tasks, LeaseTick(t) \/ RetryDue(t) \/ WaitExpires(t) PROVE ProjectMove
  BY <1>4, <1>6 DEF LeaseTick, RetryDue, WaitExpires
<1>7. ASSUME NEW w \in Workers, NEW t \in Tasks, NEW g \in Attempts, NEW d \in Digests,
             CompleteWorkflowTask(w, t, g, d) PROVE ProjectMove
  <2>1. t[1] \in Runs /\ RunIsActive(t[1])
    BY <1>2, <1>7 DEF CompleteWorkflowTask, HoldsLease, ActiveStatus
  <2>2. CASE /\ run' = [run EXCEPT ![t[1]] = [status |-> "queued", phase |-> t[2] + 1]]
             /\ project' = project
    BY <2>1, <2>2, OneRunMoves DEF ProjectMove
  <2>3. CASE /\ run' = [run EXCEPT ![t[1]].status = "succeeded"]
             /\ project' = [project EXCEPT ![ProjectOf[t[1]]] = "analyzed"]
    <3>1. run' = [run EXCEPT ![t[1]] = [status |-> "succeeded", phase |-> run[t[1]].phase]]
      BY <2>1, <2>3, StatusUpdate
    <3>0. /\ \A s \in Runs : RunIsActive(s)' => RunIsActive(s)
          /\ run'[t[1]] = [status |-> "succeeded", phase |-> run[t[1]].phase]
      BY <2>1, <3>1, OneRunMoves
    <3>2. run'[t[1]].status = "succeeded"
      BY <3>0
    <3> QED BY <2>1, <2>3, <3>0, <3>2 DEF ProjectMove, Ends
  <2> QED BY <1>7, <2>2, <2>3 DEF CompleteWorkflowTask
<1>8. ASSUME NEW w \in Workers, NEW t \in Tasks, NEW g \in Attempts, NEW c \in Classifications,
             FailWorkflowTask(w, t, g, c) PROVE ProjectMove
  <2>1. t[1] \in Runs /\ RunIsActive(t[1])
    BY <1>2, <1>8 DEF FailWorkflowTask, HoldsLease, ActiveStatus
  <2>2. CASE /\ run' = [run EXCEPT ![t[1]].status = "failed"]
             /\ project' = [project EXCEPT ![ProjectOf[t[1]]] = "failed"]
    <3>1. run' = [run EXCEPT ![t[1]] = [status |-> "failed", phase |-> run[t[1]].phase]]
      BY <2>1, <2>2, StatusUpdate
    <3>0. /\ \A s \in Runs : RunIsActive(s)' => RunIsActive(s)
          /\ run'[t[1]] = [status |-> "failed", phase |-> run[t[1]].phase]
      BY <2>1, <3>1, OneRunMoves
    <3>2. run'[t[1]].status = "failed"
      BY <3>0
    <3> QED BY <2>1, <2>2, <3>0, <3>2 DEF ProjectMove, Ends
  <2>3. CASE run' = [run EXCEPT ![t[1]].status = "queued"] /\ project' = project
    <3>1. run' = [run EXCEPT ![t[1]] = [status |-> "queued", phase |-> run[t[1]].phase]]
      BY <2>1, <2>3, StatusUpdate
    <3> QED BY <2>1, <2>3, <3>1, OneRunMoves DEF ProjectMove
  <2> QED BY <1>8, <2>2, <2>3 DEF FailWorkflowTask
<1>9. ASSUME NEW w \in Workers, NEW t \in Tasks, NEW g \in Attempts,
             WaitWorkflowTask(w, t, g) PROVE ProjectMove
  <2>1. t[1] \in Runs /\ RunIsActive(t[1])
    BY <1>2, <1>9 DEF WaitWorkflowTask, HoldsLease, ActiveStatus
  <2>2. run' = [run EXCEPT ![t[1]].status = "waiting"] /\ project' = project
    BY <1>9 DEF WaitWorkflowTask
  <2>3. run' = [run EXCEPT ![t[1]] = [status |-> "waiting", phase |-> run[t[1]].phase]]
    BY <2>1, <2>2, StatusUpdate
  <2> QED BY <2>1, <2>2, <2>3, OneRunMoves DEF ProjectMove
<1>10. ASSUME NEW r \in Runs, NEW token \in Tokens, NEW key \in AppKeys,
              ResumeWorkflowTask(r, token, key) PROVE ProjectMove
  <2>1. <<r, token[1]>> \in Tasks /\ task[<<r, token[1]>>].status \in ActiveStatus
    BY <1>10 DEF Tasks, Tokens, ResumeWorkflowTask, ActiveStatus
  <2>2. RunIsActive(r)
    BY <1>2, <2>1
  <2>3. run' = [run EXCEPT ![r].status = "queued"] /\ project' = project
    BY <1>10 DEF ResumeWorkflowTask
  <2>4. run' = [run EXCEPT ![r] = [status |-> "queued", phase |-> run[r].phase]]
    BY <2>3, StatusUpdate
  <2> QED BY <2>2, <2>3, <2>4, OneRunMoves DEF ProjectMove
<1>11. ASSUME NEW r \in Runs, NEW key \in AppKeys, CancelWorkflow(r, key) PROVE ProjectMove
  <2>1. RunIsActive(r) /\ project' = project /\ run' = [run EXCEPT ![r].status = "cancelled"]
    BY <1>11 DEF CancelWorkflow
  <2>2. run' = [run EXCEPT ![r] = [status |-> "cancelled", phase |-> run[r].phase]]
    BY <2>1, StatusUpdate
  <2> QED BY <2>1, <2>2, OneRunMoves DEF ProjectMove
<1>12. ASSUME NEW found \in SUBSET {t \in Tasks : Repairable(t)}, ReconcileWorkflows(found)
       PROVE ProjectMove
  <2>1. \A s \in Runs : (\E t \in found : t[1] = s) => RunIsActive(s)
    BY <1>12 DEF ReconcileWorkflows, Repairable
  <2>2. \A s \in Runs : ~(\E t \in found : t[1] = s) => run'[s] = run[s]
    BY <1>12 DEF ReconcileWorkflows
  <2>3. project' = project
    BY <1>12 DEF ReconcileWorkflows
  <2> QED BY <2>1, <2>2, <2>3 DEF ProjectMove, RunIsActive
<1>13. CASE UNCHANGED vars
  BY <1>4, <1>13 DEF vars
<1> QED
  BY <1>1, <1>3, <1>5, <1>6, <1>7, <1>8, <1>9, <1>10, <1>11, <1>12, <1>13 DEF Next

\* A run that ended stays as it ended.
LEMMA EndedStays ==
    ASSUME RowsOK, RunMatchesCurrentTask, [Next]_vars, NEW r \in Runs,
           run[r].status \in TerminalStatus
    PROVE  run'[r].status = run[r].status
<1>1. CASE UNCHANGED vars
  BY <1>1 DEF vars
<1>2. CASE ~UNCHANGED vars
  <2>1. StepAccepted
    BY <1>2, NextAccepted
  <2> QED BY <2>1 DEF StepAccepted, RunTriggersAccept, RunTransitions, TerminalStatus
<1> QED BY <1>1, <1>2

\* A project has one active run: a start looks at every run of the project.
LEMMA OneActiveNext ==
    ASSUME RowsOK, OneActive, ProjectMove
    PROVE  OneActive'
<1>1. CASE \E r \in Runs, d \in Digests : StartWorkflow(r, d)
  <2>1. PICK r \in Runs : /\ \A s \in Runs : ProjectOf[s] = ProjectOf[r] => ~RunIsActive(s)
                          /\ run' = [run EXCEPT ![r] = [status |-> "queued", phase |-> 1]]
    BY <1>1 DEF StartWorkflow
  <2>2. \A s \in Runs : s # r => run'[s] = run[s]
    BY <2>1 DEF RowsOK, TypeOK
  <2>3. ASSUME NEW s \in Runs, RunIsActive(s)' PROVE s = r \/ RunIsActive(s)
    BY <2>2, <2>3 DEF RunIsActive
  <2> QED BY <2>1, <2>3 DEF OneActive
<1>2. CASE \A s \in Runs : RunIsActive(s)' => RunIsActive(s)
  BY <1>2 DEF OneActive
<1> QED BY <1>1, <1>2 DEF ProjectMove

\* ProjectStatusEarned, step by step.
LEMMA StatusEarnedNext ==
    ASSUME RowsOK, RunMatchesCurrentTask, OneActive, ProjectStatusEarned, [Next]_vars
    PROVE  ProjectStatusEarned'
<1> DEFINE Earned(p, status) == \E r \in Runs : ProjectOf[r] = p /\ run[r].status = status
           Right(p) == /\ (\E r \in Runs : ProjectOf[r] = p /\ RunIsActive(r))
                              => project[p] = "analyzing"
                       /\ project[p] = "analyzed" => Earned(p, "succeeded")
                       /\ project[p] = "failed" => Earned(p, "failed")
<1> SUFFICES ASSUME NEW p \in Projects PROVE Right(p)'
  BY DEF ProjectStatusEarned
<1>1. Right(p)
  BY DEF ProjectStatusEarned
<1>2. /\ Earned(p, "succeeded") => Earned(p, "succeeded")'
      /\ Earned(p, "failed") => Earned(p, "failed")'
  BY EndedStays DEF TerminalStatus
<1>3. project \in [Projects -> {"created", "analyzing", "analyzed", "failed"}]
  BY DEF RowsOK, TypeOK
<1>4. \A r \in Runs : ProjectOf[r] \in Projects
  BY TenancyAssumption
<1>5. CASE \E r \in Runs, d \in Digests : StartWorkflow(r, d)
  <2>1. PICK r \in Runs : /\ run' = [run EXCEPT ![r] = [status |-> "queued", phase |-> 1]]
                          /\ project' = [project EXCEPT ![ProjectOf[r]] = "analyzing"]
    BY <1>5 DEF StartWorkflow
  <2>2. CASE ProjectOf[r] = p
    BY <1>3, <2>1, <2>2
  <2>3. CASE ProjectOf[r] # p
    <3>1. project'[p] = project[p]
      BY <1>3, <2>1, <2>3
    <3>2. \A s \in Runs : ProjectOf[s] = p => run'[s] = run[s]
      BY <2>1, <2>3 DEF RowsOK, TypeOK
    <3>3. (\E s \in Runs : ProjectOf[s] = p /\ RunIsActive(s)')
             => (\E s \in Runs : ProjectOf[s] = p /\ RunIsActive(s))
      BY <3>2 DEF RunIsActive
    <3> QED BY <1>1, <1>2, <3>1, <3>3
  <2> QED BY <2>2, <2>3
<1>6. CASE /\ \A s \in Runs : RunIsActive(s)' => RunIsActive(s)
           /\ project' = project
  BY <1>1, <1>2, <1>6
<1>7. ASSUME NEW r \in Runs, NEW how \in {"succeeded", "failed"}, NEW verdict,
             verdict = IF how = "succeeded" THEN "analyzed" ELSE "failed",
             Ends(r, how, verdict),
             \A s \in Runs : RunIsActive(s)' => RunIsActive(s)
      PROVE  Right(p)'
  <2>1. ~RunIsActive(r)' /\ RunIsActive(r)
    BY <1>7 DEF Ends, RunIsActive, ActiveStatus
  <2>2. CASE ProjectOf[r] = p
    <3>1. \A s \in Runs : ProjectOf[s] = p => ~RunIsActive(s)'
      BY <1>7, <2>1, <2>2 DEF OneActive
    <3>2. project'[p] = verdict
      BY <1>3, <1>7, <2>2 DEF Ends
    <3>3. Earned(p, how)'
      BY <1>7, <2>2 DEF Ends
    <3>4. CASE how = "succeeded"
      BY <1>7, <3>1, <3>2, <3>3, <3>4
    <3>5. CASE how = "failed"
      BY <1>7, <3>1, <3>2, <3>3, <3>5
    <3> QED BY <3>4, <3>5
  <2>3. CASE ProjectOf[r] # p
    <3>1. project'[p] = project[p]
      BY <1>3, <1>7, <2>3 DEF Ends
    <3> QED BY <1>1, <1>2, <1>7, <3>1
  <2> QED BY <2>2, <2>3
<1>8. ProjectMove
  BY NextProjectMove
<1> HIDE DEF Right, Earned
<1> QED BY <1>5, <1>6, <1>7, <1>8 DEF ProjectMove

\* ProjectStatusEarned: a project is analyzing while a run of it is active,
\* and analyzed or failed only when a run of it ended that way.
THEOREM ProjectsTellTheTruth == Spec => []ProjectStatusEarned
<1>1. Init => OneActive /\ ProjectStatusEarned
  BY DEF Init, OneActive, RunIsActive, ActiveStatus, ProjectStatusEarned
<1>2. RowsOK /\ RunMatchesCurrentTask /\ OneActive /\ ProjectStatusEarned /\ [Next]_vars
         => OneActive' /\ ProjectStatusEarned'
  BY NextProjectMove, OneActiveNext, StatusEarnedNext
<1>3. Spec => []RowsOK
  BY RowsOKInit, RowsOKNext, PTL DEF Spec
<1> QED
  BY <1>1, <1>2, <1>3, RunMatches, PTL DEF Spec

-----------------------------------------------------------------------------
(* The chain of phases.                                                     *)

\* Only a completion writes an output.
LEMMA OnlyCompletionsCommit ==
    ASSUME RowsOK, RunMatchesCurrentTask, RowsTell, [Next]_vars,
           \A w \in Workers, t \in Tasks, g \in Attempts, d \in Digests :
              ~CompleteWorkflowTask(w, t, g, d)
    PROVE  CommittedOutputs' = CommittedOutputs
<1>1. ASSUME NEW t \in Tasks PROVE task'[t].output = task[t].output
  <2>1. RowMoves(t)
    BY NextRowMoves
  <2>2. ~RowCommitted(t)
    BY DEF RowCommitted
  <2>3. CASE RowInserted(t)
    <3>1. task[t].output = None
      BY <2>3 DEF RowInserted, RowsTell, AbsentRow, AbsentTask
    <3>2. task'[t].output = None
      BY <2>3 DEF RowInserted, NewTask, AbsentTask
    <3> QED BY <3>1, <3>2
  <2> QED BY <2>1, <2>2, <2>3 DEF RowMoves, RowKept, RowClaimed, RowMoved, RowFailed
<1> QED BY <1>1 DEF CommittedOutputs, Tasks

\* A step that commits nothing, and after which active runs are active still in
\* the same phase, is none to the chain.
LEMMA ChainStutters ==
    ASSUME CommittedOutputs' = CommittedOutputs,
           \A s \in Runs : /\ run'[s].phase = run[s].phase
                           /\ \/ run'[s].status = run[s].status
                              \/ RunIsActive(s) /\ RunIsActive(s)'
    PROVE  UNCHANGED Chain!chainVars
<1>1. \A s \in Runs : RunIsActive(s)' <=> run'[s].status \in ActiveStatus
  BY DEF RunIsActive
<1>2. CommittedPhases' = CommittedPhases
  BY <1>1 DEF CommittedPhases, RunIsActive, ActiveStatus
<1>3. Verdicts' = Verdicts
  BY <1>1 DEF Verdicts, RunIsActive, ActiveStatus
<1> QED BY <1>2, <1>3 DEF Chain!chainVars

\* Setting the status of an active run to an active one, in its phase.
LEMMA ActiveStaysActive ==
    ASSUME RowsOK, NEW r \in Runs, RunIsActive(r), NEW status \in ActiveStatus,
           run' = [run EXCEPT ![r] = [status |-> status, phase |-> run[r].phase]],
           CommittedOutputs' = CommittedOutputs
    PROVE  UNCHANGED Chain!chainVars
<1>1. \A s \in Runs : s # r => run'[s] = run[s]
  BY DEF RowsOK, TypeOK
<1>2. run'[r] = [status |-> status, phase |-> run[r].phase]
  BY DEF RowsOK, TypeOK
<1>3. run'[r].phase = run[r].phase /\ run'[r].status \in ActiveStatus
  BY <1>2
<1> QED BY <1>1, <1>3, ChainStutters DEF RunIsActive

\* Runs that are given up on, in whichever phase they are.
LEMMA RunsGivenUp ==
    ASSUME NEW lost \in SUBSET Runs, \A s \in lost : RunIsActive(s),
           CommittedOutputs' = CommittedOutputs,
           \A s \in Runs : run'[s].phase = run[s].phase,
           \A s \in lost : run'[s].status = "failed",
           \A s \in Runs \ lost : \/ run'[s].status = run[s].status
                                  \/ RunIsActive(s) /\ RunIsActive(s)'
    PROVE  Chain!GiveUp(lost)
<1>1. \A s \in lost : Verdicts[s] = "open"
  BY DEF Verdicts
<1>2. CommittedPhases' = CommittedPhases
  BY DEF CommittedPhases, RunIsActive, ActiveStatus
<1>3. Verdicts' = [s \in Runs |-> IF s \in lost THEN "failed" ELSE Verdicts[s]]
  BY DEF Verdicts, RunIsActive, ActiveStatus
<1> QED BY <1>1, <1>2, <1>3 DEF Chain!GiveUp

\* A completion commits its phase, and the last one ends the run.
LEMMA CompletionCommits ==
    ASSUME RowsOK, RunMatchesCurrentTask, RowsTell, NEW w \in Workers, NEW t \in Tasks,
           NEW g \in Attempts, NEW d \in Digests, CompleteWorkflowTask(w, t, g, d)
    PROVE  Chain!Commit(t[1], d)
<1> DEFINE done == [Released(t, "succeeded") EXCEPT !.output = d]
           r == t[1]
           next == <<t[1], t[2] + 1>>
<1>1. run \in [Runs -> RunRecord] /\ task \in [Tasks -> TaskRecord]
  BY DEF RowsOK, TypeOK
<1>2. task[t].status = "running"
  BY DEF CompleteWorkflowTask, HoldsLease
<1>3. /\ r \in Runs /\ t[2] \in Phases /\ t = <<r, t[2]>> /\ run[r].phase = t[2]
      /\ run[r].status = "running"
  BY <1>2, ActiveTaskIsCurrent DEF Tasks, ActiveStatus
<1>4. t[2] \in Nat /\ t[2] <= LastPhase /\ t[2] > 0 /\ LastPhase \in Nat
  BY <1>3, BoundsAssumption DEF Phases
<1>5. done.output = d
  BY <1>1 DEF Released, TaskRecord
<1>6. Verdicts[r] = "open" /\ CommittedPhases[r] = t[2] - 1
  BY <1>3 DEF Verdicts, CommittedPhases, RunIsActive, ActiveStatus
<1>12. CommittedPhases[r] + 1 = t[2] /\ CommittedPhases[r] < LastPhase
  BY <1>4, <1>6
<1>7. /\ task'[t].output = d
      /\ \A u \in Tasks : u # t => task'[u].output = task[u].output
  <2>0. next # t
    <3>1. t[2] + 1 # t[2]
      BY <1>4
    <3> QED BY <3>1, <1>3
  <2>1. CASE task' = [task EXCEPT ![t] = done]
    <3> HIDE DEF done
    <3> QED BY <1>1, <1>5, <2>1
  <2>2. CASE task' = [task EXCEPT ![t] = done,
                                  ![next] = IF @.status = "none" THEN NewTask(d) ELSE @]
    <3> HIDE DEF done, next
    <3>1. task'[t] = done
      BY <1>1, <2>0, <2>2
    <3>2. ASSUME NEW u \in Tasks, u # t PROVE task'[u].output = task[u].output
      <4>1. CASE u = next /\ task[u].status = "none"
        <5>1. task'[u] = NewTask(d)
          BY <1>1, <2>0, <2>2, <4>1
        <5>2. task[u].output = None
          BY <4>1 DEF RowsTell, AbsentRow, AbsentTask
        <5> QED BY <5>1, <5>2 DEF NewTask, AbsentTask
      <4>2. CASE ~(u = next /\ task[u].status = "none")
        BY <1>1, <2>0, <2>2, <3>2, <4>2
      <4> QED BY <4>1, <4>2
    <3> QED BY <1>5, <3>1, <3>2
  <2> QED BY <2>1, <2>2 DEF CompleteWorkflowTask, HasSuccessor, Successor
<1>8. CommittedOutputs' = [CommittedOutputs EXCEPT ![r][t[2]] = d]
  <2>1. \A s \in Runs, p \in Phases :
           task'[<<s, p>>].output = IF s = r /\ p = t[2] THEN d ELSE task[<<s, p>>].output
    <3> SUFFICES ASSUME NEW s \in Runs, NEW p \in Phases
                 PROVE  task'[<<s, p>>].output =
                           IF s = r /\ p = t[2] THEN d ELSE task[<<s, p>>].output
      OBVIOUS
    <3>1. <<s, p>> \in Tasks /\ (<<s, p>> = t <=> s = r /\ p = t[2])
      BY <1>3 DEF Tasks
    <3> QED BY <1>7, <3>1
  <2>2. CommittedOutputs' = [s \in Runs |-> [p \in Phases |->
             IF s = r /\ p = t[2] THEN d ELSE task[<<s, p>>].output]]
    BY <2>1 DEF CommittedOutputs
  <2>3. [CommittedOutputs EXCEPT ![r][t[2]] = d] = [s \in Runs |-> [p \in Phases |->
             IF s = r /\ p = t[2] THEN d ELSE task[<<s, p>>].output]]
    BY <1>3 DEF CommittedOutputs
  <2> QED BY <2>2, <2>3
<1>9. \A s \in Runs : s # r => run'[s] = run[s]
  BY <1>1 DEF CompleteWorkflowTask
<1>10. CASE t[2] < LastPhase
  <2>1. run'[r] = [status |-> "queued", phase |-> t[2] + 1]
    BY <1>1, <1>3, <1>10 DEF CompleteWorkflowTask, HasSuccessor
  <2>2. run'[r].status = "queued" /\ run'[r].phase = t[2] + 1 /\ RunIsActive(r)'
    BY <2>1 DEF RunIsActive, ActiveStatus
  <2>3. CommittedPhases' = [CommittedPhases EXCEPT ![r] = CommittedPhases[r] + 1]
    <3>1. ASSUME NEW s \in Runs
          PROVE  CommittedPhases'[s] = IF s = r THEN CommittedPhases[r] + 1 ELSE CommittedPhases[s]
      <4>1. CASE s = r
        BY <1>3, <1>4, <1>6, <2>1, <2>2, <4>1 DEF CommittedPhases
      <4>2. CASE s # r
        BY <1>9, <4>2 DEF CommittedPhases
      <4> QED BY <4>1, <4>2
    <3> QED BY <1>3, <3>1 DEF CommittedPhases
  <2>4. Verdicts' = [Verdicts EXCEPT ![r] = "open"]
    BY <1>3, <1>9, <2>2 DEF Verdicts, RunIsActive
  <2>5. CommittedPhases[r] + 1 # LastPhase
    BY <1>4, <1>10, <1>12
  <2> QED BY <1>6, <1>8, <1>12, <2>3, <2>4, <2>5 DEF Chain!Commit
<1>11. CASE ~(t[2] < LastPhase)
  <2>1. run' = [run EXCEPT ![r].status = "succeeded"] /\ t[2] = LastPhase
    BY <1>4, <1>11 DEF CompleteWorkflowTask, HasSuccessor
  <2>2. run'[r].status = "succeeded"
    BY <1>1, <1>3, <2>1 DEF RunRecord
  <2>3. CommittedPhases' = [CommittedPhases EXCEPT ![r] = CommittedPhases[r] + 1]
    <3>1. ASSUME NEW s \in Runs
          PROVE  CommittedPhases'[s] = IF s = r THEN CommittedPhases[r] + 1 ELSE CommittedPhases[s]
      <4>1. CASE s = r
        BY <1>3, <1>4, <1>6, <2>1, <2>2, <4>1 DEF CommittedPhases
      <4>2. CASE s # r
        BY <1>9, <4>2 DEF CommittedPhases
      <4> QED BY <4>1, <4>2
    <3> QED BY <1>3, <3>1 DEF CommittedPhases
  <2>4. Verdicts' = [Verdicts EXCEPT ![r] = "succeeded"]
    BY <1>3, <1>9, <2>2 DEF Verdicts, RunIsActive, ActiveStatus
  <2> QED BY <1>6, <1>8, <1>12, <2>1, <2>3, <2>4 DEF Chain!Commit
<1> QED BY <1>10, <1>11

\* Every step of the store is a step of the chain, or none.
LEMMA StepOfChain ==
    ASSUME RowsOK, RunMatchesCurrentTask, RowsTell, [Next]_vars
    PROVE  [Chain!ChainNext]_Chain!chainVars
<1>0. run \in [Runs -> RunRecord]
  BY DEF RowsOK, TypeOK
<1>1. CASE \E w \in Workers, t \in Tasks, g \in Attempts, d \in Digests :
              CompleteWorkflowTask(w, t, g, d)
  <2>1. PICK w \in Workers, t \in Tasks, g \in Attempts, d \in Digests :
                CompleteWorkflowTask(w, t, g, d)
    BY <1>1
  <2>2. Chain!Commit(t[1], d) /\ t[1] \in Runs
    BY <2>1, CompletionCommits DEF Tasks
  <2> QED BY <2>2 DEF Chain!ChainNext
<1>2. CASE \A w \in Workers, t \in Tasks, g \in Attempts, d \in Digests :
              ~CompleteWorkflowTask(w, t, g, d)
  <2>0. CommittedOutputs' = CommittedOutputs
    BY <1>2, OnlyCompletionsCommit
  <2>1. ASSUME NEW t \in Tasks, task[t].status \in ActiveStatus
        PROVE  t[1] \in Runs /\ RunIsActive(t[1]) /\ t[2] = run[t[1]].phase
    BY <2>1, ActiveTaskIsCurrent DEF RunIsActive
  <2>2. ASSUME NEW r \in Runs, NEW d \in Digests, StartWorkflow(r, d)
        PROVE  [Chain!ChainNext]_Chain!chainVars
    <3>1. run[r].status = "none" /\ run[r].phase = 1
      BY <2>2 DEF StartWorkflow, RunMatchesCurrentTask, RowsMatch
    <3>2. /\ run'[r] = [status |-> "queued", phase |-> 1]
          /\ \A s \in Runs : s # r => run'[s] = run[s]
      BY <1>0, <2>2 DEF StartWorkflow
    <3>3. CommittedPhases' = CommittedPhases
      BY <3>1, <3>2 DEF CommittedPhases
    <3>6. ~RunIsActive(r) /\ RunIsActive(r)'
      BY <3>1, <3>2 DEF RunIsActive, ActiveStatus
    <3>4. Verdicts[r] = "none" /\ Verdicts' = [Verdicts EXCEPT ![r] = "open"]
      BY <3>1, <3>2, <3>6 DEF Verdicts, RunIsActive
    <3>5. Chain!Open(r)
      BY <2>0, <3>3, <3>4 DEF Chain!Open
    <3> QED BY <3>5 DEF Chain!ChainNext
  <2>3. ASSUME NEW w \in Workers, NEW t \in Tasks, ClaimWorkflowTask(w, t)
        PROVE  [Chain!ChainNext]_Chain!chainVars
    <3>1. t[1] \in Runs /\ RunIsActive(t[1]) /\ t[2] = run[t[1]].phase
      BY <2>1, <2>3
         DEF ClaimWorkflowTask, Claimable, Ready, LeaseExpired, ActiveStatus
    <3>2. run' = [run EXCEPT ![t[1]] = [status |-> "running", phase |-> run[t[1]].phase]]
      BY <2>3, <3>1 DEF ClaimWorkflowTask
    <3> QED BY <2>0, <3>1, <3>2, ActiveStaysActive DEF ActiveStatus
  <2>4. ASSUME run' = run
        PROVE  [Chain!ChainNext]_Chain!chainVars
    BY <2>0, <2>4, ChainStutters
  <2>5. ASSUME NEW w \in Workers, NEW t \in Tasks, NEW g \in Attempts,
               HeartbeatWorkflowTask(w, t, g)
        PROVE  [Chain!ChainNext]_Chain!chainVars
    BY <2>4, <2>5 DEF HeartbeatWorkflowTask
  <2>6. ASSUME NEW t \in Tasks, LeaseTick(t) \/ RetryDue(t) \/ WaitExpires(t)
        PROVE  [Chain!ChainNext]_Chain!chainVars
    BY <2>4, <2>6 DEF LeaseTick, RetryDue, WaitExpires
  <2>7. ASSUME NEW w \in Workers, NEW t \in Tasks, NEW g \in Attempts, NEW c \in Classifications,
               FailWorkflowTask(w, t, g, c)
        PROVE  [Chain!ChainNext]_Chain!chainVars
    <3>1. t[1] \in Runs /\ RunIsActive(t[1])
      BY <2>1, <2>7 DEF FailWorkflowTask, HoldsLease, ActiveStatus
    <3>2. CASE run' = [run EXCEPT ![t[1]].status = "failed"]
      <4>1. run' = [run EXCEPT ![t[1]] = [status |-> "failed", phase |-> run[t[1]].phase]]
        BY <3>1, <3>2, StatusUpdate
      <4>2. /\ run'[t[1]] = [status |-> "failed", phase |-> run[t[1]].phase]
            /\ \A s \in Runs : s # t[1] => run'[s] = run[s]
        BY <1>0, <3>1, <4>1
      <4>3. run'[t[1]].status = "failed" /\ run'[t[1]].phase = run[t[1]].phase
        BY <4>2
      <4>4. Chain!GiveUp({t[1]})
        BY <2>0, <3>1, <4>2, <4>3, RunsGivenUp
      <4> QED BY <3>1, <4>4 DEF Chain!ChainNext
    <3>3. CASE run' = [run EXCEPT ![t[1]].status = "queued"]
      <4>1. run' = [run EXCEPT ![t[1]] = [status |-> "queued", phase |-> run[t[1]].phase]]
        BY <3>1, <3>3, StatusUpdate
      <4> QED BY <2>0, <3>1, <4>1, ActiveStaysActive DEF ActiveStatus
    <3> QED BY <2>7, <3>2, <3>3 DEF FailWorkflowTask
  <2>8. ASSUME NEW w \in Workers, NEW t \in Tasks, NEW g \in Attempts,
               WaitWorkflowTask(w, t, g)
        PROVE  [Chain!ChainNext]_Chain!chainVars
    <3>1. t[1] \in Runs /\ RunIsActive(t[1]) /\ run' = [run EXCEPT ![t[1]].status = "waiting"]
      BY <2>1, <2>8 DEF WaitWorkflowTask, HoldsLease, ActiveStatus
    <3>2. run' = [run EXCEPT ![t[1]] = [status |-> "waiting", phase |-> run[t[1]].phase]]
      BY <3>1, StatusUpdate
    <3> QED BY <2>0, <3>1, <3>2, ActiveStaysActive DEF ActiveStatus
  <2>9. ASSUME NEW r \in Runs, NEW token \in Tokens, NEW key \in AppKeys,
               ResumeWorkflowTask(r, token, key)
        PROVE  [Chain!ChainNext]_Chain!chainVars
    <3>1. <<r, token[1]>> \in Tasks /\ task[<<r, token[1]>>].status \in ActiveStatus
      BY <2>9 DEF Tasks, Tokens, ResumeWorkflowTask, ActiveStatus
    <3>2. RunIsActive(r) /\ run' = [run EXCEPT ![r].status = "queued"]
      BY <2>1, <2>9, <3>1 DEF ResumeWorkflowTask
    <3>3. run' = [run EXCEPT ![r] = [status |-> "queued", phase |-> run[r].phase]]
      BY <3>2, StatusUpdate
    <3> QED BY <2>0, <3>2, <3>3, ActiveStaysActive DEF ActiveStatus
  <2>10. ASSUME NEW r \in Runs, NEW key \in AppKeys, CancelWorkflow(r, key)
         PROVE  [Chain!ChainNext]_Chain!chainVars
    <3>1. RunIsActive(r) /\ run' = [run EXCEPT ![r].status = "cancelled"]
      BY <2>10 DEF CancelWorkflow
    <3>2. run' = [run EXCEPT ![r] = [status |-> "cancelled", phase |-> run[r].phase]]
      BY <3>1, StatusUpdate
    <3>3. /\ run'[r] = [status |-> "cancelled", phase |-> run[r].phase]
          /\ \A s \in Runs : s # r => run'[s] = run[s]
      BY <1>0, <3>2
    <3>4. run'[r].status = "cancelled" /\ run'[r].phase = run[r].phase
      BY <3>3
    <3>5. CommittedPhases' = CommittedPhases
      BY <3>1, <3>3, <3>4 DEF CommittedPhases, RunIsActive, ActiveStatus
    <3>8. ~RunIsActive(r)'
      BY <3>4 DEF RunIsActive, ActiveStatus
    <3>6. Verdicts[r] = "open" /\ Verdicts' = [Verdicts EXCEPT ![r] = "cancelled"]
      <4>1. Verdicts[r] = "open" /\ Verdicts'[r] = "cancelled"
        BY <3>1, <3>4, <3>8 DEF Verdicts
      <4>2. \A s \in Runs : s # r => Verdicts'[s] = Verdicts[s]
        BY <3>3 DEF Verdicts, RunIsActive
      <4> QED BY <4>1, <4>2 DEF Verdicts
    <3>7. Chain!Cancel(r)
      BY <2>0, <3>5, <3>6 DEF Chain!Cancel
    <3> QED BY <3>7 DEF Chain!ChainNext
  <2>11. ASSUME NEW found \in SUBSET {t \in Tasks : Repairable(t)}, ReconcileWorkflows(found)
         PROVE  [Chain!ChainNext]_Chain!chainVars
    <3> DEFINE touched == {s \in Runs : \E t \in found : t[1] = s}
               lost == {s \in Runs : \E t \in found : t[1] = s /\ task[t].attempts >= MaxAttempts}
    <3>1. \A s \in touched : RunIsActive(s)
      BY <2>11 DEF ReconcileWorkflows, Repairable
    <3>2. \A s \in Runs :
             run'[s] = IF s \in touched
                       THEN [run[s] EXCEPT !.status = IF s \in lost THEN "failed" ELSE "queued"]
                       ELSE run[s]
      BY <2>11 DEF ReconcileWorkflows
    <3>3. lost \subseteq touched /\ touched \subseteq Runs
      OBVIOUS
    <3> HIDE DEF touched, lost
    <3>4. ASSUME NEW s \in Runs
          PROVE  /\ run'[s].phase = run[s].phase
                 /\ s \in lost => run'[s].status = "failed"
                 /\ s \in touched \ lost => run'[s].status = "queued"
                 /\ s \notin touched => run'[s] = run[s]
      <4>1. run[s] \in RunRecord
        BY <1>0
      <4>2. CASE s \in lost
        <5>1. run'[s] = [run[s] EXCEPT !.status = "failed"]
          BY <3>2, <3>3, <4>2
        <5> QED BY <3>3, <4>1, <4>2, <5>1 DEF RunRecord
      <4>3. CASE s \in touched \ lost
        <5>1. run'[s] = [run[s] EXCEPT !.status = "queued"]
          BY <3>2, <3>3, <4>3
        <5> QED BY <4>1, <4>3, <5>1 DEF RunRecord
      <4>4. CASE s \notin touched
        BY <3>2, <3>3, <4>4
      <4> QED BY <3>3, <4>2, <4>3, <4>4
    <3>5. \A s \in Runs \ lost : \/ run'[s].status = run[s].status
                                 \/ RunIsActive(s) /\ RunIsActive(s)'
      BY <3>1, <3>4 DEF RunIsActive, ActiveStatus
    <3>6. Chain!GiveUp(lost)
      BY <2>0, <3>1, <3>3, <3>4, <3>5, RunsGivenUp
    <3> QED BY <3>3, <3>6 DEF Chain!ChainNext
  <2>12. CASE UNCHANGED vars
    BY <2>4, <2>12 DEF vars
  <2> QED
    BY <1>2, <2>2, <2>3, <2>5, <2>6, <2>7, <2>8, <2>9, <2>10, <2>11, <2>12 DEF Next
<1> QED BY <1>1, <1>2

\* ImplementsPhaseChain: whatever workers, leases, retries, waits and repairs
\* do, and for any number of runs and phases, phases commit once and in order,
\* with one output each, and a run has one verdict.
THEOREM StoreImplementsChain == Spec => ImplementsPhaseChain
<1>1. Init => Chain!ChainInit
  <2> SUFFICES ASSUME Init PROVE Chain!ChainInit
    OBVIOUS
  <2>1. \A r \in Runs : run[r].status = "none" /\ run[r].phase = 1
    BY DEF Init
  <2>2. \A r \in Runs, p \in Phases : task[<<r, p>>].output = None
    BY DEF Init, Tasks, AbsentTask
  <2>3. CommittedPhases = [r \in Runs |-> 0] /\ Verdicts = [r \in Runs |-> "none"]
    BY <2>1 DEF CommittedPhases, Verdicts, RunIsActive, ActiveStatus
  <2>4. CommittedOutputs = [r \in Runs |-> [p \in 1 .. LastPhase |-> None]]
    BY <2>2 DEF CommittedOutputs, Phases
  <2> QED BY <2>3, <2>4 DEF Chain!ChainInit
<1>2. Spec => []RowsOK
  BY RowsOKInit, RowsOKNext, PTL DEF Spec
<1>3. Spec => Chain!ChainSpec
  BY <1>1, <1>2, RunMatches, RowsAlwaysTell, StepOfChain, PTL DEF Spec, Chain!ChainSpec
<1> QED BY <1>3 DEF ImplementsPhaseChain

-----------------------------------------------------------------------------
(* No run is forgotten.                                                     *)

\* Every active run's current task has a worker, waits for a person, for a delay
\* or for the quota, or is claimable or repairable; but for the parked ones,
\* the queries of claim and reconciler leave nothing out.
THEOREM RunsAreAttended == Spec => []NoRunIsForgotten
<1>1. RowsOK /\ RunMatchesCurrentTask => NoRunIsForgotten
  <2> SUFFICES ASSUME RowsOK, RunMatchesCurrentTask, NEW r \in Runs, RunIsActive(r)
               PROVE  Attended(<<r, run[r].phase>>) \/ Parked(<<r, run[r].phase>>)
    BY DEF NoRunIsForgotten
  <2> DEFINE t == <<r, run[r].phase>>
  <2>1. t \in Tasks /\ t[1] = r /\ run[r].status = task[t].status
    BY DEF RowsOK, TypeOK, RunRecord, RunMatchesCurrentTask, RowsMatch, Tasks
  <2> HIDE DEF t
  <2>2. /\ task[t].status \in {"queued", "running", "waiting"}
        /\ task[t].attempts \in 0 .. MaxAttempts /\ MaxAttempts \in Nat
        /\ task[t].lease \in Nat /\ task[t].delayed \in BOOLEAN
    BY <2>1, BoundsAssumption DEF RowsOK, TypeOK, TaskRecord, Attempts, RunIsActive, ActiveStatus
  <2>3. CASE task[t].status = "queued" /\ ~task[t].delayed
    <3>1. Parked(t) \/ Claimable(t)
      BY <2>1, <2>2, <2>3 DEF Parked, Claimable, Ready
    <3> QED BY <3>1 DEF Attended, t
  <2>4. CASE task[t].status = "running"
    <3>1. task[t].lease > 0 \/ Repairable(t)
      BY <2>1, <2>2, <2>4 DEF Repairable, LeaseExpired
    <3> QED BY <2>4, <3>1 DEF Attended, t
  <2>5. CASE task[t].status = "waiting" \/ (task[t].status = "queued" /\ task[t].delayed)
    BY <2>5 DEF Attended, t
  <2> QED BY <2>2, <2>3, <2>4, <2>5
<1>2. Spec => []RowsOK
  BY RowsOKInit, RowsOKNext, PTL DEF Spec
<1> QED BY <1>1, <1>2, RunMatches, PTL

\* What ParkedTasksWait says of one step and one task.
ParkingStep(t) ==
    /\ Parked(t) => Parked(t)' \/ run'[t[1]].status = "cancelled"
    /\ Parked(t)' => Parked(t) \/ task[t].status = "waiting"

LEMMA NextParkingStep ==
    ASSUME RowsOK, RunMatchesCurrentTask, [Next]_vars, NEW t \in Tasks
    PROVE  ParkingStep(t)
<1>0. /\ task \in [Tasks -> TaskRecord] /\ task[t] \in TaskRecord /\ MaxAttempts \in Nat \ {0}
      /\ task[t].attempts \in 0 .. MaxAttempts
  BY BoundsAssumption DEF RowsOK, TypeOK, TaskRecord, Attempts
\* A row that is kept, or goes where it is not queued, or keeps its attempts
\* and was not queued in its last one.
<1>1. ASSUME task'[t] = task[t] PROVE ParkingStep(t)
  BY <1>1 DEF ParkingStep, Parked
<1>2. ASSUME ~Parked(t), task'[t].status # "queued" \/ task'[t].attempts # MaxAttempts
      PROVE  ParkingStep(t)
  BY <1>2 DEF ParkingStep, Parked
<1>3. ASSUME NEW r \in Runs, NEW d \in Digests, StartWorkflow(r, d) PROVE ParkingStep(t)
  <2>1. CASE t = <<r, 1>>
    <3>1. task'[t] = NewTask(d)
      BY <1>0, <1>3, <2>1 DEF StartWorkflow
    <3>2. task'[t].attempts = 0
      BY <3>1 DEF NewTask, AbsentTask
    <3>3. ~Parked(t)
      BY <1>3, <2>1 DEF StartWorkflow, RunMatchesCurrentTask, RowsMatch, Parked
    <3> QED BY <1>0, <1>2, <3>2, <3>3
  <2>2. CASE t # <<r, 1>>
    BY <1>0, <1>1, <1>3, <2>2 DEF StartWorkflow
  <2> QED BY <2>1, <2>2
<1>4. ASSUME NEW w \in Workers, NEW u \in Tasks, ClaimWorkflowTask(w, u) PROVE ParkingStep(t)
  <2>1. CASE t = u
    <3>1. task'[t].status = "running"
      BY <1>0, <1>4, <2>1 DEF ClaimWorkflowTask, Leased, TaskRecord
    <3>2. ~Parked(t)
      BY <1>0, <1>4, <2>1 DEF ClaimWorkflowTask, Claimable, Parked
    <3> QED BY <1>2, <3>1, <3>2
  <2>2. CASE t # u
    BY <1>0, <1>1, <1>4, <2>2 DEF ClaimWorkflowTask
  <2> QED BY <2>1, <2>2
<1>5. ASSUME NEW w \in Workers, NEW u \in Tasks, NEW g \in Attempts,
             HeartbeatWorkflowTask(w, u, g) \/ WaitWorkflowTask(w, u, g) PROVE ParkingStep(t)
  <2>1. CASE t = u
    <3>1. task[t].status = "running"
      BY <1>5, <2>1 DEF HeartbeatWorkflowTask, WaitWorkflowTask, HoldsLease
    <3>2. HeartbeatWorkflowTask(w, u, g) => task'[t].status = "running"
      BY <1>0, <2>1, <3>1 DEF HeartbeatWorkflowTask, TaskRecord
    <3>3. WaitWorkflowTask(w, u, g) => task'[t].status = "waiting"
      BY <1>0, <2>1 DEF WaitWorkflowTask, Released, TaskRecord
    <3> QED BY <1>2, <1>5, <3>1, <3>2, <3>3 DEF Parked
  <2>2. CASE t # u
    BY <1>0, <1>1, <1>5, <2>2 DEF HeartbeatWorkflowTask, WaitWorkflowTask
  <2> QED BY <2>1, <2>2
<1>6. ASSUME NEW r \in Runs, NEW token \in Tokens, NEW key \in AppKeys,
             ResumeWorkflowTask(r, token, key) PROVE ParkingStep(t)
  <2>1. CASE t = <<r, token[1]>>
    BY <1>6, <2>1 DEF ResumeWorkflowTask, ParkingStep, Parked
  <2>2. CASE t # <<r, token[1]>>
    BY <1>0, <1>1, <1>6, <2>2 DEF ResumeWorkflowTask
  <2> QED BY <2>1, <2>2
<1>7. ASSUME NEW u \in Tasks, LeaseTick(u) \/ RetryDue(u) \/ WaitExpires(u) PROVE ParkingStep(t)
  <2>1. CASE t = u
    <3>1. task'[t].status = task[t].status /\ task'[t].attempts = task[t].attempts
      BY <1>0, <1>7, <2>1 DEF LeaseTick, RetryDue, WaitExpires, TaskRecord
    <3> QED BY <3>1 DEF ParkingStep, Parked
  <2>2. CASE t # u
    BY <1>0, <1>1, <1>7, <2>2 DEF LeaseTick, RetryDue, WaitExpires
  <2> QED BY <2>1, <2>2
<1>8. ASSUME NEW r \in Runs, NEW key \in AppKeys, CancelWorkflow(r, key) PROVE ParkingStep(t)
  <2>1. CASE t[1] = r /\ task[t].status \in ActiveStatus
    <3>1. task'[t].status = "cancelled"
      BY <1>0, <1>8, <2>1 DEF CancelWorkflow, Released, TaskRecord
    <3>2. run'[t[1]].status = "cancelled"
      BY <1>8, <2>1 DEF CancelWorkflow, RowsOK, TypeOK, RunRecord
    <3> QED BY <3>1, <3>2 DEF ParkingStep, Parked
  <2>2. CASE ~(t[1] = r /\ task[t].status \in ActiveStatus)
    BY <1>1, <1>8, <2>2 DEF CancelWorkflow
  <2> QED BY <2>1, <2>2
<1>9. ASSUME NEW found \in SUBSET {u \in Tasks : Repairable(u)}, ReconcileWorkflows(found)
      PROVE  ParkingStep(t)
  <2>1. CASE t \in found
    <3>1. task[t].status = "running" /\ task'[t] = RepairedTask(t)
      BY <1>9, <2>1 DEF ReconcileWorkflows, Repairable, LeaseExpired
    <3>2. task'[t].status # "queued" \/ task'[t].attempts # MaxAttempts
      BY <1>0, <3>1 DEF RepairedTask, Released, TaskRecord
    <3> QED BY <1>2, <3>1, <3>2 DEF Parked
  <2>2. CASE t \notin found
    BY <1>1, <1>9, <2>2 DEF ReconcileWorkflows
  <2> QED BY <2>1, <2>2
<1>10. ASSUME NEW w \in Workers, NEW u \in Tasks, NEW g \in Attempts, NEW d \in Digests,
              CompleteWorkflowTask(w, u, g, d) PROVE ParkingStep(t)
  <2> DEFINE next == <<u[1], u[2] + 1>>
  <2>0. u # next
    <3>1. u[2] + 1 # u[2]
      BY BoundsAssumption DEF Tasks, Phases
    <3> QED BY <3>1 DEF Tasks
  <2>1. CASE t = u
    <3>0. task[t].status = "running" /\ task'[t] = [Released(t, "succeeded") EXCEPT !.output = d]
      <4> HIDE DEF next
      <4>1. \/ task' = [task EXCEPT ![u] = [Released(u, "succeeded") EXCEPT !.output = d],
                                    ![next] = Successor(next, d)]
            \/ task' = [task EXCEPT ![u] = [Released(u, "succeeded") EXCEPT !.output = d]]
        BY <1>10 DEF CompleteWorkflowTask, next
      <4>2. task[t].status = "running"
        BY <1>10, <2>1 DEF CompleteWorkflowTask, HoldsLease
      <4> QED BY <1>0, <2>0, <2>1, <4>1, <4>2
    <3>1. task'[t].status = "succeeded"
      BY <1>0, <3>0 DEF Released, TaskRecord
    <3> QED BY <1>2, <3>0, <3>1 DEF Parked
  <2>2. CASE t = next /\ task'[t] # task[t]
    <3>1. task[t].status = "none" /\ task'[t] = NewTask(d)
      BY <1>0, <1>10, <2>0, <2>2 DEF CompleteWorkflowTask, Successor
    <3>2. task'[t].attempts = 0
      BY <3>1 DEF NewTask, AbsentTask
    <3> QED BY <1>0, <1>2, <3>1, <3>2 DEF Parked
  <2>3. CASE t # u /\ t # next
    BY <1>0, <1>1, <1>10, <2>3 DEF CompleteWorkflowTask
  <2> QED BY <1>1, <2>1, <2>2, <2>3
<1>11. ASSUME NEW w \in Workers, NEW u \in Tasks, NEW g \in Attempts, NEW c \in Classifications,
              FailWorkflowTask(w, u, g, c) PROVE ParkingStep(t)
  <2>1. CASE t = u
    <3>1. task[t].status = "running"
      BY <1>11, <2>1 DEF FailWorkflowTask, HoldsLease
    <3>2. \/ task'[t] = Released(t, "failed")
          \/ /\ ~(task[t].attempts >= MaxAttempts)
             /\ task'[t] = [Released(t, "queued") EXCEPT !.delayed = TRUE]
      BY <1>0, <1>11, <2>1 DEF FailWorkflowTask
    <3>3. CASE task'[t] = Released(t, "failed")
      BY <1>0, <1>2, <3>1, <3>3 DEF Released, TaskRecord, Parked
    <3>4. CASE /\ ~(task[t].attempts >= MaxAttempts)
               /\ task'[t] = [Released(t, "queued") EXCEPT !.delayed = TRUE]
      <4>1. task'[t].attempts = task[t].attempts /\ task[t].attempts # MaxAttempts
        BY <1>0, <3>4 DEF Released, TaskRecord
      <4> QED BY <1>2, <3>1, <4>1 DEF Parked
    <3> QED BY <3>2, <3>3, <3>4
  <2>2. CASE t # u
    BY <1>0, <1>1, <1>11, <2>2 DEF FailWorkflowTask
  <2> QED BY <2>1, <2>2
<1>12. CASE UNCHANGED vars
  BY <1>1, <1>12 DEF vars
<1> QED
  BY <1>3, <1>4, <1>5, <1>6, <1>7, <1>8, <1>9, <1>10, <1>11, <1>12 DEF Next

\* A parked task stays as it is until its run is cancelled, and nothing but a
\* resume, of a wait that the last attempt entered, parks a task.
THEOREM ParkedForGood == Spec => ParkedTasksWait
<1> DEFINE Steps == \A t \in Tasks : ParkingStep(t)
<1>1. RowsOK /\ RunMatchesCurrentTask /\ [Next]_vars => [Steps]_vars
  BY NextParkingStep
<1> HIDE DEF Steps
<1>2. Spec => []RowsOK
  BY RowsOKInit, RowsOKNext, PTL DEF Spec
<1>3. Spec => [][Steps]_vars
  BY <1>1, <1>2, RunMatches, PTL DEF Spec
<1> QED BY <1>3 DEF ParkedTasksWait, Steps, ParkingStep

=============================================================================
