----------------------- MODULE WorkflowControllerProofs -----------------------
(***************************************************************************)
(* What TLAPS proves of WorkflowController, for any number of runs,        *)
(* workers, attempts and faults.                                           *)
(*                                                                         *)
(* First, that the controller uses the store only as the store offers to   *)
(* be used (ControllerUsesStore): what is proved of WorkflowStore holds    *)
(* under the controller.  Then the invariant ControllerOK: what a worker   *)
(* learnt from GitHub stays true while it goes on, because GitHub keeps a  *)
(* head, and only adds requests and checks (HubsGrow); and no worker that  *)
(* lost its lease saves a row.                                             *)
(***************************************************************************)
EXTENDS WorkflowController, WorkflowPromiseProofs

-----------------------------------------------------------------------------
(* The invariant. *)

StoreOK == RowsOK /\ RunMatchesCurrentTask /\ RowsTell

\* What a row names is at GitHub.
Recorded(t) ==
    draft[t] # None =>
        /\ github[t[1]].head = draft[t].head
        /\ draft[t].pull <= github[t[1]].pulls
        /\ github[t[1]].checks[draft[t].check] > 0

TasksRecorded ==
    \A t \in Tasks : (task[t].status = "succeeded" => draft[t] # None) /\ Recorded(t)

\* Every pull request but the open one was closed, which is a fault.
PullsCounted ==
    \A r \in Runs : /\ github[r].pulls <= faults + (IF github[r].open THEN 1 ELSE 0)
                    /\ github[r].open => github[r].pulls > 0

\* A check is created by a worker that saw none: each check of a key, and each
\* worker about to create one, is another worker's.
Checking(r, e) == {w \in Workers : At(w, "checking") /\ RunOf(w) = r /\ worker[w].check = e}

ChecksCounted ==
    \A r \in Runs, e \in References :
        github[r].checks[e] + Cardinality(Checking(r, e)) <= Cardinality(Workers)

HasHead == {"pull", "pulling", "check", "checking", "saving"}
HasPull == {"check", "checking", "saving"}
HasReference == HasHead \cup {"patch", "patching"}
HasRow == {"recording", "completing"}

\* A worker has a generation that was handed out; what it learnt is so; and it
\* operates only on what is not recorded, as long as it owns the task.
Knows(it) ==
    LET hub == github[it.of[1]]
    IN  /\ it.of \in Tasks /\ it.gen <= task[it.of].generation
        /\ it.at \in HasReference => it.check \in References
        /\ it.at \in HasHead => it.head \in Commits /\ hub.head = it.head
        /\ it.at \in HasPull => it.pull > 0 /\ it.pull <= hub.pulls
        /\ it.at = "saving" => hub.checks[it.check] > 0
        /\ it.at \in HasRow => draft[it.of] # None

WorkerKnows(w) == Knows(worker[w])

WorkerOK(w) ==
    /\ ~At(w, "idle") => WorkerKnows(w)
    /\ worker[w].at \in Operating /\ OwnsTask(w) => draft[worker[w].of] = None

ControllerOK ==
    /\ StoreOK /\ ControllerTypeOK /\ TasksRecorded /\ PullsCounted /\ ChecksCounted
    /\ \A w \in Workers : WorkerOK(w)

-----------------------------------------------------------------------------
(* The store under the controller. *)

LEMMA StoreOKNext == StoreOK /\ [Next]_vars => StoreOK'
<1> SUFFICES ASSUME StoreOK, [Next]_vars PROVE StoreOK'
  OBVIOUS
<1>1. RowsOK' /\ RunMatchesCurrentTask'
  BY RowsOKNext, MatchNext DEF StoreOK
<1>2. ASSUME NEW t \in Tasks PROVE AbsentRow(t)' /\ CommandsTell(t)'
  <2>1. RowMoves(t)
    BY NextRowMoves DEF StoreOK
  <2> QED BY <2>1, MoveKeepsLog DEF StoreOK, RowsTell
<1> QED BY <1>1, <1>2 DEF StoreOK, RowsTell

\* What a step of the store leaves of the generations and leases of a task.
LEMMA StoreLeases ==
    ASSUME StoreOK, [Next]_vars, NEW t \in Tasks
    PROVE  /\ LeaseStep(t)
           /\ task[t].generation \in Nat /\ task'[t].generation \in Nat
           /\ task'[t].generation >= task[t].generation
<1>1. LeaseStep(t) /\ RowMoves(t)
  BY NextLeaseStep, NextRowMoves DEF StoreOK
<1>2. task[t].generation \in Nat
  BY ReleasedKeeps DEF StoreOK, RowsOK
<1>3. task'[t].generation = task[t].generation \/ task'[t].generation = task[t].generation + 1
  <2>1. CASE RowInserted(t)
    <3>1. task[t].generation = 0
      BY <2>1 DEF RowInserted, StoreOK, RowsTell, AbsentRow, AbsentTask
    <3>2. task'[t].generation = 0
      BY <2>1 DEF RowInserted, NewTask, AbsentTask
    <3> QED BY <3>1, <3>2
  <2>2. CASE RowCommitted(t) \/ RowFailed(t) \/ RowMoved(t) \/ RowClaimed(t) \/ RowKept(t)
    BY <2>2 DEF RowCommitted, RowFailed, RowMoved, RowClaimed, RowKept
  <2> QED BY <1>1, <2>1, <2>2 DEF RowMoves
<1> QED BY <1>1, <1>2, <1>3

\* A task succeeds when its completion is recorded, and not otherwise.
LEMMA SuccessIsRecorded ==
    ASSUME StoreOK, [Next]_vars, NEW t \in Tasks,
           task'[t].status = "succeeded", task[t].status # "succeeded"
    PROVE  \E c \in command'.complete : c.of = t /\ c \notin command.complete
<1>1. CompletionsOf(t)' # {} /\ CompletionsOf(t) = {}
  BY StoreOKNext DEF StoreOK, RowsTell, CommandsTell
<1> QED BY <1>1 DEF CompletionsOf

-----------------------------------------------------------------------------
(* Steps seen by the workers that do not take them. *)

HubsGrow ==
    \A r \in Runs :
        /\ github[r].head # None => github'[r].head = github[r].head
        /\ github'[r].pulls \in Nat /\ github'[r].pulls >= github[r].pulls
        /\ \A e \in References :
              github'[r].checks[e] \in Nat /\ github'[r].checks[e] >= github[r].checks[e]

DraftsKept == \A t \in Tasks : draft[t] # None => draft'[t] = draft[t]

LEMMA WorkerFields ==
    ASSUME ControllerTypeOK, NEW w \in Workers
    PROVE  /\ worker[w] \in WorkerRecord
           /\ worker[w].at \in Steps /\ worker[w].of \in Tasks \cup {None}
           /\ worker[w].gen \in Attempts /\ worker[w].gen \in Nat
           /\ worker[w].call \in {"execute", "reconcile"}
           /\ worker[w].head \in Commits \cup {None} /\ worker[w].pull \in 0 .. MaxPulls
           /\ worker[w].check \in References \cup {None}
           /\ worker[w].failure \in Classifications
<1>1. worker[w] \in WorkerRecord
  BY DEF ControllerTypeOK
<1>2. worker[w].gen \in Attempts => worker[w].gen \in Nat
  BY BoundsAssumption DEF Attempts
<1> QED BY <1>1, <1>2 DEF WorkerRecord

LEMMA HubFields ==
    ASSUME ControllerTypeOK, NEW r \in Runs
    PROVE  /\ github[r] \in GitHub
           /\ github[r].head \in Commits \cup {None} /\ github[r].pulls \in 0 .. MaxPulls
           /\ github[r].pulls \in Nat /\ github[r].open \in BOOLEAN
           /\ github[r].checks \in [References -> 0 .. Cardinality(Workers)]
           /\ \A e \in References : github[r].checks[e] \in Nat
           /\ faults \in Nat /\ MaxPulls \in Nat /\ Cardinality(Workers) \in Nat
<1>1. github[r] \in GitHub
  BY DEF ControllerTypeOK
<1>2. MaxPulls \in Nat /\ Cardinality(Workers) \in Nat
  BY FaultsAssumption, ControllerAssumption, FS_CardinalityType DEF MaxPulls
<1>3. faults \in Nat
  BY FaultsAssumption DEF ControllerTypeOK
<1>4. github[r].checks \in [References -> 0 .. Cardinality(Workers)]
  BY <1>1 DEF GitHub
<1> QED BY <1>1, <1>2, <1>3, <1>4 DEF GitHub

\* An attempt that owns its task after a step owned it before.
LEMMA OwnedBefore ==
    ASSUME ControllerOK, [Next]_vars, NEW w \in Workers, ~At(w, "idle"),
           worker'[w].of = worker[w].of, worker'[w].gen = worker[w].gen, OwnsTask(w)'
    PROVE  OwnsTask(w)
<1>1. worker[w].of \in Tasks /\ worker[w].gen <= task[worker[w].of].generation
  BY DEF ControllerOK, WorkerOK, WorkerKnows, Knows
<1>2. worker[w].gen \in Nat
  BY WorkerFields DEF ControllerOK
<1> DEFINE t == worker[w].of
<1>3. /\ LeaseStep(t) /\ task[t].generation \in Nat /\ task'[t].generation \in Nat
  BY <1>1, StoreLeases DEF ControllerOK
<1>4. task'[t].status = "running" /\ task'[t].owner = w /\ task'[t].generation = worker[w].gen
      /\ task'[t].lease > 0
  BY DEF OwnsTask, HoldsLease
<1> HIDE DEF t
<1>5. task[t].status = "running" /\ task[t].owner = w /\ task[t].generation = worker[w].gen
      /\ task[t].lease > 0
  BY <1>1, <1>2, <1>3, <1>4 DEF LeaseStep, t
<1> QED BY <1>5 DEF OwnsTask, HoldsLease, t

\* A worker that takes no part keeps what it knows.
LEMMA OtherWorkerKeeps ==
    ASSUME ControllerOK, [Next]_vars, HubsGrow, DraftsKept,
           NEW v \in Workers, worker'[v] = worker[v],
           OwnsTask(v) => draft'[worker[v].of] = draft[worker[v].of]
    PROVE  WorkerOK(v)'
<1>1. CASE At(v, "idle")
  BY <1>1 DEF WorkerOK, At, Operating
<1>2. CASE ~At(v, "idle")
  <2> DEFINE t == worker[v].of
  <2>1. WorkerKnows(v) /\ t \in Tasks /\ t[1] \in Runs
    BY <1>2 DEF ControllerOK, WorkerOK, WorkerKnows, Knows, Tasks
  <2>2. /\ task[t].generation \in Nat /\ task'[t].generation \in Nat
        /\ task'[t].generation >= task[t].generation
    BY <2>1, StoreLeases DEF ControllerOK
  <2>3. worker[v].gen \in Nat /\ worker[v].pull \in Nat
    BY WorkerFields, HubFields, <2>1 DEF ControllerOK
  <2>4. /\ github[t[1]].pulls \in Nat
        /\ github'[t[1]].pulls \in Nat /\ github'[t[1]].pulls >= github[t[1]].pulls
        /\ github[t[1]].head # None => github'[t[1]].head = github[t[1]].head
        /\ \A e \in References : /\ github[t[1]].checks[e] \in Nat
                                 /\ github'[t[1]].checks[e] \in Nat
                                 /\ github'[t[1]].checks[e] >= github[t[1]].checks[e]
    BY <2>1, HubFields DEF ControllerOK, HubsGrow
  <2>5. draft[t] # None => draft'[t] = draft[t]
    BY <2>1 DEF DraftsKept
  <2>6. HasHead \subseteq HasReference /\ HasPull \subseteq HasHead /\ "saving" \in HasPull
    BY DEF HasHead, HasPull, HasReference
  <2>7. WorkerKnows(v)'
    <3>1. task'[t].generation >= worker[v].gen
      BY <2>1, <2>2, <2>3 DEF WorkerKnows, Knows
    <3>2. worker[v].at \in HasHead => github'[t[1]].head = worker[v].head
      BY <2>1, <2>4, ControllerAssumption DEF WorkerKnows, Knows
    <3>3. worker[v].at \in HasPull => github'[t[1]].pulls >= worker[v].pull
      <4>1. worker[v].at \in HasPull => worker[v].pull <= github[t[1]].pulls
        BY <2>1 DEF WorkerKnows, Knows
      <4> QED BY <2>3, <2>4, <4>1
    <3>4. worker[v].at = "saving" => github'[t[1]].checks[worker[v].check] > 0
      <4>1. worker[v].at = "saving" =>
                worker[v].check \in References /\ github[t[1]].checks[worker[v].check] > 0
        BY <2>1, <2>6 DEF WorkerKnows, Knows
      <4> QED BY <2>4, <4>1
    <3> QED BY <2>1, <2>5, <3>1, <3>2, <3>3, <3>4 DEF WorkerKnows, Knows
  <2>8. worker'[v].at \in Operating /\ OwnsTask(v)' => draft'[worker'[v].of] = None
    BY <1>2, OwnedBefore DEF ControllerOK, WorkerOK
  <2> QED BY <2>7, <2>8 DEF WorkerOK
<1> QED BY <1>1, <1>2

-----------------------------------------------------------------------------
(* Steps that leave GitHub and the rows of pull requests alone. *)

LEMMA SameHubsGrow == ControllerTypeOK /\ github' = github /\ draft' = draft => HubsGrow /\ DraftsKept
<1> SUFFICES ASSUME ControllerTypeOK, github' = github, draft' = draft PROVE HubsGrow /\ DraftsKept
  OBVIOUS
<1>1. ASSUME NEW r \in Runs
      PROVE  github[r].pulls \in Nat /\ \A e \in References : github[r].checks[e] \in Nat
  BY HubFields
<1> QED BY <1>1 DEF HubsGrow, DraftsKept

\* A row that names what is there goes on doing so.
LEMMA RecordStays ==
    ASSUME ControllerTypeOK, HubsGrow, NEW t \in Tasks, Recorded(t), draft'[t] = draft[t]
    PROVE  Recorded(t)'
<1>1. SUFFICES ASSUME draft[t] # None PROVE Recorded(t)'
  BY DEF Recorded
<1>2. t[1] \in Runs
  BY DEF Tasks
<1>3. /\ draft[t].head \in Commits /\ draft[t].pull \in Nat /\ draft[t].check \in References
      /\ draft[t].head # None
  <2>1. draft[t] \in Row
    BY <1>1 DEF ControllerTypeOK
  <2> QED BY <2>1, HubFields, <1>2, ControllerAssumption DEF Row
<1>4. /\ github[t[1]].head = draft[t].head /\ draft[t].pull <= github[t[1]].pulls
      /\ github[t[1]].checks[draft[t].check] > 0
  BY <1>1 DEF Recorded
<1>5. github'[t[1]].head = draft[t].head
  BY <1>2, <1>3, <1>4 DEF HubsGrow
<1>6. draft[t].pull <= github'[t[1]].pulls
  BY <1>2, <1>3, <1>4, HubFields DEF HubsGrow
<1>7. github'[t[1]].checks[draft[t].check] > 0
  BY <1>2, <1>3, <1>4, HubFields DEF HubsGrow
<1> QED BY <1>5, <1>6, <1>7 DEF Recorded

LEMMA RecordsStay ==
    ASSUME ControllerOK, [Next]_vars, HubsGrow, draft' = draft,
           \A t \in Tasks : task'[t].status = "succeeded" =>
               task[t].status = "succeeded" \/ draft[t] # None
    PROVE  TasksRecorded'
  BY RecordStays DEF ControllerOK, TasksRecorded

LEMMA NothingCompleted ==
    ASSUME StoreOK, [Next]_vars, command'.complete = command.complete
    PROVE  \A t \in Tasks : task'[t].status = "succeeded" => task[t].status = "succeeded"
  BY SuccessIsRecorded

\* A fault more leaves room for a pull request more.
LEMMA PullsStayCounted ==
    ASSUME ControllerTypeOK, PullsCounted, github' = github,
           faults' \in 0 .. MaxFaults, faults' >= faults
    PROVE  PullsCounted'
<1>1. ASSUME NEW r \in Runs
      PROVE  /\ github'[r].pulls <= faults' + (IF github'[r].open THEN 1 ELSE 0)
             /\ github'[r].open => github'[r].pulls > 0
  <2>1. github[r].pulls \in Nat /\ faults \in Nat /\ faults' \in Nat
    BY HubFields, FaultsAssumption
  <2> QED BY <2>1 DEF PullsCounted
<1> QED BY <1>1 DEF PullsCounted

LEMMA CheckingFinite ==
    ASSUME NEW r, NEW e
    PROVE  /\ IsFiniteSet(Checking(r, e)) /\ Cardinality(Checking(r, e)) \in Nat
           /\ Cardinality(Checking(r, e)) <= Cardinality(Workers)
<1>1. Checking(r, e) \subseteq Workers
  BY DEF Checking
<1> QED BY <1>1, ControllerAssumption, FS_Subset, FS_CardinalityType

\* A worker may get ready to create a check only where it found none.
LEMMA ChecksStayCounted ==
    ASSUME ControllerTypeOK, ChecksCounted, github' = github, NEW w \in Workers,
           \A v \in Workers \ {w} : worker'[v] = worker[v],
           worker'[w].at = "checking" =>
               github[worker'[w].of[1]].checks[worker'[w].check] = 0
    PROVE  ChecksCounted'
<1> SUFFICES ASSUME NEW r \in Runs, NEW e \in References
             PROVE  github'[r].checks[e] + Cardinality(Checking(r, e)') <= Cardinality(Workers)
  BY DEF ChecksCounted
<1>1. github[r].checks[e] \in Nat /\ Cardinality(Workers) \in Nat
  BY HubFields
<1>2. github[r].checks[e] + Cardinality(Checking(r, e)) <= Cardinality(Workers)
  BY DEF ChecksCounted
<1>3. CASE github[r].checks[e] = 0
  <2>1. Checking(r, e)' \subseteq Workers
    BY DEF Checking
  <2>2. Cardinality(Checking(r, e)') <= Cardinality(Workers) /\ Cardinality(Checking(r, e)') \in Nat
    BY <2>1, ControllerAssumption, FS_Subset, FS_CardinalityType
  <2> QED BY <1>1, <1>3, <2>2
<1>4. CASE github[r].checks[e] # 0
  <2>1. Checking(r, e)' \subseteq Checking(r, e)
    BY <1>4 DEF Checking, At, RunOf
  <2>2. /\ Cardinality(Checking(r, e)') <= Cardinality(Checking(r, e))
        /\ Cardinality(Checking(r, e)') \in Nat /\ Cardinality(Checking(r, e)) \in Nat
    BY <2>1, CheckingFinite, FS_Subset, FS_CardinalityType
  <2> QED BY <1>1, <1>2, <2>2
<1> QED BY <1>3, <1>4

\* What is left to show of a step of one worker that only changes the worker.
LEMMA WorkerMoves ==
    ASSUME ControllerOK, [Next]_vars, NEW w \in Workers, github' = github, draft' = draft,
           worker' \in [Workers -> WorkerRecord], \A v \in Workers \ {w} : worker'[v] = worker[v],
           faults' \in 0 .. MaxFaults, faults' >= faults,
           \A t \in Tasks : task'[t].status = "succeeded" =>
               task[t].status = "succeeded" \/ draft[t] # None,
           worker'[w].at = "checking" =>
               github[worker'[w].of[1]].checks[worker'[w].check] = 0,
           WorkerOK(w)'
    PROVE  ControllerOK'
<1>1. ControllerTypeOK'
  BY DEF ControllerOK, ControllerTypeOK
<1>2. HubsGrow /\ DraftsKept
  BY SameHubsGrow DEF ControllerOK
<1>3. StoreOK' /\ TasksRecorded'
  BY <1>2, StoreOKNext, RecordsStay DEF ControllerOK
<1>4. PullsCounted' /\ ChecksCounted'
  BY PullsStayCounted, ChecksStayCounted DEF ControllerOK
<1>5. ASSUME NEW v \in Workers PROVE WorkerOK(v)'
  <2>1. CASE v = w
    BY <2>1
  <2>2. CASE v # w
    BY <1>2, <2>2, OtherWorkerKeeps
  <2> QED BY <2>1, <2>2
<1> QED BY <1>1, <1>3, <1>4, <1>5 DEF ControllerOK

\* Steps of the store and of time, which no worker takes.
LEMMA StoreMoves ==
    ASSUME ControllerOK, [Next]_vars, UNCHANGED <<worker, github, draft>>,
           faults' \in 0 .. MaxFaults, faults' >= faults, command'.complete = command.complete
    PROVE  ControllerOK'
<1>1. ControllerTypeOK'
  BY DEF ControllerOK, ControllerTypeOK
<1>2. HubsGrow /\ DraftsKept
  BY SameHubsGrow DEF ControllerOK
<1>3. StoreOK' /\ TasksRecorded'
  BY <1>2, StoreOKNext, RecordsStay, NothingCompleted DEF ControllerOK
<1>4. PullsCounted'
  BY PullsStayCounted DEF ControllerOK
<1>5. ChecksCounted'
  <2>1. \A r, e : Checking(r, e)' = Checking(r, e)
    BY DEF Checking, At, RunOf
  <2> QED BY <2>1 DEF ControllerOK, ChecksCounted
<1>6. ASSUME NEW v \in Workers PROVE WorkerOK(v)'
  BY <1>2, OtherWorkerKeeps
<1> QED BY <1>1, <1>3, <1>4, <1>5, <1>6 DEF ControllerOK

-----------------------------------------------------------------------------
(* The steps of one worker. *)

LEMMA GoesRow ==
    ASSUME ControllerTypeOK, NEW w \in Workers, NEW step \in Steps, Goes(w, step)
    PROVE  /\ worker' \in [Workers -> WorkerRecord]
           /\ \A v \in Workers \ {w} : worker'[v] = worker[v]
           /\ worker'[w].at = step /\ worker'[w].of = worker[w].of
           /\ worker'[w].gen = worker[w].gen /\ worker'[w].call = worker[w].call
           /\ worker'[w].head = worker[w].head /\ worker'[w].pull = worker[w].pull
           /\ worker'[w].check = worker[w].check
<1> DEFINE row == [worker[w] EXCEPT !.at = step]
<1>1. worker[w] \in WorkerRecord
  BY WorkerFields
<1>2. row \in WorkerRecord
  BY <1>1 DEF WorkerRecord
<1>3. /\ row.at = step /\ row.of = worker[w].of /\ row.gen = worker[w].gen
      /\ row.call = worker[w].call /\ row.head = worker[w].head /\ row.pull = worker[w].pull
      /\ row.check = worker[w].check
  BY <1>1 DEF WorkerRecord
<1>4. worker' = [worker EXCEPT ![w] = row]
  BY DEF Goes, ControllerTypeOK
<1> HIDE DEF row
<1>5. /\ worker' \in [Workers -> WorkerRecord] /\ worker'[w] = row
      /\ \A v \in Workers \ {w} : worker'[v] = worker[v]
  BY <1>2, <1>4 DEF ControllerTypeOK
<1> QED BY <1>3, <1>5

LEMMA IdleRow == Idle \in WorkerRecord /\ Idle.at = "idle"
<1>1. 0 \in Attempts /\ 0 \in 0 .. MaxPulls
  BY BoundsAssumption, FaultsAssumption DEF Attempts, MaxPulls
<1> QED BY <1>1 DEF Idle, WorkerRecord, Steps, Classifications

\* A worker that leaves its task, gives it up, or starts over to reconcile,
\* forgets all it learnt but the task.
Retreats(w) ==
    \/ Rests(w)
    \/ \E classification \in Classifications : GivesUp(w, classification) \/ Stumbles(w, classification)

LEMMA RetreatRow ==
    ASSUME ControllerTypeOK, NEW w \in Workers, Retreats(w)
    PROVE  /\ worker' \in [Workers -> WorkerRecord]
           /\ \A v \in Workers \ {w} : worker'[v] = worker[v]
           /\ \/ worker'[w].at = "idle"
              \/ /\ worker'[w].at \in {"failing", "looking"}
                 /\ worker'[w].of = worker[w].of /\ worker'[w].gen = worker[w].gen
<1>1. ASSUME NEW row \in WorkerRecord, worker' = [worker EXCEPT ![w] = row]
      PROVE  /\ worker' \in [Workers -> WorkerRecord] /\ worker'[w] = row
             /\ \A v \in Workers \ {w} : worker'[v] = worker[v]
  BY <1>1 DEF ControllerTypeOK
<1>2. CASE Rests(w)
  BY <1>1, <1>2, IdleRow DEF Rests
<1>3. worker[w].of \in Tasks \cup {None} /\ worker[w].gen \in Attempts
  BY WorkerFields
<1>4. ASSUME NEW classification \in Classifications, GivesUp(w, classification)
      PROVE  /\ worker' \in [Workers -> WorkerRecord]
             /\ \A v \in Workers \ {w} : worker'[v] = worker[v]
             /\ worker'[w].at = "failing"
             /\ worker'[w].of = worker[w].of /\ worker'[w].gen = worker[w].gen
  <2> DEFINE row == [Idle EXCEPT !.at = "failing", !.of = worker[w].of,
                                 !.gen = worker[w].gen, !.failure = classification]
  <2>1. row \in WorkerRecord
    BY <1>3, IdleRow DEF WorkerRecord, Steps
  <2>2. row.at = "failing" /\ row.of = worker[w].of /\ row.gen = worker[w].gen
    BY IdleRow DEF WorkerRecord
  <2>3. worker' = [worker EXCEPT ![w] = row]
    BY <1>4 DEF GivesUp
  <2> HIDE DEF row
  <2> QED BY <1>1, <2>1, <2>2, <2>3
<1>5. ASSUME NEW classification \in Classifications, Stumbles(w, classification),
             worker[w].call = "execute"
      PROVE  /\ worker' \in [Workers -> WorkerRecord]
             /\ \A v \in Workers \ {w} : worker'[v] = worker[v]
             /\ worker'[w].at = "looking"
             /\ worker'[w].of = worker[w].of /\ worker'[w].gen = worker[w].gen
  <2> DEFINE row == [Idle EXCEPT !.at = "looking", !.of = worker[w].of,
                                 !.gen = worker[w].gen, !.call = "reconcile"]
  <2>1. row \in WorkerRecord
    BY <1>3, IdleRow DEF WorkerRecord, Steps
  <2>2. row.at = "looking" /\ row.of = worker[w].of /\ row.gen = worker[w].gen
    BY IdleRow DEF WorkerRecord
  <2>3. worker' = [worker EXCEPT ![w] = row]
    BY <1>5 DEF Stumbles
  <2> HIDE DEF row
  <2> QED BY <1>1, <2>1, <2>2, <2>3
<1> QED BY <1>2, <1>4, <1>5 DEF Retreats, Stumbles

\* A step of a worker on its task that learns something, or forgets.
LEMMA WorkerLearns ==
    ASSUME ControllerOK, UNCHANGED <<vars, github, draft>>, NEW w \in Workers, ~At(w, "idle"),
           worker' \in [Workers -> WorkerRecord], \A v \in Workers \ {w} : worker'[v] = worker[v],
           worker'[w].of = worker[w].of, worker'[w].gen = worker[w].gen,
           faults' \in 0 .. MaxFaults, faults' >= faults, Knows(worker'[w]),
           worker'[w].at \in Operating =>
               worker[w].at \in Operating \/ draft[worker[w].of] = None,
           worker'[w].at = "checking" =>
               github[worker'[w].of[1]].checks[worker'[w].check] = 0
    PROVE  ControllerOK'
<1>1. [Next]_vars /\ task' = task
  BY DEF vars
<1>2. WorkerKnows(w)'
  BY <1>1 DEF WorkerKnows, Knows
<1>3. OwnsTask(w)' => OwnsTask(w)
  BY <1>1, OwnedBefore
<1>4. worker'[w].at \in Operating /\ OwnsTask(w)' => draft'[worker'[w].of] = None
  BY <1>3 DEF ControllerOK, WorkerOK
<1>5. WorkerOK(w)'
  BY <1>2, <1>4 DEF WorkerOK
<1> QED BY <1>1, <1>5, WorkerMoves

LEMMA WorkerRetreats ==
    ASSUME ControllerOK, [Next]_vars, NEW w \in Workers, ~At(w, "idle"), Retreats(w),
           github' = github, draft' = draft, faults' \in 0 .. MaxFaults, faults' >= faults,
           \A t \in Tasks : task'[t].status = "succeeded" =>
               task[t].status = "succeeded" \/ draft[t] # None
    PROVE  ControllerOK'
<1>1. /\ worker' \in [Workers -> WorkerRecord]
      /\ \A v \in Workers \ {w} : worker'[v] = worker[v]
      /\ \/ worker'[w].at = "idle"
         \/ /\ worker'[w].at \in {"failing", "looking"}
            /\ worker'[w].of = worker[w].of /\ worker'[w].gen = worker[w].gen
  BY RetreatRow DEF ControllerOK
<1>2. worker[w].of \in Tasks /\ worker[w].gen <= task[worker[w].of].generation
  BY DEF ControllerOK, WorkerOK, WorkerKnows, Knows
<1>3. worker[w].gen <= task'[worker[w].of].generation
  BY <1>2, StoreLeases, WorkerFields DEF ControllerOK
<1>4. worker'[w].at \notin Operating \cup {"checking"}
  BY <1>1 DEF Operating
<1>5. WorkerOK(w)'
  BY <1>1, <1>2, <1>3 DEF WorkerOK, WorkerKnows, Knows, At, Operating, HasReference, HasHead, HasPull, HasRow
<1> QED BY <1>1, <1>4, <1>5, WorkerMoves

LEMMA CostsCount ==
    ASSUME ControllerTypeOK, NEW well, Costs(well)
    PROVE  /\ faults' \in 0 .. MaxFaults /\ faults' >= faults
           /\ ~well => faults' = faults + 1
<1>1. faults \in Nat /\ MaxFaults \in Nat
  BY FaultsAssumption DEF ControllerTypeOK
<1>2. faults' <= MaxFaults /\ (well => faults' = faults) /\ (~well => faults' = faults + 1)
  BY <1>1 DEF Costs
<1> QED BY <1>1, <1>2

\* Every step of the controller is a step the store offers, or leaves it alone:
\* what a worker sends is a task and a generation of the store.
LEMMA ControllerMovesStore == ControllerOK /\ [ControllerNext]_controllerVars => [Next]_vars
<1> SUFFICES ASSUME ControllerOK, [ControllerNext]_controllerVars PROVE [Next]_vars
  OBVIOUS
<1>1. CASE StoreStep
  BY <1>1 DEF StoreStep, Next
<1>2. ASSUME NEW w \in Workers, RunNext(w) PROVE [Next]_vars
  <2>1. worker[w].gen \in Attempts /\ (~At(w, "idle") => worker[w].of \in Tasks)
        /\ worker[w].failure \in Classifications
    BY WorkerFields DEF ControllerOK, WorkerOK, WorkerKnows, Knows
  <2>2. ASSUME NEW t \in Tasks, Claim(w, t) PROVE Next
    BY <2>2 DEF Claim, Next
  <2>3. ASSUME NEW digest \in Digests, NEW heard \in BOOLEAN, Complete(w, digest, heard) PROVE Next
    BY <2>1, <2>3 DEF Complete, Next, At
  <2>4. CASE Fail(w)
    BY <2>1, <2>4 DEF Fail, Next, At
  <2>5. CASE Begin(w) \/ Look(w) \/ RecordEffect(w) \/ CallFails(w) \/ Leave(w)
    BY <2>5 DEF Begin, Look, RecordEffect, CallFails, Leave
  <2> QED BY <1>2, <2>2, <2>3, <2>4, <2>5 DEF RunNext
<1>3. ASSUME NEW w \in Workers, Operate(w) PROVE [Next]_vars
  <2>1. UNCHANGED vars
    BY <1>3 DEF Operate, LookupPatch, PatchRefused, LookupPull, PullRefused, LookupCheck,
                ApplyPatch, CreatePull, CreateCheck, Save, Verify, PortFails
  <2> QED BY <2>1
<1>4. ASSUME NEW r \in Runs, ClosePull(r) PROVE [Next]_vars
  BY <1>4 DEF ClosePull
<1>5. ASSUME NEW t \in Tasks, LeaseRunsOut(t) PROVE [Next]_vars
  BY <1>5 DEF LeaseRunsOut, Next
<1> QED BY <1>1, <1>2, <1>3, <1>4, <1>5 DEF ControllerNext, controllerVars

-----------------------------------------------------------------------------
(* Each step keeps the invariant. *)

LEMMA KnownTask ==
    ASSUME ControllerOK, NEW w \in Workers, ~At(w, "idle")
    PROVE  WorkerKnows(w) /\ worker[w].of \in Tasks /\ RunOf(w) \in Runs
BY DEF ControllerOK, WorkerOK, WorkerKnows, Knows, RunOf, Tasks

LEMMA ClaimKeeps ==
    ASSUME ControllerOK, [Next]_vars, NEW w \in Workers, NEW t \in Tasks, Claim(w, t)
    PROVE  ControllerOK'
<1> DEFINE row == [Idle EXCEPT !.at = "beginning", !.of = t, !.gen = task[t].generation + 1]
<1>1. task'[t].generation = task[t].generation + 1 /\ task[t].generation \in Nat
      /\ command' = command
  <2>1. task[t] \in TaskRecord /\ task \in [Tasks -> TaskRecord]
    BY DEF ControllerOK, StoreOK, RowsOK, TypeOK
  <2>2. Leased(t, w).generation = task[t].generation + 1
    BY <2>1 DEF Leased, TaskRecord
  <2>3. task' = [task EXCEPT ![t] = Leased(t, w)] /\ command' = command
    BY DEF Claim, ClaimWorkflowTask
  <2>4. task'[t] = Leased(t, w)
    BY <2>1, <2>3
  <2> QED BY <2>2, <2>3, <2>4, StoreLeases DEF ControllerOK
<1>2. task[t].generation + 1 \in Attempts
  <2>1. StoreOK'
    BY StoreOKNext DEF ControllerOK
  <2>2. task'[t].generation \in Attempts
    BY <2>1 DEF StoreOK, RowsOK, TypeOK, TaskRecord
  <2> QED BY <1>1, <2>2
<1>3. row \in WorkerRecord /\ row.at = "beginning" /\ row.of = t /\ row.gen = task[t].generation + 1
  BY <1>2, IdleRow DEF WorkerRecord, Steps
<1>4. worker' = [worker EXCEPT ![w] = row]
  BY DEF Claim
<1> HIDE DEF row
<1>5. /\ worker' \in [Workers -> WorkerRecord] /\ worker'[w] = row
      /\ \A v \in Workers \ {w} : worker'[v] = worker[v]
  BY <1>3, <1>4 DEF ControllerOK, ControllerTypeOK
<1>6. WorkerOK(w)'
  BY <1>1, <1>3, <1>5 DEF WorkerOK, WorkerKnows, Knows, Operating, HasReference, HasHead, HasPull, HasRow
<1>7. faults' = faults /\ faults \in 0 .. MaxFaults /\ faults \in Nat
  BY FaultsAssumption DEF Claim, ControllerOK, ControllerTypeOK
<1>8. \A u \in Tasks : task'[u].status = "succeeded" => task[u].status = "succeeded"
  BY <1>1, NothingCompleted DEF ControllerOK
<1>9. github' = github /\ draft' = draft
  BY DEF Claim
<1> QED BY <1>3, <1>5, <1>6, <1>7, <1>8, <1>9, WorkerMoves

LEMMA FailKeeps ==
    ASSUME ControllerOK, [Next]_vars, NEW w \in Workers, Fail(w)
    PROVE  ControllerOK'
<1>1. command'.complete = command.complete
  BY DEF Fail, FailWorkflowTask, ControllerOK, StoreOK, RowsOK, TypeOK, CommandLog
<1>2. faults' = faults /\ faults \in 0 .. MaxFaults /\ faults \in Nat
  BY FaultsAssumption DEF Fail, ControllerOK, ControllerTypeOK
<1>3. \A u \in Tasks : task'[u].status = "succeeded" => task[u].status = "succeeded"
  BY <1>1, NothingCompleted DEF ControllerOK
<1>4. ~At(w, "idle") /\ Retreats(w) /\ github' = github /\ draft' = draft
  BY DEF Fail, At, Retreats
<1> QED BY <1>2, <1>3, <1>4, WorkerRetreats

\* Steps that give up what the worker did, and change nothing else.
LEMMA RetreatKeeps ==
    ASSUME ControllerOK, NEW w \in Workers,
           \/ CallFails(w) \/ Leave(w) \/ PatchRefused(w) \/ PullRefused(w)
           \/ \E classification \in Classifications : PortFails(w, classification)
    PROVE  ControllerOK'
<1>1. UNCHANGED <<vars, github, draft>>
  BY DEF CallFails, Leave, PatchRefused, PullRefused, PortFails
<1>2. ~At(w, "idle") /\ Retreats(w)
  BY DEF CallFails, Leave, PatchRefused, PullRefused, PortFails, At, Retreats, Classifications, Operating
<1>3. faults' \in 0 .. MaxFaults /\ faults' >= faults
  <2>1. CASE UNCHANGED faults
    BY <2>1, FaultsAssumption DEF ControllerOK, ControllerTypeOK
  <2>2. CASE \E well : Costs(well)
    BY <2>2, CostsCount DEF ControllerOK
  <2> QED BY <2>1, <2>2 DEF CallFails, Leave, PatchRefused, PullRefused, PortFails
<1>4. [Next]_vars /\ github' = github /\ draft' = draft
  BY <1>1
<1>5. \A u \in Tasks : task'[u].status = "succeeded" => task[u].status = "succeeded"
  BY <1>1 DEF vars
<1> QED BY <1>2, <1>3, <1>4, <1>5, WorkerRetreats

\* Begin, Look, RecordEffect and the lookups only move the worker.
LEMMA StepLearns ==
    ASSUME ControllerOK, UNCHANGED <<vars, github, draft, faults>>, NEW w \in Workers,
           ~At(w, "idle"), NEW step \in Steps \ {"idle"}, Goes(w, step),
           step \in Operating => worker[w].at \in Operating \/ draft[worker[w].of] = None,
           step \in HasReference => worker[w].at \in HasReference,
           step \in HasHead => worker[w].at \in HasHead,
           step \in HasPull => worker[w].at \in HasPull,
           step = "saving" => Hub(w).checks[worker[w].check] > 0,
           step \in HasRow => draft[worker[w].of] # None,
           step = "checking" => Hub(w).checks[worker[w].check] = 0
    PROVE  ControllerOK'
<1>1. WorkerKnows(w) /\ worker[w].of \in Tasks
  BY KnownTask
<1>2. /\ worker' \in [Workers -> WorkerRecord]
      /\ \A v \in Workers \ {w} : worker'[v] = worker[v]
      /\ worker'[w].at = step /\ worker'[w].of = worker[w].of
      /\ worker'[w].gen = worker[w].gen
      /\ worker'[w].head = worker[w].head /\ worker'[w].pull = worker[w].pull
      /\ worker'[w].check = worker[w].check
  BY GoesRow DEF ControllerOK
<1>3. Knows(worker'[w])
  BY <1>1, <1>2 DEF WorkerKnows, Knows, Hub, RunOf
<1>4. faults' \in 0 .. MaxFaults /\ faults' >= faults
  BY FaultsAssumption DEF ControllerOK, ControllerTypeOK
<1>5. worker'[w].at = "checking" => github[worker'[w].of[1]].checks[worker'[w].check] = 0
  BY <1>2 DEF Hub, RunOf
<1> QED BY <1>2, <1>3, <1>4, <1>5, WorkerLearns

LEMMA MovesKeep ==
    ASSUME ControllerOK, NEW w \in Workers, Begin(w) \/ Look(w) \/ RecordEffect(w)
    PROVE  ControllerOK'
<1> USE DEF Steps, Operating, HasReference, HasHead, HasPull, HasRow, At
<1>1. UNCHANGED <<vars, github, draft, faults>> /\ ~At(w, "idle")
  BY DEF Begin, Look, RecordEffect
<1>2. CASE Begin(w)
  <2>1. Goes(w, "looking")
    BY <1>2 DEF Begin
  <2> QED BY <1>1, <2>1, StepLearns
<1>3. CASE RecordEffect(w)
  <2>1. Goes(w, "completing") /\ draft[worker[w].of] # None
    BY <1>1, <1>3, KnownTask DEF RecordEffect, WorkerKnows, Knows
  <2> QED BY <1>1, <2>1, StepLearns
<1>4. CASE Look(w) /\ draft[worker[w].of] # None
  <2>1. Goes(w, "recording")
    BY <1>4 DEF Look
  <2> QED BY <1>1, <1>4, <2>1, StepLearns
<1>5. CASE Look(w) /\ draft[worker[w].of] = None
  <2>1. Goes(w, "verifying")
    BY <1>5 DEF Look
  <2> QED BY <1>1, <1>5, <2>1, StepLearns
<1> QED BY <1>2, <1>3, <1>4, <1>5

\* Two fields of a worker's record change at once.
LEMMA TwoFields ==
    ASSUME ControllerTypeOK, NEW w \in Workers, NEW row \in WorkerRecord,
           worker' = [worker EXCEPT ![w] = row]
    PROVE  /\ worker' \in [Workers -> WorkerRecord] /\ worker'[w] = row
           /\ \A v \in Workers \ {w} : worker'[v] = worker[v]
BY DEF ControllerTypeOK

LEMMA LearnsHead ==
    ASSUME ControllerTypeOK, NEW w \in Workers, NEW head \in Commits,
           worker' = [worker EXCEPT ![w].at = "pull", ![w].head = head]
    PROVE  /\ worker' \in [Workers -> WorkerRecord]
           /\ \A v \in Workers \ {w} : worker'[v] = worker[v]
           /\ worker'[w].at = "pull" /\ worker'[w].head = head
           /\ worker'[w].of = worker[w].of /\ worker'[w].gen = worker[w].gen
           /\ worker'[w].check = worker[w].check
<1> DEFINE row == [worker[w] EXCEPT !.at = "pull", !.head = head]
<1>1. worker[w] \in WorkerRecord
  BY WorkerFields
<1>2. /\ row \in WorkerRecord /\ row.at = "pull" /\ row.head = head /\ row.of = worker[w].of
      /\ row.gen = worker[w].gen /\ row.check = worker[w].check
  BY <1>1 DEF WorkerRecord, Steps, Operating
<1>3. worker' = [worker EXCEPT ![w] = row]
  BY <1>1 DEF ControllerTypeOK
<1> HIDE DEF row
<1> QED BY <1>2, <1>3, TwoFields

LEMMA LearnsPull ==
    ASSUME ControllerTypeOK, NEW w \in Workers, NEW pull \in 0 .. MaxPulls,
           worker' = [worker EXCEPT ![w].at = "check", ![w].pull = pull]
    PROVE  /\ worker' \in [Workers -> WorkerRecord]
           /\ \A v \in Workers \ {w} : worker'[v] = worker[v]
           /\ worker'[w].at = "check" /\ worker'[w].pull = pull
           /\ worker'[w].of = worker[w].of /\ worker'[w].gen = worker[w].gen
           /\ worker'[w].check = worker[w].check /\ worker'[w].head = worker[w].head
<1> DEFINE row == [worker[w] EXCEPT !.at = "check", !.pull = pull]
<1>1. worker[w] \in WorkerRecord
  BY WorkerFields
<1>2. /\ row \in WorkerRecord /\ row.at = "check" /\ row.pull = pull /\ row.of = worker[w].of
      /\ row.gen = worker[w].gen /\ row.check = worker[w].check /\ row.head = worker[w].head
  BY <1>1 DEF WorkerRecord, Steps, Operating
<1>3. worker' = [worker EXCEPT ![w] = row]
  BY <1>1 DEF ControllerTypeOK
<1> HIDE DEF row
<1> QED BY <1>2, <1>3, TwoFields

LEMMA LearnsReference ==
    ASSUME ControllerTypeOK, NEW w \in Workers, NEW reference \in References,
           worker' = [worker EXCEPT ![w].at = "patch", ![w].check = reference]
    PROVE  /\ worker' \in [Workers -> WorkerRecord]
           /\ \A v \in Workers \ {w} : worker'[v] = worker[v]
           /\ worker'[w].at = "patch" /\ worker'[w].check = reference
           /\ worker'[w].of = worker[w].of /\ worker'[w].gen = worker[w].gen
<1> DEFINE row == [worker[w] EXCEPT !.at = "patch", !.check = reference]
<1>1. worker[w] \in WorkerRecord
  BY WorkerFields
<1>2. /\ row \in WorkerRecord /\ row.at = "patch" /\ row.check = reference
      /\ row.of = worker[w].of /\ row.gen = worker[w].gen
  BY <1>1 DEF WorkerRecord, Steps, Operating
<1>3. worker' = [worker EXCEPT ![w] = row]
  BY <1>1 DEF ControllerTypeOK
<1> HIDE DEF row
<1> QED BY <1>2, <1>3, TwoFields

LEMMA VerifyKeeps ==
    ASSUME ControllerOK, NEW w \in Workers, NEW reference \in References, Verify(w, reference)
    PROVE  ControllerOK'
<1>1. /\ UNCHANGED <<vars, github, draft, faults>> /\ At(w, "verifying")
      /\ worker' = [worker EXCEPT ![w].at = "patch", ![w].check = reference]
  BY DEF Verify
<1>2. /\ worker' \in [Workers -> WorkerRecord]
      /\ \A v \in Workers \ {w} : worker'[v] = worker[v]
      /\ worker'[w].at = "patch" /\ worker'[w].check = reference
      /\ worker'[w].of = worker[w].of /\ worker'[w].gen = worker[w].gen
  BY <1>1, LearnsReference DEF ControllerOK
<1>3. Knows(worker'[w])
  BY <1>1, <1>2, KnownTask DEF WorkerKnows, Knows, At, HasHead, HasPull, HasRow
<1>4. faults' \in 0 .. MaxFaults /\ faults' >= faults
  BY <1>1, FaultsAssumption DEF ControllerOK, ControllerTypeOK
<1>5. ~At(w, "idle") /\ worker[w].at \in Operating
  BY <1>1 DEF At, Operating
<1> QED BY <1>1, <1>2, <1>3, <1>4, <1>5, WorkerLearns

LEMMA LookupPatchKeeps ==
    ASSUME ControllerOK, NEW w \in Workers, LookupPatch(w)
    PROVE  ControllerOK'
<1>1. UNCHANGED <<vars, github, draft, faults>> /\ worker[w].at = "patch" /\ ~At(w, "idle")
  BY DEF LookupPatch, At
<1>2. CASE Hub(w).head = None
  <2>1. Goes(w, "patching")
    BY <1>2 DEF LookupPatch
  <2> QED BY <1>1, <2>1, StepLearns
      DEF Steps, Operating, HasReference, HasHead, HasPull, HasRow
<1>3. CASE Hub(w).head # None
  <2>1. Hub(w).head \in Commits /\ worker' = [worker EXCEPT ![w].at = "pull", ![w].head = Hub(w).head]
    BY <1>1, <1>3, KnownTask, HubFields DEF LookupPatch, Hub, ControllerOK
  <2>2. /\ worker' \in [Workers -> WorkerRecord]
        /\ \A v \in Workers \ {w} : worker'[v] = worker[v]
        /\ worker'[w].at = "pull" /\ worker'[w].head = Hub(w).head
        /\ worker'[w].of = worker[w].of /\ worker'[w].gen = worker[w].gen
        /\ worker'[w].check = worker[w].check
    BY <2>1, LearnsHead DEF ControllerOK
  <2>3. Knows(worker'[w])
    BY <1>1, <2>1, <2>2, KnownTask
    DEF WorkerKnows, Knows, Hub, RunOf, HasReference, HasHead, HasPull, HasRow
  <2>4. faults' \in 0 .. MaxFaults /\ faults' >= faults
    BY <1>1, FaultsAssumption DEF ControllerOK, ControllerTypeOK
  <2>5. worker[w].at \in Operating
    BY <1>1 DEF Operating
  <2> QED BY <1>1, <2>2, <2>3, <2>4, <2>5, WorkerLearns
<1> QED BY <1>2, <1>3

LEMMA LookupPullKeeps ==
    ASSUME ControllerOK, NEW w \in Workers, LookupPull(w)
    PROVE  ControllerOK'
<1>1. UNCHANGED <<vars, github, draft, faults>> /\ worker[w].at = "pull" /\ ~At(w, "idle")
  BY DEF LookupPull, At
<1>2. CASE ~(Hub(w).open /\ Hub(w).head = worker[w].head)
  <2>1. Goes(w, "pulling")
    BY <1>2 DEF LookupPull
  <2> QED BY <1>1, <2>1, StepLearns
      DEF Steps, Operating, HasReference, HasHead, HasPull, HasRow
<1>3. CASE Hub(w).open /\ Hub(w).head = worker[w].head
  <2>1. /\ Hub(w).pulls \in 0 .. MaxPulls /\ Hub(w).pulls > 0 /\ Hub(w).pulls \in Nat
        /\ worker' = [worker EXCEPT ![w].at = "check", ![w].pull = Hub(w).pulls]
    BY <1>1, <1>3, KnownTask, HubFields DEF LookupPull, Hub, ControllerOK, PullsCounted
  <2>2. /\ worker' \in [Workers -> WorkerRecord]
        /\ \A v \in Workers \ {w} : worker'[v] = worker[v]
        /\ worker'[w].at = "check" /\ worker'[w].pull = Hub(w).pulls
        /\ worker'[w].of = worker[w].of /\ worker'[w].gen = worker[w].gen
        /\ worker'[w].check = worker[w].check /\ worker'[w].head = worker[w].head
    BY <2>1, LearnsPull DEF ControllerOK
  <2>3. Knows(worker'[w])
    BY <1>1, <2>1, <2>2, KnownTask
    DEF WorkerKnows, Knows, Hub, RunOf, HasReference, HasHead, HasPull, HasRow
  <2>4. faults' \in 0 .. MaxFaults /\ faults' >= faults
    BY <1>1, FaultsAssumption DEF ControllerOK, ControllerTypeOK
  <2>5. worker[w].at \in Operating
    BY <1>1 DEF Operating
  <2> QED BY <1>1, <2>2, <2>3, <2>4, <2>5, WorkerLearns
<1> QED BY <1>2, <1>3

LEMMA LookupCheckKeeps ==
    ASSUME ControllerOK, [Next]_vars, NEW w \in Workers, LookupCheck(w)
    PROVE  ControllerOK'
<1> DEFINE found == Hub(w).checks[worker[w].check]
<1>1. UNCHANGED <<vars, github, draft, faults>> /\ worker[w].at = "check" /\ ~At(w, "idle")
  BY DEF LookupCheck, At
<1>2. CASE found = 0 /\ Goes(w, "checking")
  BY <1>1, <1>2, StepLearns DEF Steps, Operating, HasReference, HasHead, HasPull, HasRow
<1>3. CASE found = 1 /\ Goes(w, "saving")
  BY <1>1, <1>3, StepLearns DEF Steps, Operating, HasReference, HasHead, HasPull, HasRow
<1>4. CASE Stumbles(w, "permanent")
  <2>1. Retreats(w)
    BY <1>4 DEF Retreats, Classifications
  <2>2. faults' \in 0 .. MaxFaults /\ faults' >= faults
    BY <1>1, FaultsAssumption DEF ControllerOK, ControllerTypeOK
  <2>3. task' = task
    BY <1>1 DEF vars
  <2> QED BY <1>1, <2>1, <2>2, <2>3, WorkerRetreats
<1> QED BY <1>2, <1>3, <1>4 DEF LookupCheck

LEMMA CompleteKeeps ==
    ASSUME ControllerOK, [Next]_vars, NEW w \in Workers, NEW digest \in Digests,
           NEW heard \in BOOLEAN, Complete(w, digest, heard)
    PROVE  ControllerOK'
<1> DEFINE t == worker[w].of
           c == [of |-> t, key |-> worker[w].gen, input |-> digest]
<1>1. worker[w].at = "completing" /\ ~At(w, "idle") /\ Retreats(w) /\ UNCHANGED <<github, draft>>
  BY DEF Complete, At, Retreats, Classifications
<1>2. draft[t] # None
  BY <1>1, KnownTask DEF WorkerKnows, Knows, HasRow
<1>3. command'.complete = command.complete \cup {c}
  BY DEF Complete, CompleteWorkflowTask, ControllerOK, StoreOK, RowsOK, TypeOK, CommandLog
<1>4. ASSUME NEW u \in Tasks, task'[u].status = "succeeded"
      PROVE  task[u].status = "succeeded" \/ draft[u] # None
  <2>1. SUFFICES ASSUME task[u].status # "succeeded" PROVE u = t
    BY <1>2
  <2>2. PICK d \in command'.complete : d.of = u /\ d \notin command.complete
    BY <1>4, <2>1, SuccessIsRecorded DEF ControllerOK
  <2> QED BY <1>3, <2>2
<1>5. faults' \in 0 .. MaxFaults /\ faults' >= faults
  BY CostsCount DEF Complete, ControllerOK
<1> QED BY <1>1, <1>4, <1>5, WorkerRetreats

\* A step of a worker that also changes the objects of its run at GitHub.
LEMMA HubMoves ==
    ASSUME ControllerOK, UNCHANGED <<vars, draft>>, NEW w \in Workers, ~At(w, "idle"),
           worker' \in [Workers -> WorkerRecord], \A v \in Workers \ {w} : worker'[v] = worker[v],
           worker'[w].at # "idle" =>
               /\ worker'[w].of = worker[w].of /\ worker'[w].gen = worker[w].gen
               /\ WorkerKnows(w)',
           worker'[w].at \in Operating => worker[w].at \in Operating,
           faults' \in 0 .. MaxFaults, github' \in [Runs -> GitHub],
           HubsGrow, PullsCounted', ChecksCounted'
    PROVE  ControllerOK'
<1>1. [Next]_vars /\ task' = task /\ draft' = draft
  BY DEF vars
<1>2. ControllerTypeOK'
  BY <1>1 DEF ControllerOK, ControllerTypeOK
<1>3. DraftsKept
  BY <1>1 DEF DraftsKept
<1>4. StoreOK' /\ TasksRecorded'
  BY <1>1, StoreOKNext, RecordsStay DEF ControllerOK
<1>5. ASSUME NEW v \in Workers PROVE WorkerOK(v)'
  <2>1. CASE v # w
    BY <1>1, <1>3, <2>1, OtherWorkerKeeps
  <2>2. CASE v = w /\ worker'[w].at = "idle"
    BY <2>2 DEF WorkerOK, At, Operating
  <2>3. CASE v = w /\ worker'[w].at # "idle"
    <3>1. OwnsTask(w)' => OwnsTask(w)
      BY <1>1, <2>3, OwnedBefore
    <3>2. worker'[w].at \in Operating /\ OwnsTask(w)' => draft'[worker'[w].of] = None
      BY <1>1, <2>3, <3>1 DEF ControllerOK, WorkerOK
    <3> QED BY <2>3, <3>2 DEF WorkerOK
  <2> QED BY <2>1, <2>2, <2>3
<1> QED BY <1>2, <1>4, <1>5 DEF ControllerOK

LEMMA LeavesChecking ==
    ASSUME NEW w \in Workers, \A v \in Workers \ {w} : worker'[v] = worker[v],
           worker'[w].at # "checking", NEW r, NEW e
    PROVE  /\ Checking(r, e)' \subseteq Checking(r, e) \ {w}
           /\ Cardinality(Checking(r, e)') \in Nat
           /\ Cardinality(Checking(r, e)') <= Cardinality(Checking(r, e))
           /\ w \in Checking(r, e) =>
                 Cardinality(Checking(r, e)') + 1 <= Cardinality(Checking(r, e))
<1>1. Checking(r, e)' \subseteq Checking(r, e) \ {w}
  BY DEF Checking, At, RunOf
<1>2. IsFiniteSet(Checking(r, e)) /\ Cardinality(Checking(r, e)) \in Nat
  BY CheckingFinite
<1>3. IsFiniteSet(Checking(r, e) \ {w})
      /\ Cardinality(Checking(r, e) \ {w}) =
            IF w \in Checking(r, e) THEN Cardinality(Checking(r, e)) - 1 ELSE Cardinality(Checking(r, e))
  BY <1>2, FS_RemoveElement
<1>4. Cardinality(Checking(r, e)') <= Cardinality(Checking(r, e) \ {w})
      /\ Cardinality(Checking(r, e)') \in Nat
  BY <1>1, <1>3, FS_Subset, FS_CardinalityType
<1> QED BY <1>1, <1>2, <1>3, <1>4

\* The objects of one run change.
LEMMA OneHub ==
    ASSUME ControllerTypeOK, NEW r \in Runs, NEW hub \in GitHub,
           github' = [github EXCEPT ![r] = hub],
           github[r].head # None => hub.head = github[r].head,
           hub.pulls >= github[r].pulls,
           \A e \in References : hub.checks[e] >= github[r].checks[e]
    PROVE  /\ github' \in [Runs -> GitHub] /\ github'[r] = hub
           /\ \A s \in Runs \ {r} : github'[s] = github[s]
           /\ HubsGrow
<1>1. /\ github' \in [Runs -> GitHub] /\ github'[r] = hub
      /\ \A s \in Runs \ {r} : github'[s] = github[s]
  BY DEF ControllerTypeOK
<1>2. hub.pulls \in Nat /\ \A e \in References : hub.checks[e] \in Nat
  <2>1. MaxPulls \in Nat /\ Cardinality(Workers) \in Nat
    BY HubFields
  <2> QED BY <2>1 DEF GitHub
<1>3. ASSUME NEW s \in Runs
      PROVE  /\ github[s].head # None => github'[s].head = github[s].head
             /\ github'[s].pulls \in Nat /\ github'[s].pulls >= github[s].pulls
             /\ \A e \in References :
                   github'[s].checks[e] \in Nat /\ github'[s].checks[e] >= github[s].checks[e]
  <2>1. CASE s = r
    BY <1>1, <1>2, <2>1
  <2>2. CASE s # r
    BY <1>1, <2>2, HubFields
  <2> QED BY <2>1, <2>2
<1> QED BY <1>1, <1>3 DEF HubsGrow

LEMMA SameChecksCounted ==
    ASSUME ControllerTypeOK, ChecksCounted, NEW w \in Workers,
           \A v \in Workers \ {w} : worker'[v] = worker[v], worker'[w].at # "checking",
           \A r \in Runs : github'[r].checks = github[r].checks
    PROVE  ChecksCounted'
<1> SUFFICES ASSUME NEW r \in Runs, NEW e \in References
             PROVE  github'[r].checks[e] + Cardinality(Checking(r, e)') <= Cardinality(Workers)
  BY DEF ChecksCounted
<1>1. /\ github[r].checks[e] \in Nat /\ Cardinality(Workers) \in Nat
      /\ github[r].checks[e] + Cardinality(Checking(r, e)) <= Cardinality(Workers)
      /\ Cardinality(Checking(r, e)) \in Nat
  BY HubFields, CheckingFinite DEF ChecksCounted
<1>2. /\ Cardinality(Checking(r, e)') \in Nat
      /\ Cardinality(Checking(r, e)') <= Cardinality(Checking(r, e))
  BY LeavesChecking
<1> QED BY <1>1, <1>2

LEMMA RetreatKnows ==
    ASSUME ControllerOK, task' = task, NEW w \in Workers, ~At(w, "idle"), Retreats(w)
    PROVE  /\ worker' \in [Workers -> WorkerRecord]
           /\ \A v \in Workers \ {w} : worker'[v] = worker[v]
           /\ worker'[w].at # "idle" =>
                 /\ worker'[w].of = worker[w].of /\ worker'[w].gen = worker[w].gen
                 /\ WorkerKnows(w)'
           /\ worker'[w].at \notin Operating /\ worker'[w].at # "checking"
<1>1. /\ worker' \in [Workers -> WorkerRecord]
      /\ \A v \in Workers \ {w} : worker'[v] = worker[v]
      /\ \/ worker'[w].at = "idle"
         \/ /\ worker'[w].at \in {"failing", "looking"}
            /\ worker'[w].of = worker[w].of /\ worker'[w].gen = worker[w].gen
  BY RetreatRow DEF ControllerOK
<1>2. worker[w].of \in Tasks /\ worker[w].gen <= task'[worker[w].of].generation
  BY KnownTask DEF WorkerKnows, Knows
<1> QED BY <1>1, <1>2 DEF WorkerKnows, Knows, Operating, HasReference, HasHead, HasPull, HasRow

LEMMA ApplyPatchKeeps ==
    ASSUME ControllerOK, NEW w \in Workers, NEW heard \in BOOLEAN, ApplyPatch(w, heard)
    PROVE  ControllerOK'
<1>0. PICK r \in Runs : r = RunOf(w)
  BY KnownTask DEF ApplyPatch, At
<1> DEFINE t == worker[w].of
           commit == <<t[2], worker[w].gen>>
           hub == [github[r] EXCEPT !.head = commit]
<1>1. worker[w].at = "patching" /\ ~At(w, "idle") /\ UNCHANGED <<vars, draft>> /\ github[r].head = None
  BY <1>0 DEF ApplyPatch, At, Hub
<1>2. WorkerKnows(w) /\ t \in Tasks
  BY <1>1, KnownTask
<1>3. commit \in Commits
  BY <1>2, WorkerFields DEF ControllerOK, Tasks, Commits, Tokens
<1> HIDE DEF commit
<1>4. /\ hub \in GitHub /\ hub.head = commit /\ hub.pulls = github[r].pulls
      /\ hub.open = github[r].open /\ hub.checks = github[r].checks
  <2>1. github[r] \in GitHub
    BY <1>2, HubFields DEF ControllerOK
  <2> QED BY <1>3, <2>1 DEF GitHub
<1>5. github' = [github EXCEPT ![r] = hub]
  BY <1>0 DEF ApplyPatch, HubBecomes, Hub, commit
<1> HIDE DEF hub
<1>6. /\ github[r].pulls \in Nat /\ \A e \in References : github[r].checks[e] \in Nat
  BY <1>2, HubFields DEF ControllerOK
<1>7. /\ github' \in [Runs -> GitHub] /\ github'[r] = hub
      /\ \A s \in Runs \ {r} : github'[s] = github[s]
      /\ HubsGrow
  <2>1. ControllerTypeOK
    BY DEF ControllerOK
  <2>2. /\ github[r].head # None => hub.head = github[r].head
        /\ hub.pulls >= github[r].pulls
        /\ \A d \in References : hub.checks[d] >= github[r].checks[d]
    BY <1>1, <1>4, <1>6
  <2> QED BY <1>4, <1>5, <2>1, <2>2, OneHub
<1>8. faults' \in 0 .. MaxFaults /\ faults' >= faults
  BY CostsCount DEF ApplyPatch, ControllerOK
<1>9. PullsCounted'
  <2>1. \A s \in Runs : github'[s].pulls = github[s].pulls /\ github'[s].open = github[s].open
    BY <1>4, <1>7
  <2>2. ASSUME NEW s \in Runs
        PROVE  /\ github[s].pulls \in Nat /\ faults \in Nat /\ faults' \in Nat
               /\ github[s].pulls <= faults + (IF github[s].open THEN 1 ELSE 0)
               /\ github[s].open => github[s].pulls > 0
    BY <1>8, HubFields, FaultsAssumption DEF ControllerOK, PullsCounted
  <2> QED BY <1>8, <2>1, <2>2 DEF PullsCounted
<1>10. task' = task
  BY <1>1 DEF vars
<1>11. /\ worker' \in [Workers -> WorkerRecord]
       /\ \A v \in Workers \ {w} : worker'[v] = worker[v]
       /\ worker'[w].at # "idle" =>
             /\ worker'[w].of = worker[w].of /\ worker'[w].gen = worker[w].gen
             /\ WorkerKnows(w)'
       /\ worker'[w].at # "checking"
  <2>1. CASE heard
    <3>1. worker' = [worker EXCEPT ![w].at = "pull", ![w].head = commit]
      BY <2>1 DEF ApplyPatch, commit
    <3>2. /\ worker' \in [Workers -> WorkerRecord]
          /\ \A v \in Workers \ {w} : worker'[v] = worker[v]
          /\ worker'[w].at = "pull" /\ worker'[w].head = commit
          /\ worker'[w].of = worker[w].of /\ worker'[w].gen = worker[w].gen
          /\ worker'[w].check = worker[w].check
      BY <1>3, <3>1, LearnsHead DEF ControllerOK
    <3>3. WorkerKnows(w)'
      BY <1>0, <1>1, <1>2, <1>3, <1>4, <1>7, <1>10, <3>2
      DEF WorkerKnows, Knows, RunOf, HasReference, HasHead, HasPull, HasRow
    <3> QED BY <3>2, <3>3
  <2>2. CASE ~heard
    <3>1. Retreats(w)
      BY <2>2 DEF ApplyPatch, Retreats, Classifications
    <3> QED BY <1>1, <1>10, <3>1, RetreatKnows
  <2> QED BY <2>1, <2>2
<1>12. ChecksCounted'
  <2>1. \A s \in Runs : github'[s].checks = github[s].checks
    BY <1>4, <1>7
  <2> QED BY <1>11, <2>1, SameChecksCounted DEF ControllerOK
<1>13. worker[w].at \in Operating
  BY <1>1 DEF Operating
<1> QED BY <1>1, <1>7, <1>8, <1>9, <1>11, <1>12, <1>13, HubMoves

LEMMA CreatePullKeeps ==
    ASSUME ControllerOK, NEW w \in Workers, NEW heard \in BOOLEAN, CreatePull(w, heard)
    PROVE  ControllerOK'
<1>0. PICK r \in Runs : r = RunOf(w)
  BY KnownTask DEF CreatePull, At
<1> DEFINE hub == [github[r] EXCEPT !.pulls = @ + 1, !.open = TRUE]
<1>1. worker[w].at = "pulling" /\ ~At(w, "idle") /\ UNCHANGED <<vars, draft>> /\ ~github[r].open
  BY <1>0 DEF CreatePull, At, Hub
<1>2. WorkerKnows(w)
  BY <1>1, KnownTask
<1>3. /\ github[r].pulls \in Nat /\ faults \in Nat /\ MaxFaults \in Nat
      /\ faults <= MaxFaults /\ github[r].pulls <= faults
      /\ \A e \in References : github[r].checks[e] \in Nat
  BY <1>1, <1>2, HubFields, FaultsAssumption DEF ControllerOK, ControllerTypeOK, PullsCounted
<1>4. /\ hub \in GitHub /\ hub.head = github[r].head /\ hub.pulls = github[r].pulls + 1
      /\ hub.open = TRUE /\ hub.checks = github[r].checks /\ hub.pulls \in 0 .. MaxPulls
  <2>1. github[r] \in GitHub
    BY <1>2, HubFields DEF ControllerOK
  <2>2. github[r].pulls + 1 \in 0 .. MaxPulls
    BY <1>3 DEF MaxPulls
  <2> QED BY <2>1, <2>2 DEF GitHub
<1>5. github' = [github EXCEPT ![r] = hub]
  BY <1>0 DEF CreatePull, HubBecomes, Hub
<1>6. heard => worker' = [worker EXCEPT ![w].at = "check", ![w].pull = hub.pulls]
  BY <1>0 DEF CreatePull, Hub
<1> HIDE DEF hub
<1>7. /\ github' \in [Runs -> GitHub] /\ github'[r] = hub
      /\ \A s \in Runs \ {r} : github'[s] = github[s]
      /\ HubsGrow
  <2>1. ControllerTypeOK
    BY DEF ControllerOK
  <2>2. /\ github[r].head # None => hub.head = github[r].head
        /\ hub.pulls >= github[r].pulls
        /\ \A d \in References : hub.checks[d] >= github[r].checks[d]
    BY <1>3, <1>4
  <2> QED BY <1>4, <1>5, <2>1, <2>2, OneHub
<1>8. faults' \in 0 .. MaxFaults /\ faults' >= faults
  BY CostsCount DEF CreatePull, ControllerOK
<1>9. PullsCounted'
  <2>1. ASSUME NEW s \in Runs
        PROVE  /\ github'[s].pulls <= faults' + (IF github'[s].open THEN 1 ELSE 0)
               /\ github'[s].open => github'[s].pulls > 0
    <3>1. CASE s = r
      BY <1>3, <1>4, <1>7, <1>8, <3>1
    <3>2. CASE s # r
      <4>1. /\ github[s].pulls \in Nat /\ faults \in Nat /\ faults' \in Nat
            /\ github[s].pulls <= faults + (IF github[s].open THEN 1 ELSE 0)
            /\ github[s].open => github[s].pulls > 0
        BY <1>8, HubFields, FaultsAssumption DEF ControllerOK, PullsCounted
      <4> QED BY <1>7, <1>8, <3>2, <4>1
    <3> QED BY <3>1, <3>2
  <2> QED BY <2>1 DEF PullsCounted
<1>10. task' = task
  BY <1>1 DEF vars
<1>11. /\ worker' \in [Workers -> WorkerRecord]
       /\ \A v \in Workers \ {w} : worker'[v] = worker[v]
       /\ worker'[w].at # "idle" =>
             /\ worker'[w].of = worker[w].of /\ worker'[w].gen = worker[w].gen
             /\ WorkerKnows(w)'
       /\ worker'[w].at # "checking"
  <2>1. CASE heard
    <3>1. /\ worker' \in [Workers -> WorkerRecord]
          /\ \A v \in Workers \ {w} : worker'[v] = worker[v]
          /\ worker'[w].at = "check" /\ worker'[w].pull = hub.pulls
          /\ worker'[w].of = worker[w].of /\ worker'[w].gen = worker[w].gen
          /\ worker'[w].check = worker[w].check /\ worker'[w].head = worker[w].head
      BY <1>4, <1>6, <2>1, LearnsPull DEF ControllerOK
    <3>2. worker'[w].pull > 0 /\ worker'[w].pull <= hub.pulls
      BY <1>3, <1>4, <3>1
    <3>3. WorkerKnows(w)'
      BY <1>0, <1>1, <1>2, <1>4, <1>7, <1>10, <3>1, <3>2
      DEF WorkerKnows, Knows, RunOf, HasReference, HasHead, HasPull, HasRow
    <3> QED BY <3>1, <3>3
  <2>2. CASE ~heard
    <3>1. Retreats(w)
      BY <2>2 DEF CreatePull, Retreats, Classifications
    <3> QED BY <1>1, <1>10, <3>1, RetreatKnows
  <2> QED BY <2>1, <2>2
<1>12. ChecksCounted'
  <2>1. \A s \in Runs : github'[s].checks = github[s].checks
    BY <1>4, <1>7
  <2> QED BY <1>11, <2>1, SameChecksCounted DEF ControllerOK
<1>13. worker[w].at \in Operating
  BY <1>1 DEF Operating
<1> QED BY <1>1, <1>7, <1>8, <1>9, <1>11, <1>12, <1>13, HubMoves

LEMMA CreateCheckKeeps ==
    ASSUME ControllerOK, NEW w \in Workers, NEW heard \in BOOLEAN, CreateCheck(w, heard)
    PROVE  ControllerOK'
<1>0. PICK r \in Runs, e \in References : r = RunOf(w) /\ e = worker[w].check
  BY KnownTask DEF CreateCheck, At, WorkerKnows, Knows, HasReference, HasHead
<1> DEFINE more == github[r].checks[e] + 1
           checks == [github[r].checks EXCEPT ![e] = more]
           hub == [github[r] EXCEPT !.checks = checks]
<1>1. worker[w].at = "checking" /\ ~At(w, "idle") /\ UNCHANGED <<vars, draft>>
  BY DEF CreateCheck, At
<1>2. WorkerKnows(w)
  BY <1>1, KnownTask
<1>3. /\ github[r] \in GitHub /\ github[r].pulls \in Nat /\ Cardinality(Workers) \in Nat
      /\ github[r].checks \in [References -> 0 .. Cardinality(Workers)]
      /\ \A d \in References : github[r].checks[d] \in Nat
  BY <1>2, HubFields DEF ControllerOK
<1>4. w \in Checking(r, e)
  BY <1>0, <1>1 DEF Checking, At
<1>5. heard => Goes(w, "saving")
  BY DEF CreateCheck
<1>6. ~heard => Retreats(w)
  BY DEF CreateCheck, Retreats, Classifications
<1>7. task' = task
  BY <1>1 DEF vars
<1>8. /\ worker' \in [Workers -> WorkerRecord]
      /\ \A v \in Workers \ {w} : worker'[v] = worker[v]
      /\ worker'[w].at # "checking"
  <2>1. CASE heard
    BY <1>5, <2>1, GoesRow DEF ControllerOK, Steps, Operating
  <2>2. CASE ~heard
    BY <1>1, <1>6, <1>7, <2>2, RetreatKnows
  <2> QED BY <2>1, <2>2
<1>9. /\ github[r].checks[e] + Cardinality(Checking(r, e)) <= Cardinality(Workers)
      /\ Cardinality(Checking(r, e)) \in Nat
      /\ Cardinality(Checking(r, e)') \in Nat
      /\ Cardinality(Checking(r, e)') + 1 <= Cardinality(Checking(r, e))
  BY <1>2, <1>4, <1>8, CheckingFinite, LeavesChecking DEF ControllerOK, ChecksCounted
<1>10. more \in 0 .. Cardinality(Workers) /\ more > 0 /\ more >= github[r].checks[e]
       /\ more + Cardinality(Checking(r, e)') <= Cardinality(Workers)
  BY <1>2, <1>3, <1>9
<1>11. github' = [github EXCEPT ![r] = [github[r] EXCEPT !.checks[e] = more]]
  BY <1>0 DEF CreateCheck, HubBecomes, Hub
<1> HIDE DEF more
<1>12. /\ checks \in [References -> 0 .. Cardinality(Workers)] /\ checks[e] = more
       /\ \A d \in References \ {e} : checks[d] = github[r].checks[d]
  BY <1>2, <1>3, <1>10
<1>13. github' = [github EXCEPT ![r] = hub]
  BY <1>3, <1>11 DEF GitHub
<1> HIDE DEF checks
<1>14. /\ hub \in GitHub /\ hub.head = github[r].head /\ hub.pulls = github[r].pulls
       /\ hub.open = github[r].open /\ hub.checks = checks
  BY <1>3, <1>12 DEF GitHub
<1> HIDE DEF hub
<1>15. \A d \in References : hub.checks[d] >= github[r].checks[d]
  BY <1>2, <1>3, <1>10, <1>12, <1>14
<1>16. /\ github' \in [Runs -> GitHub] /\ github'[r] = hub
       /\ \A s \in Runs \ {r} : github'[s] = github[s]
       /\ HubsGrow
  <2>1. ControllerTypeOK
    BY DEF ControllerOK
  <2>2. /\ github[r].head # None => hub.head = github[r].head
        /\ hub.pulls >= github[r].pulls
        /\ \A d \in References : hub.checks[d] >= github[r].checks[d]
    BY <1>3, <1>14, <1>15
  <2> QED BY <1>13, <1>14, <2>1, <2>2, OneHub
<1>17. faults' \in 0 .. MaxFaults /\ faults' >= faults
  BY CostsCount DEF CreateCheck, ControllerOK
<1>18. PullsCounted'
  <2>1. \A s \in Runs : github'[s].pulls = github[s].pulls /\ github'[s].open = github[s].open
    BY <1>14, <1>16
  <2>2. ASSUME NEW s \in Runs
        PROVE  /\ github[s].pulls \in Nat /\ faults \in Nat /\ faults' \in Nat
               /\ github[s].pulls <= faults + (IF github[s].open THEN 1 ELSE 0)
               /\ github[s].open => github[s].pulls > 0
    BY <1>17, HubFields, FaultsAssumption DEF ControllerOK, PullsCounted
  <2> QED BY <1>17, <2>1, <2>2 DEF PullsCounted
<1>19. ChecksCounted'
  <2>1. ASSUME NEW s \in Runs, NEW d \in References
        PROVE  github'[s].checks[d] + Cardinality(Checking(s, d)') <= Cardinality(Workers)
    <3>1. CASE s = r /\ d = e
      BY <1>10, <1>12, <1>14, <1>16, <3>1
    <3>2. CASE s # r \/ d # e
      <4>1. github'[s].checks[d] = github[s].checks[d]
        BY <1>12, <1>14, <1>16, <3>2
      <4>2. /\ github[s].checks[d] \in Nat
            /\ github[s].checks[d] + Cardinality(Checking(s, d)) <= Cardinality(Workers)
            /\ Cardinality(Checking(s, d)) \in Nat
        BY HubFields, CheckingFinite DEF ControllerOK, ChecksCounted
      <4>3. /\ Cardinality(Checking(s, d)') \in Nat
            /\ Cardinality(Checking(s, d)') <= Cardinality(Checking(s, d))
        BY <1>8, LeavesChecking
      <4> QED BY <1>3, <4>1, <4>2, <4>3
    <3> QED BY <3>1, <3>2
  <2> QED BY <2>1 DEF ChecksCounted
<1>20. worker'[w].at # "idle" =>
          /\ worker'[w].of = worker[w].of /\ worker'[w].gen = worker[w].gen
          /\ WorkerKnows(w)'
  <2>1. CASE heard
    <3>1. /\ worker'[w].at = "saving" /\ worker'[w].of = worker[w].of
          /\ worker'[w].gen = worker[w].gen /\ worker'[w].head = worker[w].head
          /\ worker'[w].pull = worker[w].pull /\ worker'[w].check = e
      BY <1>0, <1>5, <2>1, GoesRow DEF ControllerOK, Steps, Operating
    <3>2. github'[r].checks[e] > 0
      BY <1>10, <1>12, <1>14, <1>16
    <3>3. WorkerKnows(w)'
      BY <1>0, <1>1, <1>2, <1>7, <1>14, <1>16, <3>1, <3>2
      DEF WorkerKnows, Knows, RunOf, HasReference, HasHead, HasPull, HasRow
    <3> QED BY <3>1, <3>3
  <2>2. CASE ~heard
    BY <1>1, <1>6, <1>7, <2>2, RetreatKnows
  <2> QED BY <2>1, <2>2
<1>21. worker[w].at \in Operating
  BY <1>1 DEF Operating
<1> QED BY <1>1, <1>8, <1>16, <1>17, <1>18, <1>19, <1>20, <1>21, HubMoves

\* The one row a task gets: an attempt that owns it saves what it saw, and
\* nobody else owns the task.
LEMMA SaveKeeps ==
    ASSUME ControllerOK, NEW w \in Workers, NEW heard \in BOOLEAN, Save(w, heard)
    PROVE  ControllerOK'
<1>0. PICK t \in Tasks : t = worker[w].of
  BY KnownTask DEF Save, At
<1> DEFINE row == [head |-> worker[w].head, pull |-> worker[w].pull, check |-> worker[w].check]
<1>1. /\ worker[w].at = "saving" /\ ~At(w, "idle") /\ OwnsTask(w)
      /\ UNCHANGED <<vars, github>>
  BY DEF Save, At
<1>2. WorkerKnows(w) /\ draft[t] = None
  BY <1>0, <1>1, KnownTask DEF ControllerOK, WorkerOK, Operating
<1>3. [Next]_vars /\ task' = task /\ github' = github
  BY <1>1 DEF vars
<1>4. /\ worker[w].head \in Commits /\ worker[w].check \in References
      /\ worker[w].pull \in 1 .. MaxPulls
      /\ github[t[1]].head = worker[w].head /\ worker[w].pull <= github[t[1]].pulls
      /\ github[t[1]].checks[worker[w].check] > 0
  <2>1. /\ worker[w].head \in Commits /\ worker[w].check \in References /\ worker[w].pull > 0
        /\ github[t[1]].head = worker[w].head /\ worker[w].pull <= github[t[1]].pulls
        /\ github[t[1]].checks[worker[w].check] > 0
    BY <1>0, <1>1, <1>2 DEF WorkerKnows, Knows, HasReference, HasHead, HasPull
  <2>2. worker[w].pull \in 0 .. MaxPulls /\ MaxPulls \in Nat
    BY WorkerFields, FaultsAssumption DEF ControllerOK, MaxPulls
  <2> QED BY <2>1, <2>2
<1>5. row \in Row /\ row # None
  BY <1>4, ControllerAssumption DEF Row
<1>6. row.head = worker[w].head /\ row.pull = worker[w].pull /\ row.check = worker[w].check
  OBVIOUS
<1>7. draft' = [draft EXCEPT ![t] = row] /\ (heard => Goes(w, "recording")) /\ (~heard => Retreats(w))
  BY <1>0, <1>2 DEF Save, Retreats, Classifications
<1> HIDE DEF row
<1>8. /\ draft' \in [Tasks -> Row \cup {None}] /\ draft'[t] = row
      /\ \A u \in Tasks \ {t} : draft'[u] = draft[u]
  BY <1>5, <1>7 DEF ControllerOK, ControllerTypeOK
<1>9. faults' \in 0 .. MaxFaults /\ faults' >= faults
  BY CostsCount DEF Save, ControllerOK
<1>10. /\ worker' \in [Workers -> WorkerRecord]
       /\ \A v \in Workers \ {w} : worker'[v] = worker[v]
       /\ worker'[w].at # "idle" => WorkerKnows(w)'
       /\ worker'[w].at \notin Operating /\ worker'[w].at # "checking"
  <2>1. CASE heard
    <3>1. /\ worker' \in [Workers -> WorkerRecord]
          /\ \A v \in Workers \ {w} : worker'[v] = worker[v]
          /\ worker'[w].at = "recording" /\ worker'[w].of = worker[w].of
          /\ worker'[w].gen = worker[w].gen
      BY <1>7, <2>1, GoesRow DEF ControllerOK, Steps
    <3>2. WorkerKnows(w)'
      BY <1>0, <1>2, <1>3, <1>5, <1>8, <3>1
      DEF WorkerKnows, Knows, HasReference, HasHead, HasPull
    <3> QED BY <3>1, <3>2 DEF Operating
  <2>2. CASE ~heard
    BY <1>1, <1>3, <1>7, <2>2, RetreatKnows
  <2> QED BY <2>1, <2>2
<1>11. HubsGrow /\ DraftsKept
  <2>1. HubsGrow
    BY <1>3, HubFields DEF ControllerOK, HubsGrow
  <2> QED BY <1>2, <1>8, <2>1 DEF DraftsKept
<1>12. StoreOK' /\ ControllerTypeOK'
  BY <1>3, <1>8, <1>9, <1>10, StoreOKNext DEF ControllerOK, ControllerTypeOK
<1>13. TasksRecorded'
  <2>1. ASSUME NEW u \in Tasks
        PROVE  (task'[u].status = "succeeded" => draft'[u] # None) /\ Recorded(u)'
    <3>1. CASE u = t
      <4>1. Recorded(t)'
        BY <1>3, <1>4, <1>6, <1>8 DEF Recorded
      <4> QED BY <1>5, <1>8, <3>1, <4>1
    <3>2. CASE u # t
      BY <1>3, <1>8, <1>11, <3>2, RecordStays DEF ControllerOK, TasksRecorded
    <3> QED BY <3>1, <3>2
  <2> QED BY <2>1 DEF TasksRecorded
<1>14. PullsCounted' /\ ChecksCounted'
  BY <1>3, <1>9, <1>10, PullsStayCounted, ChecksStayCounted DEF ControllerOK
<1>15. ASSUME NEW v \in Workers PROVE WorkerOK(v)'
  <2>1. CASE v = w
    BY <1>10, <2>1 DEF WorkerOK, At
  <2>2. CASE v # w
    <3>1. OwnsTask(v) => worker[v].of # t
      BY <1>0, <1>1, <2>2 DEF OwnsTask, HoldsLease
    <3>2. OwnsTask(v) => draft'[worker[v].of] = draft[worker[v].of]
      BY <1>8, <3>1, KnownTask DEF OwnsTask
    <3> QED BY <1>3, <1>10, <1>11, <2>2, <3>2, OtherWorkerKeeps
  <2> QED BY <2>1, <2>2
<1> QED BY <1>12, <1>13, <1>14, <1>15 DEF ControllerOK

LEMMA ClosePullKeeps ==
    ASSUME ControllerOK, NEW r \in Runs, ClosePull(r)
    PROVE  ControllerOK'
<1> DEFINE hub == [github[r] EXCEPT !.open = FALSE]
<1>1. github[r].open /\ UNCHANGED <<vars, worker, draft>>
  BY DEF ClosePull
<1>2. [Next]_vars /\ task' = task /\ draft' = draft /\ worker' = worker /\ ControllerTypeOK
  BY <1>1 DEF vars, ControllerOK
<1>3. /\ github[r] \in GitHub /\ github[r].pulls \in Nat
      /\ \A e \in References : github[r].checks[e] \in Nat
  BY <1>2, HubFields
<1>4. /\ hub \in GitHub /\ hub.head = github[r].head /\ hub.pulls = github[r].pulls
      /\ hub.open = FALSE /\ hub.checks = github[r].checks
  BY <1>3 DEF GitHub
<1>5. github' = [github EXCEPT ![r] = hub]
  BY <1>2 DEF ClosePull, ControllerTypeOK
<1> HIDE DEF hub
<1>6. /\ github' \in [Runs -> GitHub] /\ github'[r] = hub
      /\ \A s \in Runs \ {r} : github'[s] = github[s]
      /\ HubsGrow
  <2>1. /\ github[r].head # None => hub.head = github[r].head
        /\ hub.pulls >= github[r].pulls
        /\ \A d \in References : hub.checks[d] >= github[r].checks[d]
    BY <1>3, <1>4
  <2> QED BY <1>2, <1>4, <1>5, <2>1, OneHub
<1>7. faults' \in 0 .. MaxFaults /\ faults' = faults + 1 /\ faults \in Nat
  BY <1>2, CostsCount, HubFields DEF ClosePull
<1>8. PullsCounted'
  <2>1. ASSUME NEW s \in Runs
        PROVE  /\ github'[s].pulls <= faults' + (IF github'[s].open THEN 1 ELSE 0)
               /\ github'[s].open => github'[s].pulls > 0
    <3>1. /\ github[s].pulls \in Nat
          /\ github[s].pulls <= faults + (IF github[s].open THEN 1 ELSE 0)
          /\ github[s].open => github[s].pulls > 0
      BY <1>2, HubFields DEF ControllerOK, PullsCounted
    <3>2. CASE s = r
      BY <1>1, <1>4, <1>6, <1>7, <3>1, <3>2
    <3>3. CASE s # r
      BY <1>6, <1>7, <3>1, <3>3
    <3> QED BY <3>2, <3>3
  <2> QED BY <2>1 DEF PullsCounted
<1>9. ChecksCounted'
  <2>1. \A s, e : Checking(s, e)' = Checking(s, e)
    BY <1>2 DEF Checking, At, RunOf
  <2>2. \A s \in Runs : github'[s].checks = github[s].checks
    BY <1>4, <1>6
  <2> QED BY <2>1, <2>2 DEF ControllerOK, ChecksCounted
<1>10. StoreOK' /\ ControllerTypeOK' /\ DraftsKept
  BY <1>2, <1>6, <1>7, StoreOKNext DEF ControllerOK, ControllerTypeOK, DraftsKept
<1>11. TasksRecorded'
  BY <1>2, <1>6, RecordsStay
<1>12. ASSUME NEW v \in Workers PROVE WorkerOK(v)'
  BY <1>2, <1>6, <1>10, OtherWorkerKeeps
<1> QED BY <1>8, <1>9, <1>10, <1>11, <1>12 DEF ControllerOK

LEMMA StoreStepsKeep ==
    ASSUME ControllerOK, [Next]_vars, StoreStep \/ \E t \in Tasks : LeaseRunsOut(t)
    PROVE  ControllerOK'
<1>1. UNCHANGED <<worker, github, draft>>
  BY DEF StoreStep, LeaseRunsOut
<1>2. command'.complete = command.complete
  BY DEF StoreStep, LeaseRunsOut, StartWorkflow, CancelWorkflow, ReconcileWorkflows, RetryDue,
         LeaseTick, ControllerOK, StoreOK, RowsOK, TypeOK, CommandLog
<1>3. faults' \in 0 .. MaxFaults /\ faults' >= faults
  <2>1. CASE StoreStep
    BY <2>1, FaultsAssumption DEF StoreStep, ControllerOK, ControllerTypeOK
  <2>2. CASE \E t \in Tasks : LeaseRunsOut(t)
    BY <2>2, CostsCount DEF LeaseRunsOut, ControllerOK
  <2> QED BY <2>1, <2>2
<1> QED BY <1>1, <1>2, <1>3, StoreMoves

-----------------------------------------------------------------------------
(* The invariant holds. *)

LEMMA ControllerOKInit == ControllerInit => ControllerOK
<1> SUFFICES ASSUME ControllerInit PROVE ControllerOK
  OBVIOUS
<1>1. StoreOK
  BY RowsOKInit, MatchInit, RowsTellInit DEF ControllerInit, StoreOK
<1>2. /\ worker = [w \in Workers |-> Idle] /\ github = [r \in Runs |-> NothingThere]
      /\ draft = [t \in Tasks |-> None] /\ faults = 0
  BY DEF ControllerInit
<1>3. /\ NothingThere \in GitHub /\ NothingThere.pulls = 0 /\ NothingThere.open = FALSE
      /\ \A e \in References : NothingThere.checks[e] = 0
  <2>1. 0 \in 0 .. MaxPulls /\ 0 \in 0 .. Cardinality(Workers)
    BY FaultsAssumption, ControllerAssumption, FS_CardinalityType DEF MaxPulls
  <2> QED BY <2>1 DEF NothingThere, GitHub
<1>4. ControllerTypeOK
  BY <1>2, <1>3, IdleRow, FaultsAssumption DEF ControllerTypeOK
<1>5. TasksRecorded
  BY <1>2 DEF ControllerInit, Init, AbsentTask, TasksRecorded, Recorded
<1>6. PullsCounted
  BY <1>2, <1>3 DEF PullsCounted
<1>7. ChecksCounted
  BY <1>2, <1>3, CheckingFinite DEF ChecksCounted
<1>8. ASSUME NEW w \in Workers PROVE WorkerOK(w)
  BY <1>2, IdleRow DEF WorkerOK, At, Operating
<1> QED BY <1>1, <1>4, <1>5, <1>6, <1>7, <1>8 DEF ControllerOK

LEMMA ControllerOKNext == ControllerOK /\ [ControllerNext]_controllerVars => ControllerOK'
<1> SUFFICES ASSUME ControllerOK, [ControllerNext]_controllerVars PROVE ControllerOK'
  OBVIOUS
<1>1. [Next]_vars
  BY ControllerMovesStore
<1>2. CASE StoreStep
  BY <1>1, <1>2, StoreStepsKeep
<1>3. ASSUME NEW w \in Workers, RunNext(w) PROVE ControllerOK'
  <2>1. ASSUME NEW t \in Tasks, Claim(w, t) PROVE ControllerOK'
    BY <1>1, <2>1, ClaimKeeps
  <2>2. CASE Begin(w) \/ Look(w) \/ RecordEffect(w)
    BY <2>2, MovesKeep
  <2>3. CASE Fail(w)
    BY <1>1, <2>3, FailKeeps
  <2>4. CASE CallFails(w) \/ Leave(w)
    BY <2>4, RetreatKeeps
  <2>5. ASSUME NEW digest \in Digests, NEW heard \in BOOLEAN, Complete(w, digest, heard)
        PROVE  ControllerOK'
    BY <1>1, <2>5, CompleteKeeps
  <2> QED BY <1>3, <2>1, <2>2, <2>3, <2>4, <2>5 DEF RunNext
<1>4. ASSUME NEW w \in Workers, Operate(w) PROVE ControllerOK'
  <2>1. CASE LookupPatch(w)
    BY <2>1, LookupPatchKeeps
  <2>2. CASE LookupPull(w)
    BY <2>2, LookupPullKeeps
  <2>3. CASE LookupCheck(w)
    BY <1>1, <2>3, LookupCheckKeeps
  <2>4. ASSUME NEW heard \in BOOLEAN, ApplyPatch(w, heard) PROVE ControllerOK'
    BY <2>4, ApplyPatchKeeps
  <2>5. ASSUME NEW heard \in BOOLEAN, CreatePull(w, heard) PROVE ControllerOK'
    BY <2>5, CreatePullKeeps
  <2>6. ASSUME NEW heard \in BOOLEAN, CreateCheck(w, heard) PROVE ControllerOK'
    BY <2>6, CreateCheckKeeps
  <2>7. ASSUME NEW heard \in BOOLEAN, Save(w, heard) PROVE ControllerOK'
    BY <2>7, SaveKeeps
  <2>8. ASSUME NEW reference \in References, Verify(w, reference) PROVE ControllerOK'
    BY <2>8, VerifyKeeps
  <2>9. CASE \/ PatchRefused(w) \/ PullRefused(w)
             \/ \E classification \in Classifications : PortFails(w, classification)
    BY <2>9, RetreatKeeps
  <2> QED BY <1>4, <2>1, <2>2, <2>3, <2>4, <2>5, <2>6, <2>7, <2>8, <2>9 DEF Operate
<1>5. ASSUME NEW r \in Runs, ClosePull(r) PROVE ControllerOK'
  BY <1>5, ClosePullKeeps
<1>6. ASSUME NEW t \in Tasks, LeaseRunsOut(t) PROVE ControllerOK'
  BY <1>1, <1>6, StoreStepsKeep
<1>7. CASE UNCHANGED controllerVars
  <2>1. UNCHANGED <<vars, worker, github, draft, faults>> /\ command' = command
    BY <1>7 DEF controllerVars, vars
  <2>2. faults' \in 0 .. MaxFaults /\ faults' >= faults
    BY <2>1, FaultsAssumption DEF ControllerOK, ControllerTypeOK
  <2> QED BY <1>1, <2>1, <2>2, StoreMoves
<1> QED BY <1>2, <1>3, <1>4, <1>5, <1>6, <1>7 DEF ControllerNext

\* runNext keeps to what the store offers, whatever happens to its calls: each
\* step of the controller is a step of WorkflowStore or leaves its rows alone.
\* So every theorem about WorkflowStore holds of its rows under the controller.
THEOREM ControllerUsesStore == ControllerSpec => Spec
<1>1. ControllerInit => Init
  BY DEF ControllerInit
<1> QED BY <1>1, ControllerOKInit, ControllerOKNext, ControllerMovesStore, PTL
    DEF ControllerSpec, Spec

\* The records of workers, GitHub and drafts keep their types, whatever fails.
THEOREM ControllerTypeCorrect == ControllerSpec => []ControllerTypeOK
<1>1. ControllerOK => ControllerTypeOK
  BY DEF ControllerOK
<1> QED BY <1>1, ControllerOKInit, ControllerOKNext, PTL DEF ControllerSpec

\* However many answers are lost and attempts race, a phase succeeds only with
\* its row, and the row names a head, a pull request and a check of GitHub.
THEOREM EffectsAreKnown == ControllerSpec => []NoUnknownEffectRecorded
<1>1. ControllerOK => NoUnknownEffectRecorded
  BY DEF ControllerOK, TasksRecorded, Recorded, NoUnknownEffectRecorded
<1> QED BY <1>1, ControllerOKInit, ControllerOKNext, PTL DEF ControllerSpec

\* An attempt that holds its lease never drives the port for a recorded task.
THEOREM RecordedIsNotRedone == ControllerSpec => []NothingIsDoneTwice
<1>1. ControllerOK => NothingIsDoneTwice
  BY DEF ControllerOK, WorkerOK, NothingIsDoneTwice
<1> QED BY <1>1, ControllerOKInit, ControllerOKNext, PTL DEF ControllerSpec

=============================================================================
