---------------------- MODULE AuthenticationSessionProofs ----------------------
(***************************************************************************)
(* What TLAPS proves of AuthenticationSession, for any number of runs,     *)
(* workers, attempts and faults.                                           *)
(*                                                                         *)
(* First, that worker, gateway and portal write the rows of the queue only *)
(* as AnalysisQueue offers it (SessionUsesQueue).  Then the invariant      *)
(* SessionOK.  Its core is who may touch a session: until it is suspended, *)
(* only the attempt that opened it (Alone); from then on, only what leaves *)
(* untrue nothing that somebody else relies on (Gentle).                   *)
(***************************************************************************)
EXTENDS AuthenticationSession, AnalysisQueueProofs

-----------------------------------------------------------------------------
(* The invariant. *)

Sessions == 1 .. MaxAttempts

\* What the gateway's view of one session always is: what is disposed of has
\* neither secrets nor a lease, and a browser that may run is accounted for.
Sound(it) ==
    /\ it.record = "retired" => it.evidence # "none"
    /\ it.disposing # {} => it.record # "none" \/ it.ttl = "lapsed"
    /\ it.disposing # {} \/ it.evidence # "none" => ~it.secrets /\ ~it.lease
    /\ it.evidence = "destroyed" => it.browser = "ended"
    /\ it.browser = "running" /\ it.ttl = "running" =>
          it.lease \/ it.disposing # {} \/ it.evidence = "failed" \/ it.forgotten

\* Nobody but the attempt that opened it has heard of the session; its lease is
\* there, or its loss is; nobody can resume it (again).
Young(it) == it.record = "none" /\ it.evidence = "none" /\ it.disposing = {}
Covered(it) == it.ttl = "running" => it.lease \/ it.forgotten
Taken(it) == it.claimed \/ it.record # "held"

\* The steps of a first visit before it is suspended, of a second visit, and of
\* a cleanup.
FirstSteps == {"leasing", "starting", "sealing", "observing", "ending", "suspending",
               "suspended", "aborting"}
SecondSteps == {"resuming", "driving", "storing", "finalizing", "reconciling"}
CleanupSteps == {"cleaning", "closing"}

\* What a worker takes to be so of its session, and of its run.
Wants(it, its) ==
    /\ it.at = "leasing" => its = NoSession
    /\ it.at \in {"starting", "sealing", "observing", "suspending"} => Young(its)
    /\ it.at = "starting" => Covered(its)
    /\ it.at \in {"driving", "storing"} => Taken(its) /\ its.admitted = "fresh"
    /\ it.at = "finishing" /\ it.session # it.gen => its.evidence # "none"
    /\ it.at = "closing" /\ it.outcome = "result" => its.evidence # "none"

Fits(it) ==
    /\ it.run \in Runs /\ it.session \in Sessions
    /\ it.at \in FirstSteps \cup {"undoing"} => it.session = it.gen
    /\ it.at \in FirstSteps => ~Suspends(it.run, it.session)
    /\ it.at \notin CleanupSteps => it.gen <= task[it.run].generation
    /\ it.session # it.gen \/ it.at \in CleanupSteps => Suspends(it.run, it.session)
    /\ it.at \in SecondSteps => it.session # it.gen
    /\ Wants(it, session[it.run][it.session])

WorkerFits(w) == ~At(w, "idle") => Fits(worker[w])

\* A generation is one worker's.
Attempting(w) == worker[w].at \notin CleanupSteps \cup {"idle"}
AttemptsApart ==
    \A v, w \in Workers :
        /\ Attempting(v) /\ Attempting(w)
        /\ worker[v].run = worker[w].run /\ worker[v].gen = worker[w].gen
        => v = w

SessionsSound ==
    \A r \in Runs : \A s \in Sessions :
        Sound(session[r][s]) /\ (s > task[r].generation => session[r][s] = NoSession)

LeasesApart ==
    \A r \in Runs : \A s, t \in Sessions : session[r][s].lease /\ session[r][t].lease => s = t

\* What the rows of a run say of its session is so.
Succeeded(r) == checkpoint[r].state = "completed" \/ cleanup[r].status = "succeeded"
SignedIn(r) == r \in handoff \/ checkpoint[r].state \in {"consumed", "completed"}
Stored(r) == receipt[r].hash # None

RunFits(r) ==
    /\ checkpoint[r].state # "none" => Suspension(r) \in Sessions
    /\ Succeeded(r) => checkpoint[r].state # "none" /\ AwaitedSession(r).evidence # "none"
    /\ SignedIn(r) => checkpoint[r].state # "none" /\ AwaitedSession(r).signedIn # "no"
    /\ Stored(r) => checkpoint[r].state # "none" /\ AwaitedSession(r).admitted = "fresh"

SessionOK ==
    /\ ResultsOK /\ SessionTypeOK /\ AttemptsApart /\ SessionsSound /\ LeasesApart
    /\ \A w \in Workers : WorkerFits(w)
    /\ \A r \in Runs : RunFits(r)

-----------------------------------------------------------------------------
(* Fields. *)

LEMMA AttemptsAreNumbers == Attempts \subseteq Nat /\ Sessions \subseteq Attempts /\ MaxAttempts \in Nat
  BY BoundsAssumption DEF Attempts, Sessions

LEMMA WorkerFields ==
    ASSUME SessionTypeOK, NEW w \in Workers
    PROVE  /\ worker[w] \in WorkerRecord
           /\ worker[w].at \in Steps /\ worker[w].run \in Runs \cup {None}
           /\ worker[w].gen \in Attempts /\ worker[w].gen \in Nat
           /\ worker[w].session \in Attempts
           /\ worker[w].outcome \in {"none", "result"} \cup Failures
<1>1. worker[w] \in WorkerRecord
  BY DEF SessionTypeOK
<1> QED BY <1>1, AttemptsAreNumbers DEF WorkerRecord

LEMMA SessionFields ==
    ASSUME SessionTypeOK, NEW r \in Runs, NEW s \in Sessions
    PROVE  session[r][s] \in SessionRecord
  BY DEF SessionTypeOK, Sessions

\* A step that changes one session changes no other.
LEMMA OneSession ==
    ASSUME SessionTypeOK, NEW r \in Runs, NEW s \in Sessions, NEW it \in SessionRecord,
           session' = [session EXCEPT ![r][s] = it]
    PROVE  /\ session' \in [Runs -> [Sessions -> SessionRecord]]
           /\ session'[r][s] = it
           /\ \A q \in Runs : \A t \in Sessions : q # r \/ t # s => session'[q][t] = session[q][t]
<1>1. session \in [Runs -> [Sessions -> SessionRecord]]
  BY DEF SessionTypeOK, Sessions
<1>2. session' = [session EXCEPT ![r] = [session[r] EXCEPT ![s] = it]]
  BY <1>1
<1>3. [session[r] EXCEPT ![s] = it] \in [Sessions -> SessionRecord]
  BY <1>1
<1> QED BY <1>1, <1>2, <1>3

\* A step of one worker is its row, and no other.
LEMMA OneWorker ==
    ASSUME SessionTypeOK, NEW w \in Workers, NEW row \in WorkerRecord,
           worker' = [worker EXCEPT ![w] = row]
    PROVE  /\ worker' \in [Workers -> WorkerRecord] /\ worker'[w] = row
           /\ \A v \in Workers \ {w} : worker'[v] = worker[v]
  BY DEF SessionTypeOK

LEMMA IdleTyped == Idle \in WorkerRecord /\ Idle.at = "idle"
<1>1. 0 \in Attempts
  BY BoundsAssumption DEF Attempts
<1> QED BY <1>1 DEF Idle, WorkerRecord, Steps

\* The two ways a worker goes on with its task, and the way it leaves it.
Onward(w, step) ==
    /\ worker' \in [Workers -> WorkerRecord]
    /\ \A v \in Workers \ {w} : worker'[v] = worker[v]
    /\ worker'[w].at = step /\ worker'[w].run = worker[w].run
    /\ worker'[w].gen = worker[w].gen /\ worker'[w].session = worker[w].session

LEMMA GoesRow ==
    ASSUME SessionTypeOK, NEW w \in Workers, NEW step \in Steps, Goes(w, step)
    PROVE  Onward(w, step) /\ worker'[w].outcome = worker[w].outcome
<1> DEFINE row == [worker[w] EXCEPT !.at = step]
<1>1. worker[w] \in WorkerRecord
  BY WorkerFields
<1>2. /\ row \in WorkerRecord /\ row.at = step /\ row.run = worker[w].run
      /\ row.gen = worker[w].gen /\ row.session = worker[w].session
      /\ row.outcome = worker[w].outcome
  BY <1>1 DEF WorkerRecord
<1>3. worker' = [worker EXCEPT ![w] = row]
  BY DEF Goes, SessionTypeOK
<1> HIDE DEF row
<1> QED BY <1>2, <1>3, OneWorker DEF Onward

LEMMA GoesWithRow ==
    ASSUME SessionTypeOK, NEW w \in Workers, NEW step \in Steps,
           NEW outcome \in {"none", "result"} \cup Failures, GoesWith(w, step, outcome)
    PROVE  Onward(w, step) /\ worker'[w].outcome = outcome
<1> DEFINE row == [worker[w] EXCEPT !.at = step, !.outcome = outcome]
<1>1. worker[w] \in WorkerRecord
  BY WorkerFields
<1>2. /\ row \in WorkerRecord /\ row.at = step /\ row.run = worker[w].run
      /\ row.gen = worker[w].gen /\ row.session = worker[w].session
      /\ row.outcome = outcome
  BY <1>1 DEF WorkerRecord
<1>3. worker' = [worker EXCEPT ![w] = row]
  BY <1>1 DEF GoesWith, SessionTypeOK
<1> HIDE DEF row
<1> QED BY <1>2, <1>3, OneWorker DEF Onward

LEMMA RestsRow ==
    ASSUME SessionTypeOK, NEW w \in Workers, Rests(w)
    PROVE  /\ worker' \in [Workers -> WorkerRecord]
           /\ \A v \in Workers \ {w} : worker'[v] = worker[v]
           /\ worker'[w].at = "idle"
<1>1. worker' = [worker EXCEPT ![w] = Idle]
  BY DEF Rests
<1> QED BY <1>1, IdleTyped, OneWorker

LEMMA CostsCount ==
    ASSUME SessionTypeOK, NEW well, Costs(well)
    PROVE  faults' \in 0 .. MaxFaults
<1>1. faults \in Nat /\ MaxFaults \in Nat
  BY SessionAssumption DEF SessionTypeOK
<1> QED BY <1>1 DEF Costs

-----------------------------------------------------------------------------
(* The queue under the session. *)

\* A generation only grows, and a run is suspended once.
Follows(r) ==
    /\ task[r].generation \in Nat /\ task'[r].generation \in Nat
    /\ task'[r].generation >= task[r].generation
    /\ checkpoint[r].state # "none" =>
          checkpoint'[r].state # "none" /\ Suspension(r)' = Suspension(r)

LEMMA MoveGenerations ==
    ASSUME NEW r \in Runs, RunOK(r), RunMoves(r)
    PROVE  task'[r].generation = task[r].generation \/ task'[r].generation = task[r].generation + 1
<1>0. task[r] \in TaskRecord
  BY DEF RunOK, RunTyped
<1> USE DEF RowsKept, RowsBecome, Released
<1>1. CASE \/ Untouched(r) \/ Enqueued(r) \/ Renewed(r) \/ ResumedByUser(r) \/ Requeued(r)
           \/ Ticked(r) \/ BecameDue(r) \/ CheckpointAged(r) \/ CleanupMoved(r) \/ CleanupDone(r)
  BY <1>0, <1>1
  DEF Untouched, Enqueued, Renewed, ResumedByUser, Requeued, Ticked, BecameDue, CheckpointAged,
      CleanupMoved, CleanupDone, TaskRecord
<1>2. ASSUME NEW w \in Workers, ClaimedBy(r, w)
      PROVE  task'[r].generation = task[r].generation + 1
  BY <1>2 DEF ClaimedBy
<1>3. ASSUME NEW w \in Workers, NEW g \in Attempts,
             \/ SuspendedBy(r, w, g) \/ CompletedCheckpoint(r, w, g)
             \/ \E hash \in Results : StoredBy(r, w, g, hash)
      PROVE  task'[r].generation = task[r].generation
  BY <1>0, <1>3 DEF SuspendedBy, CompletedCheckpoint, StoredBy, TaskRecord
<1>4. ASSUME NEW hash \in Results, CompletedWith(r, hash)
      PROVE  task'[r].generation = task[r].generation
  BY <1>0, <1>4 DEF CompletedWith, TaskRecord
<1>5. ASSUME NEW status, NEW state, Ended(r, status, state)
      PROVE  task'[r].generation = task[r].generation
  BY <1>0, <1>5 DEF Ended, TaskRecord
<1> QED BY <1>1, <1>2, <1>3, <1>4, <1>5 DEF RunMoves

LEMMA QueueFollows ==
    ASSUME ResultsOK, [Next]_vars, NEW r \in Runs
    PROVE  Follows(r)
<1>1. RunOK(r) /\ RunMoves(r)
  BY StepMoves, QueueOKImplies DEF ResultsOK, QueueOK
<1>2. task[r].generation \in Nat /\ task'[r].generation \in Nat
      /\ task'[r].generation >= task[r].generation
  <2>1. task[r].generation \in Nat
    BY <1>1, AttemptsAreNumbers DEF RunOK, RunTyped, TaskRecord
  <2> QED BY <1>1, <2>1, MoveGenerations
<1>3. ASSUME checkpoint[r].state # "none"
      PROVE  checkpoint'[r].state # "none" /\ Suspension(r)' = Suspension(r)
  <2>1. receipt[r].suspended # Nobody
    BY <1>1, <1>3 DEF RunOK, StoryInOrder
  <2>2. HistoryKept(r)
    BY <1>1, MoveKeepsHistory
  <2>3. receipt'[r].suspended = receipt[r].suspended
    BY <2>1, <2>2 DEF HistoryKept
  <2>4. checkpoint'[r].state # "none"
    BY <1>3, <2>2 DEF HistoryKept, CheckpointTransitions
  <2> QED BY <2>3, <2>4 DEF Suspension
<1> QED BY <1>2, <1>3 DEF Follows

\* Steps of the queue that say nothing new of a session.
Quiet(r) ==
    /\ checkpoint'[r].state # "none" => checkpoint[r].state # "none"
    /\ checkpoint'[r].state \in {"consumed", "completed"} =>
          checkpoint[r].state \in {"consumed", "completed"}
    /\ Succeeded(r)' => Succeeded(r)
    /\ Stored(r)' => Stored(r)

LEMMA EndingIsQuiet ==
    ASSUME NEW runs \in SUBSET Runs, NEW from \in {{"waiting"}, {"consumed"}, OpenState},
           NEW state \in OwingState, EndCheckpoints(runs, from, state), NEW r \in Runs,
           receipt'[r].hash = receipt[r].hash
    PROVE  Quiet(r)
<1>1. CASE r \in runs /\ checkpoint[r].state \in from
  <2>1. checkpoint'[r] = [checkpoint[r] EXCEPT !.state = state]
        /\ cleanup'[r] = [NoCleanup EXCEPT !.status = "pending"]
    BY <1>1 DEF EndCheckpoints
  <2>2. checkpoint[r].state \in OpenState
    BY <1>1 DEF OpenState
  <2>3. cleanup'[r].status = "pending"
    BY <2>1 DEF NoCleanup
  <2>4. checkpoint'[r].state \notin {"consumed", "completed"}
    BY <2>1 DEF OwingState
  <2> QED BY <2>2, <2>3, <2>4 DEF Quiet, Succeeded, Stored, OpenState
<1>2. CASE ~(r \in runs /\ checkpoint[r].state \in from)
  <2>1. checkpoint'[r] = checkpoint[r] /\ cleanup'[r] = cleanup[r]
    BY <1>2 DEF EndCheckpoints
  <2> QED BY <2>1 DEF Quiet, Succeeded, Stored
<1> QED BY <1>1, <1>2

LEMMA QueueStepIsQuiet ==
    ASSUME TypeOK, QueueStep, NEW r \in Runs
    PROVE  Quiet(r)
<1>0. RunTyped(r) /\ Shaped
  BY TypesByRun
<1>1. ASSUME NEW q \in Runs, EnqueueAnalysis(q) \/ RetryDue(q) PROVE Quiet(r)
  BY <1>1 DEF EnqueueAnalysis, RetryDue, wait, Quiet, Succeeded, Stored
<1>2. ASSUME NEW q \in Runs, CancelWorkflow(q) PROVE Quiet(r)
  BY <1>2, EndingIsQuiet DEF CancelWorkflow, OwingState
<1>3. ASSUME NEW q \in Runs, TerminateAnalysisAuthentication(q, "expired") PROVE Quiet(r)
  BY <1>3, EndingIsQuiet DEF TerminateAnalysisAuthentication, OwingState
<1>4. ASSUME NEW q \in Runs, CleanupDue(q) PROVE Quiet(r)
  BY <1>0, <1>4 DEF CleanupDue, Quiet, Succeeded, Stored, Shaped, RunTyped, CleanupRecord
<1>5. ASSUME NEW found \in SUBSET {q \in Runs : AuthenticationExpired(q)},
             ReconcileExpiredAuthentication(found)
      PROVE Quiet(r)
  BY <1>5, EndingIsQuiet DEF ReconcileExpiredAuthentication, OwingState
<1> QED BY <1>1, <1>2, <1>3, <1>4, <1>5 DEF QueueStep

LEMMA TicksAreQuiet ==
    ASSUME TypeOK, NEW q \in Runs, LeaseTick(q) \/ CleanupTick(q) \/ CheckpointExpires(q),
           NEW r \in Runs
    PROVE  Quiet(r)
<1>0. RunTyped(r) /\ Shaped
  BY TypesByRun
<1>1. CASE LeaseTick(q)
  BY <1>1 DEF LeaseTick, wait, Quiet, Succeeded, Stored
<1>2. CASE CleanupTick(q)
  BY <1>0, <1>2 DEF CleanupTick, Quiet, Succeeded, Stored, Shaped, RunTyped, CleanupRecord
<1>3. CASE CheckpointExpires(q)
  BY <1>0, <1>3 DEF CheckpointExpires, Quiet, Succeeded, Stored, Shaped, RunTyped, CheckpointRecord
<1> QED BY <1>1, <1>2, <1>3

LEMMA WorkersAreQuiet ==
    ASSUME TypeOK, NEW r \in Runs, NEW w \in Workers, NEW q \in Runs, NEW g \in Attempts,
           \/ \E swept \in SUBSET {p \in Runs : Exhausted(p)}, claimed \in Picks :
                 ClaimAnalysis(w, swept, claimed)
           \/ \E claimed \in Picks : ClaimCleanup(w, claimed)
           \/ \E hash \in Results : CompleteAnalysis(w, q, g, hash)
           \/ \E retryable \in BOOLEAN :
                 FailAnalysis(w, q, g, retryable) \/ RetryCleanup(w, q, g, retryable)
    PROVE  Quiet(r)
<1>0. RunTyped(r) /\ Shaped
  BY TypesByRun
<1>1. ASSUME NEW swept \in SUBSET {p \in Runs : Exhausted(p)}, NEW claimed \in Picks,
             ClaimAnalysis(w, swept, claimed)
      PROVE Quiet(r)
  <2>1. receipt'[r] \in {receipt[r], [receipt[r] EXCEPT !.resumed =
                          [by |-> w, generation |-> task[r].generation + 1]]}
    BY <1>1 DEF ClaimAnalysis
  <2>2. receipt'[r].hash = receipt[r].hash
    BY <1>0, <2>1 DEF RunTyped, ReceiptRecord
  <2> QED BY <1>1, <2>2, EndingIsQuiet DEF ClaimAnalysis, OwingState
<1>2. ASSUME NEW claimed \in Picks, ClaimCleanup(w, claimed) PROVE Quiet(r)
  <2>1. checkpoint' = checkpoint /\ receipt' = receipt
    BY <1>2 DEF ClaimCleanup
  <2>2. cleanup'[r] \in {Released(cleanup[r], "failed"), LeasedRow(cleanup[r], w), cleanup[r]}
    BY <1>2 DEF ClaimCleanup
  <2>3. cleanup'[r].status \in {"failed", "running", cleanup[r].status}
    BY <1>0, <2>2 DEF RunTyped, CleanupRecord, Released, LeasedRow
  <2> QED BY <2>1, <2>3 DEF Quiet, Succeeded, Stored
<1>3. ASSUME NEW hash \in Results, CompleteAnalysis(w, q, g, hash) PROVE Quiet(r)
  BY <1>3 DEF CompleteAnalysis, wait, Quiet, Succeeded, Stored
<1>4. ASSUME NEW retryable \in BOOLEAN, FailAnalysis(w, q, g, retryable) PROVE Quiet(r)
  <2>0. receipt' = receipt
    BY <1>4 DEF FailAnalysis
  <2>1. CASE EndCheckpoints({q}, {"consumed"}, "failed")
    BY <2>0, <2>1, EndingIsQuiet DEF OwingState
  <2>2. CASE UNCHANGED <<checkpoint, cleanup>>
    BY <2>0, <2>2 DEF Quiet, Succeeded, Stored
  <2> QED BY <1>4, <2>1, <2>2 DEF FailAnalysis
<1>5. ASSUME NEW retryable \in BOOLEAN, RetryCleanup(w, q, g, retryable) PROVE Quiet(r)
  <2>1. checkpoint' = checkpoint /\ receipt' = receipt
    BY <1>5 DEF RetryCleanup
  <2>2. cleanup'[r] \in {Released(cleanup[r], "failed"), cleanup[r],
                         [Released(cleanup[r], "pending") EXCEPT !.delayed = TRUE]}
    BY <1>0, <1>5 DEF RetryCleanup, Shaped
  <2>3. cleanup'[r].status \in {"failed", "pending", cleanup[r].status}
    BY <1>0, <2>2 DEF RunTyped, CleanupRecord, Released
  <2> QED BY <2>1, <2>3 DEF Quiet, Succeeded, Stored
<1> QED BY <1>1, <1>2, <1>3, <1>4, <1>5

LEMMA StutterIsQuiet == ASSUME UNCHANGED vars, NEW r \in Runs PROVE Quiet(r)
  BY DEF vars, Quiet, Succeeded, Stored

-----------------------------------------------------------------------------
(* What a step does to one session, and to those who rely on it. *)

\* A sign-in that was seen, the signal a resume was admitted on, and evidence
\* that was attested stay so.
Keeps(old, new) ==
    /\ old.admitted = "fresh" => new.admitted = "fresh"
    /\ old.signedIn # "no" => new.signedIn # "no"
    /\ old.evidence # "none" => new.evidence # "none"

\* Nothing else that an attempt relies on is undone either.
Gentle(old, new) ==
    /\ Keeps(old, new)
    /\ old = NoSession => new = NoSession
    /\ Young(old) => Young(new)
    /\ Young(old) /\ Covered(old) => Covered(new)
    /\ Taken(old) => Taken(new)

\* The worker relies on the session in more than what it keeps.
Relies(v) == worker[v].at \in FirstSteps \cup {"driving", "storing"}

\* A step after which every session is still sound, and nobody's was disturbed
\* but perhaps that of the workers in `movers'.
SessionsMove(movers) ==
    /\ session' \in [Runs -> [Sessions -> SessionRecord]]
    /\ LeasesApart'
    /\ \A r \in Runs : \A s \in Sessions :
          /\ Sound(session'[r][s]) /\ Keeps(session[r][s], session'[r][s])
          /\ s > task[r].generation => session'[r][s] = NoSession
    /\ \A v \in Workers \ movers :
          Relies(v) => Gentle(session[worker[v].run][worker[v].session],
                              session'[worker[v].run][worker[v].session])

LEMMA GentleStands == ASSUME NEW it PROVE Gentle(it, it)
  BY DEF Gentle, Keeps

LEMMA SessionsStand ==
    ASSUME SessionOK, session' = session, NEW movers
    PROVE  SessionsMove(movers)
<1>1. session \in [Runs -> [Sessions -> SessionRecord]] /\ LeasesApart /\ SessionsSound
  BY DEF SessionOK, SessionTypeOK, Sessions
<1>2. LeasesApart'
  BY <1>1 DEF LeasesApart
<1> QED BY <1>1, <1>2, GentleStands DEF SessionsMove, SessionsSound, Gentle

\* The worker's run and session, once it is not idle.
LEMMA BusyFields ==
    ASSUME SessionOK, NEW w \in Workers, ~At(w, "idle")
    PROVE  Fits(worker[w]) /\ worker[w].run \in Runs /\ worker[w].session \in Sessions
  BY DEF SessionOK, WorkerFits, Fits

\* A step on one session, gentle to it unless its mover is the only one who
\* relies on it.
LEMMA OneSessionMoves ==
    ASSUME SessionOK, NEW movers, NEW r \in Runs, NEW s \in Sessions, NEW it \in SessionRecord,
           session' = [session EXCEPT ![r][s] = it],
           Sound(it), Keeps(session[r][s], it),
           s > task[r].generation => it = NoSession,
           it.lease => session[r][s].lease \/ ~LeaseHeld(r),
           \/ Gentle(session[r][s], it)
           \/ \A v \in Workers \ movers :
                 ~(Relies(v) /\ worker[v].run = r /\ worker[v].session = s)
    PROVE  SessionsMove(movers)
<1>0. SessionTypeOK /\ SessionsSound /\ LeasesApart
  BY DEF SessionOK
<1>1. /\ session' \in [Runs -> [Sessions -> SessionRecord]]
      /\ session'[r][s] = it
      /\ \A q \in Runs : \A t \in Sessions : q # r \/ t # s => session'[q][t] = session[q][t]
  BY <1>0, OneSession
<1>2. LeasesApart'
  <2> SUFFICES ASSUME NEW q \in Runs, NEW t \in Sessions, NEW u \in Sessions,
                      session'[q][t].lease, session'[q][u].lease, t # u
               PROVE  FALSE
    BY DEF LeasesApart
  <2>1. CASE q # r
    BY <1>0, <1>1, <2>1 DEF LeasesApart
  <2>2. CASE q = r /\ t = s
    BY <1>0, <1>1, <2>2 DEF LeasesApart, LeaseHeld, Sessions
  <2>3. CASE q = r /\ u = s
    BY <1>0, <1>1, <2>3 DEF LeasesApart, LeaseHeld, Sessions
  <2>4. CASE q = r /\ t # s /\ u # s
    BY <1>0, <1>1, <2>4 DEF LeasesApart
  <2> QED BY <2>1, <2>2, <2>3, <2>4
<1>3. ASSUME NEW q \in Runs, NEW t \in Sessions
      PROVE  /\ Sound(session'[q][t]) /\ Keeps(session[q][t], session'[q][t])
             /\ t > task[q].generation => session'[q][t] = NoSession
  <2>1. CASE q = r /\ t = s
    BY <1>1, <2>1
  <2>2. CASE q # r \/ t # s
    BY <1>0, <1>1, <2>2 DEF SessionsSound, Keeps
  <2> QED BY <2>1, <2>2
<1>4. ASSUME NEW v \in Workers \ movers, Relies(v)
      PROVE  Gentle(session[worker[v].run][worker[v].session],
                    session'[worker[v].run][worker[v].session])
  <2>1. worker[v].run \in Runs /\ worker[v].session \in Sessions
    <3>1. ~At(v, "idle")
      BY <1>4 DEF Relies, FirstSteps, At
    <3> QED BY <3>1, BusyFields
  <2>2. CASE worker[v].run = r /\ worker[v].session = s
    BY <1>1, <1>4, <2>2
  <2>3. CASE ~(worker[v].run = r /\ worker[v].session = s)
    BY <1>1, <2>1, <2>3, GentleStands
  <2> QED BY <2>2, <2>3
<1> QED BY <1>1, <1>2, <1>3, <1>4 DEF SessionsMove

\* Before a session is suspended, nobody but its own attempt relies on it.
LEMMA Alone ==
    ASSUME SessionOK, NEW w \in Workers, worker[w].at \in FirstSteps,
           NEW v \in Workers, v # w, Relies(v),
           worker[v].run = worker[w].run, worker[v].session = worker[w].session
    PROVE  FALSE
<1>0. AttemptsApart
  BY DEF SessionOK
<1>1. ~At(w, "idle") /\ ~At(v, "idle")
  BY DEF FirstSteps, Relies, At
<1>2. Fits(worker[w]) /\ Fits(worker[v])
  BY <1>1, BusyFields
<1>3. worker[w].session = worker[w].gen /\ ~Suspends(worker[w].run, worker[w].session)
  BY <1>2 DEF Fits
<1>4. CASE worker[v].at \in FirstSteps
  <2>1. worker[v].session = worker[v].gen
    BY <1>2, <1>4 DEF Fits
  <2>2. Attempting(v) /\ Attempting(w)
    BY <1>4 DEF Attempting, FirstSteps, CleanupSteps
  <2> QED BY <1>0, <1>3, <2>1, <2>2 DEF AttemptsApart
<1>5. CASE worker[v].at \in {"driving", "storing"}
  <2>1. worker[v].session # worker[v].gen
    BY <1>2, <1>5 DEF Fits, SecondSteps
  <2>2. Suspends(worker[v].run, worker[v].session)
    BY <1>2, <2>1 DEF Fits
  <2> QED BY <1>3, <2>2
<1> QED BY <1>4, <1>5 DEF Relies

-----------------------------------------------------------------------------
(* What the others rely on stays so. *)

LEMMA StaysFit ==
    ASSUME SessionOK, NEW movers, SessionsMove(movers), NEW v \in Workers \ movers,
           worker'[v] = worker[v],
           \A r \in Runs : Follows(r),
           worker[v].at \in FirstSteps /\ Suspends(worker[v].run, worker[v].session)'
              => Suspends(worker[v].run, worker[v].session)
    PROVE  WorkerFits(v)'
<1> SUFFICES ASSUME ~At(v, "idle") PROVE Fits(worker[v])'
  BY DEF WorkerFits, At
<1>1. Fits(worker[v]) /\ worker[v].run \in Runs /\ worker[v].session \in Sessions
  BY BusyFields
<1>2. PICK it : it = worker[v] /\ worker'[v] = it
  OBVIOUS
<1>3. PICK r \in Runs : r = it.run
  BY <1>1, <1>2
<1>4. PICK s \in Sessions : s = it.session
  BY <1>1, <1>2
<1>5. PICK old : old = session[r][s]
  OBVIOUS
<1>6. PICK new : new = session'[r][s]
  OBVIOUS
<1>7. Keeps(old, new) /\ (Relies(v) => Gentle(old, new))
  BY <1>2, <1>3, <1>4, <1>5, <1>6 DEF SessionsMove
<1>8. /\ it.at \in FirstSteps \cup {"undoing"} => it.session = it.gen
      /\ it.at \in FirstSteps => ~Suspends(r, s)'
      /\ it.at \in SecondSteps => it.session # it.gen
  BY <1>1, <1>2, <1>3, <1>4 DEF Fits
<1>9. it.at \notin CleanupSteps => it.gen <= task'[r].generation
  <2>1. it.at \notin CleanupSteps => it.gen <= task[r].generation
    BY <1>1, <1>2, <1>3 DEF Fits
  <2>2. it.gen \in Nat
    BY <1>2, WorkerFields DEF SessionOK
  <2>3. task[r].generation \in Nat /\ task'[r].generation \in Nat
        /\ task'[r].generation >= task[r].generation
    BY DEF Follows
  <2> QED BY <2>1, <2>2, <2>3
<1>10. it.session # it.gen \/ it.at \in CleanupSteps => Suspends(r, s)'
  <2>1. it.session # it.gen \/ it.at \in CleanupSteps => Suspends(r, s)
    BY <1>1, <1>2, <1>3, <1>4 DEF Fits
  <2>2. Suspends(r, s) => Suspends(r, s)'
    BY DEF Suspends, Follows
  <2> QED BY <2>1, <2>2
<1>11. Wants(it, new)
  <2>1. Wants(it, old)
    BY <1>1, <1>2, <1>3, <1>4, <1>5 DEF Fits
  <2>2. it.at \in {"leasing", "starting", "sealing", "observing", "suspending", "driving", "storing"}
        => Gentle(old, new)
    BY <1>2, <1>7 DEF Relies, FirstSteps
  <2> QED BY <1>7, <2>1, <2>2 DEF Gentle, Keeps, Wants
<1> QED BY <1>2, <1>3, <1>4, <1>6, <1>8, <1>9, <1>10, <1>11 DEF Fits

\* What the rows say of the session stays so; what they newly say has to be shown.
LEMMA StaysTold ==
    ASSUME SessionOK, NEW movers, SessionsMove(movers), NEW r \in Runs, Follows(r),
           checkpoint'[r].state # "none" /\ checkpoint[r].state = "none"
              => Suspension(r)' \in Sessions,
           Succeeded(r)' /\ ~Succeeded(r)
              => checkpoint[r].state # "none" /\ AwaitedSession(r).evidence # "none",
           SignedIn(r)' /\ ~SignedIn(r)
              => checkpoint[r].state # "none" /\ AwaitedSession(r).signedIn # "no",
           Stored(r)' /\ ~Stored(r)
              => checkpoint[r].state # "none" /\ AwaitedSession(r).admitted = "fresh"
    PROVE  RunFits(r)'
<1>1. RunFits(r)
  BY DEF SessionOK
<1>2. checkpoint'[r].state # "none" => Suspension(r)' \in Sessions
  BY <1>1 DEF RunFits, Follows
<1>3. ASSUME checkpoint[r].state # "none"
      PROVE  /\ checkpoint'[r].state # "none"
             /\ AwaitedSession(r).evidence # "none" => AwaitedSession(r)'.evidence # "none"
             /\ AwaitedSession(r).signedIn # "no" => AwaitedSession(r)'.signedIn # "no"
             /\ AwaitedSession(r).admitted = "fresh" => AwaitedSession(r)'.admitted = "fresh"
  <2>1. PICK s \in Sessions : s = Suspension(r)
    BY <1>1, <1>3 DEF RunFits
  <2>2. Keeps(session[r][s], session'[r][s])
    BY DEF SessionsMove
  <2>3. checkpoint'[r].state # "none" /\ Suspension(r)' = s
    BY <1>3, <2>1 DEF Follows
  <2>4. AwaitedSession(r) = session[r][s] /\ AwaitedSession(r)' = session'[r][s]
    BY <2>1, <2>3 DEF AwaitedSession
  <2> QED BY <2>2, <2>3, <2>4 DEF Keeps
<1>4. Succeeded(r)' => checkpoint'[r].state # "none" /\ AwaitedSession(r)'.evidence # "none"
  BY <1>1, <1>3 DEF RunFits
<1>5. SignedIn(r)' => checkpoint'[r].state # "none" /\ AwaitedSession(r)'.signedIn # "no"
  BY <1>1, <1>3 DEF RunFits
<1>6. Stored(r)' => checkpoint'[r].state # "none" /\ AwaitedSession(r)'.admitted = "fresh"
  BY <1>1, <1>3 DEF RunFits
<1> QED BY <1>2, <1>4, <1>5, <1>6 DEF RunFits

\* Nothing is newly said of the session of a run by a quiet step.
LEMMA QuietlyTold ==
    ASSUME SessionOK, NEW movers, SessionsMove(movers), NEW r \in Runs, Follows(r), Quiet(r),
           r \in handoff' => r \in handoff
    PROVE  RunFits(r)'
<1>1. Succeeded(r)' => Succeeded(r)
  BY DEF Quiet
<1>2. SignedIn(r)' => SignedIn(r)
  BY DEF Quiet, SignedIn
<1>3. checkpoint'[r].state # "none" => checkpoint[r].state # "none"
  BY DEF Quiet
<1>4. Stored(r)' => Stored(r)
  BY DEF Quiet
<1> QED BY <1>1, <1>2, <1>3, <1>4, StaysTold

\* One worker goes on with its attempt, or leaves it.
Advances(w) ==
    /\ worker' \in [Workers -> WorkerRecord]
    /\ \A v \in Workers \ {w} : worker'[v] = worker[v]
    /\ \/ worker'[w].at = "idle"
       \/ /\ worker'[w].run = worker[w].run /\ worker'[w].gen = worker[w].gen
          /\ worker'[w].session = worker[w].session
          /\ Attempting(w)' => Attempting(w)

LEMMA ApartKept ==
    ASSUME SessionOK, NEW w \in Workers, Advances(w)
    PROVE  AttemptsApart'
<1>1. AttemptsApart
  BY DEF SessionOK
<1> SUFFICES ASSUME NEW u \in Workers, NEW v \in Workers, Attempting(u)', Attempting(v)',
                    worker'[u].run = worker'[v].run, worker'[u].gen = worker'[v].gen
             PROVE  u = v
  BY DEF AttemptsApart
<1>2. ASSUME NEW x \in Workers, Attempting(x)'
      PROVE  Attempting(x) /\ worker'[x].run = worker[x].run /\ worker'[x].gen = worker[x].gen
  <2>1. CASE x = w
    BY <1>2, <2>1 DEF Advances, Attempting
  <2>2. CASE x # w
    BY <1>2, <2>2 DEF Advances, Attempting
  <2> QED BY <2>1, <2>2
<1> QED BY <1>1, <1>2 DEF AttemptsApart

\* Of any step, what is left to show.
LEMMA StepKeeps ==
    ASSUME SessionOK, ResultsOK', NEW movers, SessionsMove(movers),
           worker' \in [Workers -> WorkerRecord], AttemptsApart',
           \A r \in Runs : Follows(r),
           \A v \in Workers : WorkerFits(v)', \A r \in Runs : RunFits(r)',
           handoff' \subseteq Runs, faults' \in 0 .. MaxFaults
    PROVE  SessionOK'
<1>1. SessionTypeOK'
  BY DEF SessionTypeOK, SessionsMove, Sessions
<1>2. SessionsSound'
  <2> SUFFICES ASSUME NEW r \in Runs, NEW s \in Sessions
               PROVE  /\ Sound(session'[r][s])
                      /\ s > task'[r].generation => session'[r][s] = NoSession
    BY DEF SessionsSound
  <2>1. Sound(session'[r][s]) /\ (s > task[r].generation => session'[r][s] = NoSession)
    BY DEF SessionsMove
  <2>2. task[r].generation \in Nat /\ task'[r].generation \in Nat
        /\ task'[r].generation >= task[r].generation
    BY DEF Follows
  <2>3. s \in Nat
    BY AttemptsAreNumbers DEF Sessions
  <2> QED BY <2>1, <2>2, <2>3
<1>3. LeasesApart'
  BY DEF SessionsMove
<1> QED BY <1>1, <1>2, <1>3 DEF SessionOK

\* Of a step that suspends no run, and of one that leaves the workers alone.
LEMMA WorkerStepKeeps ==
    ASSUME SessionOK, ResultsOK', NEW w \in Workers, SessionsMove({w}), Advances(w),
           \A r \in Runs : Follows(r) /\ Quiet(r),
           WorkerFits(w)', handoff' \subseteq handoff, faults' \in 0 .. MaxFaults
    PROVE  SessionOK'
<1>1. AttemptsApart' /\ worker' \in [Workers -> WorkerRecord]
  BY ApartKept DEF Advances
<1>2. ASSUME NEW v \in Workers \ {w} PROVE WorkerFits(v)'
  <2>1. worker[v].at \in FirstSteps => worker[v].run \in Runs
    BY BusyFields DEF FirstSteps, At
  <2>2. worker[v].at \in FirstSteps /\ Suspends(worker[v].run, worker[v].session)'
        => Suspends(worker[v].run, worker[v].session)
    BY <1>2, <2>1 DEF Advances, Suspends, Follows, Quiet
  <2> QED BY <1>2, <2>2, StaysFit DEF Advances
<1>3. \A v \in Workers : WorkerFits(v)'
  BY <1>2
<1>4. \A r \in Runs : RunFits(r)'
  BY QuietlyTold
<1>5. handoff' \subseteq Runs
  BY DEF SessionOK, SessionTypeOK
<1> QED BY <1>1, <1>3, <1>4, <1>5, StepKeeps

LEMMA WorldStepKeeps ==
    ASSUME SessionOK, ResultsOK', SessionsMove({}), worker' = worker,
           \A r \in Runs : Follows(r),
           \A r \in Runs : checkpoint'[r].state # "none" => checkpoint[r].state # "none",
           \A r \in Runs : RunFits(r)',
           handoff' \subseteq Runs, faults' \in 0 .. MaxFaults
    PROVE  SessionOK'
<1>1. AttemptsApart' /\ worker' \in [Workers -> WorkerRecord]
  BY DEF SessionOK, SessionTypeOK, AttemptsApart, Attempting
<1>2. ASSUME NEW v \in Workers PROVE WorkerFits(v)'
  <2>1. worker[v].at \in FirstSteps => worker[v].run \in Runs
    BY BusyFields DEF FirstSteps, At
  <2>2. worker[v].at \in FirstSteps /\ Suspends(worker[v].run, worker[v].session)'
        => Suspends(worker[v].run, worker[v].session)
    BY <2>1 DEF Suspends, Follows
  <2> QED BY <2>2, StaysFit
<1> QED BY <1>1, <1>2, StepKeeps

LEMMA QueueStands ==
    ASSUME SessionOK, UNCHANGED vars
    PROVE  ResultsOK' /\ \A r \in Runs : Follows(r) /\ Quiet(r)
<1>1. ResultsOK /\ [Next]_vars
  BY DEF SessionOK
<1> QED BY <1>1, ResultsOKNext, QueueFollows, StutterIsQuiet

-----------------------------------------------------------------------------
(* The steps of a worker that leave the rows alone. *)

\* From where a step may be reached; a first visit is begun by a claim only.
MayFollow(from, step) ==
    /\ from # "idle" /\ step # "leasing"
    /\ step \in FirstSteps \cup {"undoing"} => from \in FirstSteps
    /\ step \in SecondSteps => from \in SecondSteps
    /\ step \in CleanupSteps <=> from \in CleanupSteps

LEMMA GoesOn ==
    ASSUME SessionOK, NEW w \in Workers, NEW step \in Steps \ {"idle"}, Onward(w, step),
           MayFollow(worker[w].at, step),
           \A r \in Runs : Follows(r),
           step \in FirstSteps => \A r \in Runs : Quiet(r),
           Wants(worker'[w], session'[worker[w].run][worker[w].session])
    PROVE  Advances(w) /\ WorkerFits(w)'
<1>1. Fits(worker[w]) /\ worker[w].run \in Runs /\ worker[w].session \in Sessions
  BY BusyFields DEF MayFollow, At
<1>2. PICK it : it = worker[w]
  OBVIOUS
<1>3. PICK r \in Runs : r = it.run
  BY <1>1, <1>2
<1>4. PICK s \in Sessions : s = it.session
  BY <1>1, <1>2
<1>5. PICK now : now = worker'[w] /\ now.at = step /\ now.run = r /\ now.gen = it.gen /\ now.session = s
  BY <1>2, <1>3, <1>4 DEF Onward
<1>6. Advances(w)
  BY DEF Advances, Onward, Attempting, MayFollow
<1>7. now.gen <= task[r].generation \/ step \in CleanupSteps
  BY <1>1, <1>2, <1>3, <1>5 DEF Fits, MayFollow
<1>8. now.gen <= task'[r].generation \/ step \in CleanupSteps
  <2>1. now.gen \in Nat
    BY <1>2, <1>5, WorkerFields DEF SessionOK
  <2>2. task[r].generation \in Nat /\ task'[r].generation \in Nat
        /\ task'[r].generation >= task[r].generation
    BY DEF Follows
  <2> QED BY <1>7, <2>1, <2>2
<1>9. s # now.gen \/ step \in CleanupSteps => Suspends(r, s)'
  <2>1. s # now.gen \/ step \in CleanupSteps => Suspends(r, s)
    BY <1>1, <1>2, <1>3, <1>4, <1>5 DEF Fits, MayFollow
  <2> QED BY <2>1 DEF Suspends, Follows
<1>10. step \in FirstSteps => ~Suspends(r, s)'
  BY <1>1, <1>2, <1>3, <1>4 DEF Fits, MayFollow, Suspends, Follows, Quiet
<1>11. /\ step \in FirstSteps \cup {"undoing"} => s = now.gen
       /\ step \in SecondSteps => s # now.gen
  BY <1>1, <1>2, <1>3, <1>4, <1>5 DEF Fits, MayFollow
<1>12. Wants(now, session'[r][s])
  BY <1>2, <1>3, <1>4, <1>5
<1>13. Fits(now)'
  BY <1>5, <1>8, <1>9, <1>10, <1>11, <1>12 DEF Fits
<1> QED BY <1>5, <1>6, <1>13 DEF WorkerFits

\* A worker that leaves its task is owed nothing.
LEMMA RestsFit ==
    ASSUME SessionOK, NEW w \in Workers, Rests(w)
    PROVE  Advances(w) /\ WorkerFits(w)'
<1>1. SessionTypeOK
  BY DEF SessionOK
<1> QED BY <1>1, RestsRow DEF Advances, WorkerFits, At

LEMMA CalmActs ==
    ASSUME SessionOK, NEW w \in Workers, NEW step \in Steps \ {"idle"}, Onward(w, step),
           MayFollow(worker[w].at, step), SessionsMove({w}),
           Wants(worker'[w], session'[worker[w].run][worker[w].session]),
           UNCHANGED <<vars, handoff>>, faults' \in 0 .. MaxFaults
    PROVE  SessionOK'
<1>1. ResultsOK' /\ \A r \in Runs : Follows(r) /\ Quiet(r)
  BY QueueStands
<1>2. Advances(w) /\ WorkerFits(w)'
  BY <1>1, GoesOn
<1> QED BY <1>1, <1>2, WorkerStepKeeps

LEMMA CalmRest ==
    ASSUME SessionOK, NEW w \in Workers, Rests(w),
           UNCHANGED <<vars, session, handoff>>, faults' \in 0 .. MaxFaults
    PROVE  SessionOK'
<1>1. ResultsOK' /\ \A r \in Runs : Follows(r) /\ Quiet(r)
  BY QueueStands
<1>2. SessionsMove({w})
  BY SessionsStand
<1> QED BY <1>1, <1>2, RestsFit, WorkerStepKeeps

\* The session as it is to the worker that works on it.
LEMMA OwnSession ==
    ASSUME SessionOK, NEW w \in Workers, ~At(w, "idle")
    PROVE  /\ Of(w) = session[worker[w].run][worker[w].session]
           /\ Of(w) \in SessionRecord /\ Sound(Of(w)) /\ Wants(worker[w], Of(w))
           /\ worker[w].run \in Runs /\ worker[w].session \in Sessions
           /\ worker[w] \in WorkerRecord
<1>1. Fits(worker[w]) /\ worker[w].run \in Runs /\ worker[w].session \in Sessions
  BY BusyFields
<1>2. SessionTypeOK /\ SessionsSound
  BY DEF SessionOK
<1>3. session[worker[w].run][worker[w].session] \in SessionRecord /\ worker[w] \in WorkerRecord
  BY <1>1, <1>2, SessionFields, WorkerFields
<1>4. Sound(Of(w))
  BY <1>1, <1>2 DEF SessionsSound, Of
<1> QED BY <1>1, <1>3, <1>4 DEF Of, Fits

\* A worker that goes on, and leaves its session as it is.
LEMMA GoesStanding ==
    ASSUME SessionOK, NEW w \in Workers, NEW step \in Steps \ {"idle"}, Onward(w, step),
           MayFollow(worker[w].at, step), Wants(worker'[w], Of(w)),
           UNCHANGED <<vars, gateway>>, faults' \in 0 .. MaxFaults
    PROVE  SessionOK'
<1>1. ~At(w, "idle") /\ session' = session /\ UNCHANGED <<vars, handoff>>
  BY DEF MayFollow, At, gateway
<1>2. SessionsMove({w})
  BY <1>1, SessionsStand
<1>3. Wants(worker'[w], session'[worker[w].run][worker[w].session])
  BY <1>1 DEF Of
<1> QED BY <1>1, <1>2, <1>3, CalmActs

LEMMA FaultsStand == ASSUME SessionOK, faults' = faults PROVE faults' \in 0 .. MaxFaults
  BY DEF SessionOK, SessionTypeOK

\* The first visit and the second, where nothing reaches gateway or database.
LEMMA FailedCalls ==
    ASSUME SessionOK, NEW w \in Workers, NEW failure \in Failures,
           \/ LeaseFails(w, failure) \/ VisitFails(w, failure) \/ CreateFails(w, failure)
           \/ WaitFails(w, failure) \/ ResumeFails(w, failure)
    PROVE  SessionOK'
<1>0. SessionTypeOK /\ failure \in {"none", "result"} \cup Failures
  BY DEF SessionOK
<1>1. UNCHANGED <<vars, gateway>> /\ faults' \in 0 .. MaxFaults
  BY <1>0, CostsCount DEF LeaseFails, VisitFails, CreateFails, WaitFails, ResumeFails
<1>2. PICK step \in {"failing", "ending", "aborting", "undoing", "finalizing"} :
         /\ GoesWith(w, step, failure)
         /\ step \in {"ending", "aborting", "undoing"} => worker[w].at \in FirstSteps
         /\ step = "finalizing" => worker[w].at \in SecondSteps
         /\ worker[w].at \notin CleanupSteps \cup {"idle"}
  BY DEF LeaseFails, VisitFails, CreateFails, WaitFails, ResumeFails, FirstSteps, SecondSteps,
         CleanupSteps, At
<1>3. step \in Steps \ {"idle"}
  BY DEF Steps, DisposalCalls
<1>4. Onward(w, step)
  BY <1>0, <1>2, <1>3, GoesWithRow
<1>5. MayFollow(worker[w].at, step)
  BY <1>2 DEF MayFollow, FirstSteps, SecondSteps, CleanupSteps
<1>6. Wants(worker'[w], Of(w))
  BY <1>4 DEF Onward, Wants
<1> QED BY <1>1, <1>3, <1>4, <1>5, <1>6, GoesStanding

LEMMA ObserveKeeps == ASSUME SessionOK, NEW w \in Workers, Observe(w) PROVE SessionOK'
<1>0. SessionTypeOK /\ worker[w].at = "observing" /\ ~At(w, "idle")
  BY DEF SessionOK, Observe, At
<1>1. UNCHANGED <<vars, gateway>> /\ faults' \in 0 .. MaxFaults
  BY FaultsStand DEF Observe
<1>2. PICK step \in {"ending", "suspending"} : Onward(w, step)
  BY <1>0, GoesRow, GoesWithRow DEF Observe, Steps
<1>3. Wants(worker[w], Of(w))
  BY <1>0, OwnSession
<1>4. Wants(worker'[w], Of(w))
  BY <1>0, <1>2, <1>3 DEF Onward, Wants
<1>5. MayFollow(worker[w].at, step) /\ step \in Steps \ {"idle"}
  BY <1>0 DEF MayFollow, FirstSteps, SecondSteps, CleanupSteps, Steps
<1> QED BY <1>1, <1>2, <1>4, <1>5, GoesStanding

LEMMA DriveKeeps == ASSUME SessionOK, NEW w \in Workers, Drive(w) PROVE SessionOK'
<1>0. SessionTypeOK /\ worker[w].at = "driving" /\ ~At(w, "idle")
  BY DEF SessionOK, Drive, At
<1>1. UNCHANGED <<vars, gateway>> /\ faults' \in 0 .. MaxFaults
  BY FaultsStand DEF Drive
<1>2. Onward(w, "storing") /\ "storing" \in Steps \ {"idle"}
  BY <1>0, GoesWithRow DEF Drive, Steps
<1>3. Wants(worker[w], Of(w))
  BY <1>0, OwnSession
<1>4. Wants(worker'[w], Of(w))
  BY <1>0, <1>2, <1>3 DEF Onward, Wants
<1>5. MayFollow(worker[w].at, "storing")
  BY <1>0 DEF MayFollow, FirstSteps, SecondSteps, CleanupSteps
<1> QED BY <1>1, <1>2, <1>4, <1>5, GoesStanding

\* A disposal that is answered: the record is retired, so there is evidence.
LEMMA HearDisposedKeeps ==
    ASSUME SessionOK, NEW w \in Workers, HearDisposed(w) PROVE SessionOK'
<1>0. SessionTypeOK /\ worker[w].at \in DisposalCalls /\ ~At(w, "idle")
  BY DEF SessionOK, HearDisposed, At, DisposalCalls
<1>1. UNCHANGED <<vars, gateway>> /\ faults' \in 0 .. MaxFaults
  BY FaultsStand DEF HearDisposed
<1>2. Of(w).evidence # "none"
  <2>1. Of(w).record = "retired"
    BY DEF HearDisposed
  <2> QED BY <1>0, <2>1, OwnSession DEF Sound
<1>3. ASSUME NEW step \in {"failing", "reconciling", "finishing", "closing"}, Onward(w, step),
             step = "reconciling" => worker[w].at = "finalizing",
             step = "closing" <=> worker[w].at = "cleaning"
      PROVE  SessionOK'
  <2>1. step \in Steps \ {"idle"}
    BY DEF Steps, DisposalCalls
  <2>2. MayFollow(worker[w].at, step)
    BY <1>0, <1>3 DEF MayFollow, FirstSteps, SecondSteps, CleanupSteps, DisposalCalls
  <2>3. Wants(worker'[w], Of(w))
    BY <1>2, <1>3 DEF Onward, Wants
  <2> QED BY <1>1, <1>3, <2>1, <2>2, <2>3, GoesStanding
<1>4. \E step \in {"failing", "reconciling", "finishing", "closing"} :
         /\ Onward(w, step)
         /\ step = "reconciling" => worker[w].at = "finalizing"
         /\ step = "closing" <=> worker[w].at = "cleaning"
  <2>1. {"failing", "reconciling", "finishing", "closing"} \subseteq Steps
    BY DEF Steps, DisposalCalls
  <2>2. CASE worker[w].at \in {"aborting", "undoing"} /\ Goes(w, "failing")
    BY <1>0, <2>1, <2>2, GoesRow
  <2>3. CASE At(w, "finalizing") /\ Goes(w, "reconciling")
    BY <1>0, <2>1, <2>3, GoesRow DEF At
  <2>4. CASE At(w, "reconciling") /\ (Goes(w, "finishing") \/ Goes(w, "failing"))
    BY <1>0, <2>1, <2>4, GoesRow DEF At
  <2>5. CASE At(w, "cleaning") /\ GoesWith(w, "closing", "result")
    BY <1>0, <2>1, <2>5, GoesWithRow DEF At
  <2> QED BY <2>2, <2>3, <2>4, <2>5 DEF HearDisposed
<1> QED BY <1>3, <1>4

LEMMA HearNothingKeeps ==
    ASSUME SessionOK, NEW w \in Workers, HearNothing(w) PROVE SessionOK'
<1>0. SessionTypeOK /\ worker[w].at \in DisposalCalls /\ ~At(w, "idle")
  BY DEF SessionOK, HearNothing, At, DisposalCalls
<1>1. UNCHANGED <<vars, gateway>> /\ faults' \in 0 .. MaxFaults
  BY <1>0, CostsCount DEF HearNothing
<1>2. CASE Rests(w)
  BY <1>1, <1>2, CalmRest DEF gateway
<1>3. ASSUME NEW step \in {"ending", "failing", "reconciling", "closing"}, Onward(w, step),
             step = "ending" => worker[w].at = "aborting",
             step = "reconciling" => worker[w].at = "finalizing",
             step = "closing" <=> worker[w].at = "cleaning",
             step = "closing" => worker'[w].outcome # "result"
      PROVE  SessionOK'
  <2>1. step \in Steps \ {"idle"}
    BY DEF Steps, DisposalCalls
  <2>2. MayFollow(worker[w].at, step)
    BY <1>0, <1>3 DEF MayFollow, FirstSteps, SecondSteps, CleanupSteps, DisposalCalls
  <2>3. Wants(worker'[w], Of(w))
    BY <1>3 DEF Onward, Wants
  <2> QED BY <1>1, <1>3, <2>1, <2>2, <2>3, GoesStanding
<1>4. Rests(w) \/ \E step \in {"ending", "failing", "reconciling", "closing"} :
         /\ Onward(w, step)
         /\ step = "ending" => worker[w].at = "aborting"
         /\ step = "reconciling" => worker[w].at = "finalizing"
         /\ step = "closing" <=> worker[w].at = "cleaning"
         /\ step = "closing" => worker'[w].outcome # "result"
  <2>1. {"ending", "failing", "reconciling", "closing"} \subseteq Steps
        /\ {"fatal", "retry"} \subseteq {"none", "result"} \cup Failures
    BY DEF Steps, DisposalCalls, Failures
  <2>2. CASE At(w, "aborting") /\ Goes(w, "ending")
    BY <1>0, <2>1, <2>2, GoesRow DEF At
  <2>3. CASE (At(w, "undoing") \/ At(w, "reconciling")) /\ GoesWith(w, "failing", "fatal")
    BY <1>0, <2>1, <2>3, GoesWithRow DEF At
  <2>4. CASE At(w, "finalizing") /\ GoesWith(w, "reconciling", "fatal")
    BY <1>0, <2>1, <2>4, GoesWithRow DEF At
  <2>5. ASSUME At(w, "cleaning"), NEW outcome \in {"fatal", "retry"},
               GoesWith(w, "closing", outcome)
        PROVE  Onward(w, "closing") /\ worker'[w].outcome = outcome /\ worker[w].at = "cleaning"
    BY <1>0, <2>1, <2>5, GoesWithRow DEF At
  <2> QED BY <2>2, <2>3, <2>4, <2>5 DEF HearNothing
<1> QED BY <1>2, <1>3, <1>4

LEMMA FinishRefusedKeeps ==
    ASSUME SessionOK, NEW w \in Workers, FinishRefused(w) PROVE SessionOK'
<1>0. SessionTypeOK /\ worker[w].at = "finishing" /\ "failing" \in Steps
  BY DEF SessionOK, FinishRefused, At, Steps
<1>1. UNCHANGED <<vars, gateway>> /\ faults' \in 0 .. MaxFaults
  BY <1>0, CostsCount DEF FinishRefused
<1>2. Onward(w, "failing")
  BY <1>0, GoesWithRow DEF FinishRefused, Failures
<1>3. MayFollow(worker[w].at, "failing") /\ Wants(worker'[w], Of(w))
  BY <1>0, <1>2 DEF MayFollow, FirstSteps, SecondSteps, CleanupSteps, Onward, Wants
<1> QED BY <1>0, <1>1, <1>2, <1>3, GoesStanding

LEMMA VanishKeeps ==
    ASSUME SessionOK, NEW w \in Workers, Vanish(w) PROVE SessionOK'
<1>1. faults' \in 0 .. MaxFaults
  BY CostsCount DEF Vanish, SessionOK
<1> QED BY <1>1, CalmRest DEF Vanish, gateway

-----------------------------------------------------------------------------
(* The calls of a worker to the gateway. *)

\* A worker that goes on with a change of its own session.
LEMMA GoesActing ==
    ASSUME SessionOK, NEW w \in Workers, NEW step \in Steps \ {"idle"}, Onward(w, step),
           MayFollow(worker[w].at, step), NEW it \in SessionRecord, Becomes(w, it),
           Sound(it), Keeps(Of(w), it),
           it.lease => Of(w).lease \/ ~LeaseHeld(worker[w].run),
           Gentle(Of(w), it) \/ worker[w].at \in FirstSteps,
           Wants(worker'[w], it),
           UNCHANGED <<vars, handoff>>, faults' \in 0 .. MaxFaults
    PROVE  SessionOK'
<1>0. SessionTypeOK /\ SessionsSound /\ ~At(w, "idle")
  BY DEF SessionOK, MayFollow, At
<1>1. PICK r \in Runs : r = worker[w].run
  BY <1>0, BusyFields
<1>2. PICK s \in Sessions : s = worker[w].session
  BY <1>0, BusyFields
<1>3. session' = [session EXCEPT ![r][s] = it] /\ Of(w) = session[r][s]
  BY <1>1, <1>2 DEF Becomes, Of
<1>4. s > task[r].generation => it = NoSession
  <2>1. CASE worker[w].at \in FirstSteps
    <3>1. Fits(worker[w])
      BY <1>0, BusyFields
    <3>2. s = worker[w].gen /\ worker[w].gen <= task[r].generation
      BY <1>1, <1>2, <2>1, <3>1 DEF Fits, FirstSteps, CleanupSteps
    <3>3. s \in Nat /\ task[r].generation \in Nat
      <4>1. Follows(r)
        BY <1>0, QueueStands
      <4> QED BY <4>1, AttemptsAreNumbers DEF Follows, Sessions
    <3> QED BY <3>2, <3>3
  <2>2. CASE Gentle(Of(w), it)
    BY <1>0, <1>3, <2>2 DEF Gentle, SessionsSound
  <2> QED BY <2>1, <2>2
<1>5. \/ Gentle(session[r][s], it)
      \/ \A v \in Workers \ {w} :
            ~(Relies(v) /\ worker[v].run = r /\ worker[v].session = s)
  <2>1. CASE worker[w].at \in FirstSteps
    BY <1>1, <1>2, <2>1, Alone
  <2> QED BY <1>3, <2>1
<1>6. it.lease => session[r][s].lease \/ ~LeaseHeld(r)
  BY <1>1, <1>3
<1>7. Keeps(session[r][s], it)
  BY <1>3
<1>8. SessionsMove({w})
  BY <1>3, <1>4, <1>5, <1>6, <1>7, OneSessionMoves
<1>9. session'[r][s] = it
  BY <1>0, <1>3, OneSession
<1>10. Wants(worker'[w], session'[worker[w].run][worker[w].session])
  BY <1>1, <1>2, <1>9
<1> QED BY <1>8, <1>10, CalmActs

LEMMA ClaimLeaseKeeps ==
    ASSUME SessionOK, NEW w \in Workers, NEW heard \in BOOLEAN, ClaimLease(w, heard)
    PROVE  SessionOK'
<1> DEFINE it == [NoSession EXCEPT !.ttl = "running", !.lease = TRUE]
<1>0. SessionTypeOK /\ worker[w].at = "leasing" /\ ~At(w, "idle") /\ ~LeaseHeld(worker[w].run)
  BY DEF SessionOK, ClaimLease, At
<1>1. Of(w) = NoSession
  BY <1>0, OwnSession DEF Wants
<1>2. UNCHANGED <<vars, handoff>> /\ faults' \in 0 .. MaxFaults
  BY <1>0, CostsCount DEF ClaimLease
<1>3. it \in SessionRecord /\ Sound(it) /\ Keeps(NoSession, it) /\ Young(it) /\ Covered(it)
  BY <1>1, <1>0, OwnSession DEF SessionRecord, NoSession, Sound, Keeps, Young, Covered
<1>4. Becomes(w, it)
  BY <1>1 DEF ClaimLease
<1>5. PICK step \in {"starting", "failing"} : Onward(w, step)
  BY <1>0, GoesRow, GoesWithRow DEF ClaimLease, Steps, Failures
<1>6. MayFollow(worker[w].at, step) /\ step \in Steps \ {"idle"}
  BY <1>0 DEF MayFollow, FirstSteps, SecondSteps, CleanupSteps, Steps
<1>7. Wants(worker'[w], it)
  BY <1>3, <1>5 DEF Onward, Wants
<1> HIDE DEF it
<1>8. worker[w].at \in FirstSteps
  BY <1>0 DEF FirstSteps
<1> QED BY <1>0, <1>1, <1>2, <1>3, <1>4, <1>5, <1>6, <1>7, <1>8, GoesActing

LEMMA StartKeeps ==
    ASSUME SessionOK, NEW w \in Workers,
           StartSession(w) \/ \E running \in BOOLEAN, failure \in Failures : StartFails(w, running, failure)
    PROVE  SessionOK'
<1>0. SessionTypeOK /\ worker[w].at = "starting" /\ ~At(w, "idle")
  BY DEF SessionOK, StartSession, StartFails, At
<1>1. Of(w) \in SessionRecord /\ Sound(Of(w)) /\ Young(Of(w)) /\ Covered(Of(w))
  BY <1>0, OwnSession DEF Wants
<1>2. UNCHANGED <<vars, handoff>> /\ faults' \in 0 .. MaxFaults
  BY <1>0, CostsCount, FaultsStand DEF StartSession, StartFails
<1>3. PICK it : /\ it \in {Of(w), [Of(w) EXCEPT !.browser = "running"]}
                /\ it # Of(w) => Of(w).ttl = "running"
                /\ Becomes(w, it)
  BY DEF StartSession, StartFails
<1>4. it \in SessionRecord /\ Sound(it) /\ Keeps(Of(w), it) /\ Young(it) /\ (it.lease => Of(w).lease)
  BY <1>1, <1>3 DEF SessionRecord, Sound, Keeps, Young, Covered
<1>5. PICK step \in {"sealing", "failing"} : Onward(w, step)
  BY <1>0, GoesRow, GoesWithRow DEF StartSession, StartFails, Steps
<1>6. MayFollow(worker[w].at, step) /\ step \in Steps \ {"idle"}
  BY <1>0 DEF MayFollow, FirstSteps, SecondSteps, CleanupSteps, Steps
<1>7. Wants(worker'[w], it)
  BY <1>4, <1>5 DEF Onward, Wants
<1>8. worker[w].at \in FirstSteps
  BY <1>0 DEF FirstSteps
<1> QED BY <1>2, <1>3, <1>4, <1>5, <1>6, <1>7, <1>8, GoesActing

LEMMA PutSecretsKeeps ==
    ASSUME SessionOK, NEW w \in Workers, NEW heard \in BOOLEAN, PutSecrets(w, heard)
    PROVE  SessionOK'
<1> DEFINE it == [Of(w) EXCEPT !.secrets = TRUE]
<1>0. SessionTypeOK /\ worker[w].at = "sealing" /\ ~At(w, "idle")
  BY DEF SessionOK, PutSecrets, At
<1>1. Of(w) \in SessionRecord /\ Sound(Of(w)) /\ Young(Of(w))
  BY <1>0, OwnSession DEF Wants
<1>2. UNCHANGED <<vars, handoff>> /\ faults' \in 0 .. MaxFaults
  BY <1>0, CostsCount DEF PutSecrets
<1>3. it \in SessionRecord /\ Sound(it) /\ Keeps(Of(w), it) /\ Young(it) /\ (it.lease => Of(w).lease)
  BY <1>1 DEF SessionRecord, Sound, Keeps, Young
<1>4. Becomes(w, it)
  BY DEF PutSecrets
<1>5. PICK step \in {"observing", "ending"} : Onward(w, step)
  BY <1>0, GoesRow, GoesWithRow DEF PutSecrets, Steps, Failures
<1>6. MayFollow(worker[w].at, step) /\ step \in Steps \ {"idle"}
  BY <1>0 DEF MayFollow, FirstSteps, SecondSteps, CleanupSteps, Steps
<1>7. Wants(worker'[w], it)
  BY <1>3, <1>5 DEF Onward, Wants
<1>8. worker[w].at \in FirstSteps
  BY <1>0 DEF FirstSteps
<1> HIDE DEF it
<1> QED BY <1>2, <1>3, <1>4, <1>5, <1>6, <1>7, <1>8, GoesActing

LEMMA CreateCheckpointKeeps ==
    ASSUME SessionOK, NEW w \in Workers, NEW heard \in BOOLEAN, CreateCheckpoint(w, heard)
    PROVE  SessionOK'
<1> DEFINE it == [Of(w) EXCEPT !.record = "held"]
<1>0. SessionTypeOK /\ worker[w].at = "suspending" /\ ~At(w, "idle")
  BY DEF SessionOK, CreateCheckpoint, At
<1>1. Of(w) \in SessionRecord /\ Sound(Of(w)) /\ Young(Of(w))
  BY <1>0, OwnSession DEF Wants
<1>2. UNCHANGED <<vars, handoff>> /\ faults' \in 0 .. MaxFaults
  BY <1>0, CostsCount DEF CreateCheckpoint
<1>3. it \in SessionRecord /\ Sound(it) /\ Keeps(Of(w), it) /\ (it.lease => Of(w).lease)
  BY <1>1 DEF SessionRecord, Sound, Keeps, Young
<1>4. Becomes(w, it)
  BY DEF CreateCheckpoint
<1>5. PICK step \in {"suspended", "aborting"} : Onward(w, step)
  <2>1. {"suspended", "aborting"} \subseteq Steps
    BY DEF Steps, DisposalCalls
  <2> QED BY <1>0, <2>1, GoesRow, GoesWithRow DEF CreateCheckpoint, Failures
<1>6. MayFollow(worker[w].at, step) /\ step \in Steps \ {"idle"}
  BY <1>0 DEF MayFollow, FirstSteps, SecondSteps, CleanupSteps, Steps, DisposalCalls
<1>7. Wants(worker'[w], it)
  BY <1>5 DEF Onward, Wants
<1>8. worker[w].at \in FirstSteps
  BY <1>0 DEF FirstSteps
<1> HIDE DEF it
<1> QED BY <1>2, <1>3, <1>4, <1>5, <1>6, <1>7, <1>8, GoesActing

\* The lease is released only if the browser provably ended.
LEMMA EndSessionKeeps ==
    ASSUME SessionOK, NEW w \in Workers, NEW revoked \in BOOLEAN, NEW stops \in BOOLEAN,
           NEW proven \in BOOLEAN, NEW released \in BOOLEAN,
           EndSession(w, revoked, stops, proven, released)
    PROVE  SessionOK'
<1>0. SessionTypeOK /\ worker[w].at = "ending" /\ ~At(w, "idle")
  BY DEF SessionOK, EndSession, At
<1>1. Of(w) \in SessionRecord /\ Sound(Of(w))
  BY <1>0, OwnSession
<1>2. UNCHANGED <<vars, handoff>> /\ faults' \in 0 .. MaxFaults
  BY <1>0, CostsCount DEF EndSession
<1>3. PICK browser \in {"ended", Of(w).browser} :
         /\ released => browser = "ended"
         /\ Becomes(w, [Of(w) EXCEPT !.browser = browser, !.secrets = @ /\ ~revoked,
                                     !.lease = @ /\ ~released])
  BY DEF EndSession
<1> DEFINE it == [Of(w) EXCEPT !.browser = browser, !.secrets = Of(w).secrets /\ ~revoked,
                               !.lease = Of(w).lease /\ ~released]
<1>4. it \in SessionRecord /\ (it.lease => Of(w).lease) /\ Keeps(Of(w), it)
  <2>1. PICK old : old = Of(w)
    OBVIOUS
  <2>2. PICK secrets \in BOOLEAN, lease \in BOOLEAN :
           /\ secrets = (old.secrets /\ ~revoked)
           /\ lease = (old.lease /\ ~released)
    BY <1>1, <2>1 DEF SessionRecord
  <2>3. browser \in {"none", "running", "ended"}
    BY <1>1, <1>3, <2>1 DEF SessionRecord
  <2>4. it = [old EXCEPT !.browser = browser, !.secrets = secrets, !.lease = lease]
    BY <2>1, <2>2
  <2>5. old \in SessionRecord
    BY <1>1, <2>1
  <2> HIDE DEF it
  <2>6. it \in SessionRecord
    BY <2>3, <2>4, <2>5 DEF SessionRecord
  <2>7. it.lease = lease
    BY <2>4, <2>5 DEF SessionRecord
  <2>8. /\ it.admitted = old.admitted /\ it.signedIn = old.signedIn
        /\ it.evidence = old.evidence
    BY <2>4, <2>5 DEF SessionRecord
  <2> QED BY <2>1, <2>2, <2>6, <2>7, <2>8 DEF Keeps
<1>5. Sound(it)
  BY <1>1, <1>3 DEF Sound, SessionRecord
<1>6. Becomes(w, it)
  BY <1>3
<1>7. PICK step \in {"finishing", "failing"} : Onward(w, step)
  <2>1. {"finishing", "failing"} \subseteq Steps /\ "fatal" \in Failures
    BY DEF Steps, Failures
  <2> QED BY <1>0, <2>1, GoesRow, GoesWithRow DEF EndSession
<1>8. MayFollow(worker[w].at, step) /\ step \in Steps \ {"idle"}
  BY <1>0 DEF MayFollow, FirstSteps, SecondSteps, CleanupSteps, Steps
<1>9. worker[w].at \in FirstSteps
  BY <1>0 DEF FirstSteps
<1>10. Wants(worker'[w], it)
  <2>1. worker[w].session = worker[w].gen
    BY <1>0, <1>9, BusyFields DEF Fits
  <2> QED BY <1>7, <2>1 DEF Onward, Wants
<1> HIDE DEF it
<1> QED BY <1>2, <1>4, <1>5, <1>6, <1>7, <1>8, <1>9, <1>10, GoesActing

LEMMA ResumeSessionKeeps ==
    ASSUME SessionOK, NEW w \in Workers, NEW heard \in BOOLEAN, ResumeSession(w, heard)
    PROVE  SessionOK'
<1> DEFINE it == [Of(w) EXCEPT !.claimed = TRUE, !.admitted = Of(w).signedIn]
<1>0. SessionTypeOK /\ worker[w].at = "resuming" /\ ~At(w, "idle") /\ ResumableSession(Of(w))
  BY DEF SessionOK, ResumeSession, At
<1>1. Of(w) \in SessionRecord /\ Sound(Of(w))
  BY <1>0, OwnSession
<1>2. UNCHANGED <<vars, handoff>> /\ faults' \in 0 .. MaxFaults
  BY <1>0, CostsCount DEF ResumeSession
<1>3. /\ it \in SessionRecord /\ Sound(it) /\ Keeps(Of(w), it) /\ (it.lease => Of(w).lease)
      /\ Taken(it) /\ it.admitted = "fresh"
  BY <1>0, <1>1 DEF SessionRecord, Sound, Keeps, Taken, ResumableSession
<1>4. Gentle(Of(w), it)
  BY <1>0, <1>3 DEF Gentle, Young, ResumableSession, NoSession
<1>5. Becomes(w, it)
  BY DEF ResumeSession
<1>6. PICK step \in {"driving", "finalizing"} : Onward(w, step)
  <2>1. {"driving", "finalizing"} \subseteq Steps
    BY DEF Steps, DisposalCalls
  <2> QED BY <1>0, <2>1, GoesRow, GoesWithRow DEF ResumeSession, Failures
<1>7. MayFollow(worker[w].at, step) /\ step \in Steps \ {"idle"}
  BY <1>0 DEF MayFollow, FirstSteps, SecondSteps, CleanupSteps, Steps, DisposalCalls
<1>8. Wants(worker'[w], it)
  BY <1>3, <1>6 DEF Onward, Wants
<1> HIDE DEF it
<1> QED BY <1>2, <1>3, <1>4, <1>5, <1>6, <1>7, <1>8, GoesActing

-----------------------------------------------------------------------------
(* What happens to sessions without their workers. *)

\* A gentle change of one session by nobody in particular.
LEMMA SessionTurns ==
    ASSUME SessionOK, NEW r \in Runs, NEW s \in Sessions, NEW it \in SessionRecord,
           session' = [session EXCEPT ![r][s] = it],
           Sound(it), Gentle(session[r][s], it), it.lease => session[r][s].lease
    PROVE  SessionsMove({})
<1>1. SessionsSound
  BY DEF SessionOK
<1>2. s > task[r].generation => it = NoSession
  BY <1>1 DEF SessionsSound, Gentle
<1>3. Keeps(session[r][s], it)
  BY DEF Gentle
<1> QED BY <1>2, <1>3, OneSessionMoves

LEMMA CalmWorld ==
    ASSUME SessionOK, SessionsMove({}), UNCHANGED <<vars, worker, handoff>>,
           faults' \in 0 .. MaxFaults
    PROVE  SessionOK'
<1>1. ResultsOK' /\ \A r \in Runs : Follows(r) /\ Quiet(r)
  BY QueueStands
<1>2. \A r \in Runs : RunFits(r)'
  BY <1>1, QuietlyTold
<1>3. \A r \in Runs : checkpoint'[r].state # "none" => checkpoint[r].state # "none"
  BY <1>1 DEF Quiet
<1>4. handoff' \subseteq Runs
  BY DEF SessionOK, SessionTypeOK
<1> QED BY <1>1, <1>2, <1>3, <1>4, WorldStepKeeps

LEMMA SessionSound ==
    ASSUME SessionOK, NEW r \in Runs, NEW s \in Sessions
    PROVE  session[r][s] \in SessionRecord /\ Sound(session[r][s]) /\ SessionTypeOK
  BY SessionFields DEF SessionOK, SessionsSound

LEMMA BeginDisposalKeeps ==
    ASSUME SessionOK, NEW w \in Workers, BeginDisposal(w) PROVE SessionOK'
<1>0. Of(w).record = "held" /\ ~At(w, "idle")
  BY DEF BeginDisposal, Disposable, At, DisposalCalls
<1>1. PICK r \in Runs : r = worker[w].run
  BY <1>0, BusyFields
<1>2. PICK s \in Sessions : s = worker[w].session
  BY <1>0, BusyFields
<1>3. PICK old : old = session[r][s] /\ Of(w) = old /\ old \in SessionRecord /\ Sound(old)
  BY <1>1, <1>2, SessionSound DEF Of
<1> DEFINE it == [old EXCEPT !.disposing = old.disposing \cup {w}, !.secrets = FALSE, !.lease = FALSE]
<1>4. session' = [session EXCEPT ![r][s] = it]
  BY <1>1, <1>2, <1>3 DEF BeginDisposal, Becomes
<1>5. it \in SessionRecord /\ Sound(it) /\ ~it.lease
  BY <1>0, <1>3 DEF SessionRecord, Sound
<1>6. Gentle(session[r][s], it)
  BY <1>0, <1>3 DEF Gentle, Keeps, Young, Taken, SessionRecord, NoSession
<1> HIDE DEF it
<1>7. SessionsMove({})
  BY <1>4, <1>5, <1>6, SessionTurns
<1> QED BY <1>7, CalmWorld, FaultsStand DEF BeginDisposal

LEMMA DisposedRow ==
    ASSUME NEW old \in SessionRecord, NEW browser \in {"none", "running", "ended"},
           NEW disposing \in SUBSET Workers, NEW record \in {"none", "held", "retired"},
           NEW evidence \in {"none", "destroyed", "failed"}
    PROVE  [old EXCEPT !.browser = browser, !.disposing = disposing, !.record = record,
                       !.evidence = evidence] \in SessionRecord
  BY DEF SessionRecord

\* Whoever gets there first attests what became of the browser.
LEMMA EndDisposalKeeps ==
    ASSUME SessionOK, NEW w \in Workers, NEW r \in Runs, NEW s \in Sessions,
           NEW stops \in BOOLEAN, NEW proven \in BOOLEAN, EndDisposal(w, r, s, stops, proven)
    PROVE  SessionOK'
<1>1. PICK old : old = session[r][s] /\ old \in SessionRecord /\ Sound(old) /\ w \in old.disposing
  BY SessionSound DEF EndDisposal
<1>2. PICK browser \in {"ended", old.browser} :
         /\ proven => browser = "ended"
         /\ session' = [session EXCEPT ![r][s] =
              [old EXCEPT !.browser = browser, !.disposing = @ \ {w},
                          !.record = IF old.record = "held" THEN "retired" ELSE @,
                          !.evidence = IF ~(old.record = "held") THEN @
                                       ELSE IF proven THEN "destroyed" ELSE "failed"]]
  BY <1>1 DEF EndDisposal
<1>3. PICK record \in {"none", "held", "retired"} :
         record = IF old.record = "held" THEN "retired" ELSE old.record
  BY <1>1 DEF SessionRecord
<1>4. PICK evidence \in {"none", "destroyed", "failed"} :
         evidence = IF ~(old.record = "held") THEN old.evidence
                    ELSE IF proven THEN "destroyed" ELSE "failed"
  BY <1>1 DEF SessionRecord
<1>5. PICK disposing \in SUBSET Workers : disposing = old.disposing \ {w}
  BY <1>1 DEF SessionRecord
<1>6. PICK it : it = [old EXCEPT !.browser = browser, !.disposing = disposing,
                                 !.record = record, !.evidence = evidence]
  OBVIOUS
<1>7. session' = [session EXCEPT ![r][s] = it]
  BY <1>1, <1>2, <1>3, <1>4, <1>5, <1>6
<1>8. it \in SessionRecord
  <2>1. browser \in {"none", "running", "ended"}
    BY <1>1, <1>2 DEF SessionRecord
  <2> QED BY <1>1, <1>6, <2>1, DisposedRow
<1>9. /\ it.disposing = disposing /\ it.browser = browser /\ it.ttl = old.ttl
      /\ it.secrets = old.secrets /\ it.lease = old.lease /\ it.forgotten = old.forgotten
      /\ it.signedIn = old.signedIn /\ it.claimed = old.claimed /\ it.admitted = old.admitted
      /\ it.record = record /\ it.evidence = evidence
  BY <1>1, <1>6 DEF SessionRecord
<1>10. Sound(it)
  <2>1. CASE old.record = "held"
    BY <1>1, <1>2, <1>3, <1>4, <1>5, <1>9, <2>1 DEF Sound
  <2>2. CASE old.record # "held"
    <3>1. it.evidence = old.evidence /\ it.record = old.record
      BY <1>3, <1>4, <1>9, <2>2
    <3>2. old.disposing # {} /\ disposing \subseteq old.disposing
      BY <1>1, <1>5
    <3>3. old.record = "none" => old.ttl = "lapsed"
      BY <1>1, <3>2 DEF Sound
    <3>4. old.record = "retired" => old.evidence # "none"
      BY <1>1 DEF Sound
    <3>5. ~old.secrets /\ ~old.lease
      BY <1>1, <3>2 DEF Sound
    <3>6. old.evidence = "destroyed" => browser = "ended"
      BY <1>1, <1>2 DEF Sound
    <3>7. old.evidence \in {"none", "destroyed", "failed"} /\ old.record \in {"none", "held", "retired"}
      BY <1>1 DEF SessionRecord
    <3> QED BY <1>9, <2>2, <3>1, <3>3, <3>4, <3>5, <3>6, <3>7 DEF Sound
  <2> QED BY <2>1, <2>2
<1>11. Gentle(session[r][s], it)
  BY <1>1, <1>3, <1>4, <1>9 DEF Gentle, Keeps, Young, Taken, NoSession
<1>12. SessionsMove({})
  BY <1>1, <1>7, <1>8, <1>9, <1>10, <1>11, SessionTurns
<1>13. faults' \in 0 .. MaxFaults
  BY SessionSound, CostsCount DEF EndDisposal
<1> QED BY <1>12, <1>13, CalmWorld DEF EndDisposal

\* A person is looked for and perhaps seen, and what was seen grows old.
LEMMA SignalsKeep ==
    ASSUME SessionOK, NEW r \in Runs, NEW s \in Sessions,
           \/ AskSignIn(r, s) \/ SignInUnseen(r, s) \/ SignalAges(r, s)
           \/ \E more \in BOOLEAN : RecordSignIn(r, s, more)
    PROVE  SessionOK'
<1>1. PICK old : /\ old = session[r][s] /\ old \in SessionRecord /\ Sound(old)
                 /\ old.record = "held" \/ old.probing
  BY SessionSound DEF AskSignIn, RecordSignIn, SignInUnseen, SignalAges
<1>2. PICK signal \in {"no", "fresh", "stale"}, probing \in BOOLEAN :
         /\ session' = [session EXCEPT ![r][s] = [old EXCEPT !.signedIn = signal,
                                                            !.probing = probing]]
         /\ old.signedIn # "no" => signal # "no"
  <2>0. session \in [Runs -> [Sessions -> SessionRecord]]
    BY SessionSound DEF SessionTypeOK, Sessions
  <2>1. CASE AskSignIn(r, s)
    <3>1. session' = [session EXCEPT ![r][s] = [old EXCEPT !.signedIn = old.signedIn,
                                                           !.probing = TRUE]]
      BY <1>1, <2>0, <2>1 DEF AskSignIn, SessionRecord
    <3> QED BY <1>1, <3>1 DEF SessionRecord
  <2>2. CASE SignInUnseen(r, s)
    <3>1. session' = [session EXCEPT ![r][s] = [old EXCEPT !.signedIn = old.signedIn,
                                                           !.probing = FALSE]]
      BY <1>1, <2>0, <2>2 DEF SignInUnseen, SessionRecord
    <3> QED BY <1>1, <3>1 DEF SessionRecord
  <2>3. CASE SignalAges(r, s)
    <3>1. session' = [session EXCEPT ![r][s] = [old EXCEPT !.signedIn = "stale",
                                                           !.probing = old.probing]]
      BY <1>1, <2>0, <2>3 DEF SignalAges, SessionRecord
    <3> QED BY <1>1, <3>1 DEF SessionRecord
  <2>4. ASSUME NEW more \in BOOLEAN, RecordSignIn(r, s, more)
        PROVE  session' = [session EXCEPT ![r][s] = [old EXCEPT !.signedIn = "fresh",
                                                                !.probing = more]]
    <3>1. PICK row : row = session[r]
      OBVIOUS
    <3>2. row \in [Sessions -> SessionRecord] /\ row[s] = old
      BY <1>1, <2>0, <3>1
    <3>3. [row EXCEPT ![s].signedIn = "fresh", ![s].probing = more]
             = [row EXCEPT ![s] = [old EXCEPT !.signedIn = "fresh", !.probing = more]]
      BY <3>2 DEF SessionRecord
    <3>4. session' = [session EXCEPT ![r] =
                         [row EXCEPT ![s].signedIn = "fresh", ![s].probing = more]]
      BY <2>0, <2>4, <3>1 DEF RecordSignIn
    <3> QED BY <2>0, <3>1, <3>3, <3>4
  <2> QED BY <2>1, <2>2, <2>3, <2>4
<1>3. PICK it : it = [old EXCEPT !.signedIn = signal, !.probing = probing]
  OBVIOUS
<1>4. session' = [session EXCEPT ![r][s] = it]
  BY <1>2, <1>3
<1>5. it \in SessionRecord /\ Sound(it) /\ (it.lease => session[r][s].lease)
  <2>1. PICK seen : seen = [old EXCEPT !.signedIn = signal]
    OBVIOUS
  <2>2. seen \in SessionRecord /\ Sound(seen) /\ seen.lease = old.lease
    BY <1>1, <2>1 DEF SessionRecord, Sound
  <2>3. it = [seen EXCEPT !.probing = probing]
    BY <1>3, <2>1
  <2>4. it \in SessionRecord /\ Sound(it) /\ it.lease = seen.lease
    BY <2>2, <2>3 DEF SessionRecord, Sound
  <2> QED BY <1>1, <2>2, <2>4
<1>6. Gentle(session[r][s], it)
  BY <1>1, <1>2, <1>3 DEF Gentle, Keeps, Young, Covered, Taken, SessionRecord, NoSession
<1>7. SessionsMove({})
  BY <1>4, <1>5, <1>6, SessionTurns
<1> QED BY <1>7, CalmWorld, FaultsStand DEF AskSignIn, RecordSignIn, SignInUnseen, SignalAges

LEMMA ForgetEvidenceKeeps ==
    ASSUME SessionOK, NEW r \in Runs, NEW s \in Sessions, ForgetEvidence(r, s)
    PROVE  SessionOK'
<1>1. PICK old : /\ old = session[r][s] /\ old \in SessionRecord /\ Sound(old)
                 /\ old.record = "retired" /\ old.ttl = "lapsed"
  BY SessionSound DEF ForgetEvidence
<1> DEFINE it == [old EXCEPT !.record = "none"]
<1>2. session' = [session EXCEPT ![r][s] = it]
  BY <1>1, SessionSound DEF ForgetEvidence, SessionTypeOK, Sessions
<1>3. it \in SessionRecord /\ Sound(it) /\ (it.lease => session[r][s].lease)
  BY <1>1 DEF SessionRecord, Sound
<1>4. Gentle(session[r][s], it)
  BY <1>1 DEF Gentle, Keeps, Young, Taken, SessionRecord, NoSession
<1> HIDE DEF it
<1>5. SessionsMove({})
  BY <1>2, <1>3, <1>4, SessionTurns
<1> QED BY <1>5, CalmWorld, FaultsStand DEF ForgetEvidence

LEMMA RestartKeeps == ASSUME SessionOK, RestartGateway PROVE SessionOK'
<1> DEFINE it(r, s) == [session[r][s] EXCEPT !.lease = FALSE, !.secrets = FALSE,
                          !.record = "none", !.claimed = FALSE, !.disposing = {}, !.probing = FALSE,
                          !.forgotten = @ \/ Leftovers(session[r][s])]
<1>1. session' = [r \in Runs |-> [s \in Sessions |-> it(r, s)]]
  BY DEF RestartGateway, Sessions
<1>2. ASSUME NEW r \in Runs, NEW s \in Sessions
      PROVE  /\ it(r, s) \in SessionRecord /\ Sound(it(r, s)) /\ ~it(r, s).lease
             /\ Gentle(session[r][s], it(r, s))
             /\ s > task[r].generation => it(r, s) = NoSession
  <2>1. PICK old : old = session[r][s] /\ old \in SessionRecord /\ Sound(old)
                   /\ (s > task[r].generation => old = NoSession)
    BY SessionSound DEF SessionOK, SessionsSound
  <2>2. PICK left \in BOOLEAN : left = Leftovers(old)
    BY DEF Leftovers
  <2>3. PICK new : new = it(r, s)
    OBVIOUS
  <2>4. new = [old EXCEPT !.lease = FALSE, !.secrets = FALSE, !.record = "none",
                          !.claimed = FALSE, !.disposing = {}, !.probing = FALSE,
                          !.forgotten = old.forgotten \/ left]
    BY <2>1, <2>2, <2>3
  <2>5. new \in SessionRecord /\ ~new.lease
    <3>1. PICK forgotten \in BOOLEAN : forgotten = (old.forgotten \/ left)
      OBVIOUS
    <3>2. new = [old EXCEPT !.lease = FALSE, !.secrets = FALSE, !.record = "none",
                            !.claimed = FALSE, !.disposing = {}, !.probing = FALSE,
                            !.forgotten = forgotten]
      BY <2>4, <3>1
    <3>3. PICK half : half = [old EXCEPT !.lease = FALSE, !.secrets = FALSE, !.record = "none"]
      OBVIOUS
    <3>4. half \in SessionRecord /\ ~half.lease
      <4>1. PICK bare : bare = [old EXCEPT !.lease = FALSE, !.secrets = FALSE]
        OBVIOUS
      <4>2. bare \in SessionRecord /\ ~bare.lease
        BY <2>1, <4>1 DEF SessionRecord
      <4>3. half = [bare EXCEPT !.record = "none"]
        BY <3>3, <4>1
      <4> QED BY <4>2, <4>3 DEF SessionRecord
    <3>5. new = [half EXCEPT !.claimed = FALSE, !.disposing = {}, !.probing = FALSE,
                                    !.forgotten = forgotten]
      BY <3>2, <3>3
    <3> QED BY <3>4, <3>5 DEF SessionRecord
  <2>6. Sound(new)
    BY <2>1, <2>2, <2>4 DEF SessionRecord, Sound, Leftovers
  <2>7. Gentle(old, new)
    <3>1. old = NoSession => new = NoSession
      <4>1. ASSUME old = NoSession PROVE ~(old.forgotten \/ left)
        BY <2>2, <4>1 DEF NoSession, Leftovers
      <4>2. ASSUME old = NoSession
            PROVE  new = [NoSession EXCEPT !.lease = FALSE, !.secrets = FALSE, !.record = "none",
                             !.claimed = FALSE, !.disposing = {}, !.probing = FALSE,
                             !.forgotten = FALSE]
        BY <2>4, <4>1, <4>2
      <4> QED BY <4>2 DEF NoSession
    <3>2. /\ new.ttl = old.ttl /\ new.signedIn = old.signedIn /\ new.evidence = old.evidence
          /\ new.admitted = old.admitted
          /\ new.record = "none" /\ new.disposing = {} /\ new.forgotten = (old.forgotten \/ left)
      BY <2>1, <2>4 DEF SessionRecord
    <3> QED BY <2>2, <3>1, <3>2 DEF Gentle, Keeps, Young, Covered, Taken, Leftovers
  <2>8. s > task[r].generation => new = NoSession
    BY <2>1, <2>7 DEF Gentle
  <2> QED BY <2>1, <2>3, <2>5, <2>6, <2>7, <2>8
<1> HIDE DEF it
<1>3. session' \in [Runs -> [Sessions -> SessionRecord]]
  BY <1>1, <1>2
<1>4. \A r \in Runs : \A s \in Sessions : session'[r][s] = it(r, s)
  BY <1>1
<1>5. LeasesApart'
  BY <1>2, <1>4 DEF LeasesApart
<1>6. ASSUME NEW v \in Workers, Relies(v)
      PROVE  Gentle(session[worker[v].run][worker[v].session],
                    session'[worker[v].run][worker[v].session])
  <2>1. worker[v].run \in Runs /\ worker[v].session \in Sessions
    BY <1>6, BusyFields DEF Relies, FirstSteps, At
  <2> QED BY <1>2, <1>4, <2>1
<1>7. SessionsMove({})
  BY <1>2, <1>3, <1>4, <1>5, <1>6 DEF SessionsMove, Gentle
<1>8. faults' \in 0 .. MaxFaults
  BY CostsCount DEF RestartGateway, SessionOK
<1> QED BY <1>7, <1>8, CalmWorld DEF RestartGateway

-----------------------------------------------------------------------------
(* What happens to the rows without a worker. *)

LEMMA QuietWorld ==
    ASSUME SessionOK, [Next]_vars, SessionsMove({}), \A r \in Runs : Quiet(r),
           worker' = worker, handoff' \subseteq handoff, faults' \in 0 .. MaxFaults
    PROVE  SessionOK'
<1>1. ResultsOK' /\ \A r \in Runs : Follows(r)
  BY ResultsOKNext, QueueFollows DEF SessionOK
<1>2. \A r \in Runs : RunFits(r)'
  BY <1>1, QuietlyTold
<1>3. \A r \in Runs : checkpoint'[r].state # "none" => checkpoint[r].state # "none"
  BY DEF Quiet
<1>4. handoff' \subseteq Runs
  BY DEF SessionOK, SessionTypeOK
<1> QED BY <1>1, <1>2, <1>3, <1>4, WorldStepKeeps

LEMMA RowsTyped == ASSUME SessionOK PROVE TypeOK /\ SessionTypeOK
  BY QueueOKImplies DEF SessionOK, ResultsOK

LEMMA LapseKeeps ==
    ASSUME SessionOK, NEW r \in Runs, NEW s \in Sessions, Lapse(r, s) PROVE SessionOK'
<1>1. PICK old : old = session[r][s] /\ old \in SessionRecord /\ Sound(old) /\ old.ttl = "running"
  BY SessionSound DEF Lapse
<1> DEFINE it == [old EXCEPT !.ttl = "lapsed", !.lease = FALSE, !.secrets = FALSE]
<1>2. session' = [session EXCEPT ![r][s] = it]
  <2>1. session \in [Runs -> [Sessions -> SessionRecord]]
    BY RowsTyped DEF SessionTypeOK, Sessions
  <2>2. session' = [session EXCEPT ![r][s].ttl = "lapsed", ![r][s].lease = FALSE,
                                   ![r][s].secrets = FALSE]
    BY DEF Lapse
  <2> QED BY <1>1, <2>1, <2>2
<1>3. it \in SessionRecord /\ Sound(it) /\ ~it.lease
  BY <1>1 DEF SessionRecord, Sound
<1>4. Gentle(session[r][s], it)
  BY <1>1 DEF Gentle, Keeps, Young, Covered, Taken, SessionRecord, NoSession
<1> HIDE DEF it
<1>5. SessionsMove({})
  BY <1>2, <1>3, <1>4, SessionTurns
<1>6. worker' = worker /\ handoff' \subseteq handoff /\ faults' \in 0 .. MaxFaults
  BY FaultsStand DEF Lapse
<1>7. CASE CheckpointExpires(r)
  <2>1. [Next]_vars
    BY <1>7 DEF Next
  <2>2. \A q \in Runs : Quiet(q)
    BY <1>7, TicksAreQuiet, RowsTyped
  <2> QED BY <1>5, <1>6, <2>1, <2>2, QuietWorld
<1>8. CASE UNCHANGED vars
  <2>1. \A q \in Runs : Quiet(q)
    BY <1>8, StutterIsQuiet
  <2> QED BY <1>5, <1>6, <1>8, <2>1, QuietWorld
<1> QED BY <1>7, <1>8 DEF Lapse

LEMMA QueueStepKeeps == ASSUME SessionOK, QueueStep PROVE SessionOK'
<1>1. [Next]_vars
  BY DEF QueueStep, Next
<1>2. \A r \in Runs : Quiet(r)
  BY QueueStepIsQuiet, RowsTyped
<1>3. /\ session' = session /\ worker' = worker /\ handoff' \subseteq handoff
      /\ faults' \in 0 .. MaxFaults
  BY FaultsStand DEF QueueStep
<1> QED BY <1>1, <1>2, <1>3, SessionsStand, QuietWorld

LEMMA LeaseRunsOutKeeps ==
    ASSUME SessionOK, NEW r \in Runs, LeaseRunsOut(r) PROVE SessionOK'
<1>1. [Next]_vars
  BY DEF LeaseRunsOut, Next
<1>2. \A q \in Runs : Quiet(q)
  BY TicksAreQuiet, RowsTyped DEF LeaseRunsOut
<1>3. session' = session /\ worker' = worker /\ handoff' \subseteq handoff
  BY DEF LeaseRunsOut
<1>4. faults' \in 0 .. MaxFaults
  BY RowsTyped, CostsCount DEF LeaseRunsOut
<1> QED BY <1>1, <1>2, <1>3, <1>4, SessionsStand, QuietWorld

LEMMA HandoffKeeps ==
    ASSUME SessionOK, NEW r \in Runs, AskHandoff(r) \/ DropHandoff(r) PROVE SessionOK'
<1>1. ResultsOK' /\ \A q \in Runs : Follows(q) /\ Quiet(q)
  BY QueueStands DEF AskHandoff, DropHandoff
<1>2. SessionsMove({}) /\ worker' = worker /\ faults' \in 0 .. MaxFaults
  BY SessionsStand, FaultsStand DEF AskHandoff, DropHandoff
<1>3. handoff' \subseteq Runs
  BY RowsTyped DEF AskHandoff, DropHandoff, SessionTypeOK
<1>4. ASSUME NEW q \in Runs PROVE RunFits(q)'
  <2>1. Succeeded(q)' => Succeeded(q)
    BY <1>1 DEF Quiet
  <2>2. checkpoint'[q].state # "none" => checkpoint[q].state # "none"
    BY <1>1 DEF Quiet
  <2>3. SignedIn(q)' /\ ~SignedIn(q) => checkpoint[q].state # "none" /\ AwaitedSession(q).signedIn # "no"
    <3>1. q \in handoff' /\ q \notin handoff => AskHandoff(q)
      BY DEF AskHandoff, DropHandoff
    <3>2. AskHandoff(q) => checkpoint[q].state # "none" /\ AwaitedSession(q).signedIn # "no"
      BY DEF AskHandoff
    <3> QED BY <1>1, <3>1, <3>2 DEF SignedIn, Quiet
  <2>4. Stored(q)' => Stored(q)
    BY <1>1 DEF Quiet
  <2> QED BY <1>1, <1>2, <2>1, <2>2, <2>3, <2>4, StaysTold
<1>5. \A q \in Runs : checkpoint'[q].state # "none" => checkpoint[q].state # "none"
  BY <1>1 DEF Quiet
<1> QED BY <1>1, <1>2, <1>3, <1>4, <1>5, WorldStepKeeps

\* The run resumes because the control plane heard of its sign-in.
LEMMA ResumeHandoffKeeps ==
    ASSUME SessionOK, NEW r \in Runs, ResumeHandoff(r) PROVE SessionOK'
<1>0. ResumeAnalysisAfterAuthentication(r) /\ r \in handoff
  BY DEF ResumeHandoff
<1>1. [Next]_vars
  BY <1>0 DEF Next
<1>2. ResultsOK' /\ \A q \in Runs : Follows(q)
  BY <1>1, ResultsOKNext, QueueFollows DEF SessionOK
<1>3. SessionsMove({}) /\ worker' = worker /\ faults' \in 0 .. MaxFaults
  BY SessionsStand, FaultsStand DEF ResumeHandoff
<1>4. handoff' \subseteq Runs /\ handoff' \subseteq handoff
  BY RowsTyped DEF ResumeHandoff, SessionTypeOK
<1>5. ASSUME NEW q \in Runs
      PROVE  /\ checkpoint'[q].state # "none" => checkpoint[q].state # "none"
             /\ Succeeded(q)' => Succeeded(q)
             /\ SignedIn(q)' => SignedIn(q)
             /\ Stored(q)' => Stored(q)
  <2>0. checkpoint \in [Runs -> CheckpointRecord] /\ cleanup' = cleanup /\ receipt' = receipt
        /\ checkpoint' = [checkpoint EXCEPT ![r].state = "consumed"]
    BY <1>0, RowsTyped DEF TypeOK, ResumeAnalysisAfterAuthentication
  <2>1. CASE q = r
    <3>1. checkpoint[q].state = "waiting" /\ checkpoint'[q].state = "consumed"
      BY <1>0, <2>0, <2>1 DEF ResumeAnalysisAfterAuthentication, Suspended, CheckpointRecord
    <3> QED BY <1>0, <2>0, <2>1, <3>1 DEF Succeeded, SignedIn, Stored
  <2>2. CASE q # r
    BY <1>4, <2>0, <2>2 DEF Succeeded, SignedIn, Stored
  <2> QED BY <2>1, <2>2
<1>6. ASSUME NEW q \in Runs PROVE RunFits(q)'
  BY <1>2, <1>3, <1>5, StaysTold
<1> QED BY <1>2, <1>3, <1>4, <1>5, <1>6, WorldStepKeeps

-----------------------------------------------------------------------------
(* The writes of a worker are writes the queue offers. *)

LEMMA WorkerWrites ==
    ASSUME SessionOK, NEW w \in Workers, NEW r \in Runs, r = worker[w].run,
           NEW g \in Attempts, g = worker[w].gen,
           \/ WaitAnalysisForAuthentication(w, r, g)
           \/ \E hash \in Results :
                 CheckpointAnalysisResult(w, r, g, hash) \/ CompleteAnalysis(w, r, g, hash)
           \/ \E retryable \in BOOLEAN :
                 FailAnalysis(w, r, g, retryable) \/ RetryCleanup(w, r, g, retryable)
           \/ CompleteCleanup(w, r, g)
    PROVE  [Next]_vars
  BY DEF Next

\* What an authenticated run completes with has been stored on its receipt.
LEMMA CompletionWrites ==
    ASSUME SessionOK, NEW w \in Workers, NEW r \in Runs, NEW g \in Attempts,
           CompleteCheckpointedAnalysis(w, r, g, receipt[r].hash)
    PROVE  [Next]_vars
<1>1. RunTyped(r) /\ RunAgrees(r) /\ RunReceipted(r)
  BY DEF SessionOK, ResultsOK, QueueOK, RunOK, ResultIsReceipted
<1>2. job[r].status = "running" /\ result[r] # None
  BY DEF CompleteCheckpointedAnalysis, HoldsLease, Live
<1>3. receipt[r].hash # None
  BY <1>1, <1>2 DEF RunAgrees, RunReceipted
<1>4. receipt[r].hash \in Results
  BY <1>1, <1>3 DEF RunTyped, ReceiptRecord
<1> QED BY <1>4 DEF Next

LEMMA BusyWorker ==
    ASSUME SessionOK, NEW w \in Workers, ~At(w, "idle")
    PROVE  /\ worker[w].run \in Runs /\ worker[w].gen \in Attempts
           /\ worker[w].session \in Sessions
  BY BusyFields, WorkerFields, RowsTyped

LEMMA QuietActs ==
    ASSUME SessionOK, [Next]_vars, \A r \in Runs : Quiet(r), NEW w \in Workers,
           UNCHANGED gateway, faults' \in 0 .. MaxFaults,
           \/ Rests(w)
           \/ \E step \in Steps \ {"idle"} :
                 Onward(w, step) /\ MayFollow(worker[w].at, step) /\ Wants(worker'[w], Of(w))
    PROVE  SessionOK'
<1>1. ResultsOK' /\ \A r \in Runs : Follows(r)
  BY ResultsOKNext, QueueFollows DEF SessionOK
<1>2. session' = session /\ handoff' \subseteq handoff
  BY DEF gateway
<1>3. SessionsMove({w})
  BY <1>2, SessionsStand
<1>4. CASE Rests(w)
  BY <1>1, <1>2, <1>3, <1>4, RestsFit, WorkerStepKeeps
<1>5. ASSUME NEW step \in Steps \ {"idle"}, Onward(w, step), MayFollow(worker[w].at, step),
             Wants(worker'[w], Of(w))
      PROVE  SessionOK'
  <2>1. Wants(worker'[w], session'[worker[w].run][worker[w].session])
    BY <1>2, <1>5 DEF Of
  <2>2. Advances(w) /\ WorkerFits(w)'
    BY <1>1, <1>5, <2>1, GoesOn
  <2> QED BY <1>1, <1>2, <1>3, <2>2, WorkerStepKeeps
<1> QED BY <1>4, <1>5

\* What a suspended run is told to await is the session its worker closes.
LEMMA AwaitsOwn ==
    ASSUME SessionOK, NEW w \in Workers, ~At(w, "idle"),
           worker[w].session # worker[w].gen \/ worker[w].at \in CleanupSteps
    PROVE  /\ checkpoint[worker[w].run].state # "none"
           /\ AwaitedSession(worker[w].run) = Of(w)
  BY BusyFields DEF Fits, Suspends, AwaitedSession, Of

\* A step of a worker that may say of a run that it succeeded, or that its result
\* is stored, and then has what that takes.
LEMMA DeedKeeps ==
    ASSUME SessionOK, [Next]_vars, NEW w \in Workers, Advances(w), WorkerFits(w)',
           UNCHANGED gateway, faults' \in 0 .. MaxFaults,
           \A q \in Runs :
              /\ checkpoint'[q].state # "none" => checkpoint[q].state # "none"
              /\ SignedIn(q)' => SignedIn(q)
              /\ Succeeded(q)' /\ ~Succeeded(q) =>
                    checkpoint[q].state # "none" /\ AwaitedSession(q).evidence # "none"
              /\ Stored(q)' /\ ~Stored(q) =>
                    checkpoint[q].state # "none" /\ AwaitedSession(q).admitted = "fresh"
    PROVE  SessionOK'
<1>1. ResultsOK' /\ \A q \in Runs : Follows(q)
  BY ResultsOKNext, QueueFollows DEF SessionOK
<1>2. SessionsMove({w}) /\ handoff' \subseteq Runs
  BY SessionsStand, RowsTyped DEF gateway, SessionTypeOK
<1>3. ASSUME NEW v \in Workers \ {w} PROVE WorkerFits(v)'
  <2>1. worker[v].at \in FirstSteps => worker[v].run \in Runs
    BY BusyFields DEF FirstSteps, At
  <2>2. worker'[v] = worker[v]
    BY DEF Advances
  <2>3. worker[v].at \in FirstSteps /\ Suspends(worker[v].run, worker[v].session)'
        => Suspends(worker[v].run, worker[v].session)
    BY <1>1, <2>1, <2>2 DEF Suspends, Follows
  <2> QED BY <1>1, <1>2, <2>2, <2>3, StaysFit
<1>4. \A v \in Workers : WorkerFits(v)'
  BY <1>3
<1>5. ASSUME NEW q \in Runs PROVE RunFits(q)'
  BY <1>1, <1>2, StaysTold
<1>6. AttemptsApart' /\ worker' \in [Workers -> WorkerRecord]
  BY ApartKept DEF Advances
<1> QED BY <1>1, <1>2, <1>4, <1>5, <1>6, StepKeeps

\* What is stored was found by a drive that the gateway admitted.
LEMMA StoreResultKeeps ==
    ASSUME SessionOK, NEW w \in Workers, NEW hash \in Results, NEW heard \in BOOLEAN,
           StoreResult(w, hash, heard)
    PROVE  SessionOK' /\ [Next]_vars
<1>0. worker[w].at = "storing" /\ ~At(w, "idle") /\ SessionTypeOK /\ TypeOK
  BY RowsTyped DEF StoreResult, At
<1>1. PICK r \in Runs : r = worker[w].run
  BY <1>0, BusyWorker
<1>2. PICK g \in Attempts : g = worker[w].gen
  BY <1>0, BusyWorker
<1>3. CheckpointAnalysisResult(w, r, g, hash)
  BY <1>1, <1>2 DEF StoreResult
<1>4. [Next]_vars
  BY <1>1, <1>2, <1>3, WorkerWrites
<1>5. \A q \in Runs : Follows(q)
  BY <1>4, QueueFollows DEF SessionOK
<1>6. UNCHANGED gateway /\ faults' \in 0 .. MaxFaults
  BY <1>0, CostsCount DEF StoreResult
<1>7. checkpoint[r].state # "none" /\ AwaitedSession(r).admitted = "fresh"
  <2>1. Of(w).admitted = "fresh"
    BY <1>0, OwnSession DEF Wants
  <2>2. worker[w].session # worker[w].gen
    BY <1>0, BusyFields DEF Fits, SecondSteps
  <2> QED BY <1>0, <1>1, <2>1, <2>2, AwaitsOwn
<1>8. Advances(w) /\ WorkerFits(w)'
  <2>1. CASE Rests(w)
    BY <2>1, RestsFit
  <2>2. CASE Goes(w, "finalizing")
    <3>1. Onward(w, "finalizing") /\ "finalizing" \in Steps \ {"idle"}
      BY <1>0, <2>2, GoesRow DEF Steps, DisposalCalls
    <3>2. MayFollow(worker[w].at, "finalizing") /\ "finalizing" \notin FirstSteps
      BY <1>0 DEF MayFollow, FirstSteps, SecondSteps, CleanupSteps
    <3>3. Wants(worker'[w], session'[worker[w].run][worker[w].session])
      BY <3>1 DEF Onward, Wants
    <3> QED BY <1>5, <3>1, <3>2, <3>3, GoesOn
  <2> QED BY <2>1, <2>2 DEF StoreResult
<1>9. ASSUME NEW q \in Runs
      PROVE  /\ checkpoint'[q].state # "none" => checkpoint[q].state # "none"
             /\ SignedIn(q)' => SignedIn(q)
             /\ Succeeded(q)' => Succeeded(q)
             /\ Stored(q)' /\ ~Stored(q) => q = r
  <2>1. /\ checkpoint' = checkpoint /\ cleanup' = cleanup /\ handoff' = handoff
        /\ receipt' = [receipt EXCEPT ![r].hash = hash,
                                      ![r].stored = [by |-> w, generation |-> g]]
    BY <1>3, <1>6 DEF CheckpointAnalysisResult, gateway
  <2>2. q # r => receipt'[q] = receipt[q]
    BY <1>0, <2>1 DEF TypeOK
  <2> QED BY <2>1, <2>2 DEF SignedIn, Succeeded, Stored
<1> QED BY <1>4, <1>6, <1>7, <1>8, <1>9, DeedKeeps

LEMMA FinishVisitKeeps ==
    ASSUME SessionOK, NEW w \in Workers, NEW hash \in Results, NEW heard \in BOOLEAN,
           FinishVisit(w, hash, heard)
    PROVE  SessionOK' /\ [Next]_vars
<1>0. worker[w].at = "finishing" /\ ~At(w, "idle") /\ SessionTypeOK /\ TypeOK
  BY RowsTyped DEF FinishVisit, At
<1>1. PICK r \in Runs : r = worker[w].run
  BY <1>0, BusyWorker
<1>2. PICK g \in Attempts : g = worker[w].gen
  BY <1>0, BusyWorker
<1>3. CompleteAnalysis(w, r, g, hash)
  BY <1>1, <1>2 DEF FinishVisit
<1>4. [Next]_vars
  BY <1>1, <1>2, <1>3, WorkerWrites
<1>5. \A q \in Runs : Quiet(q)
  BY <1>0, <1>3, WorkersAreQuiet
<1>6. UNCHANGED gateway /\ faults' \in 0 .. MaxFaults
  BY <1>0, CostsCount DEF FinishVisit
<1>7. \/ Rests(w)
      \/ Onward(w, "failing") /\ "failing" \in Steps \ {"idle"}
  BY <1>0, GoesWithRow DEF FinishVisit, Steps, Failures
<1>8. Onward(w, "failing") => MayFollow(worker[w].at, "failing") /\ Wants(worker'[w], Of(w))
  BY <1>0 DEF MayFollow, FirstSteps, SecondSteps, CleanupSteps, Onward, Wants
<1> QED BY <1>4, <1>5, <1>6, <1>7, <1>8, QuietActs

LEMMA FailKeeps == ASSUME SessionOK, NEW w \in Workers, Fail(w) PROVE SessionOK' /\ [Next]_vars
<1>0. ~At(w, "idle") /\ TypeOK /\ Rests(w)
  BY RowsTyped DEF Fail, At
<1>1. PICK r \in Runs : r = worker[w].run
  BY <1>0, BusyWorker
<1>2. PICK g \in Attempts : g = worker[w].gen
  BY <1>0, BusyWorker
<1>3. PICK retryable \in BOOLEAN : FailAnalysis(w, r, g, retryable)
  BY <1>1, <1>2 DEF Fail
<1>4. [Next]_vars
  BY <1>1, <1>2, <1>3, WorkerWrites
<1>5. \A q \in Runs : Quiet(q)
  BY <1>0, <1>3, WorkersAreQuiet
<1>6. UNCHANGED gateway /\ faults' \in 0 .. MaxFaults
  BY FaultsStand DEF Fail
<1> QED BY <1>0, <1>4, <1>5, <1>6, QuietActs

LEMMA FinishAuthenticatedKeeps ==
    ASSUME SessionOK, NEW w \in Workers, FinishAuthenticated(w) PROVE SessionOK' /\ [Next]_vars
<1>0. /\ worker[w].at = "finishing" /\ ~At(w, "idle") /\ TypeOK /\ Rests(w)
      /\ worker[w].session # worker[w].gen /\ UNCHANGED <<gateway, faults>>
  BY RowsTyped DEF FinishAuthenticated, At, Authenticated
<1>1. PICK r \in Runs : r = worker[w].run
  BY <1>0, BusyWorker
<1>2. PICK g \in Attempts : g = worker[w].gen
  BY <1>0, BusyWorker
<1>3. CompleteCheckpointedAnalysis(w, r, g, receipt[r].hash)
  BY <1>1, <1>2 DEF FinishAuthenticated
<1>4. [Next]_vars
  BY <1>3, CompletionWrites
<1>5. checkpoint[r].state # "none" /\ AwaitedSession(r).evidence # "none"
  <2>1. Of(w).evidence # "none"
    BY <1>0, OwnSession DEF Wants
  <2> QED BY <1>0, <1>1, <2>1, AwaitsOwn
<1>6. ASSUME NEW q \in Runs
      PROVE  /\ checkpoint'[q].state # "none" => checkpoint[q].state # "none"
             /\ SignedIn(q)' => SignedIn(q)
             /\ Succeeded(q)' /\ ~Succeeded(q) => q = r
             /\ Stored(q)' => Stored(q)
  <2>1. /\ checkpoint[r].state = "consumed" /\ handoff' = handoff
        /\ checkpoint' = [checkpoint EXCEPT ![r].state = "completed"]
        /\ cleanup' = [cleanup EXCEPT ![r] = [NoCleanup EXCEPT !.status = "succeeded"]]
    BY <1>0, <1>3 DEF CompleteCheckpointedAnalysis, gateway
  <2>2. receipt'[q].hash = receipt[q].hash
    <3>1. receipt \in [Runs -> ReceiptRecord]
      BY <1>0 DEF TypeOK
    <3>2. receipt' = [receipt EXCEPT ![r].completed = [by |-> w, generation |-> g],
                                     ![r].restartVerified = CompletedElsewhere(r, w),
                                     ![r].disposed = TRUE]
      BY <1>3 DEF CompleteCheckpointedAnalysis
    <3> QED BY <3>1, <3>2 DEF ReceiptRecord
  <2>3. CASE q = r
    BY <2>1, <2>2, <2>3 DEF SignedIn, Stored
  <2>4. CASE q # r
    <3>1. checkpoint'[q] = checkpoint[q] /\ cleanup'[q] = cleanup[q]
      BY <1>0, <2>1, <2>4 DEF TypeOK
    <3> QED BY <2>1, <2>2, <3>1 DEF SignedIn, Succeeded, Stored
  <2> QED BY <2>3, <2>4
<1>7. Advances(w) /\ WorkerFits(w)' /\ UNCHANGED gateway /\ faults' \in 0 .. MaxFaults
  BY <1>0, RestsFit, FaultsStand
<1> QED BY <1>4, <1>5, <1>6, <1>7, DeedKeeps

LEMMA CloseCleanupKeeps ==
    ASSUME SessionOK, NEW w \in Workers, CloseCleanup(w) PROVE SessionOK' /\ [Next]_vars
<1>0. /\ worker[w].at = "closing" /\ ~At(w, "idle") /\ TypeOK /\ Rests(w)
      /\ UNCHANGED <<gateway, faults>>
  BY RowsTyped DEF CloseCleanup, At
<1>1. PICK r \in Runs : r = worker[w].run
  BY <1>0, BusyWorker
<1>2. PICK g \in Attempts : g = worker[w].gen
  BY <1>0, BusyWorker
<1>3. ASSUME NEW retryable \in BOOLEAN, RetryCleanup(w, r, g, retryable)
      PROVE  SessionOK' /\ [Next]_vars
  <2>1. [Next]_vars
    BY <1>1, <1>2, <1>3, WorkerWrites
  <2>2. \A q \in Runs : Quiet(q)
    BY <1>0, <1>3, WorkersAreQuiet
  <2>3. UNCHANGED gateway /\ faults' \in 0 .. MaxFaults
    BY <1>0, FaultsStand
  <2> QED BY <1>0, <2>1, <2>2, <2>3, QuietActs
<1>4. ASSUME worker[w].outcome = "result", CompleteCleanup(w, r, g)
      PROVE  SessionOK' /\ [Next]_vars
  <2>1. [Next]_vars
    BY <1>1, <1>2, <1>4, WorkerWrites
  <2>2. checkpoint[r].state # "none" /\ AwaitedSession(r).evidence # "none"
    <3>1. Of(w).evidence # "none"
      BY <1>0, <1>4, OwnSession DEF Wants
    <3> QED BY <1>0, <1>1, <3>1, AwaitsOwn DEF CleanupSteps
  <2>3. ASSUME NEW q \in Runs
        PROVE  /\ checkpoint'[q].state # "none" => checkpoint[q].state # "none"
               /\ SignedIn(q)' => SignedIn(q)
               /\ Succeeded(q)' /\ ~Succeeded(q) => q = r
               /\ Stored(q)' => Stored(q)
    <3>1. /\ checkpoint' = checkpoint /\ handoff' = handoff
          /\ cleanup' = [cleanup EXCEPT ![r] = Released(cleanup[r], "succeeded")]
      BY <1>0, <1>4 DEF CompleteCleanup, gateway
    <3>2. q # r => cleanup'[q] = cleanup[q]
      BY <3>1, <1>0 DEF TypeOK
    <3>3. receipt'[q].hash = receipt[q].hash
      <4>1. PICK disposed : receipt' = [receipt EXCEPT ![r].disposed = disposed]
        BY <1>4 DEF CompleteCleanup
      <4> QED BY <1>0, <4>1 DEF TypeOK, ReceiptRecord
    <3> QED BY <3>1, <3>2, <3>3 DEF SignedIn, Succeeded, Stored
  <2>4. Advances(w) /\ WorkerFits(w)' /\ UNCHANGED gateway /\ faults' \in 0 .. MaxFaults
    BY <1>0, RestsFit, FaultsStand
  <2> QED BY <2>1, <2>2, <2>3, <2>4, DeedKeeps
<1>5. \/ worker[w].outcome = "result" /\ CompleteCleanup(w, r, g)
      \/ \E retryable \in BOOLEAN : RetryCleanup(w, r, g, retryable)
  BY <1>1, <1>2 DEF CloseCleanup
<1> QED BY <1>3, <1>4, <1>5

-----------------------------------------------------------------------------
(* The claims of a worker. *)

\* A generation that is only now handed out is nobody's yet.
LEMMA TakesRow ==
    ASSUME SessionOK, NEW w \in Workers, NEW row \in WorkerRecord,
           worker' = [worker EXCEPT ![w] = row], Attempting(w)' =>
              \A v \in Workers \ {w} : Attempting(v) /\ worker[v].run = row.run
                                       => worker[v].gen # row.gen
    PROVE  /\ worker' \in [Workers -> WorkerRecord] /\ worker'[w] = row
           /\ \A v \in Workers \ {w} : worker'[v] = worker[v]
           /\ AttemptsApart'
<1>1. /\ worker' \in [Workers -> WorkerRecord] /\ worker'[w] = row
      /\ \A v \in Workers \ {w} : worker'[v] = worker[v]
  BY RowsTyped, OneWorker
<1>2. AttemptsApart
  BY DEF SessionOK
<1>3. AttemptsApart'
  <2> SUFFICES ASSUME NEW u \in Workers, NEW v \in Workers, Attempting(u)', Attempting(v)',
                      worker'[u].run = worker'[v].run, worker'[u].gen = worker'[v].gen, u # v
               PROVE  FALSE
    BY DEF AttemptsApart
  <2>1. \A x \in Workers \ {w} : Attempting(x)' => Attempting(x)
    BY <1>1 DEF Attempting
  <2>2. CASE u = w
    BY <1>1, <2>1, <2>2
  <2>3. CASE v = w
    BY <1>1, <2>1, <2>3
  <2>4. CASE u # w /\ v # w
    BY <1>1, <1>2, <2>1, <2>4 DEF AttemptsApart
  <2> QED BY <2>2, <2>3, <2>4
<1> QED BY <1>1, <1>3

\* A quiet step in which the worker takes up what the claim gave it.
LEMMA TakesQuietly ==
    ASSUME SessionOK, [Next]_vars, \A r \in Runs : Quiet(r), NEW w \in Workers,
           UNCHANGED <<gateway, faults>>, NEW row \in WorkerRecord,
           worker' = [worker EXCEPT ![w] = row],
           row.at # "idle" => Fits(row)',
           row.at \notin CleanupSteps \cup {"idle"} => row.gen > task[row.run].generation
    PROVE  SessionOK'
<1>1. ResultsOK' /\ \A q \in Runs : Follows(q)
  BY ResultsOKNext, QueueFollows DEF SessionOK
<1>2. /\ SessionsMove({w}) /\ handoff' \subseteq Runs /\ faults' \in 0 .. MaxFaults
      /\ handoff' = handoff
  BY SessionsStand, FaultsStand, RowsTyped DEF gateway, SessionTypeOK
<1>3. ASSUME row.at \notin CleanupSteps \cup {"idle"}, NEW v \in Workers, Attempting(v),
             worker[v].run = row.run
      PROVE  worker[v].gen # row.gen
  <2>1. worker[v].gen <= task[row.run].generation /\ row.run \in Runs
    BY <1>3, BusyFields DEF Attempting, At, Fits
  <2>2. worker[v].gen \in Nat /\ task[row.run].generation \in Nat
    BY <1>1, <2>1, WorkerFields, RowsTyped DEF Follows
  <2> QED BY <1>3, <2>1, <2>2
<1>4. worker'[w] = row
  BY RowsTyped, OneWorker
<1>5. /\ worker' \in [Workers -> WorkerRecord] /\ AttemptsApart'
      /\ \A v \in Workers \ {w} : worker'[v] = worker[v]
  BY <1>3, <1>4, TakesRow DEF Attempting
<1>6. ASSUME NEW v \in Workers \ {w} PROVE WorkerFits(v)'
  <2>1. worker[v].at \in FirstSteps => worker[v].run \in Runs
    BY BusyFields DEF FirstSteps, At
  <2>2. worker'[v] = worker[v]
    BY <1>5
  <2>3. worker[v].at \in FirstSteps /\ Suspends(worker[v].run, worker[v].session)'
        => Suspends(worker[v].run, worker[v].session)
    BY <1>1, <2>1, <2>2 DEF Suspends, Follows, Quiet
  <2> QED BY <1>1, <1>2, <2>2, <2>3, StaysFit
<1>7. WorkerFits(w)'
  BY <1>4 DEF WorkerFits, At
<1>8. ASSUME NEW q \in Runs PROVE RunFits(q)'
  BY <1>1, <1>2, QuietlyTold
<1> QED BY <1>1, <1>2, <1>5, <1>6, <1>7, <1>8, StepKeeps

LEMMA TakeCleanupKeeps ==
    ASSUME SessionOK, NEW w \in Workers, NEW claimed \in Picks, TakeCleanup(w, claimed)
    PROVE  SessionOK' /\ [Next]_vars
<1>0. TypeOK /\ UNCHANGED <<gateway, faults>> /\ ClaimCleanup(w, claimed)
  BY RowsTyped DEF TakeCleanup
<1>1. [Next]_vars
  BY <1>0 DEF Next
<1>2. \A q \in Runs : Quiet(q)
  <2>1. ASSUME NEW q \in Runs PROVE Quiet(q)
    <3>1. 0 \in Attempts
      BY BoundsAssumption DEF Attempts
    <3> QED BY <1>0, <3>1, WorkersAreQuiet
  <2> QED BY <2>1
<1>3. CASE claimed = {}
  <2>1. worker' = [worker EXCEPT ![w] = Idle]
    BY <1>3 DEF TakeCleanup
  <2> QED BY <1>0, <1>1, <1>2, <2>1, IdleTyped, TakesQuietly
<1>4. CASE claimed # {}
  <2>1. PICK r \in Runs : claimed = {r}
    BY <1>4 DEF Picks
  <2>2. PICK s : s = Suspension(r)
    OBVIOUS
  <2>0. PICK row : row = [at |-> "cleaning", run |-> r, gen |-> cleanup[r].attempts + 1,
                          session |-> s, outcome |-> "none"]
    OBVIOUS
  <2>3. worker' = [worker EXCEPT ![w] = row]
    <3>1. (CHOOSE q \in claimed : TRUE) = r
      BY <2>1
    <3> QED BY <1>4, <2>0, <2>2, <3>1 DEF TakeCleanup
  <2>4. checkpoint[r].state # "none" /\ cleanup[r].attempts < MaxAttempts
    BY <1>0, <2>1 DEF ClaimCleanup, CleanupClaimable, OwingState
  <2>5. s \in Sessions
    BY <2>2, <2>4 DEF SessionOK, RunFits
  <2>6. row \in WorkerRecord /\ row.at = "cleaning" /\ row.run = r /\ row.session = s
    <3>1. cleanup[r].attempts \in Attempts
      BY <1>0 DEF TypeOK, CleanupRecord
    <3>2. cleanup[r].attempts + 1 \in Attempts
      BY <2>4, <3>1, AttemptsAreNumbers DEF Attempts
    <3>3. s \in Attempts /\ "cleaning" \in Steps
      BY <2>5, AttemptsAreNumbers DEF Steps, DisposalCalls
    <3> QED BY <2>0, <3>2, <3>3 DEF WorkerRecord
  <2>7. Suspends(r, s)'
    <3>1. Follows(r)
      BY <1>1, QueueFollows DEF SessionOK
    <3> QED BY <2>2, <2>4, <3>1 DEF Follows, Suspends
  <2>8. Fits(row)'
    BY <2>5, <2>6, <2>7 DEF Fits, Wants, FirstSteps, SecondSteps, CleanupSteps
  <2>9. row.at \in CleanupSteps
    BY <2>6 DEF CleanupSteps
  <2> QED BY <1>0, <1>1, <1>2, <2>3, <2>6, <2>8, <2>9, TakesQuietly
<1> QED BY <1>1, <1>3, <1>4

\* A new attempt opens a session that is not there yet, or takes up the one
\* that an earlier attempt suspended.
LEMMA AssignmentFits ==
    ASSUME SessionOK, [Next]_vars, \A q \in Runs : Quiet(q), session' = session,
           NEW r \in Runs, NEW g \in Attempts, task[r].generation < g,
           g <= task'[r].generation, NEW row, row = Assignment(r, g)
    PROVE  row \in WorkerRecord /\ Fits(row)' /\ row.gen = g /\ row.run = r
<1>1. Follows(r) /\ Quiet(r) /\ RunFits(r) /\ RunOK(r)
  BY QueueFollows DEF SessionOK, ResultsOK, QueueOK
<1>2. g \in Sessions
  BY <1>1, AttemptsAreNumbers DEF Follows, Attempts, Sessions
<1>3. CASE checkpoint[r].state = "none"
  <2>1. row = [at |-> "leasing", run |-> r, gen |-> g, session |-> g, outcome |-> "none"]
    BY <1>3 DEF Assignment
  <2>2. ~Suspends(r, g)'
    BY <1>1, <1>3 DEF Quiet, Suspends
  <2>3. session'[r][g] = NoSession
    <3>1. g > task[r].generation
      BY <1>1, <1>2, AttemptsAreNumbers DEF Follows, Sessions
    <3> QED BY <1>2, <3>1 DEF SessionOK, SessionsSound
  <2>4. row \in WorkerRecord
    BY <2>1 DEF WorkerRecord, Steps
  <2>5. row.at = "leasing" /\ row.run = r /\ row.gen = g /\ row.session = g
    BY <2>1
  <2>6. Fits(row)'
    BY <1>2, <2>2, <2>3, <2>5 DEF Fits, Wants, FirstSteps, SecondSteps, CleanupSteps
  <2> QED BY <2>4, <2>5, <2>6
<1>4. CASE checkpoint[r].state # "none"
  <2>1. PICK s \in Sessions : s = Suspension(r)
    BY <1>1, <1>4 DEF RunFits
  <2>2. s # g
    <3>1. s <= task[r].generation
      BY <1>1, <2>1 DEF RunOK, DeedsBounded, Suspension
    <3>2. s \in Nat /\ g \in Nat /\ task[r].generation \in Nat
      BY <1>1, AttemptsAreNumbers DEF Follows, Sessions
    <3> QED BY <3>1, <3>2
  <2>3. PICK step \in {"resuming", "finalizing"}, outcome \in {"none", "result"} :
           row = [at |-> step, run |-> r, gen |-> g, session |-> s, outcome |-> outcome]
    BY <1>4, <2>1 DEF Assignment
  <2>4. row \in WorkerRecord
    <3>1. step \in Steps /\ s \in Attempts /\ outcome \in {"none", "result"} \cup Failures
      BY AttemptsAreNumbers DEF Steps, DisposalCalls
    <3> QED BY <2>3, <3>1 DEF WorkerRecord
  <2>5. row.at = step /\ row.run = r /\ row.gen = g /\ row.session = s
    BY <2>3
  <2>6. Suspends(r, s)'
    BY <1>1, <1>4, <2>1 DEF Follows, Suspends
  <2>7. Fits(row)'
    BY <2>2, <2>5, <2>6 DEF Fits, Wants, FirstSteps, SecondSteps, CleanupSteps
  <2> QED BY <2>4, <2>5, <2>7
<1> QED BY <1>3, <1>4

LEMMA TakeAnalysisKeeps ==
    ASSUME SessionOK, NEW w \in Workers, NEW swept \in SUBSET {r \in Runs : Exhausted(r)},
           NEW claimed \in Picks, TakeAnalysis(w, swept, claimed)
    PROVE  SessionOK' /\ [Next]_vars
<1>0. TypeOK /\ UNCHANGED <<gateway, faults>> /\ ClaimAnalysis(w, swept, claimed)
  BY RowsTyped DEF TakeAnalysis
<1>1. [Next]_vars
  BY <1>0 DEF Next
<1>2. \A q \in Runs : Quiet(q)
  <2>1. ASSUME NEW q \in Runs PROVE Quiet(q)
    <3>1. 0 \in Attempts
      BY BoundsAssumption DEF Attempts
    <3> QED BY <1>0, <3>1, WorkersAreQuiet
  <2> QED BY <2>1
<1>3. CASE claimed = {}
  <2>1. worker' = [worker EXCEPT ![w] = Idle]
    BY <1>3 DEF TakeAnalysis
  <2> QED BY <1>0, <1>1, <1>2, <2>1, IdleTyped, TakesQuietly
<1>4. CASE claimed # {}
  <2>1. PICK r \in Runs : claimed = {r}
    BY <1>4 DEF Picks
  <2>2. PICK g : g = task[r].generation + 1
    OBVIOUS
  <2>3. PICK row : row = Assignment(r, g)
    OBVIOUS
  <2>4. worker' = [worker EXCEPT ![w] = row]
    <3>1. (CHOOSE q \in claimed : TRUE) = r
      BY <2>1
    <3> QED BY <1>4, <2>2, <2>3, <3>1 DEF TakeAnalysis
  <2>5. job[r].attempts < MaxAttempts /\ r \notin swept
    <3>1. job[r].attempts < MaxAttempts
      BY <1>0, <2>1 DEF ClaimAnalysis, Claimable
    <3>2. job[r].attempts \in Nat
      BY <1>0, AttemptsAreNumbers DEF TypeOK, JobRecord
    <3> QED BY <3>1, <3>2, AttemptsAreNumbers DEF Exhausted
  <2>6. task[r].generation = job[r].attempts /\ task[r].generation \in Nat
    BY <1>0, QueueOKImplies, AttemptsAreNumbers
    DEF SessionOK, ResultsOK, RowsAgree, RunAgrees, TypeOK, TaskRecord
  <2>7. g \in Attempts /\ task[r].generation < g
    BY <2>2, <2>5, <2>6, AttemptsAreNumbers DEF Attempts
  <2>8. task'[r].generation = g
    BY <1>0, <2>1, <2>2, <2>5 DEF ClaimAnalysis
  <2>9. g <= task'[r].generation
    BY <2>7, <2>8, AttemptsAreNumbers
  <2>10. session' = session
    BY <1>0 DEF gateway
  <2>11. row \in WorkerRecord /\ Fits(row)' /\ row.gen = g /\ row.run = r
    BY <1>1, <1>2, <2>3, <2>7, <2>9, <2>10, AssignmentFits
  <2>12. row.gen > task[row.run].generation
    BY <2>2, <2>6, <2>11
  <2> QED BY <1>0, <1>1, <1>2, <2>4, <2>11, <2>12, TakesQuietly
<1> QED BY <1>1, <1>3, <1>4

\* The run waits: from here on its session is a suspended one, to everybody.
LEMMA WaitKeeps ==
    ASSUME SessionOK, NEW w \in Workers, NEW heard \in BOOLEAN, Wait(w, heard)
    PROVE  SessionOK' /\ [Next]_vars
<1>0. /\ worker[w].at = "suspended" /\ ~At(w, "idle") /\ TypeOK /\ SessionTypeOK
      /\ UNCHANGED gateway /\ Fits(worker[w])
  BY RowsTyped, BusyFields DEF Wait, At
<1>1. PICK r \in Runs : r = worker[w].run
  BY <1>0, BusyWorker
<1>2. PICK g \in Attempts : g = worker[w].gen
  BY <1>0, BusyWorker
<1>3. WaitAnalysisForAuthentication(w, r, g)
  BY <1>1, <1>2 DEF Wait
<1>4. [Next]_vars
  BY <1>1, <1>2, <1>3, WorkerWrites
<1>5. ResultsOK' /\ \A q \in Runs : Follows(q)
  BY <1>4, ResultsOKNext, QueueFollows DEF SessionOK
<1>6. /\ SessionsMove({w}) /\ handoff' = handoff /\ handoff' \subseteq Runs
      /\ faults' \in 0 .. MaxFaults
  BY <1>0, SessionsStand, CostsCount DEF gateway, SessionTypeOK, Wait
<1>7. g = worker[w].session /\ g \in Sessions
  BY <1>0, <1>2, BusyWorker DEF Fits, FirstSteps
<1>8. /\ checkpoint[r].state = "none" /\ cleanup' = cleanup
      /\ checkpoint'[r].state = "waiting" /\ Suspension(r)' = g
      /\ \A q \in Runs \ {r} : checkpoint'[q] = checkpoint[q]
      /\ \A q \in Runs : receipt'[q].hash = receipt[q].hash
  <2>1. receipt'[r] = [receipt[r] EXCEPT !.suspended = [by |-> w, generation |-> g]]
        /\ receipt[r] \in ReceiptRecord
    BY <1>0, <1>3 DEF WaitAnalysisForAuthentication, TypeOK
  <2>2. receipt'[r].suspended.generation = g
    BY <2>1 DEF ReceiptRecord
  <2>3. \A q \in Runs : receipt'[q].hash = receipt[q].hash
    BY <1>0, <1>3 DEF WaitAnalysisForAuthentication, TypeOK, ReceiptRecord
  <2> QED BY <1>0, <1>3, <2>2, <2>3 DEF WaitAnalysisForAuthentication, TypeOK, Suspension
<1>9. Advances(w) /\ WorkerFits(w)'
  <2>1. CASE Rests(w)
    BY <2>1, RestsFit
  <2>2. CASE GoesWith(w, "undoing", "retry")
    <3>1. "undoing" \in Steps \ {"idle"} /\ Onward(w, "undoing")
      BY <1>0, <2>2, GoesWithRow DEF Steps, DisposalCalls, Failures
    <3>2. MayFollow(worker[w].at, "undoing") /\ "undoing" \notin FirstSteps
      BY <1>0 DEF MayFollow, FirstSteps, SecondSteps, CleanupSteps
    <3>3. Wants(worker'[w], session'[worker[w].run][worker[w].session])
      BY <3>1 DEF Onward, Wants
    <3> QED BY <1>5, <3>1, <3>2, <3>3, GoesOn
  <2> QED BY <2>1, <2>2 DEF Wait
<1>10. ASSUME NEW v \in Workers \ {w} PROVE WorkerFits(v)'
  <2>1. worker'[v] = worker[v]
    BY <1>9 DEF Advances
  <2>2. ASSUME worker[v].at \in FirstSteps, Suspends(worker[v].run, worker[v].session)'
        PROVE  Suspends(worker[v].run, worker[v].session)
    <3>0. Fits(worker[v]) /\ worker[v].run \in Runs
      BY <2>2, BusyFields DEF FirstSteps, At
    <3>1. CASE worker[v].run = r
      <4>1. worker[v].session = g
        BY <1>8, <2>1, <2>2, <3>1 DEF Suspends
      <4>2. worker[v].gen = g
        BY <2>2, <3>0, <4>1 DEF Fits
      <4>3. Attempting(v) /\ Attempting(w)
        BY <1>0, <2>2 DEF Attempting, FirstSteps, CleanupSteps
      <4>4. AttemptsApart
        BY DEF SessionOK
      <4> QED BY <1>1, <1>2, <3>1, <4>2, <4>3, <4>4 DEF AttemptsApart
    <3>2. CASE worker[v].run # r
      BY <1>5, <1>8, <2>1, <2>2, <3>0, <3>2 DEF Suspends, Follows
    <3> QED BY <3>1, <3>2
  <2> QED BY <1>5, <1>6, <2>1, <2>2, StaysFit
<1>11. \A v \in Workers : WorkerFits(v)'
  BY <1>9, <1>10
<1>12. ASSUME NEW q \in Runs PROVE RunFits(q)'
  <2>1. CASE q = r
    <3>1. /\ Suspension(r)' \in Sessions /\ (Succeeded(r)' => Succeeded(r))
          /\ (SignedIn(r)' => SignedIn(r)) /\ (Stored(r)' => Stored(r))
      BY <1>6, <1>7, <1>8 DEF Succeeded, SignedIn, Stored
    <3> QED BY <1>5, <1>6, <2>1, <3>1, StaysTold
  <2>2. CASE q # r
    <3>1. Quiet(q)
      BY <1>8, <2>2 DEF Quiet, Succeeded, Stored
    <3> QED BY <1>5, <1>6, <3>1, QuietlyTold
  <2> QED BY <2>1, <2>2
<1>13. AttemptsApart' /\ worker' \in [Workers -> WorkerRecord]
  BY <1>9, ApartKept DEF Advances
<1>14. SessionOK'
  BY <1>5, <1>6, <1>11, <1>12, <1>13, StepKeeps
<1> QED BY <1>4, <1>14

-----------------------------------------------------------------------------
(* All steps. *)

LEMMA FirstVisitKeeps ==
    ASSUME SessionOK, NEW w \in Workers, FirstVisit(w) PROVE SessionOK' /\ [Next]_vars
<1>1. ASSUME NEW heard \in BOOLEAN, Wait(w, heard) PROVE SessionOK' /\ [Next]_vars
  BY <1>1, WaitKeeps
<1>2. ASSUME NEW heard \in BOOLEAN,
             ClaimLease(w, heard) \/ PutSecrets(w, heard) \/ CreateCheckpoint(w, heard)
      PROVE  SessionOK' /\ UNCHANGED vars
  BY <1>2, ClaimLeaseKeeps, PutSecretsKeeps, CreateCheckpointKeeps
  DEF ClaimLease, PutSecrets, CreateCheckpoint
<1>3. ASSUME StartSession(w) \/ \E running \in BOOLEAN, failure \in Failures :
                                   StartFails(w, running, failure)
      PROVE  SessionOK' /\ UNCHANGED vars
  BY <1>3, StartKeeps DEF StartSession, StartFails
<1>4. ASSUME Observe(w) PROVE SessionOK' /\ UNCHANGED vars
  BY <1>4, ObserveKeeps DEF Observe
<1>5. ASSUME NEW failure \in Failures,
             \/ LeaseFails(w, failure) \/ VisitFails(w, failure)
             \/ CreateFails(w, failure) \/ WaitFails(w, failure)
      PROVE  SessionOK' /\ UNCHANGED vars
  BY <1>5, FailedCalls DEF LeaseFails, VisitFails, CreateFails, WaitFails
<1>6. ASSUME NEW revoked \in BOOLEAN, NEW stops \in BOOLEAN, NEW proven \in BOOLEAN,
             NEW released \in BOOLEAN, EndSession(w, revoked, stops, proven, released)
      PROVE  SessionOK' /\ UNCHANGED vars
  BY <1>6, EndSessionKeeps DEF EndSession
<1> QED BY <1>1, <1>2, <1>3, <1>4, <1>5, <1>6 DEF FirstVisit

LEMMA SecondVisitKeeps ==
    ASSUME SessionOK, NEW w \in Workers, SecondVisit(w) PROVE SessionOK' /\ [Next]_vars
<1>1. ASSUME NEW heard \in BOOLEAN, ResumeSession(w, heard) PROVE SessionOK' /\ UNCHANGED vars
  BY <1>1, ResumeSessionKeeps DEF ResumeSession
<1>2. ASSUME NEW failure \in Failures, ResumeFails(w, failure) PROVE SessionOK' /\ UNCHANGED vars
  BY <1>2, FailedCalls DEF ResumeFails
<1>3. ASSUME Drive(w) PROVE SessionOK' /\ UNCHANGED vars
  BY <1>3, DriveKeeps DEF Drive
<1>4. ASSUME NEW hash \in Results, NEW heard \in BOOLEAN, StoreResult(w, hash, heard)
      PROVE  SessionOK' /\ [Next]_vars
  BY <1>4, StoreResultKeeps
<1> QED BY <1>1, <1>2, <1>3, <1>4 DEF SecondVisit

LEMMA DisposalKeeps ==
    ASSUME SessionOK, NEW w \in Workers, Disposal(w) PROVE SessionOK' /\ UNCHANGED vars
<1>1. ASSUME BeginDisposal(w) \/ HearDisposed(w) \/ HearNothing(w)
      PROVE  SessionOK' /\ UNCHANGED vars
  BY <1>1, BeginDisposalKeeps, HearDisposedKeeps, HearNothingKeeps
  DEF BeginDisposal, HearDisposed, HearNothing
<1>2. ASSUME NEW r \in Runs, NEW s \in 1 .. MaxAttempts, NEW stops \in BOOLEAN,
             NEW proven \in BOOLEAN, EndDisposal(w, r, s, stops, proven)
      PROVE  SessionOK' /\ UNCHANGED vars
  BY <1>2, EndDisposalKeeps DEF EndDisposal, Sessions
<1> QED BY <1>1, <1>2 DEF Disposal

LEMMA AttemptKeeps ==
    ASSUME SessionOK, NEW w \in Workers, Attempt(w) PROVE SessionOK' /\ [Next]_vars
<1>1. ASSUME NEW swept \in SUBSET {r \in Runs : Exhausted(r)}, NEW claimed \in Picks,
             TakeAnalysis(w, swept, claimed)
      PROVE  SessionOK' /\ [Next]_vars
  BY <1>1, TakeAnalysisKeeps
<1>2. ASSUME NEW claimed \in Picks, TakeCleanup(w, claimed) PROVE SessionOK' /\ [Next]_vars
  BY <1>2, TakeCleanupKeeps
<1>3. ASSUME Vanish(w) \/ FinishRefused(w) PROVE SessionOK' /\ UNCHANGED vars
  BY <1>3, VanishKeeps, FinishRefusedKeeps DEF Vanish, FinishRefused
<1>4. ASSUME FinishAuthenticated(w) \/ Fail(w) \/ CloseCleanup(w)
      PROVE  SessionOK' /\ [Next]_vars
  BY <1>4, FinishAuthenticatedKeeps, FailKeeps, CloseCleanupKeeps
<1>5. ASSUME NEW hash \in Results, NEW heard \in BOOLEAN, FinishVisit(w, hash, heard)
      PROVE  SessionOK' /\ [Next]_vars
  BY <1>5, FinishVisitKeeps
<1> QED BY <1>1, <1>2, <1>3, <1>4, <1>5 DEF Attempt

LEMMA ElsewhereKeeps ==
    ASSUME SessionOK, NEW r \in Runs, Elsewhere(r) PROVE SessionOK' /\ [Next]_vars
<1>1. ASSUME LeaseRunsOut(r) PROVE SessionOK' /\ [Next]_vars
  BY <1>1, LeaseRunsOutKeeps DEF LeaseRunsOut, Next
<1>2. ASSUME ResumeHandoff(r) PROVE SessionOK' /\ [Next]_vars
  BY <1>2, ResumeHandoffKeeps DEF ResumeHandoff, Next
<1>3. ASSUME AskHandoff(r) \/ DropHandoff(r) PROVE SessionOK' /\ UNCHANGED vars
  BY <1>3, HandoffKeeps DEF AskHandoff, DropHandoff
<1>4. ASSUME NEW s \in 1 .. MaxAttempts,
             \/ AskSignIn(r, s) \/ SignInUnseen(r, s) \/ SignalAges(r, s) \/ ForgetEvidence(r, s)
             \/ \E more \in BOOLEAN : RecordSignIn(r, s, more)
      PROVE  SessionOK' /\ UNCHANGED vars
  BY <1>4, SignalsKeep, ForgetEvidenceKeeps
  DEF AskSignIn, RecordSignIn, SignInUnseen, SignalAges, ForgetEvidence, Sessions
<1>5. ASSUME NEW s \in 1 .. MaxAttempts, Lapse(r, s) PROVE SessionOK' /\ [Next]_vars
  BY <1>5, LapseKeeps DEF Lapse, Next, Sessions
<1> QED BY <1>1, <1>2, <1>3, <1>4, <1>5 DEF Elsewhere

LEMMA SessionStep ==
    ASSUME SessionOK, [SessionNext]_sessionVars PROVE SessionOK' /\ [Next]_vars
<1>1. ASSUME QueueStep PROVE SessionOK' /\ [Next]_vars
  BY <1>1, QueueStepKeeps DEF QueueStep, Next
<1>2. ASSUME NEW w \in Workers, FirstVisit(w) \/ SecondVisit(w) \/ Disposal(w) \/ Attempt(w)
      PROVE  SessionOK' /\ [Next]_vars
  BY <1>2, FirstVisitKeeps, SecondVisitKeeps, DisposalKeeps, AttemptKeeps
<1>3. ASSUME NEW r \in Runs, Elsewhere(r) PROVE SessionOK' /\ [Next]_vars
  BY <1>3, ElsewhereKeeps
<1>4. ASSUME RestartGateway PROVE SessionOK' /\ [Next]_vars
  BY <1>4, RestartKeeps DEF RestartGateway
<1>5. CASE UNCHANGED sessionVars
  <2>1. UNCHANGED vars /\ session' = session /\ worker' = worker /\ handoff' = handoff
        /\ faults' = faults
    BY <1>5 DEF sessionVars
  <2>2. SessionOK'
    BY <2>1, SessionsStand, FaultsStand, CalmWorld
  <2> QED BY <2>1, <2>2
<1> QED BY <1>1, <1>2, <1>3, <1>4, <1>5 DEF SessionNext

\* Before the first step no session is open, and nobody works on one.
LEMMA SessionOKInit == SessionInit => SessionOK
<1> SUFFICES ASSUME SessionInit PROVE SessionOK
  OBVIOUS
<1>1. ResultsOK
  BY ResultsOKInit DEF SessionInit
<1>2. NoSession \in SessionRecord /\ Sound(NoSession) /\ ~NoSession.lease
  BY DEF NoSession, SessionRecord, Sound
<1>3. \A r \in Runs : \A s \in Sessions : session[r][s] = NoSession
  BY DEF SessionInit, Sessions
<1>4. SessionTypeOK
  BY <1>2, IdleTyped, SessionAssumption DEF SessionInit, SessionTypeOK
<1>5. \A w \in Workers : worker[w].at = "idle"
  BY IdleTyped DEF SessionInit
<1>6. AttemptsApart /\ \A w \in Workers : WorkerFits(w)
  BY <1>5 DEF AttemptsApart, Attempting, WorkerFits, At
<1>7. SessionsSound /\ LeasesApart
  BY <1>2, <1>3 DEF SessionsSound, LeasesApart
<1>8. ASSUME NEW r \in Runs PROVE RunFits(r)
  BY DEF SessionInit, Init, NoCleanup, RunFits, Succeeded, SignedIn, Stored
<1> QED BY <1>1, <1>4, <1>6, <1>7, <1>8 DEF SessionOK

LEMMA SessionAlwaysOK == SessionSpec => []SessionOK
<1>1. SessionInit => SessionOK
  BY SessionOKInit
<1>2. SessionOK /\ [SessionNext]_sessionVars => SessionOK'
  BY SessionStep
<1> QED BY <1>1, <1>2, PTL DEF SessionSpec

-----------------------------------------------------------------------------
(* The theorems. *)

\* Worker, gateway and portal write the rows of the queue only as the queue
\* offers it: what is proved of AnalysisQueue holds with all of them at work.
THEOREM SessionUsesQueue == SessionSpec => Spec
<1>1. SessionInit => Init
  BY DEF SessionInit
<1>2. SessionOK /\ [SessionNext]_sessionVars => [Next]_vars
  BY SessionStep
<1> QED BY <1>1, <1>2, SessionAlwaysOK, PTL DEF SessionSpec, Spec

\* Sessions, workers and handoffs keep their types (processProductionWorkerIteration,
\* the maps of apps/website-gateway): an attempt has one session of one run.
THEOREM SessionTypeCorrect == SessionSpec => []SessionTypeOK
<1>1. SessionOK => SessionTypeOK
  BY DEF SessionOK
<1> QED BY <1>1, SessionAlwaysOK, PTL

\* A run has at most one lease, and a browser that may still run keeps it until
\* it provably ended (the leases of apps/website-gateway, the stop and its proof
\* in withBrowserUseCloudV4Session).
THEOREM BrowsersStayLeased == SessionSpec => []BrowsersAreLeased
<1>1. SessionOK => BrowsersAreLeased
  BY DEF SessionOK, SessionsSound, LeasesApart, Sound, BrowsersAreLeased, Sessions
<1> QED BY <1>1, SessionAlwaysOK, PTL

\* An authenticated run completes, and a cleanup succeeds, only after the gateway
\* disposed of the very session the run was suspended with, whichever worker
\* heard of it and however often the gateway restarted since.
THEOREM SessionsAreClosed == SessionSpec => []ClosedBeforeSuccess
<1>1. SessionOK => ClosedBeforeSuccess
  <2> SUFFICES ASSUME SessionOK, NEW r \in Runs, Succeeded(r)
               PROVE  /\ AwaitedSession(r).evidence # "none"
                      /\ ~AwaitedSession(r).secrets /\ ~AwaitedSession(r).lease
                      /\ AwaitedSession(r).evidence = "destroyed" => AwaitedSession(r).browser = "ended"
    BY DEF ClosedBeforeSuccess, Succeeded
  <2>1. /\ checkpoint[r].state # "none" /\ Suspension(r) \in Sessions
        /\ AwaitedSession(r).evidence # "none"
    BY DEF SessionOK, RunFits
  <2>2. Sound(AwaitedSession(r))
    BY <2>1 DEF SessionOK, SessionsSound, AwaitedSession
  <2> QED BY <2>1, <2>2 DEF Sound
<1> QED BY <1>1, SessionAlwaysOK, PTL

\* A run resumes only after the gateway itself saw the sign-in, and what drives
\* the resumed session and stores its result was admitted on a signal that was
\* fresh at that moment (resumeCheckpoint), though observations are recorded late
\* and over one another, signals age, the control plane asks early and resumes
\* late, and the gateway forgets the record.
THEOREM SignInsAreSeen == SessionSpec => []ResumedWasSignedIn
<1>1. SessionOK => ResumedWasSignedIn
  <2> SUFFICES ASSUME SessionOK PROVE ResumedWasSignedIn
    OBVIOUS
  <2>1. ASSUME NEW r \in Runs, checkpoint[r].state \in {"consumed", "completed"}
        PROVE  AwaitedSession(r).signedIn # "no"
    BY <2>1 DEF SessionOK, RunFits, SignedIn
  <2>2. ASSUME NEW r \in Runs, receipt[r].hash # None
        PROVE  AwaitedSession(r).admitted = "fresh"
    BY <2>2 DEF SessionOK, RunFits, Stored
  <2>3. ASSUME NEW w \in Workers, worker[w].at \in {"driving", "storing"}
        PROVE  Of(w).admitted = "fresh"
    BY <2>3, OwnSession DEF Wants, At
  <2> QED BY <2>1, <2>2, <2>3 DEF ResumedWasSignedIn
<1> QED BY <1>1, SessionAlwaysOK, PTL

-----------------------------------------------------------------------------
(* One driver. *)

Second == {"driving", "storing"}
OneSecondDriver ==
    \A v, w \in Workers :
        /\ worker[v].at \in Second /\ worker[w].at \in Second
        /\ worker[v].run = worker[w].run /\ worker[v].session = worker[w].session
        => v = w

\* After a step of a worker that ends elsewhere than at the wheel.
OffTheWheel(w) ==
    worker'[w].at \notin Second /\ \A v \in Workers \ {w} : worker'[v] = worker[v]

LEMMA GoesOffTheWheel ==
    ASSUME SessionTypeOK, NEW w \in Workers,
           \/ Rests(w)
           \/ \E step \in Steps \ Second :
                 \/ Goes(w, step)
                 \/ \E outcome \in {"none", "result"} \cup Failures : GoesWith(w, step, outcome)
    PROVE  OffTheWheel(w)
<1>1. CASE Rests(w)
  BY <1>1, RestsRow DEF OffTheWheel, Second
<1>2. ASSUME NEW step \in Steps \ Second, Goes(w, step) PROVE OffTheWheel(w)
  BY <1>2, GoesRow DEF Onward, OffTheWheel
<1>3. ASSUME NEW step \in Steps \ Second, NEW outcome \in {"none", "result"} \cup Failures,
             GoesWith(w, step, outcome)
      PROVE  OffTheWheel(w)
  BY <1>3, GoesWithRow DEF Onward, OffTheWheel
<1> QED BY <1>1, <1>2, <1>3

\* The steps of workers: to the wheel lead only a resumption and the drive.
LEMMA WheelSteps ==
    ASSUME SessionOK, NEW w \in Workers,
           FirstVisit(w) \/ SecondVisit(w) \/ Disposal(w) \/ Attempt(w)
    PROVE  \/ worker' = worker \/ OffTheWheel(w) \/ Drive(w)
           \/ ResumeSession(w, TRUE)
<1>0. SessionTypeOK
  BY RowsTyped
<1>1. /\ Steps \ Second = {"idle", "leasing", "starting", "sealing", "observing", "ending",
                           "suspending", "suspended", "resuming", "finishing", "failing",
                           "closing", "aborting", "undoing", "finalizing", "reconciling", "cleaning"}
      /\ {"retry", "fatal", "result"} \subseteq {"none", "result"} \cup Failures
  BY DEF Steps, Second, DisposalCalls, Failures
<1>2. ASSUME FirstVisit(w) PROVE OffTheWheel(w)
  <2>1. ASSUME NEW heard \in BOOLEAN,
               \/ ClaimLease(w, heard) \/ PutSecrets(w, heard) \/ CreateCheckpoint(w, heard)
               \/ Wait(w, heard)
        PROVE  OffTheWheel(w)
    BY <1>0, <1>1, <2>1, GoesOffTheWheel DEF ClaimLease, PutSecrets, CreateCheckpoint, Wait
  <2>2. ASSUME StartSession(w) \/ Observe(w) PROVE OffTheWheel(w)
    BY <1>0, <1>1, <2>2, GoesOffTheWheel DEF StartSession, Observe
  <2>3. ASSUME NEW failure \in Failures, NEW running \in BOOLEAN,
               \/ LeaseFails(w, failure) \/ VisitFails(w, failure) \/ CreateFails(w, failure)
               \/ WaitFails(w, failure) \/ StartFails(w, running, failure)
        PROVE  OffTheWheel(w)
    BY <1>0, <1>1, <2>3, GoesOffTheWheel
    DEF LeaseFails, VisitFails, CreateFails, WaitFails, StartFails
  <2>4. ASSUME NEW revoked \in BOOLEAN, NEW stops \in BOOLEAN, NEW proven \in BOOLEAN,
               NEW released \in BOOLEAN, EndSession(w, revoked, stops, proven, released)
        PROVE  OffTheWheel(w)
    BY <1>0, <1>1, <2>4, GoesOffTheWheel DEF EndSession
  <2> QED BY <1>2, <2>1, <2>2, <2>3, <2>4 DEF FirstVisit
<1>3. ASSUME SecondVisit(w) PROVE OffTheWheel(w) \/ Drive(w) \/ ResumeSession(w, TRUE)
  <2>1. ASSUME ResumeSession(w, FALSE) PROVE OffTheWheel(w)
    BY <1>0, <1>1, <2>1, GoesOffTheWheel DEF ResumeSession
  <2>2. ASSUME NEW failure \in Failures, ResumeFails(w, failure) PROVE OffTheWheel(w)
    BY <1>0, <1>1, <2>2, GoesOffTheWheel DEF ResumeFails
  <2>3. ASSUME NEW hash \in Results, NEW heard \in BOOLEAN, StoreResult(w, hash, heard)
        PROVE  OffTheWheel(w)
    BY <1>0, <1>1, <2>3, GoesOffTheWheel DEF StoreResult
  <2> QED BY <1>3, <2>1, <2>2, <2>3 DEF SecondVisit
<1>4. ASSUME Disposal(w) PROVE worker' = worker \/ OffTheWheel(w)
  <2>1. ASSUME HearDisposed(w) PROVE OffTheWheel(w)
    BY <1>0, <1>1, <2>1, GoesOffTheWheel DEF HearDisposed
  <2>2. ASSUME HearNothing(w) PROVE OffTheWheel(w)
    <3>1. (IF Refused(w) THEN "fatal" ELSE "retry") \in {"none", "result"} \cup Failures
      BY <1>1
    <3> QED BY <1>0, <1>1, <2>2, <3>1, GoesOffTheWheel DEF HearNothing
  <2> QED BY <1>4, <2>1, <2>2 DEF Disposal, BeginDisposal, EndDisposal
<1>5. ASSUME Attempt(w) PROVE OffTheWheel(w)
  <2>1. ASSUME NEW swept \in SUBSET {r \in Runs : Exhausted(r)}, NEW claimed \in Picks,
               TakeAnalysis(w, swept, claimed)
        PROVE  OffTheWheel(w)
    <3>1. \A r, g : Assignment(r, g).at \in {"leasing", "resuming", "finalizing"}
      BY DEF Assignment
    <3>2. PICK row : worker' = [worker EXCEPT ![w] = row] /\ row.at \notin Second
      <4>1. CASE claimed = {}
        BY <2>1, <4>1, IdleTyped DEF TakeAnalysis, Second
      <4>2. CASE claimed # {}
        BY <2>1, <3>1, <4>2 DEF TakeAnalysis, Second
      <4> QED BY <4>1, <4>2
    <3> QED BY <1>0, <3>2 DEF OffTheWheel, SessionTypeOK
  <2>2. ASSUME NEW claimed \in Picks, TakeCleanup(w, claimed) PROVE OffTheWheel(w)
    <3>1. PICK row : worker' = [worker EXCEPT ![w] = row] /\ row.at \notin Second
      <4>1. CASE claimed = {}
        BY <2>2, <4>1, IdleTyped DEF TakeCleanup, Second
      <4>2. CASE claimed # {}
        <5>1. PICK r : r = CHOOSE q \in claimed : TRUE
          OBVIOUS
        <5>2. PICK row : row = [at |-> "cleaning", run |-> r, gen |-> cleanup[r].attempts + 1,
                                session |-> Suspension(r), outcome |-> "none"]
          OBVIOUS
        <5>3. worker' = [worker EXCEPT ![w] = row]
          BY <2>2, <4>2, <5>1, <5>2 DEF TakeCleanup
        <5>4. row.at \notin Second
          BY <5>2 DEF Second
        <5> QED BY <5>3, <5>4
      <4> QED BY <4>1, <4>2
    <3> QED BY <1>0, <3>1 DEF OffTheWheel, SessionTypeOK
  <2>3. ASSUME Vanish(w) \/ FinishAuthenticated(w) \/ FinishRefused(w) \/ Fail(w) \/ CloseCleanup(w)
        PROVE  OffTheWheel(w)
    BY <1>0, <1>1, <2>3, GoesOffTheWheel
    DEF Vanish, FinishAuthenticated, FinishRefused, Fail, CloseCleanup
  <2>4. ASSUME NEW hash \in Results, NEW heard \in BOOLEAN, FinishVisit(w, hash, heard)
        PROVE  OffTheWheel(w)
    BY <1>0, <1>1, <2>4, GoesOffTheWheel DEF FinishVisit
  <2> QED BY <1>5, <2>1, <2>2, <2>3, <2>4 DEF Attempt
<1> QED BY <1>2, <1>3, <1>4, <1>5

\* Whoever drives a resumed session made it Taken, and a taken one is not resumed.
LEMMA OneSecondDriverNext ==
    ASSUME SessionOK, OneSecondDriver, [SessionNext]_sessionVars
    PROVE  OneSecondDriver'
<1>1. CASE worker' = worker
  BY <1>1 DEF OneSecondDriver
<1>2. ASSUME NEW w \in Workers, OffTheWheel(w) PROVE OneSecondDriver'
  BY <1>2 DEF OffTheWheel, OneSecondDriver
<1>3. ASSUME NEW w \in Workers, Drive(w) PROVE OneSecondDriver'
  <2>1. Onward(w, "storing") /\ worker[w].at \in Second
    BY <1>3, RowsTyped, GoesWithRow DEF Drive, Steps, Second, At
  <2> QED BY <2>1 DEF Onward, OneSecondDriver, Second
<1>4. ASSUME NEW w \in Workers, ResumeSession(w, TRUE) PROVE OneSecondDriver'
  <2>1. Onward(w, "driving") /\ ~Taken(Of(w))
    BY <1>4, RowsTyped, GoesRow DEF ResumeSession, Steps, ResumableSession, Taken
  <2>2. ASSUME NEW v \in Workers, worker[v].at \in Second,
               worker[v].run = worker[w].run, worker[v].session = worker[w].session
        PROVE  FALSE
    <3>1. Taken(Of(v))
      BY <2>2, OwnSession DEF Wants, Second, At
    <3> QED BY <2>1, <2>2, <3>1 DEF Of
  <2> QED BY <2>1, <2>2 DEF Onward, OneSecondDriver
<1>5. \/ worker' = worker
      \/ \E w \in Workers : FirstVisit(w) \/ SecondVisit(w) \/ Disposal(w) \/ Attempt(w)
  <2>1. QueueStep \/ RestartGateway \/ UNCHANGED sessionVars => worker' = worker
    BY DEF QueueStep, RestartGateway, sessionVars
  <2>2. ASSUME NEW r \in Runs, Elsewhere(r) PROVE worker' = worker
    <3>1. ASSUME NEW s \in 1 .. MaxAttempts,
                 \/ AskSignIn(r, s) \/ SignInUnseen(r, s)
                 \/ \E more \in BOOLEAN : RecordSignIn(r, s, more)
                 \/ SignalAges(r, s) \/ Lapse(r, s) \/ ForgetEvidence(r, s)
          PROVE  worker' = worker
      BY <3>1 DEF AskSignIn, RecordSignIn, SignInUnseen, SignalAges, Lapse, ForgetEvidence
    <3>2. ASSUME LeaseRunsOut(r) \/ AskHandoff(r) \/ ResumeHandoff(r) \/ DropHandoff(r)
          PROVE  worker' = worker
      BY <3>2 DEF LeaseRunsOut, AskHandoff, ResumeHandoff, DropHandoff
    <3> QED BY <2>2, <3>1, <3>2 DEF Elsewhere
  <2> QED BY <2>1, <2>2 DEF SessionNext
<1> QED BY <1>1, <1>2, <1>3, <1>4, <1>5, WheelSteps

\* At most one worker drives a session, however its lease was lost and the run
\* claimed again: a first visit is driven by the attempt that opened it, and the
\* gateway gives a suspended session to one attempt (resumeCheckpoint).
THEOREM OneDriverOnly == SessionSpec => []OneDriver
<1>1. SessionInit => OneSecondDriver
  BY IdleTyped DEF SessionInit, OneSecondDriver, Second
<1>2. SessionOK /\ OneSecondDriver /\ [SessionNext]_sessionVars => OneSecondDriver'
  BY OneSecondDriverNext
<1>3. SessionOK /\ OneSecondDriver => OneDriver
  <2> SUFFICES ASSUME SessionOK, OneSecondDriver, NEW v \in Workers, NEW w \in Workers,
                      worker[v].at \in {"observing", "driving", "storing"},
                      worker[w].at \in {"observing", "driving", "storing"},
                      worker[v].run = worker[w].run, worker[v].session = worker[w].session, v # w
               PROVE  FALSE
    BY DEF OneDriver
  <2>1. Relies(v) /\ Relies(w)
    BY DEF Relies, FirstSteps
  <2>2. worker[v].at # "observing"
    BY <2>1, Alone DEF FirstSteps
  <2>3. worker[w].at # "observing"
    BY <2>1, Alone DEF FirstSteps
  <2> QED BY <2>2, <2>3 DEF OneSecondDriver, Second
<1> QED BY <1>1, <1>2, <1>3, SessionAlwaysOK, PTL DEF SessionSpec

=============================================================================
