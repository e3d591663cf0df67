------------------------ MODULE AuthenticationSession ------------------------
(***************************************************************************)
(* The browser session of a website analysis: the worker that drives it    *)
(* (apps/worker/src/runner.ts, website-live.ts, workflow.ts and            *)
(* packages/providers/src/browser-use-v4.ts), the website gateway that     *)
(* holds its lease, its secrets and its authentication checkpoint          *)
(* (apps/website-gateway), the browser provider, the portal where a person *)
(* signs in, and the rows of AnalysisQueue they all write to.              *)
(*                                                                         *)
(* A call to the gateway is one step at the gateway and its answer: heard, *)
(* lost after it took effect, or never delivered.  The disposal of a       *)
(* checkpoint and the check of a sign-in await the browser in the middle   *)
(* and look at nothing again: both are two steps.  Lease, secrets,         *)
(* browser, gateway checkpoint and database checkpoint of one session      *)
(* carry the same expiresAt: one Lapse ends them.  A heartbeat is          *)
(* the LeaseTick that does not happen.  The provider is external: a stop   *)
(* it accepted has ended the browser; what a browser does past its ttl is  *)
(* left open.  Ownership, egress policies and evidence files are left out. *)
(***************************************************************************)
EXTENDS AnalysisQueue

CONSTANT MaxFaults    \* bound: calls that fail or lose their answer, crashes, restarts

ASSUME SessionAssumption ==
    /\ MaxFaults \in Nat
    /\ WebsiteRuns = Runs      \* the other sources open no session

VARIABLES
    session,    \* by run and by the attempt that opened it
    worker,     \* what each worker process is doing
    handoff,    \* runs whose sign-in the control plane heard of and will resume
    faults      \* what went wrong so far

gateway == <<session, handoff>>
sessionVars == <<vars, session, worker, handoff, faults>>

-----------------------------------------------------------------------------
\* What a session is to the provider (browser), to the gateway (lease, secrets,
\* record, the workers whose disposal of it is running, claimed) and to the
\* person (probing while the portal observes the browser, signedIn by the age of
\* the signal it recorded).  ttl is its common expiry.  `admitted', `evidence'
\* and `forgotten' remember the signal the gateway admitted a resume on, what it
\* attested, and that a restart took it by surprise.
SessionRecord ==
    [ttl : {"unset", "running", "lapsed"}, browser : {"none", "running", "ended"},
     lease : BOOLEAN, secrets : BOOLEAN, record : {"none", "held", "retired"},
     disposing : SUBSET Workers, claimed : BOOLEAN, probing : BOOLEAN,
     signedIn : {"no", "fresh", "stale"}, admitted : {"no", "fresh", "stale"},
     evidence : {"none", "destroyed", "failed"}, forgotten : BOOLEAN]

NoSession ==
    [ttl |-> "unset", browser |-> "none", lease |-> FALSE, secrets |-> FALSE,
     record |-> "none", disposing |-> {}, claimed |-> FALSE, probing |-> FALSE,
     signedIn |-> "no", admitted |-> "no", evidence |-> "none", forgotten |-> FALSE]

DisposalCalls == {"aborting", "undoing", "finalizing", "reconciling", "cleaning"}
Steps == {"idle", "leasing", "starting", "sealing", "observing", "ending", "suspending",
          "suspended", "resuming", "driving", "storing", "finishing", "failing", "closing"}
            \cup DisposalCalls

Failures == {"retry", "fatal"}

WorkerRecord ==
    [at : Steps, run : Runs \cup {None}, gen : Attempts, session : Attempts,
     outcome : {"none", "result"} \cup Failures]

Idle == [at |-> "idle", run |-> None, gen |-> 0, session |-> 0, outcome |-> "none"]

SessionTypeOK ==
    /\ session \in [Runs -> [1 .. MaxAttempts -> SessionRecord]]
    /\ worker \in [Workers -> WorkerRecord]
    /\ handoff \subseteq Runs
    /\ faults \in 0 .. MaxFaults

SessionInit ==
    /\ Init
    /\ session = [r \in Runs |-> [s \in 1 .. MaxAttempts |-> NoSession]]
    /\ worker = [w \in Workers |-> Idle]
    /\ handoff = {}
    /\ faults = 0

-----------------------------------------------------------------------------
\* The session the worker is working on, and the steps it takes to another.
Of(w) == session[worker[w].run][worker[w].session]
Becomes(w, record) ==
    session' = [session EXCEPT ![worker[w].run][worker[w].session] = record]

At(w, step) == worker[w].at = step
Goes(w, step) == worker' = [worker EXCEPT ![w].at = step]
GoesWith(w, step, outcome) ==
    worker' = [worker EXCEPT ![w].at = step, ![w].outcome = outcome]
Rests(w) == worker' = [worker EXCEPT ![w] = Idle]

\* What is `well' costs nothing: a call that succeeds, and one refused for cause.
Costs(well) == faults' = faults + (IF well THEN 0 ELSE 1) /\ faults' <= MaxFaults

\* The session the run's checkpoint was made of.
Suspension(r) == receipt[r].suspended.generation

\* The adapter of an attempt that resumes another attempt's session.
Authenticated(w) == worker[w].session # worker[w].gen

AssignmentMiscounted(r, g) ==                                              \* mutant
    [at |-> "leasing", run |-> r, gen |-> g + 1, session |-> g, outcome |-> "none"]

\* What the task says: a first visit, a resume, or only the end of a session
\* whose result is already stored.
Assignment(r, g) ==
    IF checkpoint[r].state = "none"
    THEN [at |-> "leasing", run |-> r, gen |-> g, session |-> g, outcome |-> "none"]
    ELSE IF receipt[r].hash = None
    THEN [at |-> "resuming", run |-> r, gen |-> g, session |-> Suspension(r), outcome |-> "none"]
    ELSE [at |-> "finalizing", run |-> r, gen |-> g, session |-> Suspension(r),
          outcome |-> "result"]

\* processProductionWorkerIteration: claim an analysis ...
TakeAnalysis(w, swept, claimed) ==
    /\ At(w, "idle")
    /\ ClaimAnalysis(w, swept, claimed)
    /\ worker' = [worker EXCEPT ![w] =
          IF claimed = {} THEN Idle
          ELSE LET r == CHOOSE r \in claimed : TRUE
               IN  Assignment(r, task[r].generation + 1)]
    /\ UNCHANGED <<gateway, faults>>

\* ... or first the cleanup of an ended checkpoint.
TakeCleanup(w, claimed) ==
    /\ At(w, "idle")
    /\ ClaimCleanup(w, claimed)
    /\ worker' = [worker EXCEPT ![w] =
          IF claimed = {} THEN Idle
          ELSE LET r == CHOOSE r \in claimed : TRUE
               IN  [at |-> "cleaning", run |-> r, gen |-> cleanup[r].attempts + 1,
                    session |-> Suspension(r), outcome |-> "none"]]
    /\ UNCHANGED <<gateway, faults>>

\* A crash; also the end of an attempt whose last write was refused or never
\* answered, which is not tried again, and of one that saw a heartbeat refused:
\* it throws, a suspension it just obtained included, and leaves its session.
OwnsLease(w) ==
    IF worker[w].at \in {"cleaning", "closing"}
    THEN HoldsCleanup(w, worker[w].run, worker[w].gen)
    ELSE HoldsLease(w, worker[w].run, worker[w].gen)

Vanish(w) ==
    /\ ~At(w, "idle")
    /\ Rests(w)
    /\ Costs(~OwnsLease(w))
    /\ UNCHANGED <<vars, gateway>>

-----------------------------------------------------------------------------
(* The first visit: withBrowserUseCloudV4Session. *)

\* One live lease per run at the gateway.
LeaseHeld(r) == \E s \in 1 .. MaxAttempts : session[r][s].lease

ClaimLease(w, heard) ==
    /\ At(w, "leasing") /\ ~LeaseHeld(worker[w].run)
    /\ Becomes(w, [Of(w) EXCEPT !.ttl = "running", !.lease = TRUE])
    /\ IF heard THEN Goes(w, "starting") ELSE GoesWith(w, "failing", "retry")
    /\ Costs(heard)
    /\ UNCHANGED <<vars, handoff>>

\* Preflight, ownership or the claim failed: a held lease is a rejection, which
\* the worker does not retry.
LeaseFails(w, failure) ==
    /\ At(w, "leasing")
    /\ GoesWith(w, "failing", failure)
    /\ Costs(LeaseHeld(worker[w].run) /\ failure = "fatal")
    /\ UNCHANGED <<vars, gateway>>

StartSession(w) ==
    /\ At(w, "starting") /\ Of(w).ttl = "running"
    /\ Becomes(w, [Of(w) EXCEPT !.browser = "running"])
    /\ Goes(w, "sealing")
    /\ UNCHANGED <<vars, handoff, faults>>

\* Without an answer there is no session id to stop: the lease stays until its
\* ttl, for the browser that may be running.
StartFails(w, running, failure) ==
    /\ At(w, "starting") /\ (running => Of(w).ttl = "running")
    /\ Becomes(w, IF running THEN [Of(w) EXCEPT !.browser = "running"] ELSE Of(w))
    /\ GoesWith(w, "failing", failure)
    /\ Costs(Of(w).ttl = "lapsed")
    /\ UNCHANGED <<vars, handoff>>

PutSecrets(w, heard) ==
    /\ At(w, "sealing") /\ Of(w).ttl = "running"
    /\ Becomes(w, [Of(w) EXCEPT !.secrets = TRUE])
    /\ IF heard THEN Goes(w, "observing") ELSE GoesWith(w, "ending", "retry")
    /\ Costs(heard)
    /\ UNCHANGED <<vars, handoff>>

\* A result, a login page, or no observation at all.
Observe(w) ==
    /\ At(w, "observing")
    /\ Of(w).browser = "running" /\ Of(w).secrets
    /\ GoesWith(w, "ending", "result") \/ Goes(w, "suspending")
    /\ UNCHANGED <<vars, gateway, faults>>

VisitFails(w, failure) ==
    /\ worker[w].at \in {"sealing", "observing"}
    /\ GoesWith(w, "ending", failure)
    /\ Costs(Of(w).ttl = "lapsed")
    /\ UNCHANGED <<vars, gateway>>

\* createCheckpoint at the gateway.
CreateCheckpoint(w, heard) ==
    /\ At(w, "suspending")
    /\ Of(w).ttl = "running" /\ Of(w).lease /\ Of(w).secrets
    /\ Becomes(w, [Of(w) EXCEPT !.record = "held"])
    /\ IF heard THEN Goes(w, "suspended") ELSE GoesWith(w, "aborting", "retry")
    /\ Costs(heard)
    /\ UNCHANGED <<vars, handoff>>

CreateFails(w, failure) ==
    /\ At(w, "suspending")
    /\ GoesWith(w, "aborting", failure)
    /\ Costs(~(Of(w).ttl = "running" /\ Of(w).lease /\ Of(w).secrets))
    /\ UNCHANGED <<vars, gateway>>

EndUnproven(w, revoked, stops, proven, released) ==                        \* mutant
    /\ At(w, "ending")
    /\ LET browser == IF stops /\ Of(w).browser = "running" THEN "ended" ELSE Of(w).browser
       IN  /\ released => Of(w).lease
           /\ Becomes(w, [Of(w) EXCEPT !.browser = browser,
                                       !.secrets = @ /\ ~revoked, !.lease = @ /\ ~released])
    /\ IF worker[w].outcome = "result" THEN Goes(w, "finishing") ELSE Goes(w, "failing")
    /\ Costs(revoked /\ released)
    /\ UNCHANGED <<vars, handoff>>

\* The end of a session that was not suspended: revoke the secrets, stop the
\* browser, ask whether it stopped, and release the lease only if it provably
\* did.  An error on the way takes a result with it.
EndSession(w, revoked, stops, proven, released) ==
    /\ At(w, "ending")
    /\ LET browser == IF stops /\ Of(w).browser = "running" THEN "ended" ELSE Of(w).browser
       IN  /\ proven => browser = "ended"
           /\ released => proven /\ Of(w).lease
           /\ Becomes(w, [Of(w) EXCEPT !.browser = browser,
                                       !.secrets = @ /\ ~revoked, !.lease = @ /\ ~released])
    /\ \/ worker[w].outcome = "result" /\ revoked /\ released /\ Goes(w, "finishing")
       \/ worker[w].outcome = "result" /\ GoesWith(w, "failing", "fatal")
       \/ worker[w].outcome # "result" /\ Goes(w, "failing")
    /\ Costs(revoked /\ released)
    /\ UNCHANGED <<vars, handoff>>

\* The attested suspension is committed to the database, or undone at the
\* gateway, also when only the answer of the commit was lost.
Wait(w, heard) ==
    /\ At(w, "suspended") /\ Of(w).ttl = "running"
    /\ WaitAnalysisForAuthentication(w, worker[w].run, worker[w].gen)
    /\ IF heard THEN Rests(w) ELSE GoesWith(w, "undoing", "retry")
    /\ Costs(heard)
    /\ UNCHANGED gateway

WaitFails(w, failure) ==
    /\ At(w, "suspended")
    /\ GoesWith(w, "undoing", failure)
    /\ Costs(Of(w).ttl = "lapsed")
    /\ UNCHANGED <<vars, gateway>>

-----------------------------------------------------------------------------
(* The second visit: resumeWebsiteAuthenticationAnalysis. *)

ResumableOnceSignedIn(s) ==                                                \* mutant
    /\ s.record = "held" /\ s.ttl = "running"
    /\ s.signedIn # "no" /\ s.secrets /\ s.lease
    /\ ~s.claimed

ResumableTwice(s) ==                                                       \* mutant
    /\ s.record = "held" /\ s.ttl = "running"
    /\ s.signedIn = "fresh" /\ s.secrets /\ s.lease

\* resumeCheckpoint at the gateway: whatever the control plane thought of the
\* signal, it must still be fresh.  claimed is compared and set.
ResumableSession(s) ==
    /\ s.record = "held" /\ s.ttl = "running"
    /\ s.signedIn = "fresh" /\ s.secrets /\ s.lease
    /\ ~s.claimed

ResumeSession(w, heard) ==
    /\ At(w, "resuming") /\ ResumableSession(Of(w))
    /\ Becomes(w, [Of(w) EXCEPT !.claimed = TRUE, !.admitted = Of(w).signedIn])
    /\ IF heard THEN Goes(w, "driving") ELSE GoesWith(w, "finalizing", "retry")
    /\ Costs(heard)
    /\ UNCHANGED <<vars, handoff>>

\* Refused, unreachable, or a visit that fails: the session is disposed of.
ResumeFails(w, failure) ==
    /\ worker[w].at \in {"resuming", "driving"}
    /\ GoesWith(w, "finalizing", failure)
    /\ Costs(At(w, "resuming") /\ ~ResumableSession(Of(w)) /\ failure = "fatal")
    /\ UNCHANGED <<vars, gateway>>

Drive(w) ==
    /\ At(w, "driving")
    /\ Of(w).ttl = "running" /\ Of(w).browser = "running" /\ Of(w).secrets
    /\ GoesWith(w, "storing", "result")
    /\ UNCHANGED <<vars, gateway, faults>>

\* From here on the attempt is not failed any more, whatever goes wrong: a
\* later one finds the stored result and goes on with it.
StoreResult(w, hash, heard) ==
    /\ At(w, "storing")
    /\ CheckpointAnalysisResult(w, worker[w].run, worker[w].gen, hash)
    /\ IF heard THEN Goes(w, "finalizing") ELSE Rests(w)
    /\ Costs(heard)
    /\ UNCHANGED gateway

-----------------------------------------------------------------------------
(* The end of a checkpoint at the gateway, and how its callers take it. *)

\* finalizeCheckpoint refuses a lapsed checkpoint, reconcileCheckpoint does not.
Disposable(w) ==
    /\ worker[w].at \in DisposalCalls
    /\ Of(w).record = "held"
    /\ At(w, "finalizing") => Of(w).ttl = "running"

\* disposeCheckpoint up to its await: secrets and lease go first.
BeginDisposal(w) ==
    /\ Disposable(w) /\ w \notin Of(w).disposing
    /\ Becomes(w, [Of(w) EXCEPT !.disposing = @ \cup {w}, !.secrets = FALSE, !.lease = FALSE])
    /\ UNCHANGED <<vars, worker, handoff, faults>>

\* The provider was asked to stop the browser and whether it ended; the record
\* is retired whatever the answers were, by the first disposal to get here.
EndDisposal(w, r, s, stops, proven) ==
    /\ w \in session[r][s].disposing
    /\ LET old == session[r][s]
           browser == IF stops /\ old.browser = "running" THEN "ended" ELSE old.browser
           first == old.record = "held"
       IN  /\ proven => browser = "ended"
           /\ session' = [session EXCEPT ![r][s] =
                [old EXCEPT !.browser = browser, !.disposing = @ \ {w},
                            !.record = IF first THEN "retired" ELSE @,
                            !.evidence = IF ~first THEN @
                                         ELSE IF proven THEN "destroyed" ELSE "failed"]]
    /\ Costs(stops /\ proven)
    /\ UNCHANGED <<vars, worker, handoff>>

HearAnything(w) ==                                                         \* mutant
    /\ worker[w].at \in DisposalCalls
    /\ \/ worker[w].at \in {"aborting", "undoing"} /\ Goes(w, "failing")
       \/ At(w, "finalizing") /\ Goes(w, "reconciling")
       \/ At(w, "reconciling") /\ worker[w].outcome = "result" /\ Goes(w, "finishing")
       \/ At(w, "reconciling") /\ worker[w].outcome \in Failures /\ Goes(w, "failing")
       \/ At(w, "cleaning") /\ GoesWith(w, "closing", "result")
    /\ UNCHANGED <<vars, gateway, faults>>

\* The evidence of a retired checkpoint, the worker's own or another's disposal:
\* the gateway answers that it terminated the session, whatever the evidence is.
HearDisposed(w) ==
    /\ worker[w].at \in DisposalCalls
    /\ Of(w).record = "retired" /\ w \notin Of(w).disposing
    /\ \/ worker[w].at \in {"aborting", "undoing"} /\ Goes(w, "failing")
       \/ At(w, "finalizing") /\ Goes(w, "reconciling")
       \/ At(w, "reconciling") /\ worker[w].outcome = "result" /\ Goes(w, "finishing")
       \/ At(w, "reconciling") /\ worker[w].outcome \in Failures /\ Goes(w, "failing")
       \/ At(w, "cleaning") /\ GoesWith(w, "closing", "result")
    /\ UNCHANGED <<vars, gateway, faults>>

\* The gateway does not know the checkpoint, or will not finalize it any more.
Refused(w) == Of(w).record = "none" \/ (Of(w).record = "held" /\ ~Disposable(w))

\* Unknown to the gateway, refused, or no answer in time.  A failed finalize
\* leaves a stored result to a later attempt; after a failed visit it is still
\* followed by a reconcile, but is not made good by it.
HearNothing(w) ==
    /\ \/ At(w, "aborting") /\ Goes(w, "ending")
       \/ At(w, "undoing") /\ GoesWith(w, "failing", "fatal")
       \/ worker[w].at \in {"finalizing", "reconciling"} /\ worker[w].outcome = "result" /\ Rests(w)
       \/ At(w, "finalizing") /\ worker[w].outcome \in Failures /\ GoesWith(w, "reconciling", "fatal")
       \/ At(w, "reconciling") /\ worker[w].outcome \in Failures /\ GoesWith(w, "failing", "fatal")
       \/ At(w, "cleaning") /\ GoesWith(w, "closing", IF Refused(w) THEN "fatal" ELSE "retry")
    /\ Costs(Refused(w))
    /\ UNCHANGED <<vars, gateway>>

-----------------------------------------------------------------------------
(* The end of an attempt. *)

FinishVisit(w, hash, heard) ==
    /\ At(w, "finishing") /\ ~Authenticated(w)
    /\ CompleteAnalysis(w, worker[w].run, worker[w].gen, hash)
    /\ IF heard THEN Rests(w) ELSE GoesWith(w, "failing", "retry")
    /\ Costs(heard)
    /\ UNCHANGED gateway

FinishRefused(w) ==
    /\ At(w, "finishing") /\ ~Authenticated(w)
    /\ GoesWith(w, "failing", "retry")
    /\ Costs(FALSE)
    /\ UNCHANGED <<vars, gateway>>

FinishAuthenticated(w) ==
    /\ At(w, "finishing") /\ Authenticated(w)
    /\ CompleteCheckpointedAnalysis(w, worker[w].run, worker[w].gen, receipt[worker[w].run].hash)
    /\ Rests(w)
    /\ UNCHANGED <<gateway, faults>>

Fail(w) ==
    /\ At(w, "failing")
    /\ FailAnalysis(w, worker[w].run, worker[w].gen, worker[w].outcome = "retry")
    /\ Rests(w)
    /\ UNCHANGED <<gateway, faults>>

CloseCleanup(w) ==
    /\ At(w, "closing")
    /\ IF worker[w].outcome = "result"
       THEN CompleteCleanup(w, worker[w].run, worker[w].gen)
       ELSE RetryCleanup(w, worker[w].run, worker[w].gen, worker[w].outcome = "retry")
    /\ Rests(w)
    /\ UNCHANGED <<gateway, faults>>

-----------------------------------------------------------------------------
(* The person at the portal, and the control plane's check. *)

AwaitedSession(r) == session[r][Suspension(r)]
Suspends(r, s) == checkpoint[r].state # "none" /\ Suspension(r) = s

\* verifyPortal up to its await: the portal asks the observer to look at the
\* browser, unless a sign-in is recorded already.
AskSignIn(r, s) ==
    LET old == session[r][s]
    IN  /\ Suspends(r, s)
        /\ old.record = "held" /\ old.ttl = "running" /\ old.secrets
        /\ old.signedIn = "no" /\ ~old.probing
        /\ session' = [session EXCEPT ![r][s].probing = TRUE]
        /\ UNCHANGED <<vars, worker, handoff, faults>>

\* What was observed is recorded, also on a session that lapsed or is being
\* disposed of by now, and over the signal of another request of the portal
\* that asked before there was one; more says that such a request still runs.
RecordSignIn(r, s, more) ==
    /\ session[r][s].probing
    /\ session[r][s].record = "held" /\ session[r][s].browser = "running"
    /\ session' = [session EXCEPT ![r][s].signedIn = "fresh", ![r][s].probing = more]
    /\ UNCHANGED <<vars, worker, handoff, faults>>

\* Nobody is signed in, no answer in time, or the record is gone and what is
\* written to it lost.
SignInUnseen(r, s) ==
    /\ session[r][s].probing
    /\ session' = [session EXCEPT ![r][s].probing = FALSE]
    /\ UNCHANGED <<vars, worker, handoff, faults>>

AskAnyHandoff(r) ==                                                        \* mutant
    /\ checkpoint[r].state = "waiting" /\ checkpoint[r].fresh
    /\ AwaitedSession(r).record = "held"
    /\ handoff' = handoff \cup {r}
    /\ UNCHANGED <<vars, session, worker, faults>>

\* The check of a waiting checkpoint asks the gateway, which answers "ready"
\* for any recorded signal, and resumes the run in a second step.
AskHandoff(r) ==
    /\ checkpoint[r].state = "waiting" /\ checkpoint[r].fresh
    /\ AwaitedSession(r).record = "held" /\ AwaitedSession(r).signedIn # "no"
    /\ handoff' = handoff \cup {r}
    /\ UNCHANGED <<vars, session, worker, faults>>

ResumeHandoff(r) ==
    /\ r \in handoff
    /\ ResumeAnalysisAfterAuthentication(r)
    /\ handoff' = handoff \ {r}
    /\ UNCHANGED <<session, worker, faults>>

DropHandoff(r) ==
    /\ r \in handoff
    /\ handoff' = handoff \ {r}
    /\ UNCHANGED <<vars, session, worker, faults>>

-----------------------------------------------------------------------------
(* Time, and the gateway's restart. *)

\* A signal is good for five minutes.
SignalAges(r, s) ==
    /\ session[r][s].signedIn = "fresh" /\ session[r][s].record = "held"
    /\ session' = [session EXCEPT ![r][s].signedIn = "stale"]
    /\ UNCHANGED <<vars, worker, handoff, faults>>

\* A session of which nothing is left need not lapse.
Leftovers(s) == s.lease \/ s.secrets \/ s.browser = "running" \/ s.record = "held"

Lapse(r, s) ==
    /\ session[r][s].ttl = "running" /\ (Leftovers(session[r][s]) \/ Suspends(r, s))
    /\ session' = [session EXCEPT ![r][s].ttl = "lapsed", ![r][s].lease = FALSE,
                                  ![r][s].secrets = FALSE]
    /\ IF Suspends(r, s) /\ checkpoint[r].state \in OpenState
       THEN CheckpointExpires(r) ELSE UNCHANGED vars
    /\ UNCHANGED <<worker, handoff, faults>>

\* The evidence of a retired checkpoint is kept an hour past its expiry.
ForgetEvidence(r, s) ==
    /\ session[r][s].ttl = "lapsed" /\ session[r][s].record = "retired" /\ Suspends(r, s)
    /\ session' = [session EXCEPT ![r][s].record = "none"]
    /\ UNCHANGED <<vars, worker, handoff, faults>>

\* All stores of the gateway are maps of its process.
RestartGateway ==
    /\ Costs(FALSE)
    /\ session' = [r \in Runs |-> [s \in 1 .. MaxAttempts |->
          [session[r][s] EXCEPT !.lease = FALSE, !.secrets = FALSE, !.record = "none",
                                !.claimed = FALSE, !.disposing = {}, !.probing = FALSE,
                                !.forgotten = @ \/ Leftovers(session[r][s])]]]
    /\ UNCHANGED <<vars, worker, handoff>>

-----------------------------------------------------------------------------
\* A lease runs out under a worker that is still there when its heartbeats do
\* not get through.
LeaseRunsOut(r) ==
    /\ LeaseTick(r) \/ CleanupTick(r)
    /\ Costs(~\E w \in Workers : ~At(w, "idle") /\ worker[w].run = r /\ OwnsLease(w))
    /\ UNCHANGED <<session, worker, handoff>>

\* What the other processes do to the rows: the control plane, the reconciler,
\* and the passage of time.
QueueStep ==
    /\ \/ \E r \in Runs :
             \/ EnqueueAnalysis(r) \/ CancelWorkflow(r)
             \/ TerminateAnalysisAuthentication(r, "expired")
             \/ RetryDue(r) \/ CleanupDue(r)
       \/ \E found \in SUBSET {r \in Runs : AuthenticationExpired(r)} :
             ReconcileExpiredAuthentication(found)
    /\ UNCHANGED <<session, worker, handoff, faults>>

FirstVisit(w) ==
    \/ \E heard \in BOOLEAN :
          \/ ClaimLease(w, heard) \/ PutSecrets(w, heard) \/ CreateCheckpoint(w, heard)
          \/ Wait(w, heard)
    \/ StartSession(w) \/ Observe(w)
    \/ \E failure \in Failures :
          \/ LeaseFails(w, failure) \/ VisitFails(w, failure)
          \/ CreateFails(w, failure) \/ WaitFails(w, failure)
          \/ \E running \in BOOLEAN : StartFails(w, running, failure)
    \/ \E revoked, stops, proven, released \in BOOLEAN :
          EndSession(w, revoked, stops, proven, released)

SecondVisit(w) ==
    \/ \E heard \in BOOLEAN : ResumeSession(w, heard)
    \/ \E failure \in Failures : ResumeFails(w, failure)
    \/ Drive(w)
    \/ \E hash \in Results, heard \in BOOLEAN : StoreResult(w, hash, heard)

Disposal(w) ==
    \/ BeginDisposal(w) \/ HearDisposed(w) \/ HearNothing(w)
    \/ \E r \in Runs, s \in 1 .. MaxAttempts, stops, proven \in BOOLEAN :
          EndDisposal(w, r, s, stops, proven)

Attempt(w) ==
    \/ \E swept \in SUBSET {r \in Runs : Exhausted(r)}, claimed \in Picks :
          TakeAnalysis(w, swept, claimed)
    \/ \E claimed \in Picks : TakeCleanup(w, claimed)
    \/ Vanish(w) \/ FinishAuthenticated(w) \/ FinishRefused(w) \/ Fail(w) \/ CloseCleanup(w)
    \/ \E hash \in Results, heard \in BOOLEAN : FinishVisit(w, hash, heard)

Elsewhere(r) ==
    \/ LeaseRunsOut(r)
    \/ AskHandoff(r) \/ ResumeHandoff(r) \/ DropHandoff(r)
    \/ \E s \in 1 .. MaxAttempts :
          \/ AskSignIn(r, s) \/ SignInUnseen(r, s)
          \/ \E more \in BOOLEAN : RecordSignIn(r, s, more)
          \/ SignalAges(r, s) \/ Lapse(r, s) \/ ForgetEvidence(r, s)

SessionNext ==
    \/ QueueStep
    \/ \E w \in Workers : FirstVisit(w) \/ SecondVisit(w) \/ Disposal(w) \/ Attempt(w)
    \/ \E r \in Runs : Elsewhere(r)
    \/ RestartGateway

SessionSpec == SessionInit /\ [][SessionNext]_sessionVars

-----------------------------------------------------------------------------
(* What the session is owed. *)

\* At most one worker drives a browser session, even when the worker that drove
\* it lost its lease without noticing and the run was claimed again.
OneDriver ==
    \A v, w \in Workers :
        /\ worker[v].at \in {"observing", "driving", "storing"}
        /\ worker[w].at \in {"observing", "driving", "storing"}
        /\ worker[v].run = worker[w].run /\ worker[v].session = worker[w].session
        => v = w

\* A run has at most one lease, and a browser that may still be running keeps
\* it: the lease goes only once the browser provably ended, with its ttl, while
\* the gateway is disposing of the session, or when the gateway could not
\* dispose of it and says so, or restarted.  So no two browsers of one run.
BrowsersAreLeased ==
    \A r \in Runs :
        /\ \A s, t \in 1 .. MaxAttempts : session[r][s].lease /\ session[r][t].lease => s = t
        /\ \A s \in 1 .. MaxAttempts :
              LET it == session[r][s]
              IN  it.browser = "running" /\ it.ttl = "running" =>
                     it.lease \/ it.disposing # {} \/ it.evidence = "failed" \/ it.forgotten

\* An authenticated run completes, and a cleanup succeeds, only after the gateway
\* disposed of the session: no secret, no lease, and unless its own evidence says
\* that it could not, no browser.
ClosedBeforeSuccess ==
    \A r \in Runs :
        checkpoint[r].state = "completed" \/ cleanup[r].status = "succeeded" =>
            LET it == AwaitedSession(r)
            IN  /\ it.evidence # "none" /\ ~it.secrets /\ ~it.lease
                /\ it.evidence = "destroyed" => it.browser = "ended"

\* A run resumes only after the gateway itself saw the sign-in on that session's
\* own browser; and what drives the resumed session, and every result it stored,
\* was admitted on a signal that was fresh at that moment, though the control
\* plane asked for the resume on a signal of any age, and workers, gateway and
\* lookers-on came and went in between.
ResumedWasSignedIn ==
    /\ \A r \in Runs :
        /\ checkpoint[r].state \in {"consumed", "completed"} => AwaitedSession(r).signedIn # "no"
        /\ receipt[r].hash # None => AwaitedSession(r).admitted = "fresh"
    /\ \A w \in Workers :
        worker[w].at \in {"driving", "storing"} => Of(w).admitted = "fresh"

=============================================================================
