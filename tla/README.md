# Page2WebMCP: a TLA+ model of its durable workflow

Page2WebMCP turns a website, an OpenAPI document or a GitHub repository into a
reviewed release of WebMCP tools. This directory models the part of it in which a
mistake is silent and hard to test: the database rows that let several worker
processes and several people advance the same run while workers crash, leases
expire, answers arrive late and logins are awaited; the workers themselves, with
the browser sessions and the GitHub objects they leave behind; and the way from a
reviewed capability to a published release, with the verifier that attests it.

Paths are relative to the repository's root. `PROJECT.json` maps each definition
to the lines it models; this file says how the pieces fit.

1. Inventory of the system
2. The modules and how they correspond to the code
3. The runs: what TLC checks
4. The theorems: what TLAPS proves
5. Where the code and its documentation disagree
6. What is not modelled
7. Plan

## 1. Inventory

| Component | State it keeps | Operations | Talks to |
| --- | --- | --- | --- |
| **Phased workflow store** `packages/database/src/{postgres,workflow}.ts`, `supabase/migrations/20260830120000_*` | `workflow_runs`, `workflow_tasks`, `workflow_commands`, `workflow_events`, `projects.status` | start, claim, heartbeat, complete, fail, wait, resume, cancel, reconcile | worker (claims), API (start, resume, cancel), SQL triggers |
| **Analysis queue and authentication wait** `postgres.ts`, `202609010*` migrations | `analysis_jobs`, `analysis_runs`, the `analysis` task, checkpoints with a cleanup lease, live receipts | enqueue, claim, heartbeat, wait, resume, terminate, checkpoint result, complete (two ways), fail, cancel, reconcile, claim/complete/retry cleanup | worker, handoff, gateway (through the worker) |
| **Worker loop** `apps/worker/src/{main,production-runtime,runner}.ts` | the claim in hand, its heartbeat timer and deadline | one iteration: reconcile, cleanup, analysis, workflow task | repository, providers |
| **Workflow controller** `packages/database/src/workflow.ts`, `apps/worker/src/github-workflow.ts` | none of its own | `runNext`: claim, heartbeat, handler, side effects (lookup, execute, reconcile, cleanup), complete or fail | repository, GitHub |
| **Review and publication** `apps/control-plane/src/{releases,release-verification}.ts`, `postgres.ts` | capability revisions, reviews, verification jobs, releases, installations | review, request verification, attest, publish, install, roll back | verifier, artifact storage |
| **Website gateway** `apps/website-gateway/src` | in-process checkpoints, browser leases, secrets, policies | create, inspect, complete, expire, release, clean up | browser provider, worker, control plane |
| **Website user handoff** `apps/control-plane/src/website-user-handoff*.ts` | none of its own | read the gateway's checkpoint, then resume or terminate the run | gateway, repository |
| **Release verifier** `apps/release-verifier/src` | a durable, bounded replay store | verify a candidate or an installation in a browser | control plane |
| **Artifact storage, retention** `apps/control-plane/src/artifact-storage.ts`, `packages/database/src/website-live-receipt-maintenance.ts` | public objects; age of receipts | upload and check identity; delete what is old | object store, database |
| **In-memory repository** `packages/database/src/control-plane.ts` | maps of the same rows | the same contract in one process | tests, local demo |
| **API, authentication** `apps/control-plane/src/{api,auth,projects,config}.ts` | sessions | parse, authorize, call the repository | everything above |
| **Providers** `packages/providers`, `apps/worker/src/*-live.ts` | none between calls | drive a browser, fetch a repository or a document | external services |
| **Compilers, analyzers** `packages/{compiler,openapi,source-analyzer,capability-ir,evals}` | none | pure functions | - |
| **Observability, security, operations** | counters | record, redact, report | - |
| **Fixtures** `apps/{acme-support,example-target}`, `scripts` | demonstration data | - | - |

### How they interact

Everything durable goes through the repository. A worker never holds a
transaction open across its own work: it *claims* a task (attempts and lease
generation go up by one, the lease runs for 60 s), works while a timer
heartbeats every 15 s, and reports under the worker identity and generation it
was given. Another worker may meanwhile have found the lease expired and
claimed the task again. Each repository operation is one PostgreSQL transaction
that locks the run row first, so operations on one run are serial; what can go
wrong is their *order*, and what each one takes for granted about rows that other
operations wrote. A second statement of the state machine lives in the
migrations as CHECK constraints, unique indexes and transition triggers.

### Behaviours that are hard, and what makes the component correct

| Component | Hard | Correct when |
| --- | --- | --- |
| Phased store | late answers of replaced workers; replay of recorded commands; cancel against complete; waits that expire; repair of several runs at once | run and task rows agree; phases commit once, in order, each on its predecessor's output; ended runs stay ended; a lost lease stays lost; a run with work settles; quota holds |
| Analysis queue | four rows per run; a worker lost between storing a result, closing the session and completing; a checkpoint that expires while queued, running or waiting; a cleanup beside an analysis | the rows agree; the receipt tells the story in order; the result is the receipted one; each ended session is owed one cleanup, never beside a live lease; runs and cleanups settle |
| Worker loop, controller | a heartbeat that fails while the handler runs; a reply lost after commit; side effects done twice or left behind | no side effect under a lost lease goes unreconciled; an attempt reports once |
| Publication | verification and review of an older revision answered after a newer one; concurrent publish; an upload whose response is lost | a published release is the reviewed, verified revision, its bytes are served, one key names one release |
| Gateway, handoff | restart forgets everything; a call takes effect and its answer is lost; a browser that cannot be proven ended; two workers on one session | one driver per session; a browser that runs is leased; success means the session was disposed of; who resumes was signed in |
| Release verifier | torn append, restart, a full store, redelivery | a signed request is evaluated once as long as its replay file is whole |

`PROJECT.json` lists these as hazards, each at its line, with the properties that
cover it or the reason none does yet.

## 2. The modules

```
PhaseChain                what a caller of the workflow is promised
   ^ refined by
WorkflowStore             the phased workflow's rows and operations
   ^ EXTENDS                 ^ EXTENDS             ^ EXTENDS
WorkflowProgress          WorkflowStoreProofs   WorkflowController
 (fairness)                  ^ EXTENDS             the worker, its port, GitHub
   ^ EXTENDS              WorkflowPromiseProofs    ^ EXTENDS         ^ EXTENDS
MCWorkflowStore              ^ EXTENDS          MCWorkflowController |
                             +------------------- WorkflowControllerProofs

AnalysisQueue             analysis runs, authentication wait, cleanup lease, receipt
   ^ EXTENDS                 ^ EXTENDS             ^ EXTENDS
AnalysisProgress          AnalysisQueueProofs   AuthenticationSession
 (fairness)                  ^ EXTENDS             worker, gateway, provider, person
   ^ EXTENDS                 |                     ^ EXTENDS         ^ EXTENDS
MCAnalysisQueue              |                  MCAuthenticationSession
                             +------------------- AuthenticationSessionProofs

VerifierPromise           what the control plane counts on
   ^ refined by              ^ EXTENDS
ReleaseVerifier           Publication     reviews and the owner's three requests
   ^ EXTENDS                 ^ EXTENDS
MCReleaseVerifier         MCPublication
ReleaseVerifierProofs     PublicationProofs
```

The `MC` modules hold the instances for TLC: constants, functions for a
configuration, and symmetry sets. The `Proofs` modules hold theorems and their
proofs, and define nothing a specification uses.

### WorkflowStore

| Variable | Rows |
| --- | --- |
| `run` | `public.workflow_runs`: status, current phase |
| `task` | `private.workflow_tasks`, one row per run and phase: status, attempts, lease generation, owner, lease, retry delay, wait token, input and output hash |
| `project` | `public.projects.status` |
| `command` | `private.workflow_commands` by scope: what each idempotency key was first used for |

One action is one repository operation: `StartWorkflow`, `ClaimWorkflowTask`,
`HeartbeatWorkflowTask`, `CompleteWorkflowTask`, `FailWorkflowTask`,
`WaitWorkflowTask`, `ResumeWorkflowTask`, `CancelWorkflow`,
`ReconcileWorkflows`; three more (`LeaseTick`, `RetryDue`, `WaitExpires`) let
time pass. A crash of a worker is the absence of further calls with its
generation; a worker that comes back late is any later call with an old
generation, and the actions take *every* worker and generation as input.
The triggers and CHECK constraints are not guards of the actions: they are
stated separately (`RunTriggersAccept`, `TaskTriggersAccept`, `RowChecks`) and
shown to accept all the operations ask for. The unique index of one active run per project *is* a guard
of `StartWorkflow`, because the operation relies on it.

### PhaseChain

The abstract specification: phases of a run `Commit` one at a time and in order,
each one output; a run is `Open`, then ends once by its last commit, by `Cancel`
or by `GiveUp`. `WorkflowStore` implements it under the mapping

- `committed <- CommittedPhases`: the run's phase less one, or all once it succeeded;
- `verdict <- Verdicts`: the run's status with queued, running and waiting as "open";
- `output <- CommittedOutputs`: the output column of the task rows.

Claims, heartbeats, failures to be retried, waits, resumes, most repairs and time
are stutters of it.

### AnalysisQueue

| Variable | Rows |
| --- | --- |
| `job`, `task`, `flow` | `analysis_jobs`, the `analysis` row of `workflow_tasks`, `workflow_runs.status` |
| `project` | `projects.status`, written by the trigger `sync_analysis_job_state` and directly |
| `result` | `analysis_runs.result`, a hash |
| `checkpoint` | `website_authentication_checkpoints.state`, and whether `expires_at` has passed |
| `cleanup` | that row's `cleanup_*` columns |
| `receipt` | `website_live_receipt_evidence`: who suspended, resumed, stored and completed under which generation, the stored result's hash, the verified restart, and whether the session's disposition is recorded |

The actions are `EnqueueAnalysis`, `ClaimAnalysis` (which first fails exhausted
jobs in the same transaction), `HeartbeatAnalysis`,
`WaitAnalysisForAuthentication`, `ResumeAnalysisAfterAuthentication`,
`TerminateAnalysisAuthentication`, `ReconcileExpiredAuthentication`,
`CheckpointAnalysisResult`, `CompleteAnalysis`, `CompleteCheckpointedAnalysis`,
`FailAnalysis`, `CancelWorkflow`, `ClaimCleanup` (which first gives up on
exhausted ones), `CompleteCleanup`, `RetryCleanup`, and time. Triggers that change
rows (the cleanup queued when a checkpoint ends, the project that follows the
job) are part of the action that fires them. `CompleteCleanup` keeps
the code's order, because the row level policy of the receipt table looks at the
lease that the first statement releases.

### WorkflowProgress, AnalysisProgress

These add fairness, each conjunct taken from
`processProductionWorkerIteration` (`apps/worker/src/production-runtime.ts:189-211`):
every iteration reconciles, then claims a cleanup, then claims an analysis, then
a workflow task. So a repair, sweep or claim that *stays possible* is made (weak
fairness of each, over all workers together, since any worker may do it). A retry
delay and a checkpoint's ten minutes end. An attempt ends: its worker answers, or
is lost and its lease runs out. A worker that is alive
and heartbeats for ever inside a handler is thereby excluded; for analyses the
runner's 120 s deadline justifies that, for phased handlers nothing in the
controller does, which is listed as a hazard (`workflow.ts:434`). People are
never fair: nobody has to resume, terminate or cancel.

### WorkflowController

The worker's half of the phased workflow, over the rows of `WorkflowStore`, whose
actions it *calls*: a claim, a completion or a failure of the controller conjoins
the repository operation with what happens in the worker.

| Variable | Is |
| --- | --- |
| `worker` | where each worker is in `runNext` (`workflow.ts:414-563`) and in the port: its task, generation, and what the last lookups returned |
| `github` | external, by run: the branch's head, how many pull requests there were, whether the last is open, how many checks each reference has |
| `draft` | `public.github_draft_pull_requests`, one row per task |
| `faults` | how many calls failed or were not heard, workers crashed, heartbeats fell silent, pull requests were closed |

The steps follow the protocol of `runNext`: `Claim`, `Begin`, `Look` (the port's
lookup: is there a row of this task), then the operation `Verify`, `LookupPatch`,
`ApplyPatch`, `LookupPull`, `CreatePull`, `LookupCheck`, `CreateCheck`, `Save`, then
`RecordEffect`, `Complete` or `Fail`. An operation that fails is
reconciled by the same steps once (`call` is "execute", then "reconcile"). Every
lookup at GitHub and the creation it decides on are two steps, as in
`reconcileGitHubDraftPullRequest` (`github.ts:395-509`), so a second worker that took
over an expired lease can work between them. Each creation is heard or takes effect
unheard. `Leave` is a crash, or a worker that finds its lease lost.

### AuthenticationSession

The browser session of a website analysis, over the rows of `AnalysisQueue`.

| Variable | Is |
| --- | --- |
| `session` | by run and by the attempt that opened it: the provider's browser, the gateway's lease, secrets and checkpoint record, running disposals, whether the portal is observing, the recorded sign-in and its age, the signal a resume was admitted on, the evidence of a disposal, and whether a restart forgot it |
| `worker` | where each worker is in a first visit, a visit after authentication, a failure or a cleanup |
| `handoff` | runs whose sign-in the control plane heard of and is about to resume |
| `faults` | calls that failed or lost their answer, crashes, restarts, silent heartbeats |

A first visit claims the lease, starts the browser, stores the secrets, observes, and
either ends the session and completes or creates a checkpoint and waits; a second
visit resumes the session, drives it, stores the result, has the gateway dispose of
the session, and completes. `BeginDisposal` and `EndDisposal` are apart because
the gateway's route awaits the provider between reading its record and clearing it
(`routes/checkpoints.ts:195-245`). The portal has the same shape: it checks record,
secrets and expiry, awaits the observer, and records what was seen without looking again
(`routes/portal.ts:156-201`). So `AskSignIn` and `RecordSignIn` or `SignInUnseen` are apart,
a sign-in may be recorded on a session that has lapsed or is half disposed of, and a
second request that asked in time may replace an older signal with a fresh one. Any number of
such requests is one flag, `probing`, which `RecordSignIn` keeps or clears and the last
failure clears; that the later answer may come after the signal aged is an
over-approximation (an observation ends long before five minutes). The control plane's check
takes a signal of any age (`AskHandoff`) and resumes later (`ResumeHandoff`); the five
minutes are enforced by the gateway's resume (`ResumableSession`). A failed finalize leaves a
stored result to a later attempt (`website-live.ts:1200-1224`); only after a failed visit
is it followed by a reconcile (`workflow.ts:891-913`; both in `HearNothing`). One expiry ends lease, secrets,
checkpoint and database checkpoint (`Lapse`); `RestartGateway` empties its maps.
Enqueueing, cancelling, expiring and reconciling are the actions of
`AnalysisQueue`, unchanged.

### VerifierPromise, ReleaseVerifier

`VerifierPromise` says what the control plane publishes on: a request is evaluated
once and an attestation answers an evaluated request, until the verifier's file
loses a key it admitted (`broken`).

`ReleaseVerifier` is the process: `replay` (the map of `replay-store.ts` and, as
what a restart could read back, its file: the whole lines, and whether it ends in a
fragment), `wire` (requests, deliveries, replies), `expired`, `served`. A request
checks two keys one after the other (`AcceptRequest`, `RefuseRequestKey`,
`RefuseNonceKey`, `RefuseExpired`); each append is flushed, short, nothing, a part, or
written but not flushed; `RestartVerifier` loads what the file holds, and
`RestartWithoutFile` stands for a file that cannot be read or that a crash in the
middle of compacting left empty. It implements `VerifierPromise` with
`evaluated <- served.evaluated`, `attested <- wire.replies`,
`broken <- served.damaged`.

### Publication

Reviews and the three owner requests of `releases.ts` (publish, verify, install) over
the tables they write. It extends `VerifierPromise`, so the verifier is
its promise and not the process.

| Variable | Rows |
| --- | --- |
| `capability`, `review` | `capabilities` with status, binding and version; `capability_reviews` |
| `evidence` | runs whose stored analysis evidence has not expired |
| `verification`, `release`, `installation` | `verification_runs`, `releases`, `release_installations`, in the order of their insertion |
| `keyed` | `idempotency_keys` of the operation "release", while they last |
| `bucket` | the objects of the public release bucket |
| `call` | each request in progress: the await it is at and what it read before |

A request reads the latest release and verification (`ReadLatest`), asks the verifier
and hears it (`AskVerifier`, `HearVerifier`), saves or reuses a verification
(`SaveVerification`), uploads (`UploadArtifact`: the object may be there although the
response was lost), reads the public copy back within its budget (`ReadArtifact`), and
publishes (`ReplayPublication`, `PublishRelease`, `AnswerPublication`) or saves an
installation; `GiveUp` ends it at any await and leaves what it wrote. A member of `Keys` is
an owner with the text of a key, since keys are per organization, actor and operation, and
the module is one organization. A key lives 24 hours: `#reserveIdempotency` deletes it
first if its time has passed (`postgres.ts:284-288`), so an expired key is a key that was
never used (`KeyExpires`), it is replayed only while it lives (`ReplayPublication`), and
afterwards may name another run's release. An installation keeps its key in its own row,
for ever. A candidate is
content addressed, so it is the set of the plans compiled into it, and the digest of a
run's capabilities is the function from the capabilities to their rows.

### Conventions

- **Atomicity.** A transaction is one step. Refused calls (`CANCELLED`,
  `LEASE_LOST`, `WAIT_EXPIRED`, `IDEMPOTENCY_CONFLICT`, a role that is missing)
  and replays of a recorded command write nothing and are the disabled action.
- **Time** is what guards can tell apart. A lease counts the heartbeat intervals
  it has left (`LeaseTerm`, 0 is expired); a retry is delayed or due; a wait or
  checkpoint is open or past its expiry. `rate_limited` differs from `transient`
  only by a longer delay and is the same input.
- **Columns written together are one field.** `cancel_requested_at` and the
  status `cancelled`; the cleanup's attempts and lease generation.
- **`for update skip locked`** with a limit is any subset of the rows that match
  (the reconciler, the sweep) or any one of them (a claim); the order of a claim is left open.
- **A call between processes** is one step at its receiver with an answer that is heard
  or lost; a call that is never delivered is the step that does not happen, and
  the caller's failure. Faults are counted up to `MaxFaults`, since each costs one.
- **A heartbeat** of a worker that is alive is the lease tick that does not happen; a tick
  under a living worker is a fault.
- **Left out:** event sequence numbers, run versions, response bodies, error
  codes, the evidence inside a result (one hash).
- **Mutants.** A definition marked `mutant` is no part of a specification. It is a
  plausible bug of the definition after it (a dropped guard, an off-by-one, a
  missing reset) with which the named property fails, so that each property is
  known to depend on the code.

## 3. The runs

`CHECK_DEADLOCK FALSE` everywhere: runs end, and a store whose runs have all
ended is quiescent, as are requests that ended and a verifier whose deliveries are
spent. Workers, digests, requests, keys and references are interchangeable where a
configuration says `SYMMETRY`; runs with liveness use none, nor does the verifier's.

| Run | Instance | States | Shows |
| --- | --- | --- | --- |
| `workflow_store` | 1 run, 3 phases, 3 attempts, 2 workers, 2 digests, 2 resume keys, lease of 2 | 262,099 | `TypeOK`, `TableChecks`, `OutputsChain`, `CommandsMatchTasks`, `NoMissingSuccessor`, `TriggersAccept`, `TerminalRunsFrozen`, `LeaseLossIsFinal`, `ImplementsPhaseChain` |
| `workflow_reruns` | 3 runs of 2 projects of 1 organization, 1 phase, 2 attempts, 2 workers, quota 1, lease of 2 | 204,396 | `RunMatchesCurrentTask`, `ProjectStatusEarned`, `QuotaRespected` across runs |
| `workflow_progress` | 2 runs, 2 phases, 2 attempts, 1 worker, quota 1 | 64,664 | `RunsSettle` |
| `workflow_parked` | 1 run, 2 phases, 2 attempts | | a violation, see section 5 |
| `analysis_queue` | a website run and another, 3 attempts, 2 workers, 2 results, quota 1, lease of 2 | 109,647 | `TypeOK`, `RowsAgree`, `ReceiptTellsTheStory`, `ResultIsReceipted`, `CleanupOwed`, `ProjectStatusEarned`, `HistoryIsNeverRewritten`, `EndedRunsFrozen`, `LeaseLossIsFinal` |
| `analysis_progress` | both runs, 2 attempts, 1 worker, quota 1 | 3,700 | `RunsSettle`, `CleanupsSettle` |
| `analysis_cleanup_record` | 1 website run | | a violation, see section 5 |
| `analysis_stranded` | 1 website run, 3 attempts | | a violation, see section 5 |
| `release_verifier` | 1 call with its 2 requests, each delivered up to 3 times; 3 keys, 2 bad appends, 2 restarts | 146,608 | `VerifierTypeOK`, `WorkIsRemembered`, `KeepsPromise` |
| `publication` | 2 runs, one with an R2 mutation and one with a read; 2 requests, 1 key, 2 reviews, 2 reads | 1,747,356 | `TypeOK`, `ReleasesAreEarned`, `KeyNamesOneRelease`, `PublishedBytesAreServed`, `BlockedIsNotPublished` |
| `authentication_session` | 1 website run, 3 attempts, 2 workers, lease of 1, 1 fault | 541,317 | `SessionTypeOK`, `OneDriver`, `BrowsersAreLeased`, `ClosedBeforeSuccess`, `ResumedWasSignedIn` |
| `workflow_controller` | 1 run of publish and install_verify, 3 attempts, 2 workers, 2 references, lease of 1, 3 faults | 790,394 | `ControllerTypeOK`, `NoUnknownEffectRecorded`, `NothingIsDoneTwice` |

### What the properties say

- `LeaseLossIsFinal`: once a worker does not hold a generation that was handed
  out, it never will, so LEASE_LOST is final. It needs the generation compared in
  *every* guard, and needs heartbeats refused after expiry.
- `CommandsMatchTasks`: a replay answers *before* the cancel and lease checks, so
  what it answers must be true: a completion is recorded iff the task succeeded,
  with that generation and output, and a generation never both completes and fails.
- `TerminalRunsFrozen`, `EndedRunsFrozen`: most handlers check only for "cancelled",
  not for "failed" or "succeeded"; that no late call reaches an ended run follows
  from the lease rules together with what each ending does to the task rows.
- `TriggersAccept`, `TableChecks`, `HistoryIsNeverRewritten`: no operation asks for
  a change the migrations would refuse, hence none is rolled back half way.
- `NoMissingSuccessor`: the reconciler's last query (`postgres.ts:1467`), which
  would insert a missing next task, never finds one. That branch is
  therefore not an action of `WorkflowStore`.
- `OutputsChain`, `ImplementsPhaseChain`: a phase works on what its predecessor
  committed, whatever the predecessor's other attempts did.
- `RowsAgree`: job, task, run and checkpoint are written one after another by every
  operation; a drifted row is one the candidate query returns and the locks refuse.
- `ReceiptTellsTheStory`, `ResultIsReceipted`: suspension, resumption, storing and
  completion happen under non-decreasing generations; the result a run
  succeeds with is the one stored, though several workers may have computed one.
- `CleanupOwed`, `CleanupsSettle`: a checkpoint that ends badly owes its browser
  session exactly one cleanup, none before, never beside a live analysis lease, and
  the cleanup succeeds or is reported failed after its budget.
- `ProjectStatusEarned`: a project is analyzing while a run of it is active, and
  analyzed or failed only if some run of it ended so, not necessarily the last one. It
  is deliberately silent on *leaving* "analyzing": a cancellation, and the reconciler's repair of an exhausted phased task,
  end a run without writing the project.
- `QuotaRespected`: no order of claims and expiries gives an organization more live
  leases than its quota.
- `OneDriver`: two workers can believe in one session at a time, the one that lost
  its lease without noticing and the one that claimed after it; only one of them gets
  past the gateway's resume, because it is accepted once.
- `BrowsersAreLeased`: no step gives up the lease of a browser that may still run, so
  a run never has two. The exceptions are in the formula: a disposal under way, one
  that failed and whose evidence says so, and a restart of the gateway.
- `ClosedBeforeSuccess`: "completed" and "succeeded" in the database speak of secrets
  and a browser in other processes, across lost answers, a record that was already
  retired and the expiry. It says that a disposal came first, not that it stopped the
  browser: evidence "failed" is let through, as the code does.
- `ResumedWasSignedIn`: the control plane asks for a resume on a signal of any age and
  writes it later, while the portal may still be recording. A run is resumed only after
  a sign-in on that session's own browser, and whatever is driven or stored afterwards was
  admitted by the gateway on a signal less than five minutes old at that moment.
- `NoUnknownEffectRecorded`: a row is saved only for what is at GitHub, although the
  worker that saves it may have made none of it.
- `NothingIsDoneTwice`: who holds the lease never drives the port of a task that has its
  row, so a save never meets another row. The bound on `checks` in `ControllerTypeOK`
  says that a check exists at most once per worker that raced for it.
- `ReleasesAreEarned`: everything a release is built from is read several awaits
  before it is published, beside reviews and other requests; the publishing transaction
  must find it unchanged or refuse.
- `KeyNamesOneRelease`: a run has one release, whatever the keys do, and a key that lives
  names a release of the run and the verification it was used with. Keys expire and come
  back for other runs, a request may find its release already published under another
  key, and then its own key must name that one.
- `BlockedIsNotPublished`, `PublishedBytesAreServed`: a late block still counts; no
  release precedes its bytes.
- `KeepsPromise`, `WorkIsRemembered`: failed appends fail closed. Both stop at a file that
  lost a key it had admitted (`broken`): a request may be evaluated again after that, and
  the code does nothing against it. `VerifierTypeOK` holds the
  store to its limit, plus one for each line whose flush failed: such a line is in the
  file though its key was refused, and a restart loads it without asking the limit
  (`replay-store.ts:87-103`).

### Why these bounds

In production a GitHub run has eleven phases, three attempts, a quota of two and a
lease of four heartbeat intervals. Three phases are a first, a middle and a last
one; three attempts are a first, a retry and the last one; two workers are a
holder and a late one (a third worker has no guard of its own to meet); a lease of
two is fresh, half spent or expired, so a heartbeat can matter; two digests
tell apart outputs of different attempts; two resume keys are a replay and a fresh
one; three runs are a predecessor and a successor in one project beside a
neighbour, so a repair of two runs at once, and a rerun, both happen; and a quota
of one makes the second run wait. Liveness instances are smaller, since one worker
already takes every step and crashes. The theorems have none of these bounds.

For the modules with several processes: two workers and three attempts let a session be
opened, resumed by a second worker, and taken over by a third attempt, while the first
worker is still somewhere in its own visit; and let two holders of one task race at
GitHub and leave a last attempt to find the outcome. A lease of one is fresh or
expired: the heartbeat's margin is a matter of the store modules. One fault already
separates any two steps of a session; three faults at GitHub are a lost answer for each of its three
objects, or a crash, a takeover and a closed pull request. Two phases are one with a
successor and one without, where the second finds what the first made, or makes it again
because somebody closed it. Two requests of an owner are two publications, a publication and a
verification, or a publication and its installation; two runs that share one key let it be
used for one, expire, and be used for the other, or be refused because it still lives; two capabilities, one in
each run, are one that needs no approval and one that needs the owner's; two reviews are an approval and a
block. Three keys are one fewer than the two requests of a call need, so
the verifier's store fills up; three deliveries are a first, a repetition before and
one after a restart.

## 4. The theorems

Each safety invariant, action property and refinement that a passing run checks is
also proved, for every value of the constants: any number of runs, phases, attempts,
workers, projects, calls, requests and faults. What a run shows on its instance, the
theorem named here shows of the specification. `RunsAreAttended`, `CleanupsAreAttended`,
`ParkedForGood` and `StrandedForGood` are theorems without a run of their own: they are
the safety half of what the `..._progress` runs check.

| Module | Theorem | States |
| --- | --- | --- |
| `WorkflowStoreProofs` | `TypeCorrect` | `Spec => []TypeOK` |
| | `TableChecksHold` | `Spec => []TableChecks` |
| | `RunMatches` | `Spec => []RunMatchesCurrentTask` |
| | `NoStepRefused` | `Spec => TriggersAccept` |
| | `EndedRunsFrozen` | `Spec => TerminalRunsFrozen` |
| | `SuccessorsExist` | `Spec => []NoMissingSuccessor` |
| | `PhasesChain` | `Spec => []OutputsChain` |
| | `LostLeasesStayLost` | `Spec => LeaseLossIsFinal` |
| `WorkflowPromiseProofs` | `LogTellsTheTruth` | `Spec => []CommandsMatchTasks` |
| | `QuotaIsRespected` | `Spec => []QuotaRespected` |
| | `ProjectsTellTheTruth` | `Spec => []ProjectStatusEarned` |
| | `StoreImplementsChain` | `Spec => ImplementsPhaseChain` |
| | `RunsAreAttended` | `Spec => []NoRunIsForgotten` |
| | `ParkedForGood` | `Spec => ParkedTasksWait` |
| `WorkflowControllerProofs` | `ControllerUsesStore` | `ControllerSpec => Spec` (of `WorkflowStore`) |
| | `ControllerTypeCorrect` | `ControllerSpec => []ControllerTypeOK` |
| | `EffectsAreKnown` | `ControllerSpec => []NoUnknownEffectRecorded` |
| | `RecordedIsNotRedone` | `ControllerSpec => []NothingIsDoneTwice` |
| `AnalysisQueueProofs` | `QueueTypeCorrect` | `Spec => []TypeOK` |
| | `RowsNeverDrift` | `Spec => []RowsAgree` |
| | `StoryHolds` | `Spec => []ReceiptTellsTheStory` |
| | `ResultsAreVouchedFor` | `Spec => []ResultIsReceipted` |
| | `CleanupsAreOwed` | `Spec => []CleanupOwed` |
| | `HistoryIsKept` | `Spec => HistoryIsNeverRewritten` |
| | `EndedStaysEnded` | `Spec => EndedRunsFrozen` |
| | `LostLeaseIsFinal` | `Spec => LeaseLossIsFinal` |
| | `OneActiveRun` | `Spec =>` at all times a project has one active run at most |
| | `ProjectsTellTheTruth` | `Spec => []ProjectStatusEarned` |
| | `RunsAreAttended` | `Spec => []NoRunIsForgotten` |
| | `CleanupsAreAttended` | `Spec => []NoCleanupIsForgotten` |
| | `StrandedForGood` | `Spec => StrandedRunsWait` |
| `AuthenticationSessionProofs` | `SessionUsesQueue` | `SessionSpec => Spec` (of `AnalysisQueue`) |
| | `SessionTypeCorrect` | `SessionSpec => []SessionTypeOK` |
| | `OneDriverOnly` | `SessionSpec => []OneDriver` |
| | `BrowsersStayLeased` | `SessionSpec => []BrowsersAreLeased` |
| | `SessionsAreClosed` | `SessionSpec => []ClosedBeforeSuccess` |
| | `SignInsAreSeen` | `SessionSpec => []ResumedWasSignedIn` |
| `ReleaseVerifierProofs` | `VerifierTypeCorrect` | `Spec => []VerifierTypeOK` |
| | `WorkStaysRemembered` | `Spec => []WorkIsRemembered` |
| | `VerifierKeepsPromise` | `Spec => KeepsPromise` |
| `PublicationProofs` | `PublicationInvariant` | the inductive invariant, below |
| | `PublicationTypeCorrect` | `Spec => []TypeOK` |
| | `ReleasesEarned` | `Spec => []ReleasesAreEarned` |
| | `PublishedBytesServed` | `Spec => []PublishedBytesAreServed` |
| | `KeysNameReleases` | `Spec => []KeyNamesOneRelease` |
| | `BlocksAreKept` | `Spec => BlockedIsNotPublished` |

`ControllerUsesStore` and `SessionUsesQueue` join the levels: every step of the larger
system is a step of the store or leaves its rows alone, so all that is proved of a
store holds with the workers, GitHub, the gateway and the portal at work.

### Assumptions

TLC evaluates each of them on the runs of its module.

| Module | Assumption |
| --- | --- |
| `WorkflowStore` | `BoundsAssumption`: phases, attempts, quota and lease are positive. `TenancyAssumption`: each run has a project, each project an organization; the runs are finitely many. `NullAssumption`: SQL null is no worker and no digest |
| `AnalysisQueue` | the same three, without phases, with results for digests; website runs are runs |
| `WorkflowController` | the bound on faults is a number. `ControllerAssumption`: null is no commit and no row of a draft; the workers are finitely many (needed to bound the checks) |
| `AuthenticationSession` | `SessionAssumption`: the bound on faults is a number; the runs are website runs, since no other source opens a session |
| `ReleaseVerifier` | `VerifierBounds`: the limit of the store and the number of deliveries are positive, faults and restarts are numbers |
| `Publication` | `PublicationAssumption`: each capability has a run and a risk tier; reviews are bounded; the public read budget and the deliveries are positive; null is no row that names a release's run and verification |

### The phased store

The inductive invariant is `RowsOK /\ RunMatchesCurrentTask`, with
`RowsOK == TypeOK /\ TableChecks`. `RowsOK` is inductive by itself: a claim bumps
attempts and generation together below the budget, and each transition out of
"running" clears the lease. `RunMatchesCurrentTask` is not: handlers such as
`completeWorkflowTask` look at the task row alone, and to see that the task they find
leased is the run's current one (`ActiveTaskIsCurrent`) one needs that earlier phases
have succeeded, later ones have no row, and a row with an owner is running, which
is `TableChecks`. With the pair invariant, `NextAccepted` shows action by action
that a step is one the triggers accept. The rest follows from that: an ended run
has no active row and the triggers let no ended row change; a successor's input is
its predecessor's output when inserted and neither changes afterwards;
generations only grow.

`WorkflowPromiseProofs` sorts every operation into six *moves of one row*
(`RowMoves`): kept, inserted, claimed, moved, committed, failed. The command log
(`RowsTell`: `CommandsMatchTasks` with "a row that does not exist is blank") and the
quota are then proved move by move; the quota because a claim is the only move that makes
a lease live, and it counted the organization's live ones in the same transaction.
Projects need the index of one active run, which is part of the invariant there.
`StoreImplementsChain` maps each action to `Open`, `Commit`, `Cancel`, `GiveUp` or a
stutter; a repair that ends several runs at once is one `GiveUp` of them all.

### The controller

`ControllerOK` adds to the store's invariant what each worker takes to be so
(`WorkerOK`). It survives the other workers because GitHub only grows under them: a
head stays, pull requests and checks are added (`HubsGrow`). That a save never meets
another row needs the lease: a worker that owns its task finds no row, and one that lost
it fails its save (`RecordedIsNotRedone`). `ChecksCounted` is the argument for the bound
on checks: the checks of a key and the workers about to create one are together no more
than the workers, because only a worker that saw none creates one.

### The analysis queue

The invariant `QueueOK` holds per run (`RunOK`): the rows have their types and agree,
the receipt is in order, and no deed is recorded under a generation not yet handed out
(`DeedsBounded`). `TypeOK /\ RowsAgree` is not inductive: `CompleteAnalysis` refuses a
suspended run by its receipt, without a look at the checkpoint, and would otherwise end
it with its checkpoint open. So rows and receipt are one invariant. `StepMoves` shows
once, for all operations, that each touches a run's rows in one of the listed moves,
whatever other runs the same transaction sweeps; what is said of one run is then proved move by move. A result is the
receipted one (`ResultsOK`) because it is stored once, with its hash on the receipt, and
the completion compares that hash.

### The authentication session

Its invariant `SessionOK` adds, to that of the queue: what the gateway's view of a session
always is (`Sound`), what each worker takes to be so of its session (`WorkerFits`), what
the database says of a session in other processes (`RunFits`), that a generation is
one worker's (`AttemptsApart`), and that a run has one browser lease (`LeasesApart`). Two
facts carry it past the interleavings. Until a session is suspended, only the
attempt that opened it can reach it (`Alone`). From then on, workers, gateway, person and
portal all can, but every step of theirs is `Gentle`: a sign-in that was seen, the signal a
resume was admitted on and evidence that was attested stay, a session that is not there is
not created, and one that was given to an attempt is given to no other. A stored result
rests on such an admission (`Stored`), since only a worker that was admitted stores one.
`OneDriver` needs one fact more: a session
that was resumed is `Taken`, and the gateway resumes none twice.

### The verifier

`VerifierOK` counts two sets: the keys in the map, and those only in the file, which a
restart would bring back. An append that goes wrong adds at most one of the second
kind, so the map stays within its limit and one key for each fault. For the refinement,
an evaluated request has its keys in the map until it expires, unless the file lost
a key; that is why it is evaluated once.

### Publication

`PublicationOK` has a part for the tables and a part for each request in progress
(`CallOK`): what it read before an await is still so when it uses it. Verifications and
releases are only added (`TablesGrow`) and objects are content addressed, so
their part survives the other requests. Keys come and go; a request in progress takes
nothing to be so of its key, and a key that lives names a row that stays. Capabilities do change, and there the proof
rests on the publishing transaction, which compares the whole digest again.

### Only model-checked

- `RunsSettle` of both stores and `CleanupsSettle`: liveness under weak fairness speaks
  of `ENABLED`, which the prover does not support. Their safety half is proved, see next.
- The three runs that expect a violation: a counterexample is not a theorem.

### What is proved about settling

That a run settles is liveness, but that nothing leaves it out is not. `NoRunIsForgotten`
says of every active run that it has a live lease, or waits for a person, a delay, an
expiry or the quota, or satisfies the query of a claim, sweep or repair; or else it is
stranded, respectively parked. What `RunsSettle` adds is that the query is made (fairness)
and that this happens finitely often (attempts are bounded). For the analysis queue the
proof needs, beyond the agreement of rows, that a run which was never suspended is queued
only with an attempt left (`BudgetLeft`); one that was, and is resumed after its last
attempt, cannot be claimed either, and is picked up only by the expiry of its checkpoint. `StrandedForGood` and `ParkedForGood` say that the two findings
of section 5 are no matter of the instance: no operation of a worker ever gets a run out
of these states, and only a resume parks a task.

## 5. Where the code and its documentation disagree

- **`analysis_stranded`.** `docs/architecture.md:41`: "A process crash leaves durable
  queue state recoverable after lease expiry." A resumed website run whose worker is
  lost after the checkpoint's expiry and before the third attempt is in the reach of
  no claim (`postgres.ts:1739` wants a fresh checkpoint), no sweep (1680 wants the
  third attempt) and no reconciliation (1367 wants a waiting or queued job). It stays
  running with an expired lease until a person cancels it. `RunsSettle` of
  `AnalysisProgress` shows that this is the *only* way a run fails to end, and
  `StrandedForGood` that no worker's operation undoes it.
- **`workflow_parked`.** `docs/architecture.md:39`: "exhausted work becomes terminal";
  `docs/runbooks/task-9-recovery.md:8`: "Run the reconciler; verify exactly one
  claim/next task." A phased task that waits in its last attempt is put back to queued
  by a resume (`postgres.ts:1284`) with its attempts spent: no claim takes it and the
  reconciler repairs only running tasks. Again `RunsSettle` of `WorkflowProgress` shows
  that it is the only exception. No handler calls wait today.
- **`analysis_cleanup_record`.** `docs/architecture.md:10` says the in-memory repository
  follows the same contract; there (`control-plane.ts:2393-2396`) a completed cleanup
  leaves the reported dispositions on the receipt. In PostgreSQL the lease is released
  before the receipt is updated (`postgres.ts:1588-1601`), the row level policy then
  hides the receipt from the worker, and the update changes no row.

### Behaviour a reader might not expect

These contradict no sentence of the documentation that a run could hold them to, but
they are what the models do because the code does.

- **Two checks of one key.** Two workers of one task can both look up a check, find none
  and create one. From then on every lookup of that key answers
  `GITHUB_CHECK_RESPONSE_INVALID`, which is permanent: the run fails for good
  (`LookupCheck`).
- **A second pull request.** When a person closes or merges the pull request between
  publish and install_verify, the second phase opens another.
- **The check's key** depends on the sandbox reference, which includes its logs, so
  two attempts may each create a check of their own.
- **The replay store can exceed its limit**, by one key per failed flush, see above.
- **A run that fails in a repair, and one that is cancelled**, leave their project's
  status as it was (`postgres.ts:1448`).

## 6. What is not modelled

- `WorkflowStore` and `AnalysisQueue` share projects, the one-active-run index, the
  quota and the reconciler's transaction in the code. They are modelled apart: each
  module's reconcile is the part of `reconcileWorkflows` that touches its rows, and a
  project's runs are all of one kind.
- A branch of `#persistAnalysisResult` (`postgres.ts:2511-2527`) that acknowledges an
  already completed authenticated run cannot be reached: the caller refuses it first.
- The order in which transactions lock rows (each is atomic in the model), so a
  deadlock inside PostgreSQL is out of view.
- The order of claims (`order by`, `limit`), so starvation of one organization by
  another, or behind a candidate whose locks refuse it, is out of view.
- **Controller.** The phases before publish go through the same protocol and only read.
  Creating the branch is left out (its head proves itself, and before the patch it is
  the base whoever made it), and so are the delayed arrival of a request that was
  aborted, pushes by others, and a phase without a handler.
- **Gateway, worker, handoff.** Egress policies, ownership challenges, evidence files,
  the page observer and the portal's page; what a browser does past its time to live is
  left open. The provider is external: a stop it accepted has ended the browser.
- **Verifier.** The journeys of `candidate.ts` and `installation.ts` in a real page are
  an outcome the evaluation chooses freely. Clocks do not go backwards.
- **Publication.** The compiler, the journey's report and the identity check are inputs;
  capabilities start proposed; the retention of live receipts is left out.
- **In-memory repository.** It runs in one process without interleaving, so its hazards
  are not those of the rows; it is a second statement of the contract, and section
  5 quotes it.
- **Providers, compilers, analyzers, evaluation, observability, request parsing, pages,
  scripts and fixtures** are pure functions, I/O or presentation; together they are
  most of the repository's lines. Their effect on the modelled state (an attempt
  that ends well, transiently or for good; a result; a plan) is an input
  the actions leave open. What is left to say of them is about text and
  documents, not about orders of events.

## 7. Plan

The proofs planned for the two stores, the controller, the session, the verifier and
publication are done. Left:

1. **Compose** the two stores over one project. They share the index of one active run,
   the organization's quota and `projects.status`; a module over both would show that a
   run of one kind keeps out a run of the other. Both project theorems already
   rest on one active run per project, so their proofs should carry over.
2. **The in-memory repository** as a second implementation of `PhaseChain`, to make
   differences such as `analysis_cleanup_record` systematic.
3. **The edges**: egress policies and ownership challenges of the
   gateway, the retention of live receipts and its effect on cleanups that are still owed.
