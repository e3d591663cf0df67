--------------------------- MODULE AnalysisProgress ---------------------------
(***************************************************************************)
(* What the analysis queue owes a run over time, under the fairness of the *)
(* worker's loop: every processProductionWorkerIteration reconciles, then  *)
(* claims a cleanup, then claims an analysis, so what stays possible is    *)
(* done; delays and checkpoints expire; and an attempt ends, because its   *)
(* worker answers or dies and its lease runs out.  People are not fair:    *)
(* nobody has to resume, terminate or cancel anything.                     *)
(***************************************************************************)
EXTENDS AnalysisQueue

AttemptEnds(r) ==
    \/ \E w \in Workers, g \in Attempts :
          \/ WaitAnalysisForAuthentication(w, r, g)
          \/ \E h \in Results :
                CompleteAnalysis(w, r, g, h) \/ CompleteCheckpointedAnalysis(w, r, g, h)
          \/ \E retryable \in BOOLEAN : FailAnalysis(w, r, g, retryable)
    \/ job[r].lease = 1 /\ LeaseTick(r)

CleanupEnds(r) ==
    \/ \E w \in Workers, g \in Attempts :
          \/ CompleteCleanup(w, r, g)
          \/ \E retryable \in BOOLEAN : RetryCleanup(w, r, g, retryable)
    \/ cleanup[r].lease = 1 /\ CleanupTick(r)

SomeClaim == \E w \in Workers, r \in Runs : ClaimAnalysis(w, {}, {r})

SomeSweep ==
    \E w \in Workers, swept \in SUBSET {r \in Runs : Exhausted(r)}, claimed \in Picks :
        swept # {} /\ ClaimAnalysis(w, swept, claimed)

SomeReconciliation ==
    \E found \in SUBSET {r \in Runs : AuthenticationExpired(r)} :
        ReconcileExpiredAuthentication(found)

SomeCleanupClaim == \E w \in Workers, claimed \in Picks : ClaimCleanup(w, claimed)

Fairness ==
    /\ WF_vars(SomeClaim) /\ WF_vars(SomeSweep)
    /\ WF_vars(SomeReconciliation) /\ WF_vars(SomeCleanupClaim)
    /\ \A r \in Runs :
          /\ WF_vars(AttemptEnds(r)) /\ WF_vars(CleanupEnds(r))
          /\ WF_vars(RetryDue(r)) /\ WF_vars(CleanupDue(r)) /\ WF_vars(CheckpointExpires(r))

FairSpec == Spec /\ Fairness

\* Every run ends by itself, through crashes, retries, waits nobody answers and
\* contention for the quota.  The one exception is a stranded run.
RunsSettle ==
    \A r \in Runs : flow[r] \in ActiveStatus ~> flow[r] \in TerminalStatus \/ Stranded(r)

\* A browser session that is owed a cleanup is cleaned up or, after the attempt
\* budget, reported as failed; it is not owed for ever.
CleanupsSettle ==
    \A r \in Runs :
        cleanup[r].status \in {"pending", "running"} ~>
            cleanup[r].status \in {"succeeded", "failed"}

\* A process crash leaves durable queue state recoverable after lease expiry: a
\* run whose lease expired is claimed again or ends.
ExpiredLeasesRecover ==
    \A r \in Runs : Expired(job[r]) ~> ~Expired(job[r])

=============================================================================
