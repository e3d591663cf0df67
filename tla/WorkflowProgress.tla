--------------------------- MODULE WorkflowProgress ---------------------------
(***************************************************************************)
(* What the workflow store owes a run over time, under the fairness the    *)
(* worker's loop provides: every iteration of                              *)
(* processProductionWorkerIteration reconciles and then tries to claim, so *)
(* a repair or a claim that stays possible is made; a retry delay is       *)
(* bounded; and an attempt ends, because its handler returns, fails or     *)
(* waits, or because its worker dies and its lease runs out.               *)
(***************************************************************************)
EXTENDS WorkflowStore

\* The holder of the lease answers, or is lost with its last heartbeat interval.
AttemptEnds(t) ==
    \/ \E w \in Workers, g \in Attempts :
          \/ \E d \in Digests : CompleteWorkflowTask(w, t, g, d)
          \/ \E c \in Classifications : FailWorkflowTask(w, t, g, c)
          \/ WaitWorkflowTask(w, t, g)
    \/ task[t].lease = 1 /\ LeaseTick(t)

SomeClaim == \E w \in Workers, t \in Tasks : ClaimWorkflowTask(w, t)

SomeRepair ==
    \E found \in SUBSET {t \in Tasks : Repairable(t)} : ReconcileWorkflows(found)

Fairness ==
    /\ WF_vars(SomeClaim)
    /\ WF_vars(SomeRepair)
    /\ \A t \in Tasks : WF_vars(AttemptEnds(t)) /\ WF_vars(RetryDue(t))

FairSpec == Spec /\ Fairness

\* A run with work to do ends or waits for a person, through any crashes,
\* retries and contention for the organization's quota.  The one exception is
\* a run parked by a resume on its last attempt.
RunsSettle ==
    \A r \in Runs :
        run[r].status \in {"queued", "running"} ~>
            \/ run[r].status \in TerminalStatus \cup {"waiting"}
            \/ Parked(<<r, run[r].phase>>)

\* The recovery runbook: for a stuck workflow with no active owner, run the
\* reconciler and find exactly one claim or next task.  So a task that spent
\* its attempts must not stay queued for ever.
ExhaustedWorkBecomesTerminal ==
    \A t \in Tasks : Parked(t) ~> run[t[1]].status \in TerminalStatus

=============================================================================
