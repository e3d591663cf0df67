------------------------ MODULE MCWorkflowController ------------------------
(***************************************************************************)
(* A small instance of WorkflowController for TLC: one run through publish *)
(* and install_verify, two workers, three attempts at each phase.          *)
(***************************************************************************)
EXTENDS WorkflowController, TLC

CONSTANTS w1, w2, r1, p1, o1, d1, k1, e1, e2

MCProjectOf == [r \in Runs |-> p1]
MCOrgOf == [p \in Projects |-> o1]
Interchangeable == Permutations(Workers) \cup Permutations(References)

=============================================================================
