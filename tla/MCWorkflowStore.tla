--------------------------- MODULE MCWorkflowStore ---------------------------
(***************************************************************************)
(* A small instance of WorkflowStore for TLC: one organization with two    *)
(* projects; r1 and r3 are successive runs of the first project.           *)
(***************************************************************************)
EXTENDS WorkflowProgress, TLC

CONSTANTS w1, w2, r1, r2, r3, p1, p2, o1, d1, d2, k1, k2

MCProjectOf == [r \in Runs |-> IF r = r2 THEN p2 ELSE p1]
MCOrgOf == [p \in Projects |-> o1]
Interchangeable == Permutations(Workers) \cup Permutations(Digests)

=============================================================================
