--------------------------- MODULE MCAnalysisQueue ---------------------------
(***************************************************************************)
(* A small instance of AnalysisQueue for TLC: r1 and r2 belong to two      *)
(* projects of one organization; only r1 analyzes a website.               *)
(***************************************************************************)
EXTENDS AnalysisProgress, TLC

CONSTANTS w1, w2, r1, r2, p1, p2, o1, h1, h2

MCProjectOf == [r \in Runs |-> IF r = r2 THEN p2 ELSE p1]
MCOrgOf == [p \in Projects |-> o1]
MCWebsiteRuns == Runs \ {r2}
Interchangeable == Permutations(Workers) \cup Permutations(Results)

=============================================================================
