---------------------------- MODULE MCPublication ----------------------------
(***************************************************************************)
(* A small instance of Publication for TLC: run a1 has a mutation that an  *)
(* owner must approve, run a2 a read; two requests share one key.          *)
(***************************************************************************)
EXTENDS Publication, TLC

CONSTANTS c1, c2, a1, a2, read, refund, k1

MCRunOf == [c \in Caps |-> IF c = refund THEN a1 ELSE a2]
MCPlanOf == [c \in Caps |-> c]
MCTierOf == [c \in Caps |-> IF c = refund THEN "R2" ELSE "R0"]
Interchangeable == Permutations(Calls)

=============================================================================
