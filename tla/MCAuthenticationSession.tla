----------------------- MODULE MCAuthenticationSession -----------------------
(***************************************************************************)
(* A small instance of AuthenticationSession for TLC: one website run, two *)
(* workers, and attempts enough for a resume that is taken over.           *)
(***************************************************************************)
EXTENDS AuthenticationSession, TLC

CONSTANTS w1, w2, r1, p1, o1, h1

MCProjectOf == [r \in Runs |-> p1]
MCOrgOf == [p \in Projects |-> o1]
Interchangeable == Permutations(Workers)

=============================================================================
