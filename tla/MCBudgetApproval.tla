--------------------------- MODULE MCBudgetApproval ---------------------------
(* Small instances of BudgetApproval. *)
EXTENDS BudgetApproval, TLC

CONSTANTS s1, s2, s3, p1, p2, p3

MCTwoSessions == {s1, s2}
MCSessions == {s1, s2, s3}
MCSteps == {p1, p2, p3}

\* A sequential chain, and one with two steps of the same number before the last.
MCSequential == p1 :> 1 @@ p2 :> 2 @@ p3 :> 3
MCParallel == p1 :> 1 @@ p2 :> 1 @@ p3 :> 2

MCSymmetry == Permutations(MCSessions)
===============================================================================
