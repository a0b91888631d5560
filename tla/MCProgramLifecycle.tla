-------------------------- MODULE MCProgramLifecycle --------------------------
(* Small instances of ProgramLifecycle for TLC. *)
EXTENDS ProgramLifecycle, TLC

CONSTANTS s1, s2, m1, m2

MCSessions == {s1, s2}
MCOneSession == {s1}
MCMilestones == {m1}
MCTwoMilestones == {m1, m2}

\* One threshold: increases of 2 or more need an approval, up to the maximum.
MCThresholds == {[min |-> 2, max |-> 100]}

\* Every increase needs an approval.
MCAnyIncrease == {[min |-> 1, max |-> 100]}

MCSymmetry == Permutations({s1, s2})

===============================================================================
