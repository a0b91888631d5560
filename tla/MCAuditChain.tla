----------------------------- MODULE MCAuditChain -----------------------------
(* Small instances of AuditChain. *)
EXTENDS AuditChain, TLC

CONSTANTS s1, s2

MCSessions == {s1, s2}
MCSymmetry == Permutations(MCSessions)
===============================================================================
