----------------------------- MODULE MCFlushLocks -----------------------------
(* Small instances of FlushLocks. *)
EXTENDS FlushLocks

CONSTANTS s1, s2, s3

MCSessions == {s1, s2, s3}
MCTwoSessions == {s1, s2}
MCImports == {s3}
MCNoImports == {}
\* One transaction flushes twice, and may do so beside others that do it once.
MCFlushes == [s \in Sessions |-> IF s = s1 THEN 2 ELSE 1]
===============================================================================
