--------------------------- MODULE FlushLocksProofs ---------------------------
(***************************************************************************)
(* The locks of the transactions keep writers apart, for any number of     *)
(* transactions, rows and flushes.                                         *)
(***************************************************************************)
EXTENDS FlushLocks, TLAPS

(* A transaction inside a flush has started one, so what it holds is not    *)
(* left over from the transaction before it.  One that is past before_flush *)
(* has the advisory lock for its audit rows, or gets it in after_flush.     *)
InFlush == {"before", "update", "after"}
FlushCounted == \A s \in Sessions :
    /\ pc[s] \in InFlush => flushes[s] > 0
    /\ audits[s] => flushes[s] > 0
    /\ pc[s] = "update" => want[s] # {}
    /\ (pc[s] = "update" /\ audits[s] /\ ~records[s]) => chain = s

(* The inductive invariant.                                                 *)
LocksInv == TypeOK /\ OneWriter /\ FlushCounted

(* Where a flush stands.                                                    *)
LEMMA StageFacts ==
    ASSUME NEW rows, NEW recs \in BOOLEAN
    PROVE  /\ Stage(rows, recs) \in {"update", "after", "run"}
           /\ Stage(rows, recs) = "update" <=> rows # {}
           /\ Stage(rows, recs) = "run" => ~recs
    BY DEF Stage

(* No transaction is open at first, no lock is held.                        *)
LEMMA InitLocks == Init => LocksInv
    BY FlushAssumption DEF Init, LocksInv, TypeOK, OneWriter, FlushCounted, InFlush

(* A flush that starts takes no lock and gives none back.                   *)
LEMMA StartFlushLocks ==
    ASSUME LocksInv, NEW s \in Sessions, NEW dirty \in SUBSET Rows,
           NEW direct \in BOOLEAN, NEW listened \in BOOLEAN,
           StartFlush(s, dirty, direct, listened)
    PROVE  LocksInv'
<1> DEFINE recs == listened /\ s \notin SkipAudit
           head == direct /\ s \notin SkipAudit
           p == IF head THEN "before" ELSE Stage(dirty, recs)
           a == audits[s] \/ head \/ recs
<1>1. /\ pc[s] = "run" /\ flushes[s] < MaxFlushes[s]
      /\ pc' = [pc EXCEPT ![s] = p] /\ want' = [want EXCEPT ![s] = dirty]
      /\ records' = [records EXCEPT ![s] = recs]
      /\ flushes' = [flushes EXCEPT ![s] = flushes[s] + 1]
      /\ audits' = [audits EXCEPT ![s] = a] /\ UNCHANGED <<owner, chain>>
    BY DEF StartFlush
<1>2. /\ p \in {"before", "update", "after", "run"}
      /\ p = "update" => dirty # {} /\ ~head
      /\ p = "run" => ~recs /\ ~head
      /\ recs \in BOOLEAN /\ a \in BOOLEAN /\ (a /\ ~head /\ ~recs => audits[s])
    BY StageFacts DEF LocksInv, TypeOK
<1> HIDE DEF recs, head, p, a
<1>3. flushes[s] \in Nat /\ MaxFlushes[s] \in Nat
    BY FlushAssumption DEF LocksInv, TypeOK
<1>4. TypeOK'
    BY <1>1, <1>2, <1>3 DEF LocksInv, TypeOK
<1>5. OneWriter'
    BY <1>1, <1>2 DEF LocksInv, TypeOK, OneWriter
<1>6. FlushCounted'
    BY <1>1, <1>2, <1>3 DEF LocksInv, TypeOK, OneWriter, FlushCounted, InFlush
<1> QED  BY <1>4, <1>5, <1>6 DEF LocksInv

(* An UPDATE gives its row to a transaction that has started a flush; the   *)
(* holder of the advisory lock does not change.                             *)
LEMMA UpdateLocks == ASSUME LocksInv, NEW s \in Sessions, Update(s) PROVE LocksInv'
<1> DEFINE r == Min(want[s])
           p == Stage(want[s] \ {r}, records[s])
<1>1. /\ pc[s] = "update" /\ flushes[s] > 0
      /\ owner' = [owner EXCEPT ![r] = s]
      /\ want' = [want EXCEPT ![s] = want[s] \ {r}]
      /\ pc' = [pc EXCEPT ![s] = p]
      /\ UNCHANGED <<records, chain, flushes, audits>>
    BY DEF Update, LocksInv, FlushCounted, TypeOK, InFlush
<1>2. /\ p \in {"update", "after", "run"}
      /\ p = "update" => want[s] \ {r} # {}
      /\ p = "run" => ~records[s]
    BY StageFacts DEF LocksInv, TypeOK
<1> HIDE DEF r, p
<1>3. /\ pc' \in [Sessions -> {"run", "before", "update", "after", "failed"}]
      /\ want' \in [Sessions -> SUBSET Rows]
      /\ owner' \in [Rows -> Sessions \cup {None}]
    BY <1>1, <1>2 DEF LocksInv, TypeOK
<1>4. ASSUME NEW t \in Sessions, flushes[t] = 0 \/ pc'[t] = "failed"
      PROVE  chain # t /\ \A x \in Rows : owner'[x] # t
    BY <1>1, <1>2, <1>4 DEF LocksInv, TypeOK
<1>5. TypeOK'
    BY <1>1, <1>3, <1>4 DEF LocksInv, TypeOK
<1>6. OneWriter' /\ FlushCounted'
    BY <1>1, <1>2 DEF LocksInv, TypeOK, OneWriter, FlushCounted, InFlush
<1> QED  BY <1>5, <1>6 DEF LocksInv

(* The advisory lock is granted only when it is free or already held, so    *)
(* the audited transaction that leaves its flush is the only one outside.   *)
LEMMA LockChainLocks == ASSUME LocksInv, NEW s \in Sessions, LockChain(s) PROVE LocksInv'
<1> DEFINE p == IF pc[s] = "before" THEN Stage(want[s], records[s]) ELSE "run"
           b == records[s] /\ pc[s] = "before"
<1>1. /\ pc[s] \in {"before", "after"} /\ chain \in {None, s} /\ chain' = s
      /\ pc' = [pc EXCEPT ![s] = p] /\ records' = [records EXCEPT ![s] = b]
      /\ UNCHANGED <<want, owner, flushes, audits>>
    BY DEF LockChain, LocksInv, TypeOK
<1>2. /\ p \in {"update", "after", "run"} /\ b \in BOOLEAN
      /\ p = "update" => want[s] # {}
    BY StageFacts DEF LocksInv, TypeOK
<1> HIDE DEF p, b
<1>3. flushes[s] # 0 /\ flushes[s] > 0
    BY <1>1 DEF LocksInv, FlushCounted, InFlush, TypeOK
<1>4. TypeOK'
    BY <1>1, <1>2, <1>3, FlushAssumption DEF LocksInv, TypeOK
<1>5. \A t \in Sessions \ {s} : chain # t
    BY <1>1, FlushAssumption DEF LocksInv, TypeOK
<1>6. OneWriter' /\ FlushCounted'
    BY <1>1, <1>2, <1>3, <1>5 DEF LocksInv, TypeOK, OneWriter, FlushCounted, InFlush
<1> QED  BY <1>4, <1>6 DEF LocksInv

(* Releasing takes every lock from one transaction and from no other.       *)
LEMMA ReleaseFrees ==
    ASSUME TypeOK, NEW s \in Sessions, Release(s)
    PROVE  /\ owner' \in [Rows -> Sessions \cup {None}]
           /\ chain' \in Sessions \cup {None}
           /\ chain' # s /\ \A r \in Rows : owner'[r] # s
           /\ \A t \in Sessions \ {s} : (chain' = t <=> chain = t)
           /\ \A t \in Sessions \ {s}, r \in Rows : (owner'[r] = t <=> owner[r] = t)
    BY FlushAssumption DEF Release, TypeOK

(* Commit and rollback free what the transaction holds and leave the        *)
(* audited writer outside a flush, if it is another one, alone.             *)
LEMMA EndLocks == ASSUME LocksInv, NEW s \in Sessions, End(s) PROVE LocksInv'
<1>1. /\ pc[s] = "run" /\ flushes' = [flushes EXCEPT ![s] = 0]
      /\ audits' = [audits EXCEPT ![s] = FALSE] /\ UNCHANGED <<pc, want, records>>
    BY DEF End
<1>2. /\ owner' \in [Rows -> Sessions \cup {None}]
      /\ chain' \in Sessions \cup {None}
      /\ chain' # s /\ \A r \in Rows : owner'[r] # s
      /\ \A t \in Sessions \ {s} : (chain' = t <=> chain = t)
      /\ \A t \in Sessions \ {s}, r \in Rows : (owner'[r] = t <=> owner[r] = t)
    BY ReleaseFrees DEF End, LocksInv
<1>3. 0 <= MaxFlushes[s]
    BY FlushAssumption
<1>4. TypeOK'
    BY <1>1, <1>2, <1>3 DEF LocksInv, TypeOK
<1>5. OneWriter' /\ FlushCounted'
    BY <1>1, <1>2 DEF LocksInv, TypeOK, OneWriter, FlushCounted, InFlush
<1> QED  BY <1>4, <1>5 DEF LocksInv

(* So does the deadlock detector.                                           *)
LEMMA DeadlockLocks == ASSUME LocksInv, NEW s \in Sessions, Deadlock(s) PROVE LocksInv'
<1>1. /\ pc' = [pc EXCEPT ![s] = "failed"] /\ want' = [want EXCEPT ![s] = {}]
      /\ records' = [records EXCEPT ![s] = FALSE] /\ UNCHANGED <<flushes, audits>>
    BY DEF Deadlock
<1>2. /\ owner' \in [Rows -> Sessions \cup {None}]
      /\ chain' \in Sessions \cup {None}
      /\ chain' # s /\ \A r \in Rows : owner'[r] # s
      /\ \A t \in Sessions \ {s} : (chain' = t <=> chain = t)
      /\ \A t \in Sessions \ {s}, r \in Rows : (owner'[r] = t <=> owner[r] = t)
    BY ReleaseFrees DEF Deadlock, LocksInv
<1>3. TypeOK'
    BY <1>1, <1>2 DEF LocksInv, TypeOK
<1>4. OneWriter' /\ FlushCounted'
    BY <1>1, <1>2 DEF LocksInv, TypeOK, OneWriter, FlushCounted, InFlush
<1> QED  BY <1>3, <1>4 DEF LocksInv

(* A transaction that was aborted holds nothing when it is started again.   *)
LEMMA ResetLocks == ASSUME LocksInv, NEW s \in Sessions, Reset(s) PROVE LocksInv'
<1>1. /\ pc[s] = "failed" /\ pc' = [pc EXCEPT ![s] = "run"]
      /\ flushes' = [flushes EXCEPT ![s] = 0] /\ audits' = [audits EXCEPT ![s] = FALSE]
      /\ UNCHANGED <<want, records, owner, chain>>
    BY DEF Reset
<1>2. 0 <= MaxFlushes[s]
    BY FlushAssumption
<1>3. TypeOK'
    BY <1>1, <1>2 DEF LocksInv, TypeOK
<1>4. OneWriter' /\ FlushCounted'
    BY <1>1 DEF LocksInv, TypeOK, OneWriter, FlushCounted, InFlush
<1> QED  BY <1>3, <1>4 DEF LocksInv

(* Every step preserves the invariant.                                      *)
LEMMA NextLocks == LocksInv /\ [Next]_vars => LocksInv'
<1> SUFFICES ASSUME LocksInv, [Next]_vars PROVE LocksInv'
    OBVIOUS
<1>1. CASE UNCHANGED vars
    BY <1>1 DEF vars, LocksInv, TypeOK, OneWriter, FlushCounted, InFlush
<1>2. ASSUME NEW s \in Sessions, Progress(s) PROVE LocksInv'
    BY <1>2, UpdateLocks, LockChainLocks, EndLocks, DeadlockLocks, ResetLocks DEF Progress
<1>3. ASSUME NEW s \in Sessions, Start(s) PROVE LocksInv'
    BY <1>3, StartFlushLocks DEF Start
<1> QED  BY <1>1, <1>2, <1>3 DEF Next

(* Locks end with their transaction: one that has not flushed yet, or was   *)
(* aborted, holds neither a row nor the advisory lock.                      *)
THEOREM LocksEndWithTransaction == Spec => []TypeOK
    <1>1. LocksInv => TypeOK
        BY DEF LocksInv
    <1> QED  BY <1>1, InitLocks, NextLocks, PTL DEF Spec

(* However many transactions run and deadlock, at most one that has audit    *)
(* rows is outside a flush, and it holds the advisory lock of the audit      *)
(* chain until it ends.  Imports, which skip the audit, are not held off.    *)
THEOREM WritersExclude == Spec => []OneWriter
    <1>1. LocksInv => OneWriter
        BY DEF LocksInv
    <1> QED  BY <1>1, InitLocks, NextLocks, PTL DEF Spec
===============================================================================
