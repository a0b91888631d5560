------------------------------ MODULE FlushLocks ------------------------------
(***************************************************************************)
(* The order in which the transactions of the backend take their database  *)
(* locks.  A flush runs the two listeners of backend/app/core/             *)
(* audit_listener.py around its UPDATEs, each of which locks its row.      *)
(* before_flush waits for the advisory lock of the audit chain when the    *)
(* handler has added AuditLog rows itself; after_flush waits for it when   *)
(* the flush has changes to record.  Imports set skip_audit and take it    *)
(* never.  All locks are kept until the transaction ends, so rows are      *)
(* asked for with the advisory lock in hand: after before_flush, and in a  *)
(* transaction's later flushes.                                            *)
(***************************************************************************)
EXTENDS Naturals, FiniteSets, FiniteSetsExt, Relation

CONSTANTS
    Sessions,     \* open transactions
    Rows,         \* rows that more than one of them updates, in the order in
                  \* which a flush sorts them: by table, then by primary key
    SkipAudit,    \* those with session.info["skip_audit"]
    MaxFlushes,   \* bound on the flushes of each transaction
    None          \* no session

ASSUME FlushAssumption == /\ Rows \subseteq Nat
                          /\ SkipAudit \subseteq Sessions
                          /\ MaxFlushes \in [Sessions -> Nat]
                          /\ None \notin Sessions

VARIABLES
    pc,        \* "run", "before" (before_flush waits for the advisory lock),
               \* "update" (waits for a row), "after" (after_flush waits for
               \* the advisory lock), "failed" (aborted by the deadlock detector)
    want,      \* the rows the flush has still to update
    records,   \* after_flush of the flush under way finds changes to record
    owner,     \* per row, the transaction that has updated it
    chain,     \* holder of the advisory lock
    flushes,   \* flushes the transaction has started
    audits     \* history: the transaction has, or is to have, audit rows

vars == <<pc, want, records, owner, chain, flushes, audits>>

Init == /\ pc = [s \in Sessions |-> "run"]
        /\ want = [s \in Sessions |-> {}]
        /\ records = [s \in Sessions |-> FALSE]
        /\ owner = [r \in Rows |-> None]
        /\ chain = None
        /\ flushes = [s \in Sessions |-> 0]
        /\ audits = [s \in Sessions |-> FALSE]

-------------------------------------------------------------------------------
\* Where a flush stands with these rows to update and that to record.
Stage(rows, recs) == IF rows # {} THEN "update" ELSE IF recs THEN "after" ELSE "run"

\* A flush of dirty rows, with AuditLog rows of the handler (direct) or not,
\* and with changes for after_flush to record (listened) or not: a changed
\* password alone, for one, is not recorded.
StartFlush(s, dirty, direct, listened) ==
    LET heard == s \notin SkipAudit
        recs == listened /\ heard IN
    /\ pc[s] = "run"
    /\ flushes[s] < MaxFlushes[s]
    /\ dirty # {} \/ direct \/ listened
    /\ pc' = [pc EXCEPT ![s] = IF direct /\ heard THEN "before" ELSE Stage(dirty, recs)]
    /\ want' = [want EXCEPT ![s] = dirty]
    /\ records' = [records EXCEPT ![s] = recs]
    /\ flushes' = [flushes EXCEPT ![s] = @ + 1]
    /\ audits' = [audits EXCEPT ![s] = @ \/ (direct /\ heard) \/ recs]
    /\ UNCHANGED <<owner, chain>>

\* Mutant: the UPDATEs are sent in no particular order.
Mutant_Update(s) ==
    \E r \in want[s] :
        /\ pc[s] = "update"
        /\ owner[r] \in {None, s}
        /\ owner' = [owner EXCEPT ![r] = s]
        /\ want' = [want EXCEPT ![s] = @ \ {r}]
        /\ pc' = [pc EXCEPT ![s] = Stage(want[s] \ {r}, records[s])]
        /\ UNCHANGED <<records, chain, flushes, audits>>

\* The next UPDATE of the flush returns; it waits for another writer of the row.
Update(s) ==
    LET r == Min(want[s]) IN
    /\ pc[s] = "update"
    /\ owner[r] \in {None, s}
    /\ owner' = [owner EXCEPT ![r] = s]
    /\ want' = [want EXCEPT ![s] = @ \ {r}]
    /\ pc' = [pc EXCEPT ![s] = Stage(want[s] \ {r}, records[s])]
    /\ UNCHANGED <<records, chain, flushes, audits>>

\* Mutant: the listener tries the lock and goes on without it.
Mutant_LockChain(s) ==
    /\ pc[s] \in {"before", "after"}
    /\ chain' = IF chain = None THEN s ELSE chain
    /\ pc' = [pc EXCEPT ![s] = IF @ = "before" THEN Stage(want[s], records[s]) ELSE "run"]
    /\ records' = [records EXCEPT ![s] = @ /\ pc[s] = "before"]
    /\ UNCHANGED <<want, owner, flushes, audits>>

\* finalize_chain, called by either listener: SELECT pg_advisory_xact_lock
\* returns and the audit rows are hashed.
LockChain(s) ==
    /\ pc[s] \in {"before", "after"}
    /\ chain \in {None, s}
    /\ chain' = s
    /\ pc' = [pc EXCEPT ![s] = IF @ = "before" THEN Stage(want[s], records[s]) ELSE "run"]
    /\ records' = [records EXCEPT ![s] = @ /\ pc[s] = "before"]
    /\ UNCHANGED <<want, owner, flushes, audits>>

\* Mutant: the advisory lock is a session lock and survives the transaction.
Mutant_Release(s) ==
    /\ owner' = [r \in Rows |-> IF owner[r] = s THEN None ELSE owner[r]]
    /\ chain' = chain

\* Row locks and the advisory lock end with the transaction.
Release(s) ==
    /\ owner' = [r \in Rows |-> IF owner[r] = s THEN None ELSE owner[r]]
    /\ chain' = IF chain = s THEN None ELSE chain

\* Commit or rollback by the handler; the session is reused by another request.
End(s) ==
    /\ pc[s] = "run" /\ flushes[s] > 0
    /\ Release(s)
    /\ flushes' = [flushes EXCEPT ![s] = 0]
    /\ audits' = [audits EXCEPT ![s] = FALSE]
    /\ UNCHANGED <<pc, want, records>>

-------------------------------------------------------------------------------
\* Postgres: who waits for whom, and the detector that aborts one of a cycle.
Holder(s) == IF pc[s] = "update" THEN owner[Min(want[s])]
             ELSE IF pc[s] \in {"before", "after"} THEN chain ELSE None
Waiting(s) == Holder(s) \notin {None, s}
WaitsFor == [e \in Sessions \X Sessions |-> Waiting(e[1]) /\ Holder(e[1]) = e[2]]
Behind(s, u) == TransitiveClosure(WaitsFor, Sessions)[s, u]
InCycle(s) == Waiting(s) /\ Behind(s, s)

\* The statement raises DeadlockDetected: the transaction is aborted.  The
\* listeners catch the exception, but every later statement fails.
Deadlock(s) ==
    /\ InCycle(s)
    /\ Release(s)
    /\ pc' = [pc EXCEPT ![s] = "failed"]
    /\ want' = [want EXCEPT ![s] = {}]
    /\ records' = [records EXCEPT ![s] = FALSE]
    /\ UNCHANGED <<flushes, audits>>

\* The handler answers 500 and the session is returned to the pool.
Reset(s) ==
    /\ pc[s] = "failed"
    /\ pc' = [pc EXCEPT ![s] = "run"]
    /\ flushes' = [flushes EXCEPT ![s] = 0]
    /\ audits' = [audits EXCEPT ![s] = FALSE]
    /\ UNCHANGED <<want, records, owner, chain>>

-------------------------------------------------------------------------------
Progress(s) == Update(s) \/ LockChain(s) \/ End(s) \/ Deadlock(s) \/ Reset(s)

Start(s) == \E dirty \in SUBSET Rows, direct, listened \in BOOLEAN :
                StartFlush(s, dirty, direct, listened)

Next == \E s \in Sessions : Progress(s) \/ Start(s)

\* Weak fairness of each transaction's own progress (the server grants a free
\* lock, every handler ends) and strong fairness of the grants: Postgres queues
\* the waiters of a lock in order.
Fairness == \A s \in Sessions : /\ WF_vars(Progress(s))
                                /\ SF_vars(Update(s))
                                /\ SF_vars(LockChain(s))
Spec == Init /\ [][Next]_vars /\ Fairness

-------------------------------------------------------------------------------
(* Properties *)

\* Every variable holds a value of its domain, and locks do not outlive their
\* transaction.
TypeOK == /\ pc \in [Sessions -> {"run", "before", "update", "after", "failed"}]
          /\ want \in [Sessions -> SUBSET Rows]
          /\ records \in [Sessions -> BOOLEAN]
          /\ owner \in [Rows -> Sessions \cup {None}]
          /\ chain \in Sessions \cup {None}
          /\ flushes \in [Sessions -> Nat]
          /\ \A s \in Sessions : flushes[s] <= MaxFlushes[s]
          /\ audits \in [Sessions -> BOOLEAN]
          /\ \A s \in Sessions : (flushes[s] = 0 \/ pc[s] = "failed") =>
                chain # s /\ \A r \in Rows : owner[r] # s

\* Audited writers exclude each other: a transaction with audit rows, from the
\* end of the flush that gave it the first one until it ends, holds the
\* advisory lock, so no two are between flush and commit (finalize_chain's
\* pg_advisory_xact_lock in before_flush and after_flush).  Imports and flushes
\* that record nothing are not excluded.
OneWriter == \A s \in Sessions : (pc[s] = "run" /\ audits[s]) => chain = s

\* Where deadlocks come from: some transaction of the cycle asks for a row with
\* the advisory lock in hand, or in a flush after its first.  Transactions that
\* flush once, without audit rows of the handler, never deadlock each other
\* (the sorted UPDATEs of a flush, and after_flush after all of them).
DeadlockNeedsLateRow ==
    \A s \in Sessions : InCycle(s) =>
        \E u \in Sessions : /\ Behind(s, u) /\ Behind(u, s)
                            /\ pc[u] = "update" /\ (chain = u \/ flushes[u] > 1)

\* "Chain finalisation must never make a write fail": no transaction is ever
\* aborted by a deadlock between its rows and the advisory lock (the order of
\* the UPDATEs of a flush and of finalize_chain).
WritesNeverFail == \A s \in Sessions : pc[s] # "failed"

\* Nobody waits for ever: a flush gets its locks and finishes, or is aborted
\* (both listeners block on the advisory lock without a timeout).
EveryFlushEnds ==
    \A s \in Sessions :
        (pc[s] \in {"before", "update", "after"}) ~> (pc[s] \in {"run", "failed"})
===============================================================================
