------------------------------ MODULE AuditChain ------------------------------
(***************************************************************************)
(* The tamper-evident audit log: backend/app/core/audit_chain.py and the   *)
(* flush listeners of backend/app/core/audit_listener.py that feed it.     *)
(*                                                                         *)
(* A row is identified by its created_at, which finalize_chain reads from  *)
(* the clock under the advisory lock; the clock is taken to be strictly    *)
(* increasing across the workers.  A hash is abstracted to the row it is   *)
(* the hash of: prev is the created_at of the row prev_hash stands for, 0  *)
(* for NULL, and key is the day whose HMAC key signed the row.             *)
(***************************************************************************)
EXTENDS Integers, FiniteSets

CONSTANTS
    Sessions,    \* transactions that may run at the same time
    DayLength,   \* ticks of the clock in a UTC day
    MaxClock,    \* bound on the clock
    MaxBatch,    \* bound on the rows one flush may chain
    NoSession    \* nobody holds the advisory lock

ASSUME SessionAssumption == NoSession \notin Sessions
ASSUME ClockAssumption == /\ DayLength \in Nat \ {0}
                          /\ MaxClock \in Nat
                          /\ MaxBatch \in Nat

VARIABLES
    clock,       \* datetime.now(UTC)
    log,         \* the committed rows of audit_logs
    lock,        \* holder of pg_advisory_xact_lock('audit_chain')
    tx,          \* the audit rows of each open transaction
    signing,     \* what sign_day has read and not yet committed
    checkpoint   \* per day, the rows under the Merkle root ({}: none)

vars == <<clock, log, lock, tx, signing, checkpoint>>

Day(at) == at \div DayLength
Days == 0 .. Day(MaxClock)

\* changes: entities added, changed or deleted since the last flush;
\* direct:  AuditLog objects handlers added themselves, not yet hashed;
\* pending: rows hashed by after_flush, to be inserted by the next flush;
\* inserted: rows inserted and not committed.
NoTx == [changes |-> 0, direct |-> 0, pending |-> {}, inserted |-> {}]
NotSigning == [day |-> -1, rows |-> {}]

Init == /\ clock = 0
        /\ log = {}
        /\ lock = NoSession
        /\ tx = [s \in Sessions |-> NoTx]
        /\ signing = NotSigning
        /\ checkpoint = [d \in Days |-> {}]

-------------------------------------------------------------------------------
\* _last_row_hash: the newest row the transaction sees.
Tail(rows) == IF rows = {} THEN 0
              ELSE (CHOOSE m \in rows : \A r \in rows : r.at <= m.at).at

\* Mutants: every row of a batch gets the same prev_hash; created_at is ahead
\* of the clock.
Mutant_SamePrev(now, n, prev) ==
    {[at |-> now + i, prev |-> prev, key |-> Day(now)] : i \in 1 .. n}
Mutant_Ahead(now, n, prev) ==
    {[at |-> now + i + 1, prev |-> prev, key |-> Day(now)] : i \in 1 .. n}

\* finalize_chain: n rows linked one after the other to the tail.  The key is
\* that of the day when it starts, each created_at is read later.
finalize_chain(now, n, prev) ==
    {[at |-> now + i, prev |-> IF i = 1 THEN prev ELSE now + i - 1,
      key |-> Day(now)] : i \in 1 .. n}

-------------------------------------------------------------------------------
Change(s) ==
    /\ tx[s].changes + tx[s].direct < MaxBatch
    /\ tx' = [tx EXCEPT ![s].changes = @ + 1]
    /\ UNCHANGED <<clock, log, lock, signing, checkpoint>>

\* log_action, program_state_machine._write_audit_log
LogDirect(s) ==
    /\ tx[s].changes + tx[s].direct < MaxBatch
    /\ tx' = [tx EXCEPT ![s].direct = @ + 1]
    /\ UNCHANGED <<clock, log, lock, signing, checkpoint>>

Chained(s) == tx[s].direct + tx[s].changes

\* Mutant: the lock is not waited for.
Mutant_MayLock(s) == TRUE
MayLock(s) == lock \in {NoSession, s}

\* One flush: before_flush hashes the direct rows, everything pending is
\* inserted, after_flush hashes one row per changed entity.  It waits for the
\* advisory lock when it has rows to hash and keeps it.
Flush(s) ==
    LET t == tx[s]
        direct == finalize_chain(clock, t.direct, Tail(log \cup t.inserted))
        inserted == t.inserted \cup t.pending \cup direct
        after == finalize_chain(clock + t.direct, t.changes, Tail(log \cup inserted))
    IN  /\ Chained(s) > 0 \/ t.pending # {}
        /\ Chained(s) > 0 => MayLock(s)
        /\ clock + Chained(s) <= MaxClock
        /\ clock' = clock + Chained(s)
        /\ lock' = IF Chained(s) > 0 THEN s ELSE lock
        /\ tx' = [tx EXCEPT ![s] = [changes |-> 0, direct |-> 0, pending |-> after,
                                    inserted |-> inserted]]
        /\ UNCHANGED <<log, signing, checkpoint>>

Release(s) == lock' = IF lock = s THEN NoSession ELSE lock

\* Session.commit flushes until nothing is left, then commits.
Commit(s) ==
    /\ Chained(s) = 0 /\ tx[s].pending = {}
    /\ log' = log \cup tx[s].inserted
    /\ tx' = [tx EXCEPT ![s] = NoTx]
    /\ Release(s)
    /\ UNCHANGED <<clock, signing, checkpoint>>

\* The request fails, the worker dies or the connection is lost.
Rollback(s) ==
    /\ tx[s] # NoTx
    /\ tx' = [tx EXCEPT ![s] = NoTx]
    /\ Release(s)
    /\ UNCHANGED <<clock, log, signing, checkpoint>>

Tick == /\ clock < MaxClock
        /\ clock' = clock + 1
        /\ UNCHANGED <<log, lock, tx, signing, checkpoint>>

-------------------------------------------------------------------------------
DayRows(d) == {r \in log : Day(r.at) = d}

Uncommitted(s) == tx[s].pending \cup tx[s].inserted

yesterday == Day(clock) - 1

\* sign_day, from _sign_audit_chain_job.  It takes no lock: it starts five
\* minutes after midnight, when no transaction that hashed a row on the day to
\* sign is taken to be still open.
SignRead ==
    /\ signing = NotSigning
    /\ yesterday \in Days
    /\ checkpoint[yesterday] = {}
    /\ DayRows(yesterday) # {}
    /\ \A s \in Sessions : \A r \in Uncommitted(s) : Day(r.at) # yesterday
    /\ signing' = [day |-> yesterday, rows |-> DayRows(yesterday)]
    /\ UNCHANGED <<clock, log, lock, tx, checkpoint>>

\* After the signature and up to fifteen seconds of FreeTSA.
SignCommit ==
    /\ signing # NotSigning
    /\ checkpoint' = [checkpoint EXCEPT ![signing.day] = signing.rows]
    /\ signing' = NotSigning
    /\ UNCHANGED <<clock, log, lock, tx>>

-------------------------------------------------------------------------------
SessionStep(s) == \/ Change(s)
                  \/ LogDirect(s)
                  \/ Flush(s)
                  \/ Commit(s)
                  \/ Rollback(s)

Next == (\E s \in Sessions : SessionStep(s)) \/ Tick \/ SignRead \/ SignCommit

Spec == Init /\ [][Next]_vars

\* No handler adds its own row while a row of the listener is pending.
NoMixedFlush == \A s \in Sessions : tx'[s].direct > 0 => tx'[s].pending = {}

\* No batch is hashed across midnight.
NoMidnightFlush == tx' # tx => Day(clock') = Day(clock)

CleanSpec == Init /\ [][Next /\ NoMixedFlush /\ NoMidnightFlush]_vars
MixedSpec == Init /\ [][Next /\ NoMidnightFlush]_vars

-------------------------------------------------------------------------------
(* Properties *)

Row == [at : Nat, prev : Nat, key : Nat]
Tx == [changes : Nat, direct : Nat, pending : SUBSET Row, inserted : SUBSET Row]

\* Every variable holds a value of its domain and no row is from the future.
TypeOK == /\ clock \in Nat
          /\ log \in SUBSET Row
          /\ lock \in Sessions \cup {NoSession}
          /\ tx \in [Sessions -> Tx]
          /\ signing \in [day : Int, rows : SUBSET Row]
          /\ checkpoint \in [Days -> SUBSET Row]
          /\ \A r \in log : r.at <= clock
          /\ \A s \in Sessions : \A r \in Uncommitted(s) : r.at <= clock

\* "Two concurrent flushes can't both read the same prev_hash": no commit adds
\* a row that branches off the same row as one committed by another
\* transaction (finalize_chain under the advisory lock).
NoForkAcrossTransactions ==
    [][\A r \in log' \ log : \A q \in log : r.prev # q.prev]_vars

\* The log is append-only in the order of the chain: a commit only adds rows
\* newer than all committed ones, so _last_row_hash never skips one.
CommitsInOrder == [][\A r \in log' \ log : \A q \in log : q.at < r.at]_vars

\* verify_day: links, HMACs under the day's key, and the checkpoint.
expected_prev(r, rows) ==
    LET before == {q \in rows : q.at < r.at} IN
    IF before = {} THEN Tail({q \in log : Day(q.at) < Day(r.at)}) ELSE Tail(before)
verify_day(d) ==
    LET rows == DayRows(d) IN
    rows # {} => /\ \A r \in rows : r.prev = expected_prev(r, rows) /\ r.key = d
                 /\ checkpoint[d] = rows

\* The verify job raises no false alarm: a day that was signed verifies, then
\* and ever after, when nobody tampers with the rows (verify_day against
\* finalize_chain and sign_day).
SignedDayVerifies == \A d \in Days : checkpoint[d] # {} => verify_day(d)

\* The invariant behind NoForkAcrossTransactions: only the holder of the lock
\* has hashed rows, and they all hang off rows at least as new as every
\* committed one.
LockedRowsAreNewer ==
    /\ \A q \in log : q.prev < q.at
    /\ \A s \in Sessions : \A r \in Uncommitted(s) :
          /\ lock = s
          /\ r.prev < r.at
          /\ \A q \in log : q.at <= r.prev
===============================================================================
