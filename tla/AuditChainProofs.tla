--------------------------- MODULE AuditChainProofs ---------------------------
(* Proofs about AuditChain, for any number of transactions and any clock. *)
EXTENDS AuditChain, TLAPS

\* A set of rows has a newest one, unless it is empty.
Topped(R) == R = {} \/ \E m \in R : \A r \in R : r.at <= m.at

ToppedInv == /\ Topped(log)
             /\ \A s \in Sessions : Topped(tx[s].pending) /\ Topped(tx[s].inserted)

ChainInv == TypeOK /\ LockedRowsAreNewer /\ ToppedInv

\* _last_row_hash returns the newest row of what it sees.
LEMMA TailIsNewest ==
  ASSUME NEW R \in SUBSET Row, Topped(R)
  PROVE  /\ Tail(R) \in Nat
         /\ \A r \in R : r.at <= Tail(R)
         /\ R # {} => \E m \in R : Tail(R) = m.at
<1>1. CASE R = {}
  BY <1>1 DEF Tail
<1>2. CASE R # {}
  <2> DEFINE m == CHOOSE m \in R : \A r \in R : r.at <= m.at
  <2>1. m \in R /\ \A r \in R : r.at <= m.at
    BY <1>2 DEF Topped
  <2>2. Tail(R) = m.at
    BY <1>2 DEF Tail
  <2> HIDE DEF m
  <2> QED
    BY <2>1, <2>2 DEF Row
<1> QED
  BY <1>1, <1>2

\* The rows of two transactions together.
LEMMA ToppedUnion ==
  ASSUME NEW R \in SUBSET Row, NEW S \in SUBSET Row, Topped(R), Topped(S)
  PROVE  Topped(R \cup S)
<1>1. CASE R = {} \/ S = {}
  BY <1>1 DEF Topped
<1>2. CASE R # {} /\ S # {}
  <2>1. PICK m \in R : \A r \in R : r.at <= m.at
    BY <1>2 DEF Topped
  <2>2. PICK k \in S : \A r \in S : r.at <= k.at
    BY <1>2 DEF Topped
  <2>3. m.at \in Nat /\ k.at \in Nat /\ \A r \in R \cup S : r.at \in Nat
    BY DEF Row
  <2>4. CASE m.at <= k.at
    BY <2>1, <2>2, <2>3, <2>4 DEF Topped
  <2>5. CASE k.at <= m.at
    BY <2>1, <2>2, <2>3, <2>5 DEF Topped
  <2> QED
    BY <2>3, <2>4, <2>5
<1> QED
  BY <1>1, <1>2

\* A day is a natural number.
LEMMA DayType == \A n \in Nat : Day(n) \in Nat
  BY ClockAssumption DEF Day

\* finalize_chain: its rows lie between the clock before and after, each hangs
\* off the tail it was given or off a row of the batch.
LEMMA Batch ==
  ASSUME NEW now \in Nat, NEW n \in Nat, NEW prev \in Nat, prev <= now
  PROVE  /\ finalize_chain(now, n, prev) \in SUBSET Row
         /\ Topped(finalize_chain(now, n, prev))
         /\ \A r \in finalize_chain(now, n, prev) :
               now < r.at /\ r.at <= now + n /\ r.prev < r.at /\ prev <= r.prev
         /\ n = 0 => finalize_chain(now, n, prev) = {}
<1> DEFINE B == finalize_chain(now, n, prev)
<1>1. ASSUME NEW r \in B
      PROVE  r \in Row /\ now < r.at /\ r.at <= now + n /\ r.prev < r.at /\ prev <= r.prev
  <2>1. PICK i \in 1 .. n : r = [at |-> now + i,
                                 prev |-> IF i = 1 THEN prev ELSE now + i - 1,
                                 key |-> Day(now)]
    BY DEF finalize_chain
  <2>2. r.at = now + i /\ r.key = Day(now)
    BY <2>1
  <2>3. r.prev = IF i = 1 THEN prev ELSE now + i - 1
    BY <2>1
  <2>4. now < r.at /\ r.at <= now + n /\ r.at \in Nat
    BY <2>2
  <2>5. r.prev < r.at /\ prev <= r.prev /\ r.prev \in Nat
    BY <2>2, <2>3
  <2>6. r \in Row
    BY <2>1, <2>2, <2>4, <2>5, DayType DEF Row
  <2> QED
    BY <2>4, <2>5, <2>6
<1>2. CASE n = 0
  <2>1. B = {}
    BY <1>2 DEF finalize_chain
  <2> QED
    BY <2>1 DEF Topped
<1>3. CASE n # 0
  <2> DEFINE row(i) == [at |-> now + i, prev |-> IF i = 1 THEN prev ELSE now + i - 1,
                        key |-> Day(now)]
             m == row(n)
  <2>1. n \in 1 .. n
    BY <1>3
  <2>2. B = {row(i) : i \in 1 .. n}
    BY DEF finalize_chain
  <2>3. m.at = now + n
    OBVIOUS
  <2> HIDE DEF row, B
  <2>4. m \in B
    BY <2>1, <2>2
  <2> HIDE DEF m
  <2>5. Topped(B)
    BY <1>1, <2>3, <2>4 DEF Topped
  <2> QED
    BY <1>1, <1>3, <2>5 DEF B
<1> QED
  BY <1>2, <1>3

\* What the invariant says of one transaction.
LEMMA SessionFacts ==
  ASSUME ChainInv, NEW s \in Sessions
  PROVE  /\ tx[s] \in Tx /\ clock \in Nat /\ log \in SUBSET Row
         /\ tx[s].direct \in Nat /\ tx[s].changes \in Nat
         /\ tx[s].pending \in SUBSET Row /\ tx[s].inserted \in SUBSET Row
         /\ Topped(log) /\ Topped(tx[s].pending) /\ Topped(tx[s].inserted)
         /\ \A q \in log : q.at <= clock /\ q.prev < q.at
         /\ \A r \in Uncommitted(s) :
               /\ lock = s /\ r.prev < r.at /\ r.at <= clock
               /\ \A q \in log : q.at <= r.prev
  BY DEF ChainInv, TypeOK, LockedRowsAreNewer, ToppedInv, Tx

\* The empty log.
LEMMA InitInv == Init => ChainInv
<1> SUFFICES ASSUME Init PROVE ChainInv
  OBVIOUS
<1>1. NoTx \in Tx
  BY DEF NoTx, Tx
<1>2. \A s \in Sessions : tx[s] = NoTx /\ Uncommitted(s) = {}
  BY DEF Init, Uncommitted, NoTx
<1>3. NotSigning \in [day : Int, rows : SUBSET Row]
  BY DEF NotSigning
<1>4. TypeOK
  BY <1>1, <1>2, <1>3 DEF Init, TypeOK
<1>5. ToppedInv
  BY <1>2 DEF Init, ToppedInv, Topped, NoTx
<1>6. LockedRowsAreNewer
  BY <1>2 DEF Init, LockedRowsAreNewer
<1> QED
  BY <1>4, <1>5, <1>6 DEF ChainInv

\* A handler that only changes objects in memory moves no row.
LEMMA BufferInv ==
  ASSUME ChainInv, NEW s \in Sessions, Change(s) \/ LogDirect(s)
  PROVE  ChainInv'
<1>1. /\ UNCHANGED <<clock, log, lock, signing, checkpoint>>
      /\ \/ tx' = [tx EXCEPT ![s].changes = @ + 1]
         \/ tx' = [tx EXCEPT ![s].direct = @ + 1]
  BY DEF Change, LogDirect
<1>2. tx \in [Sessions -> Tx]
  BY DEF ChainInv, TypeOK
<1>3. tx' \in [Sessions -> Tx]
  BY <1>1, <1>2 DEF Tx
<1>4. \A u \in Sessions : tx'[u].pending = tx[u].pending /\ tx'[u].inserted = tx[u].inserted
  BY <1>1, <1>2 DEF Tx
<1>5. \A u \in Sessions : Uncommitted(u)' = Uncommitted(u)
  BY <1>4 DEF Uncommitted
<1> QED
  BY <1>1, <1>3, <1>4, <1>5 DEF ChainInv, TypeOK, LockedRowsAreNewer, ToppedInv

\* A flush under the advisory lock: its rows hang off the newest row there is.
LEMMA FlushInv ==
  ASSUME ChainInv, NEW s \in Sessions, Flush(s)
  PROVE  ChainInv'
<1> DEFINE t == tx[s]
           p1 == Tail(log \cup t.inserted)
           direct == finalize_chain(clock, t.direct, p1)
           ins == t.inserted \cup t.pending \cup direct
           p2 == Tail(log \cup ins)
           after == finalize_chain(clock + t.direct, t.changes, p2)
           rec == [changes |-> 0, direct |-> 0, pending |-> after, inserted |-> ins]
<1>1. /\ clock' = clock + (t.direct + t.changes)
      /\ (t.direct + t.changes > 0) => lock \in {NoSession, s}
      /\ lock' = IF t.direct + t.changes > 0 THEN s ELSE lock
      /\ tx' = [tx EXCEPT ![s] = rec]
      /\ UNCHANGED <<log, signing, checkpoint>>
  BY DEF Flush, Chained, MayLock
<1>2. /\ t.direct \in Nat /\ t.changes \in Nat /\ clock \in Nat /\ log \in SUBSET Row
      /\ t.pending \in SUBSET Row /\ t.inserted \in SUBSET Row
  BY SessionFacts
<1>3. \A r \in t.inserted \cup t.pending :
         r.at <= clock /\ r.prev < r.at /\ lock = s /\ \A q \in log : q.at <= r.prev
  BY SessionFacts DEF Uncommitted
<1>4. p1 \in Nat /\ p1 <= clock /\ \A q \in log : q.at <= p1
  <2>1. log \cup t.inserted \in SUBSET Row /\ Topped(log \cup t.inserted)
    BY <1>2, SessionFacts, ToppedUnion
  <2>2. \A r \in log \cup t.inserted : r.at <= clock
    BY <1>3, SessionFacts
  <2>3. p1 \in Nat /\ \A q \in log \cup t.inserted : q.at <= p1
    BY <2>1, TailIsNewest
  <2>4. p1 <= clock
    <3>1. CASE log \cup t.inserted = {}
      BY <1>2, <3>1 DEF Tail
    <3>2. CASE log \cup t.inserted # {}
      BY <2>1, <2>2, <3>2, TailIsNewest
    <3> QED
      BY <3>1, <3>2
  <2> QED
    BY <2>3, <2>4
<1> HIDE DEF p1
<1>5. /\ direct \in SUBSET Row /\ Topped(direct)
      /\ \A r \in direct : /\ r.at <= clock + t.direct
                            /\ r.prev < r.at /\ p1 <= r.prev
      /\ t.direct = 0 => direct = {}
  BY <1>2, <1>4, Batch
<1> HIDE DEF direct
<1>6. /\ ins \in SUBSET Row /\ Topped(ins)
      /\ \A r \in ins : /\ r.at <= clock + t.direct /\ r.prev < r.at
                         /\ \A q \in log : q.at <= r.prev
  <2>1. ins \in SUBSET Row
    BY <1>2, <1>5
  <2>2. Topped(t.inserted \cup t.pending)
    BY <1>2, SessionFacts, ToppedUnion
  <2>3. Topped(ins)
    BY <1>2, <1>5, <2>2, ToppedUnion
  <2>4. ASSUME NEW r \in ins
        PROVE  r.at <= clock + t.direct /\ r.prev < r.at /\ \A q \in log : q.at <= r.prev
    <3>1. CASE r \in t.inserted \cup t.pending
      BY <1>2, <1>3, <3>1 DEF Row
    <3>2. CASE r \in direct
      BY <1>2, <1>4, <1>5, <3>2 DEF Row
    <3> QED
      BY <3>1, <3>2
  <2> QED
    BY <2>1, <2>3, <2>4
<1>7. p2 \in Nat /\ p2 <= clock + t.direct /\ \A q \in log : q.at <= p2
  <2>1. log \cup ins \in SUBSET Row /\ Topped(log \cup ins)
    BY <1>2, <1>6, SessionFacts, ToppedUnion
  <2>2. \A r \in log \cup ins : r.at <= clock + t.direct
    BY <1>2, <1>6, SessionFacts DEF Row
  <2>3. p2 \in Nat /\ \A q \in log \cup ins : q.at <= p2
    BY <2>1, TailIsNewest
  <2>4. p2 <= clock + t.direct
    <3>1. CASE log \cup ins = {}
      BY <1>2, <3>1 DEF Tail
    <3>2. CASE log \cup ins # {}
      BY <2>1, <2>2, <3>2, TailIsNewest
    <3> QED
      BY <3>1, <3>2
  <2> QED
    BY <2>3, <2>4
<1>8. t.direct + t.changes = 0 => ins = t.inserted \cup t.pending
  BY <1>2, <1>5
<1> HIDE DEF ins, p2
<1>9. /\ after \in SUBSET Row /\ Topped(after)
      /\ \A r \in after : /\ r.at <= clock + (t.direct + t.changes)
                           /\ r.prev < r.at /\ p2 <= r.prev
      /\ t.changes = 0 => after = {}
  BY <1>2, <1>7, Batch
<1> HIDE DEF after
<1>10. tx \in [Sessions -> Tx]
  BY DEF ChainInv, TypeOK
<1>11. rec \in Tx
  BY <1>6, <1>9 DEF Tx
<1>12. /\ tx' \in [Sessions -> Tx]
       /\ tx'[s].pending = after /\ tx'[s].inserted = ins
       /\ \A u \in Sessions \ {s} : tx'[u] = tx[u]
  BY <1>1, <1>10, <1>11
<1>13. ASSUME NEW r \in after \cup ins
       PROVE  /\ r.at <= clock' /\ r.prev < r.at /\ lock' = s
              /\ \A q \in log : q.at <= r.prev
  <2>1. lock' = s
    <3>1. CASE t.direct + t.changes > 0
      BY <1>1, <3>1
    <3>2. CASE t.direct + t.changes = 0
      <4>1. after = {} /\ r \in t.inserted \cup t.pending
        BY <1>2, <1>8, <1>9, <3>2
      <4> QED
        BY <1>1, <1>3, <3>2, <4>1
    <3> QED
      BY <1>2, <3>1, <3>2
  <2>2. CASE r \in ins
    BY <1>1, <1>2, <1>6, <2>1, <2>2 DEF Row
  <2>3. CASE r \in after
    BY <1>1, <1>2, <1>7, <1>9, <2>1, <2>3 DEF Row
  <2> QED
    BY <2>2, <2>3
<1>14. ASSUME NEW u \in Sessions \ {s}, NEW r \in Uncommitted(u)
       PROVE  /\ r.at <= clock' /\ r.prev < r.at /\ lock' = u
              /\ \A q \in log : q.at <= r.prev
  <2>1. lock = u /\ r.at <= clock /\ r.prev < r.at /\ \A q \in log : q.at <= r.prev
    BY SessionFacts
  <2>2. u # NoSession
    BY SessionAssumption
  <2>3. lock' = u
    BY <1>1, <2>1, <2>2
  <2>4. r \in Row
    BY SessionFacts DEF Uncommitted
  <2> QED
    BY <1>1, <1>2, <2>1, <2>3, <2>4 DEF Row
<1>15. /\ Uncommitted(s)' = after \cup ins
       /\ \A u \in Sessions \ {s} : Uncommitted(u)' = Uncommitted(u)
  BY <1>12 DEF Uncommitted
<1>16. TypeOK'
  <2>1. clock' \in Nat /\ \A q \in log : q.at <= clock'
    BY <1>1, <1>2, SessionFacts DEF Row
  <2>2. lock' \in Sessions \cup {NoSession}
    BY <1>1 DEF ChainInv, TypeOK
  <2> QED
    BY <1>1, <1>12, <1>13, <1>14, <1>15, <2>1, <2>2 DEF ChainInv, TypeOK
<1>17. LockedRowsAreNewer'
  BY <1>1, <1>13, <1>14, <1>15 DEF ChainInv, LockedRowsAreNewer
<1>18. ToppedInv'
  BY <1>1, <1>6, <1>9, <1>12 DEF ChainInv, ToppedInv
<1> QED
  BY <1>16, <1>17, <1>18 DEF ChainInv

\* The end of a transaction: it leaves no hashed row behind and gives up the
\* lock, which no other transaction with hashed rows can hold.
LEMMA EndFacts ==
  ASSUME ChainInv, NEW s \in Sessions, tx' = [tx EXCEPT ![s] = NoTx], Release(s)
  PROVE  /\ tx' \in [Sessions -> Tx] /\ lock' \in Sessions \cup {NoSession}
         /\ tx'[s].pending = {} /\ tx'[s].inserted = {} /\ Uncommitted(s)' = {}
         /\ \A u \in Sessions \ {s} : tx'[u] = tx[u] /\ Uncommitted(u)' = Uncommitted(u)
         /\ \A u \in Sessions \ {s} : \A r \in Uncommitted(u) :
               lock' = u /\ Uncommitted(s) = {}
<1>1. tx \in [Sessions -> Tx] /\ NoTx \in Tx
  BY DEF ChainInv, TypeOK, NoTx, Tx
<1>2. /\ tx' \in [Sessions -> Tx] /\ tx'[s] = NoTx
      /\ \A u \in Sessions \ {s} : tx'[u] = tx[u]
  BY <1>1
<1>3. tx'[s].pending = {} /\ tx'[s].inserted = {}
  BY <1>2 DEF NoTx
<1>4. lock' \in Sessions \cup {NoSession}
  BY DEF ChainInv, TypeOK, Release
<1>5. ASSUME NEW u \in Sessions \ {s}, NEW r \in Uncommitted(u)
      PROVE  lock' = u /\ Uncommitted(s) = {}
  BY <1>5, SessionFacts DEF Release
<1> QED
  BY <1>2, <1>3, <1>4, <1>5 DEF Uncommitted

\* A commit adds the rows of the transaction that held the lock.
LEMMA CommitInv ==
  ASSUME ChainInv, NEW s \in Sessions, Commit(s)
  PROVE  /\ ChainInv'
         /\ \A r \in log' \ log : \A q \in log : r.prev # q.prev /\ q.at < r.at
<1> DEFINE I == tx[s].inserted
<1>1. /\ log' = log \cup I /\ tx' = [tx EXCEPT ![s] = NoTx] /\ Release(s)
      /\ UNCHANGED <<clock, signing, checkpoint>>
  BY DEF Commit
<1>2. I \in SUBSET Row /\ I \subseteq Uncommitted(s) /\ log \in SUBSET Row
  BY SessionFacts DEF Uncommitted
<1>3. \A r \in I : /\ r.at <= clock /\ r.prev < r.at
                    /\ \A q \in log : q.at <= r.prev /\ q.prev < q.at
  BY <1>2, SessionFacts
<1>4. Topped(log')
  BY <1>1, <1>2, SessionFacts, ToppedUnion
<1> HIDE DEF I
<1>5. TypeOK'
  BY <1>1, <1>2, <1>3, EndFacts, SessionFacts DEF ChainInv, TypeOK
<1>6. LockedRowsAreNewer'
  <2>1. \A q \in log' : q.prev < q.at
    BY <1>1, <1>3, SessionFacts
  <2>2. ASSUME NEW u \in Sessions, NEW r \in Uncommitted(u)'
        PROVE  lock' = u /\ r.prev < r.at /\ \A q \in log' : q.at <= r.prev
    <3>1. u # s /\ r \in Uncommitted(u)
      BY <1>1, <2>2, EndFacts
    <3>2. lock' = u /\ I = {}
      BY <1>1, <1>2, <3>1, EndFacts
    <3> QED
      BY <1>1, <3>1, <3>2, SessionFacts
  <2> QED
    BY <2>1, <2>2 DEF LockedRowsAreNewer
<1>7. ToppedInv'
  <2>1. Topped({})
    BY DEF Topped
  <2> QED
    BY <1>1, <1>4, <2>1, EndFacts DEF ChainInv, ToppedInv
<1>8. ASSUME NEW r \in log' \ log, NEW q \in log PROVE r.prev # q.prev /\ q.at < r.at
  <2>1. r \in I /\ r \in Row /\ q \in Row
    BY <1>1, <1>2
  <2> QED
    BY <1>3, <2>1 DEF Row
<1> QED
  BY <1>5, <1>6, <1>7, <1>8 DEF ChainInv

\* A rollback drops the rows and the lock.
LEMMA RollbackInv ==
  ASSUME ChainInv, NEW s \in Sessions, Rollback(s)
  PROVE  ChainInv'
<1>1. /\ tx' = [tx EXCEPT ![s] = NoTx] /\ Release(s)
      /\ UNCHANGED <<clock, log, signing, checkpoint>>
  BY DEF Rollback
<1>2. TypeOK'
  BY <1>1, EndFacts DEF ChainInv, TypeOK
<1>3. LockedRowsAreNewer'
  <2>1. ASSUME NEW u \in Sessions, NEW r \in Uncommitted(u)'
        PROVE  lock' = u /\ r.prev < r.at /\ \A q \in log : q.at <= r.prev
    <3>1. u # s /\ r \in Uncommitted(u)
      BY <1>1, <2>1, EndFacts
    <3>2. lock' = u
      BY <1>1, <3>1, EndFacts
    <3> QED
      BY <3>1, <3>2, SessionFacts
  <2> QED
    BY <1>1, <2>1 DEF ChainInv, LockedRowsAreNewer
<1>4. ToppedInv'
  <2>1. Topped({})
    BY DEF Topped
  <2> QED
    BY <1>1, <2>1, EndFacts DEF ChainInv, ToppedInv
<1> QED
  BY <1>2, <1>3, <1>4 DEF ChainInv

\* Time and the sign job touch neither the log nor the transactions.
LEMMA OtherInv ==
  ASSUME ChainInv, Tick \/ SignRead \/ SignCommit \/ UNCHANGED vars
  PROVE  ChainInv' /\ UNCHANGED log
<1>1. UNCHANGED <<log, lock, tx>> /\ clock' \in {clock, clock + 1}
  BY DEF Tick, SignRead, SignCommit, vars
<1>2. signing' \in [day : Int, rows : SUBSET Row] /\ checkpoint' \in [Days -> SUBSET Row]
  <2>1. signing \in [day : Int, rows : SUBSET Row] /\ checkpoint \in [Days -> SUBSET Row]
        /\ clock \in Nat /\ log \in SUBSET Row
    BY DEF ChainInv, TypeOK
  <2>2. CASE SignRead
    <3>1. yesterday \in Int /\ DayRows(yesterday) \in SUBSET Row
      BY <2>1, DayType DEF yesterday, DayRows
    <3> QED
      BY <2>1, <2>2, <3>1 DEF SignRead
  <2>3. CASE SignCommit
    <3>1. NotSigning \in [day : Int, rows : SUBSET Row]
      BY DEF NotSigning
    <3> QED
      BY <2>1, <2>3, <3>1 DEF SignCommit
  <2>4. CASE Tick \/ UNCHANGED vars
    BY <2>1, <2>4 DEF Tick, vars
  <2> QED
    BY <2>2, <2>3, <2>4
<1>3. clock \in Nat /\ \A r \in Nat : r <= clock => r <= clock'
  BY <1>1 DEF ChainInv, TypeOK
<1>4. \A u \in Sessions : Uncommitted(u)' = Uncommitted(u) /\ Uncommitted(u) \in SUBSET Row
  BY <1>1, SessionFacts DEF Uncommitted
<1>5. TypeOK'
  <2>1. \A r \in Row : r.at \in Nat
    BY DEF Row
  <2> QED
    BY <1>1, <1>2, <1>3, <1>4, <2>1 DEF ChainInv, TypeOK
<1> QED
  BY <1>1, <1>4, <1>5 DEF ChainInv, LockedRowsAreNewer, ToppedInv

\* Every step keeps the invariant, and forks no committed row.
LEMMA NextInv ==
  ASSUME ChainInv, [Next]_vars
  PROVE  /\ ChainInv'
         /\ \A r \in log' \ log : \A q \in log : r.prev # q.prev /\ q.at < r.at
<1>1. CASE Tick \/ SignRead \/ SignCommit \/ UNCHANGED vars
  BY <1>1, OtherInv
<1>2. ASSUME NEW s \in Sessions, Commit(s)
      PROVE  /\ ChainInv'
             /\ \A r \in log' \ log : \A q \in log : r.prev # q.prev /\ q.at < r.at
  BY <1>2, CommitInv
<1>3. ASSUME NEW s \in Sessions, Change(s) \/ LogDirect(s) \/ Flush(s) \/ Rollback(s)
      PROVE  ChainInv' /\ UNCHANGED log
  BY <1>3, BufferInv, FlushInv, RollbackInv DEF Change, LogDirect, Flush, Rollback
<1> QED
  BY <1>1, <1>2, <1>3 DEF Next, SessionStep

\* Only the holder of the advisory lock has hashed rows, and they are newer
\* than everything committed, for any number of transactions, any sequence of
\* flushes and any rollback.
THEOREM LockProtectsTail == Spec => []LockedRowsAreNewer
<1>1. ChainInv /\ [Next]_vars => ChainInv'
  BY NextInv
<1>2. ChainInv => LockedRowsAreNewer
  BY DEF ChainInv
<1> QED
  BY InitInv, <1>1, <1>2, PTL DEF Spec

\* The claim of finalize_chain's docstring: concurrent transactions never fork
\* the chain, whatever each of them flushes.
THEOREM ChainNeverForksAcross == Spec => NoForkAcrossTransactions
<1>1. ChainInv /\ [Next]_vars => ChainInv'
  BY NextInv
<1>2. ChainInv /\ [Next]_vars =>
         [\A r \in log' \ log : \A q \in log : r.prev # q.prev]_vars
  BY NextInv
<1> QED
  BY InitInv, <1>1, <1>2, PTL DEF Spec, NoForkAcrossTransactions

\* Rows are committed in the order of the chain.
THEOREM CommitsFollowChain == Spec => CommitsInOrder
<1>1. ChainInv /\ [Next]_vars => ChainInv'
  BY NextInv
<1>2. ChainInv /\ [Next]_vars =>
         [\A r \in log' \ log : \A q \in log : q.at < r.at]_vars
  BY NextInv
<1> QED
  BY InitInv, <1>1, <1>2, PTL DEF Spec, CommitsInOrder

\* Every committed row and every row a transaction holds is a row of the log's
\* type, hashes and links included, for any number of transactions.
THEOREM TypeCorrect == Spec => []TypeOK
<1>1. ChainInv /\ [Next]_vars => ChainInv'
  BY NextInv
<1>2. ChainInv => TypeOK
  BY DEF ChainInv
<1> QED
  BY InitInv, <1>1, <1>2, PTL DEF Spec

-------------------------------------------------------------------------------
(* A signed day verifies. *)

\* Every row hangs off the newest older row of R, or starts the chain.
Linked(R) == \A r \in R : /\ r.prev = 0 \/ \E q \in R : q.at = r.prev
                          /\ \A q \in R : q.at < r.at => q.at <= r.prev

\* No row can join day d any more.
Sealed(d) == d < Day(clock) /\ \A s \in Sessions : \A r \in Uncommitted(s) : Day(r.at) # d

\* What verify_day relies on, when no flush mixes the two kinds of rows and none
\* hashes across midnight.
LinkInv == /\ Linked(log)
           /\ \A s \in Sessions : /\ Linked(log \cup Uncommitted(s))
                                  /\ tx[s].direct > 0 => tx[s].pending = {}
KeyInv == /\ \A r \in log : r.key = Day(r.at)
          /\ \A s \in Sessions : \A r \in Uncommitted(s) : r.key = Day(r.at)
SignInv == /\ signing # NotSigning =>
                 signing.day \in Days /\ Sealed(signing.day)
                 /\ signing.rows = DayRows(signing.day)
           /\ \A d \in Days : checkpoint[d] # {} => Sealed(d) /\ checkpoint[d] = DayRows(d)

CleanInv == LinkInv /\ KeyInv /\ SignInv

CleanNext == Next /\ NoMixedFlush /\ NoMidnightFlush

\* Days follow one another as the clock does.
LEMMA DayMonotone ==
  ASSUME NEW a \in Nat, NEW b \in Nat, a <= b
  PROVE  Day(a) <= Day(b)
<1> DEFINE D == DayLength
           x == a \div D
           y == b \div D
<1>1. D \in Nat /\ D > 0
  BY ClockAssumption
<1>2. x \in Nat /\ y \in Nat /\ D * x <= a /\ b < D * (y + 1)
  BY <1>1
<1>3. SUFFICES ASSUME y + 1 <= x PROVE FALSE
  BY <1>2 DEF Day
<1> HIDE DEF x, y, D
<1>4. D * (y + 1) <= D * x
  BY <1>1, <1>2, <1>3
<1>5. D * (y + 1) \in Nat /\ D * x \in Nat
  BY <1>1, <1>2
<1> QED
  BY <1>2, <1>4, <1>5

\* The newest row of a set that has one.
LEMMA TailIs ==
  ASSUME NEW R \in SUBSET Row, NEW q \in R, \A r \in R : r.at <= q.at
  PROVE  Tail(R) = q.at
<1>1. Topped(R)
  BY DEF Topped
<1>2. PICK m \in R : Tail(R) = m.at
  BY <1>1, TailIsNewest
<1>3. q.at <= Tail(R) /\ m.at <= q.at
  BY <1>1, TailIsNewest
<1>4. m.at \in Nat /\ q.at \in Nat
  BY DEF Row
<1> QED
  BY <1>2, <1>3, <1>4

\* finalize_chain extends a linked set of rows by linked rows.
LEMMA LinkedBatch ==
  ASSUME NEW R \in SUBSET Row, Linked(R), Topped(R),
         NEW now \in Nat, NEW n \in Nat, \A r \in R : r.at <= now
  PROVE  Linked(R \cup finalize_chain(now, n, Tail(R)))
<1> DEFINE p == Tail(R)
           row(i) == [at |-> now + i, prev |-> IF i = 1 THEN p ELSE now + i - 1,
                      key |-> Day(now)]
           B == {row(i) : i \in 1 .. n}
<1>1. finalize_chain(now, n, p) = B
  BY DEF finalize_chain
<1>2. \A i \in 1 .. n : /\ row(i) \in B /\ row(i).at = now + i
                        /\ row(i).prev = IF i = 1 THEN p ELSE now + i - 1
  OBVIOUS
<1>3. \A r \in B : \E i \in 1 .. n : r = row(i)
  OBVIOUS
<1>4. /\ p \in Nat
      /\ \A r \in R : r.at <= p
      /\ R # {} => \E m \in R : p = m.at
  BY TailIsNewest
<1>5. p = 0 \/ \E m \in R : m.at = p
  BY <1>4 DEF Tail
<1>6. \A r \in R : r.at \in Nat
  BY DEF Row
<1> HIDE DEF row, B, p
<1>7. ASSUME NEW r \in R
      PROVE  /\ r.prev = 0 \/ \E q \in R \cup B : q.at = r.prev
             /\ \A q \in R \cup B : q.at < r.at => q.at <= r.prev
  <2>1. \A q \in B : ~(q.at < r.at)
    BY <1>2, <1>3, <1>6
  <2> QED
    BY <2>1 DEF Linked
<1>8. ASSUME NEW r \in B
      PROVE  /\ r.prev = 0 \/ \E q \in R \cup B : q.at = r.prev
             /\ \A q \in R \cup B : q.at < r.at => q.at <= r.prev
  <2>1. PICK i \in 1 .. n : r = row(i)
    BY <1>3
  <2>2. r.at = now + i /\ r.prev = IF i = 1 THEN p ELSE now + i - 1
    BY <1>2, <2>1
  <2>3. CASE i = 1
    <3>1. r.prev = p
      BY <2>2, <2>3
    <3>2. \A q \in B : ~(q.at < r.at)
      BY <1>2, <1>3, <2>2, <2>3
    <3> QED
      BY <1>4, <1>5, <3>1, <3>2
  <2>4. CASE i # 1
    <3>1. i - 1 \in 1 .. n /\ r.prev = now + (i - 1)
      BY <2>2, <2>4
    <3>2. row(i - 1) \in B /\ row(i - 1).at = r.prev
      BY <1>2, <3>1
    <3>3. \A q \in B : q.at < r.at => q.at <= r.prev
      BY <1>2, <1>3, <2>2, <3>1
    <3>4. \A q \in R : q.at <= r.prev
      BY <1>6, <3>1
    <3> QED
      BY <3>2, <3>3, <3>4
  <2> QED
    BY <2>3, <2>4
<1>9. Linked(R \cup B)
  BY <1>7, <1>8 DEF Linked
<1> QED
  BY <1>1, <1>9 DEF p

\* finalize_chain signs with the key of the day on which it starts.
LEMMA BatchKeys ==
  ASSUME NEW now \in Nat, NEW n \in Nat, NEW prev
  PROVE  \A r \in finalize_chain(now, n, prev) :
            /\ r.at \in Nat /\ now < r.at /\ r.at <= now + n
            /\ r.key = Day(now)
<1> SUFFICES ASSUME NEW r \in finalize_chain(now, n, prev)
             PROVE  r.at \in Nat /\ now < r.at /\ r.at <= now + n /\ r.key = Day(now)
  OBVIOUS
<1>1. PICK i \in 1 .. n : r = [at |-> now + i,
                               prev |-> IF i = 1 THEN prev ELSE now + i - 1,
                               key |-> Day(now)]
  BY DEF finalize_chain
<1>2. r.at = now + i /\ r.key = Day(now)
  BY <1>1
<1> QED
  BY <1>2

\* What a flush adds: linked rows from now on, with the keys of the two moments
\* at which it hashes.
LEMMA FlushRows ==
  ASSUME ChainInv, LinkInv, NEW s \in Sessions, Flush(s)
  PROVE  /\ UNCHANGED <<log, signing, checkpoint>>
         /\ clock' \in Nat /\ clock <= clock'
         /\ Linked(log \cup Uncommitted(s)')
         /\ ~(tx'[s].direct > 0)
         /\ \A u \in Sessions \ {s} : tx'[u] = tx[u] /\ Uncommitted(u)' = Uncommitted(u)
         /\ \A r \in Uncommitted(s)' : r \notin Uncommitted(s) =>
               /\ r.at \in Nat /\ clock < r.at /\ r.at <= clock'
               /\ \E m \in Nat : clock <= m /\ m <= clock' /\ r.key = Day(m)
<1> DEFINE t == tx[s]
           d == t.direct
           c == t.changes
           seen == log \cup t.inserted
           direct == finalize_chain(clock, d, Tail(seen))
           ins == t.inserted \cup t.pending \cup direct
           after == finalize_chain(clock + d, c, Tail(log \cup ins))
           rec == [changes |-> 0, direct |-> 0, pending |-> after, inserted |-> ins]
<1>1. /\ clock' = clock + (d + c)
      /\ tx' = [tx EXCEPT ![s] = rec]
      /\ UNCHANGED <<log, signing, checkpoint>>
  BY DEF Flush, Chained
<1>2. /\ d \in Nat /\ c \in Nat /\ clock \in Nat /\ log \in SUBSET Row
      /\ t.pending \in SUBSET Row /\ t.inserted \in SUBSET Row
      /\ Topped(log) /\ Topped(t.pending) /\ Topped(t.inserted)
      /\ Uncommitted(s) = t.pending \cup t.inserted
      /\ \A r \in log \cup Uncommitted(s) : r.at <= clock
  BY SessionFacts DEF Uncommitted
<1>3. /\ seen \in SUBSET Row /\ Topped(seen)
      /\ \A r \in seen : r.at <= clock
  BY <1>2, ToppedUnion
<1>4. Tail(seen) \in Nat /\ Tail(seen) <= clock
  <2>1. CASE seen = {}
    BY <1>2, <2>1 DEF Tail
  <2>2. CASE seen # {}
    BY <1>3, <2>2, TailIsNewest
  <2> QED
    BY <2>1, <2>2
<1>5. direct \in SUBSET Row /\ Topped(direct) /\ (d = 0 => direct = {})
  BY <1>2, <1>4, Batch
<1>6. \A r \in direct : /\ r.at \in Nat /\ clock < r.at /\ r.at <= clock + d
                         /\ r.key = Day(clock)
  BY <1>2, BatchKeys
<1>7. Linked(log \cup ins)
  <2>1. Linked(log \cup Uncommitted(s)) /\ (d > 0 => t.pending = {})
    BY DEF LinkInv
  <2>2. CASE d = 0
    <3>1. log \cup ins = log \cup Uncommitted(s)
      BY <1>2, <1>5, <2>2
    <3> QED
      BY <2>1, <3>1
  <2>3. CASE d > 0
    <3>1. seen = log \cup Uncommitted(s) /\ log \cup ins = seen \cup direct
      BY <1>2, <2>1, <2>3
    <3>2. Linked(seen)
      BY <2>1, <3>1
    <3> HIDE DEF seen, ins
    <3>3. Linked(seen \cup direct)
      BY <1>2, <1>3, <3>2, LinkedBatch
    <3> QED
      BY <3>1, <3>3
  <2> QED
    BY <1>2, <2>2, <2>3
<1> HIDE DEF direct, seen
<1>8. /\ log \cup ins \in SUBSET Row /\ Topped(log \cup ins)
      /\ \A r \in log \cup ins : r.at <= clock + d
  <2>1. Topped(t.inserted \cup t.pending)
    BY <1>2, ToppedUnion
  <2>2. Topped(ins) /\ ins \in SUBSET Row
    BY <1>2, <1>5, <2>1, ToppedUnion
  <2>3. log \cup ins \in SUBSET Row /\ Topped(log \cup ins)
    BY <1>2, <2>2, ToppedUnion
  <2>4. \A r \in log \cup Uncommitted(s) : r.at \in Nat /\ r.at <= clock + d
    BY <1>2 DEF Row
  <2> QED
    BY <1>2, <1>6, <2>3, <2>4
<1>9. \A r \in after : /\ r.at \in Nat /\ clock + d < r.at /\ r.at <= clock + d + c
                        /\ r.key = Day(clock + d)
  BY <1>2, BatchKeys
<1>10. Linked((log \cup ins) \cup after)
  <2> DEFINE R == log \cup ins
  <2>1. R \in SUBSET Row /\ Linked(R) /\ Topped(R) /\ \A r \in R : r.at <= clock + d
    BY <1>7, <1>8
  <2> HIDE DEF R
  <2>2. Linked(R \cup finalize_chain(clock + d, c, Tail(R)))
    BY <1>2, <2>1, LinkedBatch
  <2> QED
    BY <2>2 DEF R
<1>11. tx \in [Sessions -> Tx]
  BY DEF ChainInv, TypeOK
<1> HIDE DEF ins, after
<1>12. /\ tx'[s].direct = 0 /\ tx'[s].pending = after /\ tx'[s].inserted = ins
       /\ \A u \in Sessions \ {s} : tx'[u] = tx[u]
  BY <1>1, <1>11
<1>13. /\ Uncommitted(s)' = after \cup ins
       /\ \A u \in Sessions \ {s} : Uncommitted(u)' = Uncommitted(u)
  BY <1>12 DEF Uncommitted
<1>14. Linked(log \cup Uncommitted(s)')
  <2>1. log \cup Uncommitted(s)' = (log \cup ins) \cup after
    BY <1>13
  <2> QED
    BY <1>10, <2>1
<1>15. ASSUME NEW r \in Uncommitted(s)', r \notin Uncommitted(s)
       PROVE  /\ r.at \in Nat /\ clock < r.at /\ r.at <= clock'
              /\ \E m \in Nat : clock <= m /\ m <= clock' /\ r.key = Day(m)
  <2>1. r \in after \/ r \in direct
    BY <1>2, <1>13, <1>15 DEF ins
  <2>2. CASE r \in direct
    BY <1>1, <1>2, <1>6, <2>2
  <2>3. CASE r \in after
    <3>1. r.at \in Nat /\ clock < r.at /\ r.at <= clock' /\ r.key = Day(clock + d)
      BY <1>1, <1>2, <1>9, <2>3
    <3>2. clock + d \in Nat /\ clock <= clock + d /\ clock + d <= clock'
      BY <1>1, <1>2
    <3> QED
      BY <3>1, <3>2
  <2> QED
    BY <2>1, <2>2, <2>3
<1>16. clock' \in Nat /\ clock <= clock' /\ ~(tx'[s].direct > 0)
  BY <1>1, <1>2, <1>12
<1> QED
  BY <1>1, <1>12, <1>13, <1>14, <1>15, <1>16

\* A sealed day stays sealed when every new row is from now on.
LEMMA SealedStays ==
  ASSUME ChainInv, clock' \in Nat, clock <= clock', NEW d \in Days, Sealed(d),
         \A s \in Sessions : \A r \in Uncommitted(s)' :
             r \in Uncommitted(s) \/ (r.at \in Nat /\ clock < r.at)
  PROVE  Sealed(d)'
<1>1. clock \in Nat /\ d \in Int
  BY DEF ChainInv, TypeOK, Days
<1>2. Day(clock) <= Day(clock') /\ Day(clock) \in Nat /\ Day(clock') \in Nat
  BY <1>1, DayMonotone, DayType
<1>3. d < Day(clock')
  BY <1>1, <1>2 DEF Sealed
<1>4. ASSUME NEW s \in Sessions, NEW r \in Uncommitted(s)' PROVE Day(r.at) # d
  <2>1. CASE r \in Uncommitted(s)
    BY <2>1 DEF Sealed
  <2>2. CASE r.at \in Nat /\ clock < r.at
    <3>1. Day(clock) <= Day(r.at) /\ Day(r.at) \in Nat
      BY <1>1, <2>2, DayMonotone, DayType
    <3> QED
      BY <1>1, <1>2, <3>1 DEF Sealed
  <2> QED
    BY <1>4, <2>1, <2>2
<1>5. Day(clock)' = Day(clock')
  BY DEF Day
<1> QED
  BY <1>3, <1>4, <1>5 DEF Sealed, Day

\* A flush on one day, of one kind of rows, keeps the links, the keys and the
\* signed days.
LEMMA FlushClean ==
  ASSUME ChainInv, CleanInv, NEW s \in Sessions, Flush(s), NoMidnightFlush
  PROVE  CleanInv'
<1>1. LinkInv /\ KeyInv /\ SignInv
  BY DEF CleanInv
<1>2. LinkInv'
  <2>1. \A u \in Sessions \ {s} : /\ Linked(log \cup Uncommitted(u)')
                                  /\ tx'[u].direct > 0 => tx'[u].pending = {}
    BY <1>1, FlushRows DEF LinkInv
  <2>2. Linked(log \cup Uncommitted(s)') /\ ~(tx'[s].direct > 0) /\ log' = log
    BY <1>1, FlushRows
  <2>3. Linked(log)' /\ \A u \in Sessions : Linked(log \cup Uncommitted(u))'
    BY <1>1, <2>1, <2>2 DEF LinkInv, Linked
  <2> QED
    BY <2>1, <2>2, <2>3 DEF LinkInv
<1>3. ASSUME NEW r \in Uncommitted(s)' PROVE r.key = Day(r.at)
  <2>1. CASE r \in Uncommitted(s)
    BY <1>1, <2>1 DEF KeyInv
  <2>2. CASE r \notin Uncommitted(s)
    <3>1. tx' # tx
      BY <1>3, <2>2 DEF Uncommitted
    <3>2. Day(clock') = Day(clock)
      BY <3>1 DEF NoMidnightFlush, Day
    <3>3. clock \in Nat
      BY DEF ChainInv, TypeOK
    <3>4. /\ r.at \in Nat /\ clock <= r.at /\ r.at <= clock' /\ clock' \in Nat
      <4>1. r.at \in Nat /\ clock < r.at /\ r.at <= clock' /\ clock' \in Nat
        BY <1>1, <1>3, <2>2, FlushRows
      <4> QED
        BY <3>3, <4>1
    <3>5. PICK m \in Nat : clock <= m /\ m <= clock' /\ r.key = Day(m)
      BY <1>1, <1>3, <2>2, FlushRows
    <3>6. \A x \in Nat : clock <= x /\ x <= clock' => Day(x) = Day(clock)
      BY <3>2, <3>3, <3>4, DayMonotone, DayType
    <3> QED
      BY <3>4, <3>5, <3>6
  <2> QED
    BY <2>1, <2>2
<1>4. KeyInv'
  <2>1. \A u \in Sessions : \A r \in Uncommitted(u)' : r.key = Day(r.at)
    BY <1>1, <1>3, FlushRows DEF KeyInv
  <2>2. \A r \in log' : r.key = Day(r.at)
    BY <1>1, FlushRows DEF KeyInv
  <2> QED
    BY <2>1, <2>2 DEF KeyInv, Day
<1>5. \A d \in Days : Sealed(d) => Sealed(d)'
  BY <1>1, FlushRows, SealedStays
<1>6. \A d \in Days : DayRows(d)' = DayRows(d)
  BY <1>1, FlushRows DEF DayRows, Day
<1>7. UNCHANGED <<signing, checkpoint>>
  BY <1>1, FlushRows
<1>8. SignInv'
  BY <1>1, <1>5, <1>6, <1>7 DEF SignInv
<1> QED
  BY <1>2, <1>4, <1>8 DEF CleanInv

\* A commit or a rollback: the rows of the transaction join the log as linked as
\* they are, on a day that is not signed, or are gone.
LEMMA EndClean ==
  ASSUME ChainInv, CleanInv, NEW s \in Sessions, Commit(s) \/ Rollback(s)
  PROVE  CleanInv'
<1>1. LinkInv /\ KeyInv /\ SignInv
  BY DEF CleanInv
<1>2. /\ tx' = [tx EXCEPT ![s] = NoTx] /\ Release(s)
      /\ UNCHANGED <<clock, signing, checkpoint>>
      /\ log' = log \/ (log' = log \cup Uncommitted(s))
  BY DEF Commit, Rollback, Uncommitted
<1>3. /\ Uncommitted(s)' = {}
      /\ \A u \in Sessions \ {s} : tx'[u] = tx[u] /\ Uncommitted(u)' = Uncommitted(u)
      /\ \A u \in Sessions \ {s} : Uncommitted(u) # {} => Uncommitted(s) = {}
  BY <1>2, EndFacts
<1>4. Linked(log')
  BY <1>1, <1>2 DEF LinkInv
<1>5. \A u \in Sessions : Linked(log' \cup Uncommitted(u)')
  <2> SUFFICES ASSUME NEW u \in Sessions PROVE Linked(log' \cup Uncommitted(u)')
    OBVIOUS
  <2>1. CASE Uncommitted(u)' = {}
    <3>1. log' \cup Uncommitted(u)' = log'
      BY <2>1
    <3> QED
      BY <1>4, <3>1
  <2>2. CASE Uncommitted(u)' # {}
    <3>1. log' = log /\ Uncommitted(u)' = Uncommitted(u)
      BY <1>2, <1>3, <2>2
    <3> QED
      BY <1>1, <3>1 DEF LinkInv
  <2> QED
    BY <2>1, <2>2
<1>6. \A u \in Sessions : tx'[u].direct > 0 => tx'[u].pending = {}
  <2>1. tx'[s].pending = {}
    BY <1>2, EndFacts
  <2> QED
    BY <1>1, <1>3, <2>1 DEF LinkInv
<1>7. LinkInv'
  BY <1>4, <1>5, <1>6 DEF LinkInv, Linked
<1>8. KeyInv'
  BY <1>1, <1>2, <1>3 DEF KeyInv, Day
<1>9. ASSUME NEW d \in Days, Sealed(d) PROVE Sealed(d)' /\ DayRows(d)' = DayRows(d)
  <2>1. clock \in Nat /\ clock' = clock
    BY <1>2 DEF ChainInv, TypeOK
  <2>2. Sealed(d)'
    BY <1>3, <1>9, <2>1, SealedStays
  <2>3. \A r \in Uncommitted(s) : Day(r.at) # d
    BY <1>9 DEF Sealed
  <2> QED
    BY <1>2, <2>2, <2>3 DEF DayRows, Day
<1>10. SignInv'
  BY <1>1, <1>2, <1>9 DEF SignInv
<1> QED
  BY <1>7, <1>8, <1>10 DEF CleanInv

\* A handler that only changes objects in memory.
LEMMA BufferClean ==
  ASSUME ChainInv, CleanInv, NEW s \in Sessions, Change(s) \/ LogDirect(s), NoMixedFlush
  PROVE  CleanInv'
<1>1. LinkInv /\ KeyInv /\ SignInv
  BY DEF CleanInv
<1>2. /\ UNCHANGED <<clock, log, lock, signing, checkpoint>>
      /\ \/ tx' = [tx EXCEPT ![s].changes = @ + 1]
         \/ tx' = [tx EXCEPT ![s].direct = @ + 1]
  BY DEF Change, LogDirect
<1>3. tx \in [Sessions -> Tx] /\ clock \in Nat
  BY DEF ChainInv, TypeOK
<1>4. \A u \in Sessions : tx'[u].pending = tx[u].pending /\ tx'[u].inserted = tx[u].inserted
  BY <1>2, <1>3 DEF Tx
<1>5. \A u \in Sessions : Uncommitted(u)' = Uncommitted(u)
  BY <1>4 DEF Uncommitted
<1>6. LinkInv'
  <2>1. Linked(log') /\ \A u \in Sessions : Linked(log' \cup Uncommitted(u)')
    BY <1>1, <1>2, <1>5 DEF LinkInv
  <2> QED
    BY <2>1 DEF LinkInv, NoMixedFlush, Linked
<1>7. KeyInv'
  BY <1>1, <1>2, <1>5 DEF KeyInv, Day
<1>8. \A d \in Days : Sealed(d) => Sealed(d)'
  BY <1>2, <1>3, <1>5, SealedStays
<1>9. \A d \in Days : DayRows(d)' = DayRows(d)
  BY <1>2 DEF DayRows, Day
<1>10. SignInv'
  BY <1>1, <1>2, <1>8, <1>9 DEF SignInv
<1> QED
  BY <1>6, <1>7, <1>10 DEF CleanInv

\* Time passes, and the sign job reads a sealed day and commits what it read.
LEMMA JobClean ==
  ASSUME ChainInv, CleanInv, Tick \/ SignRead \/ SignCommit \/ UNCHANGED vars
  PROVE  CleanInv'
<1>1. LinkInv /\ KeyInv /\ SignInv
  BY DEF CleanInv
<1>2. UNCHANGED <<log, tx>> /\ clock' \in {clock, clock + 1}
  BY DEF Tick, SignRead, SignCommit, vars
<1>3. /\ clock \in Nat /\ clock' \in Nat /\ clock <= clock'
      /\ checkpoint \in [Days -> SUBSET Row]
  BY <1>2 DEF ChainInv, TypeOK
<1>4. \A u \in Sessions : Uncommitted(u)' = Uncommitted(u)
  BY <1>2 DEF Uncommitted
<1>5. LinkInv'
  <2>1. Linked(log') /\ \A u \in Sessions : Linked(log' \cup Uncommitted(u)')
    BY <1>1, <1>2, <1>4 DEF LinkInv
  <2> QED
    BY <1>1, <1>2, <2>1 DEF LinkInv, Linked
<1>6. KeyInv'
  BY <1>1, <1>2, <1>4 DEF KeyInv, Day
<1>7. \A d \in Days : Sealed(d) => Sealed(d)'
  BY <1>3, <1>4, SealedStays
<1>8. \A d \in Days : DayRows(d)' = DayRows(d)
  BY <1>2 DEF DayRows, Day
<1>9. CASE UNCHANGED <<signing, checkpoint>>
  BY <1>1, <1>5, <1>6, <1>7, <1>8, <1>9 DEF SignInv, CleanInv
<1>10. CASE SignRead
  <2> DEFINE y == yesterday
  <2>1. /\ y \in Days /\ signing' = [day |-> y, rows |-> DayRows(y)]
        /\ \A s \in Sessions : \A r \in Uncommitted(s) : Day(r.at) # y
        /\ UNCHANGED checkpoint
    BY <1>10 DEF SignRead
  <2>2. y < Day(clock)
    BY <1>3, DayType DEF yesterday
  <2>3. Sealed(y)
    BY <2>1, <2>2 DEF Sealed
  <2> HIDE DEF y
  <2>4. signing'.day = y /\ signing'.rows = DayRows(y)
    BY <2>1
  <2>5. SignInv'
    BY <1>1, <1>7, <1>8, <2>1, <2>3, <2>4 DEF SignInv
  <2> QED
    BY <1>5, <1>6, <2>5 DEF CleanInv
<1>11. CASE SignCommit
  <2> DEFINE y == signing.day
  <2>1. /\ signing # NotSigning /\ signing' = NotSigning
        /\ checkpoint' = [checkpoint EXCEPT ![y] = signing.rows]
    BY <1>11 DEF SignCommit
  <2>2. y \in Days /\ Sealed(y) /\ signing.rows = DayRows(y)
    BY <1>1, <2>1 DEF SignInv
  <2> HIDE DEF y
  <2>3. \A d \in Days : checkpoint'[d] = IF d = y THEN DayRows(y) ELSE checkpoint[d]
    BY <1>3, <2>1, <2>2
  <2>4. SignInv'
    BY <1>1, <1>7, <1>8, <2>1, <2>2, <2>3 DEF SignInv
  <2> QED
    BY <1>5, <1>6, <2>4 DEF CleanInv
<1> QED
  BY <1>9, <1>10, <1>11 DEF Tick, vars

\* Every clean step keeps the invariant.
LEMMA CleanNextInv ==
  ASSUME ChainInv, CleanInv, [CleanNext]_vars
  PROVE  ChainInv' /\ CleanInv'
<1>1. ChainInv'
  <2>1. [Next]_vars
    BY DEF CleanNext
  <2> QED
    BY <2>1, NextInv
<1>2. ASSUME NEW s \in Sessions, SessionStep(s), CleanNext PROVE CleanInv'
  BY <1>2, FlushClean, EndClean, BufferClean DEF SessionStep, CleanNext
<1>3. CASE Tick \/ SignRead \/ SignCommit \/ UNCHANGED vars
  BY <1>1, <1>3, JobClean
<1> QED
  BY <1>1, <1>2, <1>3 DEF CleanNext, Next

\* A row of a sealed day hangs off the row verify_day expects.
LEMMA ExpectedPrev ==
  ASSUME ChainInv, CleanInv, NEW d \in Days, NEW r \in DayRows(d)
  PROVE  r.prev = expected_prev(r, DayRows(d))
<1> DEFINE rows == DayRows(d)
           before == {q \in rows : q.at < r.at}
           older == {q \in log : Day(q.at) < Day(r.at)}
<1>1. log \in SUBSET Row /\ r \in log /\ Day(r.at) = d
  BY DEF ChainInv, TypeOK, DayRows
<1>2. \A q \in log : q \in Row /\ q.at \in Nat /\ q.prev \in Nat /\ q.prev < q.at
  BY <1>1 DEF ChainInv, LockedRowsAreNewer, Row
<1>3. /\ r.prev = 0 \/ \E q \in log : q.at = r.prev
      /\ \A q \in log : q.at < r.at => q.at <= r.prev
  BY <1>1 DEF CleanInv, LinkInv, Linked
<1>4. \A q \in log : q.at # 0
  BY <1>2
<1>5. \A q \in log : /\ q.at <= r.at => Day(q.at) <= Day(r.at)
                     /\ r.at <= q.at => Day(r.at) <= Day(q.at)
                     /\ Day(q.at) \in Nat
  BY <1>1, <1>2, DayMonotone, DayType
<1>6. expected_prev(r, rows) = IF before = {} THEN Tail(older) ELSE Tail(before)
  BY DEF expected_prev
<1>7. before \in SUBSET Row /\ older \in SUBSET Row
  BY <1>1 DEF DayRows
<1>8. \A q \in older : q.at < r.at
  BY <1>1, <1>2, <1>5
<1>9. CASE before = {}
  <2>1. \A q \in log : q.at < r.at => q \in older
    BY <1>1, <1>2, <1>5, <1>9 DEF DayRows
  <2>2. CASE older = {}
    <3>1. r.prev = 0
      BY <1>1, <1>2, <1>3, <2>1, <2>2
    <3> QED
      BY <1>6, <1>9, <2>2, <3>1 DEF Tail
  <2>3. CASE older # {}
    <3>1. r.prev # 0
      BY <1>2, <1>3, <1>4, <1>8, <2>3
    <3>2. PICK q \in log : q.at = r.prev
      BY <1>3, <3>1
    <3>3. q \in older /\ \A x \in older : x.at <= q.at
      BY <1>1, <1>2, <1>3, <1>8, <2>1, <3>2
    <3> HIDE DEF older
    <3>4. Tail(older) = q.at
      BY <1>7, <3>3, TailIs
    <3> QED
      BY <1>6, <1>9, <3>2, <3>4
  <2> QED
    BY <2>2, <2>3
<1>10. CASE before # {}
  <2>1. PICK x \in before : TRUE
    BY <1>10
  <2>2. x \in log /\ Day(x.at) = d /\ x.at < r.at /\ x.at <= r.prev
    BY <1>3 DEF DayRows
  <2>3. r.prev # 0
    BY <1>1, <1>2, <1>4, <2>2
  <2>4. PICK q \in log : q.at = r.prev
    BY <1>3, <2>3
  <2>5. q.at < r.at /\ x.at <= q.at
    BY <1>1, <1>2, <2>2, <2>4
  <2>6. Day(x.at) <= Day(q.at) /\ Day(q.at) <= Day(r.at)
    BY <1>1, <1>2, <1>5, <2>2, <2>5, DayMonotone
  <2>7. Day(q.at) = d /\ Day(q.at) \in Nat
    BY <1>1, <1>5, <2>2, <2>6
  <2>8. q \in before /\ \A z \in before : z.at <= q.at
    BY <1>3, <2>4, <2>5, <2>7 DEF DayRows
  <2> HIDE DEF before
  <2>9. Tail(before) = q.at
    BY <1>7, <2>8, TailIs
  <2> QED
    BY <1>6, <1>10, <2>4, <2>9
<1> QED
  BY <1>9, <1>10

\* As long as no flush mixes a handler's rows with rows of the listener, none
\* hashes across midnight and the job finds no transaction of the day open, a
\* signed day verifies, then and ever after: every link, every key and the
\* checkpoint, for any number of transactions, batches, rollbacks and days.
THEOREM NoFalseAlarm == CleanSpec => []SignedDayVerifies
<1>1. Init => ChainInv /\ CleanInv
  <2> SUFFICES ASSUME Init PROVE ChainInv /\ CleanInv
    OBVIOUS
  <2>1. \A s \in Sessions : tx[s] = NoTx /\ Uncommitted(s) = {}
    BY DEF Init, Uncommitted, NoTx
  <2>2. LinkInv
    BY <2>1 DEF Init, LinkInv, Linked, NoTx
  <2>3. KeyInv
    BY <2>1 DEF Init, KeyInv
  <2>4. SignInv
    BY DEF Init, SignInv
  <2> QED
    BY <2>2, <2>3, <2>4, InitInv DEF CleanInv
<1>2. ChainInv /\ CleanInv /\ [CleanNext]_vars => (ChainInv /\ CleanInv)'
  BY CleanNextInv
<1>3. ChainInv /\ CleanInv => SignedDayVerifies
  <2> SUFFICES ASSUME ChainInv, CleanInv, NEW d \in Days, checkpoint[d] # {}
               PROVE  verify_day(d)
    BY DEF SignedDayVerifies
  <2>1. checkpoint[d] = DayRows(d)
    BY DEF CleanInv, SignInv
  <2>2. \A r \in DayRows(d) : r.key = d
    BY DEF CleanInv, KeyInv, DayRows
  <2> QED
    BY <2>1, <2>2, ExpectedPrev DEF verify_day
<1>4. CleanSpec <=> Init /\ [][CleanNext]_vars
  BY DEF CleanSpec, CleanNext
<1> QED
  BY <1>1, <1>2, <1>3, <1>4, PTL

===============================================================================
