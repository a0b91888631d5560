------------------------ MODULE ProgramLifecycleProofs ------------------------
(* Proofs about ProgramLifecycle, for any sessions, milestones and amounts. *)
EXTENDS ProgramLifecycle, TLAPS

USE DEF NoStatus, NoAmount

\* The part of the invariant that is about committed rows, without tx.
RowsOK == /\ status \in RowStatuses
          /\ budget \in Int
          /\ archivedAt \in BOOLEAN
          /\ milestones \in [Milestones -> {"absent", "open", "completed"}]
          /\ open \in Nat
          /\ closure \in Closure
          /\ writer \in Sessions \cup {NoSession}
          /\ activated \in BOOLEAN
          /\ PastDesignWasActivated
          /\ ClosedHasClosure

\* The invariant is its rows part and its sessions part.
LEMMA InvSplit == LifecycleInv <=> RowsOK /\ tx \in [Sessions -> Tx] /\ SessionInv
  BY DEF LifecycleInv, TypeOK, RowsOK

\* A finished session.
LEMMA IdleOK == /\ Idle \in Tx
                /\ \A act, cl : SessionOK(Idle, act, cl)
  BY DEF Idle, Tx, Pcs, Ops, RowStatuses, Statuses, ClosureStatuses, SessionOK,
     LateStatuses

\* One session moves, the others keep what they hold: activation and the
\* closure record are never undone, so what they hold stays true.
LEMMA OneSessionMoves ==
  ASSUME NEW T \in [Sessions -> Tx], NEW s \in Sessions, NEW rec \in Tx,
         NEW a, NEW b, NEW c, NEW d,
         \A u \in Sessions : SessionOK(T[u], a, c),
         a => b, c # "none" => d # "none", SessionOK(rec, b, d)
  PROVE  /\ [T EXCEPT ![s] = rec] \in [Sessions -> Tx]
         /\ \A u \in Sessions : SessionOK([T EXCEPT ![s] = rec][u], b, d)
<1> DEFINE T2 == [T EXCEPT ![s] = rec]
<1>1. T2 \in [Sessions -> Tx] /\ T2[s] = rec
  OBVIOUS
<1>2. ASSUME NEW u \in Sessions, u # s PROVE SessionOK(T2[u], b, d)
  <2>1. T2[u] = T[u]
    BY <1>2
  <2> HIDE DEF T2
  <2> QED
    BY <2>1 DEF SessionOK
<1> HIDE DEF T2
<1>3. \A u \in Sessions : SessionOK(T2[u], b, d)
  BY <1>1, <1>2
<1> QED
  BY <1>1, <1>3 DEF T2

\* The same in terms of the variables: what an action has to show.
LEMMA SessionMoves ==
  ASSUME LifecycleInv, NEW s \in Sessions, NEW STATE rec, Step(s, rec),
         rec \in Tx, SessionOK(rec, activated', closure'.st),
         RowsOK', activated => activated',
         closure.st # "none" => closure'.st # "none"
  PROVE  LifecycleInv'
<1>1. tx \in [Sessions -> Tx] /\ \A u \in Sessions : SessionOK(tx[u], activated, closure.st)
  BY DEF LifecycleInv, TypeOK, SessionInv
<1>2. /\ tx' \in [Sessions -> Tx]
      /\ \A u \in Sessions : SessionOK(tx'[u], activated', closure'.st)
  BY <1>1, OneSessionMoves DEF Step
<1> QED
  BY <1>2, InvSplit DEF LifecycleInv, TypeOK, RowsOK, SessionInv

\* Every edge of VALID_TRANSITIONS that ends in a late status other than
\* "active" and "closed" starts from one; "active" and "closed" are guarded.
LEMMA LateEdges ==
  ASSUME NEW c, NEW t, validate_transition(c, t)
  PROVE  /\ c \in Statuses /\ t \in Statuses
         /\ t \in LateStatuses \ {"active", "closed"} => c \in LateStatuses
  BY DEF validate_transition, VALID_TRANSITIONS, Statuses, LateStatuses

\* HoldStatus never moves a program past design.
LEMMA HoldLate ==
  ASSUME NEW c \in RowStatuses
  PROVE  /\ HoldStatus(c) \in RowStatuses
         /\ HoldStatus(c) \in LateStatuses => c \in LateStatuses
         /\ HoldStatus(c) = "closed" => c = "closed"
  BY DEF HoldStatus, RowStatuses, Statuses, LateStatuses

\* The invariant holds before the program is created.
LEMMA InitInv == Init => LifecycleInv
<1> SUFFICES ASSUME Init PROVE LifecycleInv
  OBVIOUS
<1>1. RowsOK
  <2>1. closure \in Closure
    BY DEF Init, NoClosure, Closure, ClosureStatuses
  <2>2. PastDesignWasActivated /\ ClosedHasClosure
    BY DEF Init, PastDesignWasActivated, ClosedHasClosure, NoClosure, LateStatuses
  <2>3. milestones \in [Milestones -> {"absent", "open", "completed"}]
    BY DEF Init
  <2>4. /\ status \in RowStatuses /\ budget \in Int /\ open \in Nat
        /\ writer \in Sessions \cup {NoSession}
    BY DEF Init, RowStatuses
  <2>5. archivedAt \in BOOLEAN /\ activated \in BOOLEAN
    BY DEF Init
  <2> QED
    BY <2>1, <2>2, <2>3, <2>4, <2>5 DEF RowsOK
<1>2. tx \in [Sessions -> Tx] /\ SessionInv
  BY IdleOK DEF Init, SessionInv
<1> QED
  BY <1>1, <1>2, InvSplit

\* create_program leaves the program before its activation.
LEMMA CreateInv == LifecycleInv /\ Create => LifecycleInv'
<1> SUFFICES ASSUME LifecycleInv, NEW amount \in Amounts \cup {0},
                    NEW ms \in SUBSET Milestones, create_program(amount, ms)
             PROVE  LifecycleInv'
  BY DEF Create
<1>1. RowsOK'
  <2>1. milestones' \in [Milestones -> {"absent", "open", "completed"}]
    BY DEF create_program
  <2>2. status' \in {"intake", "design"} /\ open' \in Nat /\ budget' \in Int
    BY BoundsAssumption DEF create_program
  <2> QED
    BY <2>1, <2>2 DEF LifecycleInv, TypeOK, RowsOK, create_program, RowStatuses,
       Statuses, PastDesignWasActivated, ClosedHasClosure, LateStatuses
<1> QED
  BY <1>1, InvSplit DEF create_program, LifecycleInv, TypeOK, RowsOK, SessionInv

\* Milestones and requests do not appear in the invariant but for their types.
LEMMA EnvironmentInv == LifecycleInv /\ Environment => LifecycleInv'
<1> SUFFICES ASSUME LifecycleInv, Environment PROVE LifecycleInv'
  OBVIOUS
<1>1. /\ UNCHANGED <<status, budget, archivedAt, closure, writer, tx, activated>>
      /\ milestones' \in [Milestones -> {"absent", "open", "completed"}]
      /\ open' \in Nat
  BY DEF Environment, add_milestone, delete_milestone, update_milestone,
     create_request, close_request, Others, LifecycleInv, TypeOK
<1> QED
  BY <1>1 DEF LifecycleInv, TypeOK, SessionInv, PastDesignWasActivated,
     ClosedHasClosure

\* update_program loads the row; its edge, if any, is in the table.
LEMMA LoadUpdateInv ==
  ASSUME LifecycleInv, NEW s \in Sessions, NEW target \in Statuses \cup {NoStatus},
         NEW amount \in Amounts \cup {NoAmount}, LoadUpdate(s, target, amount)
  PROVE  LifecycleInv'
<1> DEFINE same == target \in {NoStatus, status}
           pc == IF same THEN "budget" ELSE IF target \in Guarded THEN "guard" ELSE "flush"
           to == IF same THEN NoStatus ELSE target
           rec == [Idle EXCEPT !.pc = pc, !.op = "update", !.target = to,
                               !.cur = status, !.amount = amount, !.oldBudget = budget]
<1>1. Step(s, rec) /\ (same \/ validate_transition(status, target))
  BY DEF LoadUpdate, Begin
<1>2. pc \in Pcs /\ to \in Statuses \cup {NoStatus} /\ amount \in Int
  BY BoundsAssumption DEF Pcs
<1>3. status \in RowStatuses /\ budget \in Int
  BY DEF LifecycleInv, TypeOK
<1>4. pc \in {"guard", "flush"} => validate_transition(status, to)
  BY <1>1
<1>5. ~(pc = "flush" /\ to = "closed") /\ pc # "ratings"
  BY DEF Guarded
<1> HIDE DEF pc, to
<1>6. rec \in Tx
  BY <1>2, <1>3 DEF Idle, Tx, Ops, ClosureStatuses
<1>7. UNCHANGED <<rows, writer, activated>>
  BY DEF LoadUpdate
<1>8. SessionOK(rec, activated, closure.st)
  BY <1>4, <1>5 DEF SessionOK, Idle, LifecycleInv, PastDesignWasActivated,
     ClosedHasClosure, LateStatuses
<1>9. RowsOK'
  BY <1>7, InvSplit DEF RowsOK, rows, PastDesignWasActivated, ClosedHasClosure
<1> HIDE DEF rec
<1> QED
  BY <1>1, <1>6, <1>7, <1>8, <1>9, SessionMoves DEF rows

\* What the invariant says of the session that moves.
LEMMA SessionFacts ==
  ASSUME LifecycleInv, NEW s \in Sessions
  PROVE  tx[s] \in Tx /\ SessionOK(tx[s], activated, closure.st)
  BY DEF LifecycleInv, TypeOK, SessionInv

\* A handler that raises changes no row.
LEMMA AbortInv ==
  ASSUME LifecycleInv, NEW s \in Sessions, Abort(s)
  PROVE  LifecycleInv'
<1>1. RowsOK' /\ UNCHANGED <<activated, closure>>
  BY InvSplit DEF RowsOK, Abort, Unlock, rows, PastDesignWasActivated, ClosedHasClosure
<1> QED
  BY <1>1, IdleOK, SessionMoves DEF Abort

\* transition_program: a guard that passed for "closed" saw the closure record.
LEMMA RunGuardInv ==
  ASSUME LifecycleInv, NEW s \in Sessions, RunGuard(s)
  PROVE  LifecycleInv'
<1>1. CASE ~guard(tx[s].target) /\ Abort(s)
  BY <1>1, AbortInv
<1>2. CASE guard(tx[s].target) /\ ~(~guard(tx[s].target) /\ Abort(s))
  <2> DEFINE rec == [tx[s] EXCEPT !.pc = "flush"]
  <2>1. tx[s].pc = "guard" /\ Step(s, rec) /\ UNCHANGED <<rows, writer, activated>>
    BY <1>2 DEF RunGuard
  <2>2. rec \in Tx
    BY SessionFacts DEF Tx, Pcs
  <2>3. tx[s].target = "closed" => closure.st # "none"
    BY <1>2 DEF guard, guard_closed
  <2>4. SessionOK(rec, activated, closure.st)
    BY <2>1, <2>3, SessionFacts DEF SessionOK, Tx
  <2>5. RowsOK' /\ UNCHANGED <<activated, closure>>
    BY <2>1, InvSplit DEF RowsOK, rows, PastDesignWasActivated, ClosedHasClosure
  <2> HIDE DEF rec
  <2> QED
    BY <2>1, <2>2, <2>4, <2>5, SessionMoves
<1> QED
  BY <1>1, <1>2 DEF RunGuard

\* transition_program: the flushed status is late only for an activated program,
\* and "closed" only when the closure record exists.
LEMMA FlushStatusInv ==
  ASSUME LifecycleInv, NEW s \in Sessions, NEW dispatched \in BOOLEAN,
         FlushStatus(s, dispatched)
  PROVE  LifecycleInv'
<1> DEFINE rec == [tx[s] EXCEPT !.pc = "budget", !.cur = tx[s].target,
                                !.target = NoStatus, !.dirty = ~dispatched]
<1>1. /\ tx[s].pc = "flush" /\ Step(s, rec)
      /\ UNCHANGED <<budget, archivedAt, milestones, open, closure>>
      /\ status' = IF dispatched THEN tx[s].target ELSE status
      /\ writer' = IF dispatched THEN NoSession ELSE s
      /\ activated' = (activated \/ tx[s].target = "active")
  BY DEF FlushStatus, Activate
<1>2. tx[s].target \in Statuses
  BY <1>1, SessionFacts, LateEdges DEF SessionOK
<1>3. /\ tx[s].target \in LateStatuses => activated'
      /\ tx[s].target = "closed" => closure.st # "none"
  <2>1. tx[s].target \in LateStatuses \ {"active", "closed"} => activated
    BY <1>1, SessionFacts, LateEdges DEF SessionOK
  <2>2. closure.st # "none" => activated
    BY DEF LifecycleInv, PastDesignWasActivated
  <2> QED
    BY <1>1, <2>1, <2>2, SessionFacts DEF SessionOK
<1>4. rec \in Tx
  BY <1>2, SessionFacts DEF Tx, Pcs, RowStatuses
<1>5. SessionOK(rec, activated', closure'.st)
  BY <1>1, <1>3, SessionFacts DEF SessionOK, Tx
<1>6. RowsOK'
  <2>1. /\ status' \in RowStatuses
        /\ status' \in LateStatuses => activated'
        /\ status' = "closed" => closure.st # "none"
    BY <1>1, <1>2, <1>3 DEF LifecycleInv, TypeOK, RowStatuses,
       PastDesignWasActivated, ClosedHasClosure
  <2>2. activated' \in BOOLEAN
    BY <1>1
  <2>3. writer' \in Sessions \cup {NoSession}
    BY <1>1
  <2> QED
    BY <1>1, <2>1, <2>2, <2>3 DEF LifecycleInv, TypeOK, RowsOK,
       PastDesignWasActivated, ClosedHasClosure
<1> HIDE DEF rec
<1> QED
  BY <1>1, <1>4, <1>5, <1>6, SessionMoves

\* The record CheckBudget leaves.
LEMMA BudgetRecord ==
  ASSUME NEW t \in Tx, NEW q \in BOOLEAN, NEW a \in Int, NEW c \in RowStatuses,
         NEW d \in BOOLEAN
  PROVE  [t EXCEPT !.pc = "commit", !.req = q, !.amount = a, !.oldBudget = 0,
                   !.cur = c, !.dirty = d] \in Tx
<1> DEFINE r1 == [t EXCEPT !.pc = "commit", !.req = q, !.amount = a]
           r2 == [r1 EXCEPT !.oldBudget = 0]
           r3 == [r2 EXCEPT !.cur = c]
           r4 == [r3 EXCEPT !.dirty = d]
<1>1. r1 \in Tx
  BY DEF Tx, Pcs
<1>2. r4 = [t EXCEPT !.pc = "commit", !.req = q, !.amount = a, !.oldBudget = 0,
                     !.cur = c, !.dirty = d]
  OBVIOUS
<1>3. \A r \in Tx : [r EXCEPT !.oldBudget = 0] \in Tx
  BY DEF Tx
<1>4. \A r \in Tx : [r EXCEPT !.cur = c] \in Tx
  BY DEF Tx
<1>5. \A r \in Tx : [r EXCEPT !.dirty = d] \in Tx
  BY DEF Tx
<1> QED
  BY <1>1, <1>2, <1>3, <1>4, <1>5

\* update_program: the budget hold keeps what is known of the status it holds.
LEMMA CheckBudgetInv ==
  ASSUME LifecycleInv, NEW s \in Sessions, CheckBudget(s)
  PROVE  LifecycleInv'
<1> DEFINE t == tx[s]
           increase == t.amount # NoAmount /\ t.amount > t.oldBudget
           create == /\ increase
                     /\ ~has_pending_budget_approval
                     /\ NeedsApproval(t.amount - t.oldBudget)
           amt == IF t.amount = t.oldBudget THEN NoAmount ELSE t.amount
           cur == IF create THEN HoldStatus(t.cur) ELSE t.cur
           dirty == t.dirty \/ (create /\ HoldStatus(t.cur) # t.cur)
           rec == [t EXCEPT !.pc = "commit", !.req = create, !.amount = amt,
                            !.oldBudget = 0, !.cur = cur, !.dirty = dirty]
<1>1. /\ t.pc = "budget" /\ UNCHANGED <<rows, activated>>
      /\ writer' = IF increase THEN s ELSE writer
  BY DEF CheckBudget
<1>2. Step(s, rec)
  BY DEF CheckBudget
<1>3. /\ cur \in RowStatuses
      /\ cur \in LateStatuses => activated
      /\ cur = "closed" => closure.st # "none"
  BY HoldLate, SessionFacts DEF SessionOK, Tx
<1>4. amt \in Int /\ create \in BOOLEAN /\ dirty \in BOOLEAN
  BY SessionFacts DEF Tx
<1> HIDE DEF create, amt, cur, dirty
<1>5. rec \in Tx
  BY <1>3, <1>4, SessionFacts, BudgetRecord
<1>6. SessionOK(rec, activated, closure.st)
  BY <1>3, SessionFacts DEF SessionOK, Tx
<1>7. RowsOK' /\ UNCHANGED <<activated, closure>>
  BY <1>1, InvSplit DEF RowsOK, rows, PastDesignWasActivated, ClosedHasClosure
<1> HIDE DEF rec
<1> QED
  BY <1>2, <1>5, <1>6, <1>7, SessionMoves

\* A commit that writes the status of the session's object.
LEMMA WriteStatusFacts ==
  ASSUME LifecycleInv, NEW s \in Sessions, WriteStatus(s)
  PROVE  /\ status' \in RowStatuses
         /\ status' \in LateStatuses => activated
         /\ status' = "closed" => closure.st # "none"
         /\ writer' \in Sessions \cup {NoSession}
         /\ Step(s, Idle)
  BY SessionFacts DEF WriteStatus, Unlock, LifecycleInv, TypeOK, SessionOK, Tx,
     PastDesignWasActivated, ClosedHasClosure

\* update_program: the PATCH commits.
LEMMA CommitUpdateInv ==
  ASSUME LifecycleInv, NEW s \in Sessions, CommitUpdate(s)
  PROVE  LifecycleInv'
<1>1. WriteStatus(s) /\ UNCHANGED <<archivedAt, milestones, closure, activated>>
  BY DEF CommitUpdate
<1>2. budget' \in Int /\ open' \in Nat
  BY SessionFacts DEF CommitUpdate, LifecycleInv, TypeOK, Tx
<1>3. RowsOK'
  BY <1>1, <1>2, WriteStatusFacts DEF LifecycleInv, TypeOK, RowsOK,
     PastDesignWasActivated, ClosedHasClosure
<1> QED
  BY <1>1, <1>3, WriteStatusFacts, IdleOK, SessionMoves

\* emergency_activate_program starts from design.
LEMMA LoadEmergencyInv ==
  ASSUME LifecycleInv, NEW s \in Sessions, LoadEmergency(s)
  PROVE  LifecycleInv'
<1> DEFINE rec == [Idle EXCEPT !.pc = "emergency", !.op = "emergency", !.cur = status]
<1>1. Step(s, rec) /\ status = "design" /\ UNCHANGED <<rows, writer, activated>>
  BY DEF LoadEmergency, Begin
<1>2. rec \in Tx
  BY <1>1, IdleOK DEF Tx, Pcs, Ops, RowStatuses, Statuses
<1>3. SessionOK(rec, activated, closure.st)
  BY <1>1 DEF SessionOK, Idle, LateStatuses
<1>4. RowsOK' /\ UNCHANGED <<activated, closure>>
  BY <1>1, InvSplit DEF RowsOK, rows, PastDesignWasActivated, ClosedHasClosure
<1> HIDE DEF rec
<1> QED
  BY <1>1, <1>2, <1>3, <1>4, SessionMoves

\* emergency_activate_program counts as an activation.
LEMMA CheckEmergencyInv ==
  ASSUME LifecycleInv, NEW s \in Sessions, CheckEmergency(s)
  PROVE  LifecycleInv'
<1>1. CASE Present = {} /\ Abort(s)
  BY <1>1, AbortInv
<1>2. CASE ~(Present = {} /\ Abort(s))
  <2> DEFINE rec == [tx[s] EXCEPT !.pc = "commit", !.cur = "active", !.dirty = TRUE]
  <2>1. /\ Step(s, rec) /\ UNCHANGED rows
        /\ writer' = s
        /\ activated' = TRUE
    BY <1>2 DEF CheckEmergency, Activate
  <2>2. rec \in Tx
    BY SessionFacts DEF Tx, Pcs, RowStatuses, Statuses
  <2>3. SessionOK(rec, activated', closure'.st)
    BY <2>1, SessionFacts DEF SessionOK, Tx, rows
  <2>4. RowsOK'
    BY <2>1, InvSplit DEF RowsOK, rows, PastDesignWasActivated, ClosedHasClosure
  <2> HIDE DEF rec
  <2> QED
    BY <2>1, <2>2, <2>3, <2>4, SessionMoves DEF rows
<1> QED
  BY <1>1, <1>2

\* emergency_activate_program: the commit.
LEMMA CommitEmergencyInv ==
  ASSUME LifecycleInv, NEW s \in Sessions, CommitEmergency(s)
  PROVE  LifecycleInv'
<1>1. /\ WriteStatus(s)
      /\ UNCHANGED <<budget, archivedAt, milestones, open, closure, activated>>
  BY DEF CommitEmergency
<1>2. RowsOK'
  BY <1>1, WriteStatusFacts DEF LifecycleInv, TypeOK, RowsOK,
     PastDesignWasActivated, ClosedHasClosure
<1> QED
  BY <1>1, <1>2, WriteStatusFacts, IdleOK, SessionMoves

\* archive_program starts from a closed program, which has a closure record.
LEMMA LoadArchiveInv ==
  ASSUME LifecycleInv, NEW s \in Sessions, LoadArchive(s)
  PROVE  LifecycleInv'
<1> DEFINE rec == [Idle EXCEPT !.pc = "commit", !.op = "archive",
                               !.cur = "archived", !.dirty = TRUE]
<1>1. Step(s, rec) /\ status = "closed" /\ UNCHANGED <<rows, writer, activated>>
  BY DEF LoadArchive, Begin
<1>2. rec \in Tx
  BY IdleOK DEF Tx, Pcs, Ops, RowStatuses, Statuses
<1>3. SessionOK(rec, activated, closure.st)
  BY <1>1 DEF SessionOK, Idle, LateStatuses, LifecycleInv, PastDesignWasActivated,
     ClosedHasClosure
<1>4. RowsOK' /\ UNCHANGED <<activated, closure>>
  BY <1>1, InvSplit DEF RowsOK, rows, PastDesignWasActivated, ClosedHasClosure
<1> HIDE DEF rec
<1> QED
  BY <1>1, <1>2, <1>3, <1>4, SessionMoves

\* archive_program: the commit, however late.
LEMMA CommitArchiveInv ==
  ASSUME LifecycleInv, NEW s \in Sessions, CommitArchive(s)
  PROVE  LifecycleInv'
<1>1. /\ WriteStatus(s) /\ archivedAt' = TRUE
      /\ UNCHANGED <<budget, milestones, open, closure, activated>>
  BY DEF CommitArchive
<1>2. closure.st # "none"
  BY SessionFacts DEF CommitArchive, SessionOK
<1>3. RowsOK'
  BY <1>1, <1>2, WriteStatusFacts DEF LifecycleInv, TypeOK, RowsOK,
     PastDesignWasActivated, ClosedHasClosure
<1> QED
  BY <1>1, <1>3, WriteStatusFacts, IdleOK, SessionMoves

\* approve_deletion may start from any status.
LEMMA LoadDeleteInv ==
  ASSUME LifecycleInv, NEW s \in Sessions, LoadDelete(s)
  PROVE  LifecycleInv'
<1> DEFINE d == status # "deleted"
           rec == [Idle EXCEPT !.pc = "commit", !.op = "delete",
                               !.cur = "deleted", !.dirty = d]
<1>1. Step(s, rec) /\ UNCHANGED <<rows, writer, activated>>
  BY DEF LoadDelete, Begin
<1>2. d \in BOOLEAN
  OBVIOUS
<1> HIDE DEF d
<1>3. rec \in Tx
  BY <1>2, IdleOK DEF Tx, Pcs, Ops, RowStatuses, Statuses
<1>4. SessionOK(rec, activated, closure.st)
  BY DEF SessionOK, Idle, LateStatuses
<1>5. RowsOK' /\ UNCHANGED <<activated, closure>>
  BY <1>1, InvSplit DEF RowsOK, rows, PastDesignWasActivated, ClosedHasClosure
<1> HIDE DEF rec
<1> QED
  BY <1>1, <1>3, <1>4, <1>5, SessionMoves

\* approve_deletion: the commit leaves the life cycle altogether.
LEMMA CommitDeleteInv ==
  ASSUME LifecycleInv, NEW s \in Sessions, CommitDelete(s)
  PROVE  LifecycleInv'
<1>1. /\ WriteStatus(s)
      /\ UNCHANGED <<budget, archivedAt, milestones, open, closure, activated>>
  BY DEF CommitDelete
<1>2. RowsOK'
  BY <1>1, WriteStatusFacts DEF LifecycleInv, TypeOK, RowsOK,
     PastDesignWasActivated, ClosedHasClosure
<1> QED
  BY <1>1, <1>2, WriteStatusFacts, IdleOK, SessionMoves

\* initiate_closure starts from an active or a completed program.
LEMMA LoadInitiateInv ==
  ASSUME LifecycleInv, NEW s \in Sessions, LoadInitiate(s)
  PROVE  LifecycleInv'
<1> DEFINE rec == [Idle EXCEPT !.pc = "commit", !.op = "initiate"]
<1>1. /\ Step(s, rec) /\ status \in {"completed", "active"}
      /\ UNCHANGED <<rows, writer, activated>>
  BY DEF LoadInitiate, Begin
<1>2. rec \in Tx
  BY IdleOK DEF Tx, Pcs, Ops
<1>3. SessionOK(rec, activated, closure.st)
  BY <1>1 DEF SessionOK, Idle, LateStatuses, LifecycleInv, PastDesignWasActivated
<1>4. RowsOK' /\ UNCHANGED <<activated, closure>>
  BY <1>1, InvSplit DEF RowsOK, rows, PastDesignWasActivated, ClosedHasClosure
<1> HIDE DEF rec
<1> QED
  BY <1>1, <1>2, <1>3, <1>4, SessionMoves

\* initiate_closure: the INSERT succeeds once, for an activated program.
LEMMA CommitInitiateInv ==
  ASSUME LifecycleInv, NEW s \in Sessions, CommitInitiate(s)
  PROVE  LifecycleInv'
<1>1. CASE closure.st # "none" /\ Abort(s)
  BY <1>1, AbortInv
<1>2. CASE ~(closure.st # "none" /\ Abort(s))
  <2>1. /\ Step(s, Idle) /\ closure' = [st |-> "initiated", ticked |-> FALSE]
        /\ UNCHANGED <<status, budget, archivedAt, milestones, open, writer, activated>>
    BY <1>2 DEF CommitInitiate
  <2>2. activated
    BY SessionFacts DEF CommitInitiate, SessionOK
  <2>3. closure' \in Closure /\ closure'.st = "initiated"
    BY <2>1 DEF Closure, ClosureStatuses
  <2>4. RowsOK'
    BY <2>1, <2>2, <2>3 DEF LifecycleInv, TypeOK, RowsOK, PastDesignWasActivated,
       ClosedHasClosure
  <2> QED
    BY <2>1, <2>3, <2>4, IdleOK, SessionMoves
<1> QED
  BY <1>1, <1>2

\* update_checklist finds the closure record, ...
LEMMA LoadChecklistInv ==
  ASSUME LifecycleInv, NEW s \in Sessions, NEW ticked \in BOOLEAN,
         LoadChecklist(s, ticked)
  PROVE  LifecycleInv'
<1> DEFINE rec == [Idle EXCEPT !.pc = "commit", !.op = "checklist",
                               !.clSeen = closure.st, !.ticked = ticked]
<1>1. /\ Step(s, rec) /\ closure.st \in {"initiated", "in_progress"}
      /\ UNCHANGED <<rows, writer, activated>>
  BY DEF LoadChecklist, Begin
<1>2. rec \in Tx
  BY <1>1, IdleOK DEF Tx, Pcs, Ops, ClosureStatuses
<1>3. SessionOK(rec, activated, closure.st)
  BY <1>1 DEF SessionOK, Idle, LateStatuses
<1>4. RowsOK' /\ UNCHANGED <<activated, closure>>
  BY <1>1, InvSplit DEF RowsOK, rows, PastDesignWasActivated, ClosedHasClosure
<1> HIDE DEF rec
<1> QED
  BY <1>1, <1>2, <1>3, <1>4, SessionMoves

\* ... which is still there when the checklist is written.
LEMMA CommitChecklistInv ==
  ASSUME LifecycleInv, NEW s \in Sessions, CommitChecklist(s)
  PROVE  LifecycleInv'
<1> DEFINE st == IF tx[s].clSeen = "in_progress" THEN closure.st ELSE "in_progress"
<1>1. /\ Step(s, Idle) /\ closure' = [st |-> st, ticked |-> tx[s].ticked]
      /\ UNCHANGED <<status, budget, archivedAt, milestones, open, writer, activated>>
  BY DEF CommitChecklist
<1>2. closure.st # "none"
  BY SessionFacts DEF CommitChecklist, SessionOK
<1>3. st \in ClosureStatuses /\ st # "none" /\ tx[s].ticked \in BOOLEAN
  BY <1>2, SessionFacts DEF LifecycleInv, TypeOK, Closure, ClosureStatuses, Tx
<1> HIDE DEF st
<1>4. closure' \in Closure /\ closure'.st # "none"
  BY <1>1, <1>3 DEF Closure
<1>5. RowsOK'
  BY <1>1, <1>2, <1>4 DEF LifecycleInv, TypeOK, RowsOK, PastDesignWasActivated,
     ClosedHasClosure
<1> QED
  BY <1>1, <1>4, <1>5, IdleOK, SessionMoves

\* complete_closure finds the closure record.
LEMMA LoadClosureInv ==
  ASSUME LifecycleInv, NEW s \in Sessions, LoadClosure(s)
  PROVE  LifecycleInv'
<1> DEFINE rec == [Idle EXCEPT !.pc = "ratings", !.op = "closure",
                               !.clSeen = closure.st, !.ticked = closure.ticked]
<1>1. /\ Step(s, rec) /\ closure.st \in {"initiated", "in_progress"}
      /\ UNCHANGED <<rows, writer, activated>>
  BY DEF LoadClosure, Begin
<1>2. closure.ticked \in BOOLEAN
  BY DEF LifecycleInv, TypeOK, Closure
<1>3. rec \in Tx
  BY <1>1, <1>2, IdleOK DEF Tx, Pcs, Ops, ClosureStatuses
<1>4. SessionOK(rec, activated, closure.st)
  BY <1>1 DEF SessionOK, Idle, LateStatuses
<1>5. RowsOK' /\ UNCHANGED <<activated, closure>>
  BY <1>1, InvSplit DEF RowsOK, rows, PastDesignWasActivated, ClosedHasClosure
<1> HIDE DEF rec
<1> QED
  BY <1>1, <1>3, <1>4, <1>5, SessionMoves

\* complete_closure: the record it loaded still exists and the program it
\* closes was therefore activated, whatever status it has by now.
LEMMA CheckClosureInv ==
  ASSUME LifecycleInv, NEW s \in Sessions, NEW allRated \in BOOLEAN,
         CheckClosure(s, allRated)
  PROVE  LifecycleInv'
<1>1. CASE ~(allRated /\ tx[s].ticked) /\ Abort(s)
  BY <1>1, AbortInv
<1>2. CASE ~(~(allRated /\ tx[s].ticked) /\ Abort(s))
  <2> DEFINE d == status # "closed"
             rec == [tx[s] EXCEPT !.pc = "commit", !.cur = "closed", !.dirty = d]
  <2>1. Step(s, rec) /\ writer' = s /\ UNCHANGED <<rows, activated>>
    BY <1>2 DEF CheckClosure
  <2>2. closure.st # "none" /\ activated
    BY SessionFacts DEF CheckClosure, SessionOK, LifecycleInv, PastDesignWasActivated
  <2>3. d \in BOOLEAN
    OBVIOUS
  <2> HIDE DEF d
  <2>4. rec \in Tx
    BY <2>3, SessionFacts DEF Tx, Pcs, RowStatuses, Statuses
  <2>5. SessionOK(rec, activated, closure.st)
    BY <2>2, SessionFacts DEF SessionOK, Tx
  <2>6. RowsOK' /\ UNCHANGED <<activated, closure>>
    BY <2>1, InvSplit DEF RowsOK, rows, PastDesignWasActivated, ClosedHasClosure
  <2> HIDE DEF rec
  <2> QED
    BY <2>1, <2>4, <2>5, <2>6, SessionMoves
<1> QED
  BY <1>1, <1>2

\* complete_closure: the commit closes the program and its closure record.
LEMMA CommitClosureInv ==
  ASSUME LifecycleInv, NEW s \in Sessions, CommitClosure(s)
  PROVE  LifecycleInv'
<1>1. /\ WriteStatus(s) /\ closure' = [closure EXCEPT !.st = "completed"]
      /\ UNCHANGED <<budget, archivedAt, milestones, open, activated>>
  BY DEF CommitClosure
<1>2. closure.st # "none" /\ activated
  BY SessionFacts DEF CommitClosure, SessionOK, LifecycleInv, PastDesignWasActivated
<1>3. closure' \in Closure /\ closure'.st = "completed"
  BY <1>1 DEF LifecycleInv, TypeOK, Closure, ClosureStatuses
<1>4. RowsOK'
  BY <1>1, <1>2, <1>3, WriteStatusFacts DEF LifecycleInv, TypeOK, RowsOK,
     PastDesignWasActivated, ClosedHasClosure
<1> QED
  BY <1>1, <1>3, <1>4, WriteStatusFacts, IdleOK, SessionMoves

\* Every step of every handler keeps the invariant.
LEMMA NextInv == LifecycleInv /\ [Next]_vars => LifecycleInv'
<1> SUFFICES ASSUME LifecycleInv, [Next]_vars PROVE LifecycleInv'
  OBVIOUS
<1>1. CASE Create
  BY <1>1, CreateInv
<1>2. CASE Environment
  BY <1>2, EnvironmentInv
<1>3. ASSUME NEW s \in Sessions, Load(s) PROVE LifecycleInv'
  BY <1>3, LoadUpdateInv, LoadEmergencyInv, LoadArchiveInv, LoadDeleteInv,
     LoadInitiateInv, LoadChecklistInv, LoadClosureInv DEF Load
<1>4. ASSUME NEW s \in Sessions, Proceed(s) PROVE LifecycleInv'
  BY <1>4, RunGuardInv, FlushStatusInv, CheckBudgetInv, CheckEmergencyInv,
     CheckClosureInv DEF Proceed
<1>5. ASSUME NEW s \in Sessions, Commit(s) PROVE LifecycleInv'
  BY <1>5, CommitUpdateInv, CommitEmergencyInv, CommitArchiveInv, CommitDeleteInv,
     CommitInitiateInv, CommitChecklistInv, CommitClosureInv DEF Commit
<1>6. CASE UNCHANGED vars
  BY <1>6 DEF vars, rows, LifecycleInv, TypeOK, PastDesignWasActivated,
     ClosedHasClosure, SessionInv
<1> QED
  BY <1>1, <1>2, <1>3, <1>4, <1>5, <1>6 DEF Next, SessionStep

\* The invariant holds in every reachable state of the interleaved handlers.
LEMMA Invariance == Spec => []LifecycleInv
  BY InitInv, NextInv, PTL DEF Spec

\* Every column and every session's ORM object keeps a value of its domain.
THEOREM TypeCorrect == Spec => []TypeOK
<1>1. LifecycleInv => TypeOK
  BY DEF LifecycleInv
<1> QED
  BY Invariance, <1>1, PTL

\* However many handlers of program_state_machine, closure_service,
\* archival_service and the emergency endpoint interleave, no program gets past
\* design, and none gets a closure record, without an activation that passed
\* its checks.
THEOREM ActivationNeverSkipped == Spec => []PastDesignWasActivated
<1>1. LifecycleInv => PastDesignWasActivated
  BY DEF LifecycleInv
<1> QED
  BY Invariance, <1>1, PTL

\* However many handlers interleave, a closed program, and an archived one, has
\* a closure record (_guard_closed, complete_closure, archive_program).
THEOREM ClosedAlwaysHasClosure == Spec => []ClosedHasClosure
<1>1. LifecycleInv => ClosedHasClosure
  BY DEF LifecycleInv
<1> QED
  BY Invariance, <1>1, PTL

\* However many handlers interleave, what a handler holds in its ORM objects
\* stays backed by the committed rows: a late status by an activation, a closed
\* one and a closure handler by a closure record, a pending edge by
\* VALID_TRANSITIONS.
THEOREM HeldStateIsBacked == Spec => []SessionInv
<1>1. LifecycleInv => SessionInv
  BY DEF LifecycleInv
<1> QED
  BY Invariance, <1>1, PTL

-------------------------------------------------------------------------------
(* Handlers one at a time. *)

\* What a handler that runs alone holds, against the committed rows: cl is the
\* closure's status, has says that there is a milestone, n counts the pending
\* budget requests.
AloneOK(t, st, cl, has, n) ==
    /\ t.pc = "idle" => t = Idle
    /\ t.pc # "idle" => st # "none"
    /\ t.op = "update" /\ ~t.dirty => t.cur = st
    /\ t.dirty => /\ t.cur # "none"
                  /\ st \in Retired => t.cur \in Retired
                  /\ cl # "none" => t.cur \notin {"intake", "design"}
                  /\ t.cur = "active" => has /\ (n > 0 => t.op = "emergency")
    /\ t.pc \in {"guard", "flush"} => t.op = "update" /\ ~t.dirty
    /\ t.pc = "budget" => t.op = "update"
    /\ t.pc = "flush" /\ t.target = "active" => has /\ n = 0
    /\ t.pc = "emergency" => t.op = "emergency" /\ ~t.dirty /\ st = "design"
    /\ t.pc = "ratings" => ~t.dirty
    /\ t.op \in {"initiate", "checklist"} => ~t.dirty
    /\ t.op = "initiate" => st \in {"completed", "active"} /\ cl = "none"
    /\ t.op \in {"checklist", "closure"} => cl \in {"initiated", "in_progress"}
    /\ t.op = "closure" /\ t.pc = "commit" =>
          t.cur = "closed" /\ (t.dirty <=> st # "closed")
    /\ t.req => t.pc = "commit" /\ t.op = "update" /\ t.cur # "active"

\* The committed rows, when handlers run one at a time.
SerialRows == /\ ClosureOnlyPastDesign
              /\ closure.st = "completed" => status \in Retired
              /\ status = "none" => closure.st = "none"

OneBusy == \A s, u \in Sessions : s # u => tx[s].pc = "idle" \/ tx[u].pc = "idle"

AllAlone == \A s \in Sessions :
                AloneOK(tx[s], status, closure.st, Present # {}, open)

\* The inductive invariant of the serial specification.
SerialInv == LifecycleInv /\ SerialRows /\ OneBusy /\ AllAlone
\* A finished handler holds nothing.
LEMMA IdleAlone == \A st, cl, has, n : AloneOK(Idle, st, cl, has, n)
  BY DEF AloneOK, Idle

\* What the serial invariant says of the session that moves.
LEMMA AloneFacts ==
  ASSUME SerialInv, NEW s \in Sessions
  PROVE  /\ tx[s] \in Tx
         /\ SessionOK(tx[s], activated, closure.st)
         /\ AloneOK(tx[s], status, closure.st, Present # {}, open)
         /\ LifecycleInv
  BY SessionFacts DEF SerialInv, AllAlone

\* One session moves and the others are finished.
LEMMA AloneMoves ==
  ASSUME SerialInv, LifecycleInv', NEW s \in Sessions, IdleBut({s}),
         NEW STATE rec, Step(s, rec), SerialRows',
         AloneOK(rec, status', closure'.st, Present' # {}, open')
  PROVE  SerialInv'
<1>1. tx \in [Sessions -> Tx]
  BY DEF SerialInv, LifecycleInv, TypeOK
<1>2. tx'[s] = rec /\ \A u \in Sessions \ {s} : tx'[u] = tx[u] /\ tx[u].pc = "idle"
  BY <1>1 DEF Step, IdleBut
<1>3. \A u \in Sessions \ {s} : tx'[u] = Idle
  BY <1>2 DEF SerialInv, AllAlone, AloneOK
<1>4. OneBusy'
  BY <1>2 DEF OneBusy
<1>5. AllAlone'
  <2> SUFFICES ASSUME NEW u \in Sessions
               PROVE  AloneOK(tx'[u], status', closure'.st, Present' # {}, open')
    BY DEF AllAlone
  <2>1. CASE u = s
    BY <1>2, <2>1
  <2>2. CASE u # s
    BY <1>3, <2>2, IdleAlone
  <2> QED
    BY <2>1, <2>2
<1> QED
  BY <1>4, <1>5 DEF SerialInv

\* The same for a step that commits nothing.
LEMMA QuietMoves ==
  ASSUME SerialInv, LifecycleInv', NEW s \in Sessions, IdleBut({s}),
         NEW STATE rec, Step(s, rec), UNCHANGED rows,
         AloneOK(rec, status, closure.st, Present # {}, open)
  PROVE  SerialInv'
<1>1. SerialRows'
  BY DEF SerialInv, SerialRows, ClosureOnlyPastDesign, rows
<1>2. AloneOK(rec, status', closure'.st, Present' # {}, open')
  BY DEF rows, Present
<1> QED
  BY <1>1, <1>2, AloneMoves

\* A handler that raises, run alone.
LEMMA AbortAlone ==
  ASSUME SerialInv, LifecycleInv', NEW s \in Sessions, IdleBut({s}), Abort(s)
  PROVE  SerialInv'
  BY IdleAlone, QuietMoves DEF Abort

\* update_program loads the row.
LEMMA LoadUpdateAlone ==
  ASSUME SerialInv, LifecycleInv', NEW s \in Sessions, IdleBut({s}),
         NEW target \in Statuses \cup {NoStatus}, NEW amount \in Amounts \cup {NoAmount},
         LoadUpdate(s, target, amount)
  PROVE  SerialInv'
<1> DEFINE same == target \in {NoStatus, status}
           pc == IF same THEN "budget" ELSE IF target \in Guarded THEN "guard" ELSE "flush"
           to == IF same THEN NoStatus ELSE target
           rec == [Idle EXCEPT !.pc = pc, !.op = "update", !.target = to,
                               !.cur = status, !.amount = amount, !.oldBudget = budget]
<1>1. Step(s, rec) /\ status # "none" /\ UNCHANGED rows
  BY DEF LoadUpdate, Begin
<1>2. pc \in {"budget", "guard", "flush"} /\ ~(pc = "flush" /\ to = "active")
  BY DEF Guarded
<1> HIDE DEF pc, to
<1>3. /\ rec.pc = pc /\ rec.op = "update" /\ rec.target = to /\ rec.cur = status
      /\ rec.dirty = FALSE /\ rec.req = FALSE
  BY DEF Idle
<1> HIDE DEF rec
<1>4. AloneOK(rec, status, closure.st, Present # {}, open)
  BY <1>1, <1>2, <1>3 DEF AloneOK
<1> QED
  BY <1>1, <1>4, QuietMoves

\* emergency_activate_program, archive_program and approve_deletion load the row.
LEMMA LoadOtherAlone ==
  ASSUME SerialInv, LifecycleInv', NEW s \in Sessions, IdleBut({s}),
         LoadEmergency(s) \/ LoadArchive(s) \/ LoadDelete(s) \/ LoadInitiate(s)
  PROVE  SerialInv'
<1>1. CASE LoadEmergency(s)
  <2> DEFINE rec == [Idle EXCEPT !.pc = "emergency", !.op = "emergency", !.cur = status]
  <2>1. Step(s, rec) /\ status = "design" /\ UNCHANGED rows
    BY <1>1 DEF LoadEmergency, Begin
  <2>2. AloneOK(rec, status, closure.st, Present # {}, open)
    BY <2>1 DEF AloneOK, Idle
  <2> HIDE DEF rec
  <2> QED
    BY <2>1, <2>2, QuietMoves
<1>2. CASE LoadArchive(s)
  <2> DEFINE rec == [Idle EXCEPT !.pc = "commit", !.op = "archive",
                                 !.cur = "archived", !.dirty = TRUE]
  <2>1. Step(s, rec) /\ status = "closed" /\ UNCHANGED rows
    BY <1>2 DEF LoadArchive, Begin
  <2>2. AloneOK(rec, status, closure.st, Present # {}, open)
    BY <2>1 DEF AloneOK, Idle, Retired
  <2> HIDE DEF rec
  <2> QED
    BY <2>1, <2>2, QuietMoves
<1>3. CASE LoadDelete(s)
  <2> DEFINE d == status # "deleted"
             rec == [Idle EXCEPT !.pc = "commit", !.op = "delete",
                                 !.cur = "deleted", !.dirty = d]
  <2>1. Step(s, rec) /\ status # "none" /\ UNCHANGED rows
    BY <1>3 DEF LoadDelete, Begin
  <2> HIDE DEF d
  <2>2. AloneOK(rec, status, closure.st, Present # {}, open)
    BY <2>1 DEF AloneOK, Idle, Retired
  <2> HIDE DEF rec
  <2> QED
    BY <2>1, <2>2, QuietMoves
<1>4. CASE LoadInitiate(s)
  <2> DEFINE rec == [Idle EXCEPT !.pc = "commit", !.op = "initiate"]
  <2>1. /\ Step(s, rec) /\ status \in {"completed", "active"} /\ closure.st = "none"
        /\ UNCHANGED rows
    BY <1>4 DEF LoadInitiate, Begin
  <2>2. AloneOK(rec, status, closure.st, Present # {}, open)
    BY <2>1 DEF AloneOK, Idle
  <2> HIDE DEF rec
  <2> QED
    BY <2>1, <2>2, QuietMoves
<1> QED
  BY <1>1, <1>2, <1>3, <1>4

\* update_checklist and complete_closure load an unfinished closure.
LEMMA LoadClosureAlone ==
  ASSUME SerialInv, LifecycleInv', NEW s \in Sessions, IdleBut({s}),
         (\E ticked \in BOOLEAN : LoadChecklist(s, ticked)) \/ LoadClosure(s)
  PROVE  SerialInv'
<1>1. ASSUME NEW ticked \in BOOLEAN, LoadChecklist(s, ticked) PROVE SerialInv'
  <2> DEFINE rec == [Idle EXCEPT !.pc = "commit", !.op = "checklist",
                                 !.clSeen = closure.st, !.ticked = ticked]
  <2>1. /\ Step(s, rec) /\ closure.st \in {"initiated", "in_progress"}
        /\ status # "none" /\ UNCHANGED rows
    BY <1>1 DEF LoadChecklist, Begin
  <2>2. AloneOK(rec, status, closure.st, Present # {}, open)
    BY <2>1 DEF AloneOK, Idle
  <2> HIDE DEF rec
  <2> QED
    BY <2>1, <2>2, QuietMoves
<1>2. CASE LoadClosure(s)
  <2> DEFINE rec == [Idle EXCEPT !.pc = "ratings", !.op = "closure",
                                 !.clSeen = closure.st, !.ticked = closure.ticked]
  <2>1. /\ Step(s, rec) /\ closure.st \in {"initiated", "in_progress"}
        /\ status # "none" /\ UNCHANGED rows
    BY <1>2 DEF LoadClosure, Begin
  <2>2. AloneOK(rec, status, closure.st, Present # {}, open)
    BY <2>1 DEF AloneOK, Idle
  <2> HIDE DEF rec
  <2> QED
    BY <2>1, <2>2, QuietMoves
<1> QED
  BY <1>1, <1>2

\* transition_program's guard, run alone: what it saw is still so at the flush.
LEMMA RunGuardAlone ==
  ASSUME SerialInv, LifecycleInv', NEW s \in Sessions, IdleBut({s}), RunGuard(s)
  PROVE  SerialInv'
<1>1. CASE ~guard(tx[s].target) /\ Abort(s)
  BY <1>1, AbortAlone
<1>2. CASE guard(tx[s].target) /\ ~(~guard(tx[s].target) /\ Abort(s))
  <2> DEFINE rec == [tx[s] EXCEPT !.pc = "flush"]
  <2>1. tx[s].pc = "guard" /\ Step(s, rec) /\ UNCHANGED rows
    BY <1>2 DEF RunGuard
  <2>2. tx[s].target = "active" => Present # {} /\ open = 0
    BY <1>2, AloneFacts DEF guard, guard_active, has_pending_budget_approval,
       LifecycleInv, TypeOK
  <2>3. /\ rec.pc = "flush" /\ rec.op = tx[s].op /\ rec.target = tx[s].target
        /\ rec.cur = tx[s].cur /\ rec.dirty = tx[s].dirty /\ rec.req = tx[s].req
    BY AloneFacts DEF Tx
  <2> HIDE DEF rec
  <2>4. AloneOK(rec, status, closure.st, Present # {}, open)
    BY <2>1, <2>2, <2>3, AloneFacts DEF AloneOK
  <2> QED
    BY <2>1, <2>4, QuietMoves
<1> QED
  BY <1>1, <1>2 DEF RunGuard

\* The table leads from a retired status only to a retired one, and from a
\* status past design never back before it.
LEMMA EdgesKeep ==
  ASSUME NEW c, NEW t, validate_transition(c, t)
  PROVE  /\ c \in Retired => t \in Retired
         /\ t \in {"intake", "design"} => c \in {"intake", "design"}
         /\ t # "none" /\ c # "none"
  BY DEF validate_transition, VALID_TRANSITIONS, Statuses, Retired

\* The status a handler flushes, against the committed one.
LEMMA FlushFacts ==
  ASSUME SerialInv, NEW s \in Sessions, tx[s].pc = "flush"
  PROVE  /\ validate_transition(status, tx[s].target)
         /\ tx[s].op = "update" /\ tx[s].req = FALSE /\ tx[s].cur = status
         /\ tx[s].target # "none" /\ status # "none"
         /\ status \in Retired => tx[s].target \in Retired
         /\ closure.st # "none" => tx[s].target \notin {"intake", "design"}
         /\ tx[s].target = "active" => Present # {} /\ open = 0
<1>1. /\ tx[s].op = "update" /\ ~tx[s].dirty /\ tx[s].cur = status
      /\ tx[s].target = "active" => Present # {} /\ open = 0
      /\ ~tx[s].req
  BY AloneFacts DEF AloneOK
<1>2. validate_transition(status, tx[s].target)
  BY <1>1, AloneFacts DEF SessionOK
<1>3. tx[s].req \in BOOLEAN
  BY AloneFacts DEF Tx
<1>4. closure.st # "none" => status \notin {"intake", "design"}
  BY DEF SerialInv, SerialRows, ClosureOnlyPastDesign
<1> QED
  BY <1>1, <1>2, <1>3, <1>4, EdgesKeep

\* transition_program flushes, and a template dispatch commits, the new status.
LEMMA FlushStatusAlone ==
  ASSUME SerialInv, LifecycleInv', NEW s \in Sessions, IdleBut({s}),
         NEW dispatched \in BOOLEAN, FlushStatus(s, dispatched)
  PROVE  SerialInv'
<1> DEFINE rec == [tx[s] EXCEPT !.pc = "budget", !.cur = tx[s].target,
                                !.target = NoStatus, !.dirty = ~dispatched]
<1>1. /\ tx[s].pc = "flush" /\ Step(s, rec)
      /\ UNCHANGED <<milestones, open, closure>>
      /\ status' = IF dispatched THEN tx[s].target ELSE status
  BY DEF FlushStatus
<1>2. /\ rec.pc = "budget" /\ rec.op = "update" /\ rec.cur = tx[s].target
      /\ rec.req = FALSE
  BY <1>1, FlushFacts, AloneFacts DEF Tx
<1>3. rec.dirty = ~dispatched
  BY AloneFacts DEF Tx
<1> HIDE DEF rec
<1>4. UNCHANGED Present
  BY <1>1 DEF Present
<1>5. AloneOK(rec, status', closure'.st, Present' # {}, open')
  <2>1. open \in Nat
    BY AloneFacts DEF LifecycleInv, TypeOK
  <2>2. CASE dispatched
    BY <1>1, <1>2, <1>3, <2>2, FlushFacts DEF AloneOK
  <2>3. CASE ~dispatched
    <3>1. rec.cur = "active" => Present' # {} /\ ~(open' > 0)
      <4>1. open' = open /\ (open = 0 => ~(open > 0))
        BY <1>1, <2>1
      <4>2. tx[s].target = "active" => Present # {} /\ open = 0
        BY <1>1, FlushFacts
      <4> QED
        BY <1>2, <1>4, <4>1, <4>2
    <3>2. rec.dirty = TRUE /\ UNCHANGED <<status, closure>>
      BY <1>1, <1>3, <2>3
    <3> QED
      BY <1>1, <1>2, <3>1, <3>2, FlushFacts DEF AloneOK
  <2> QED
    BY <2>2, <2>3
<1>6. SerialRows'
  BY <1>1, FlushFacts DEF SerialInv, SerialRows, ClosureOnlyPastDesign
<1> QED
  BY <1>1, <1>5, <1>6, AloneMoves

\* The hold of update_program, against the committed status.
LEMMA HoldKeeps ==
  ASSUME NEW c
  PROVE  /\ HoldStatus(c) # "active"
         /\ c \in Retired => HoldStatus(c) \in Retired
         /\ HoldStatus(c) \in {"intake", "design"} => c \in {"intake", "design"}
         /\ HoldStatus(c) # c => c \in {"intake", "active"}
         /\ c # "none" => HoldStatus(c) # "none"
  BY DEF HoldStatus, Retired

\* update_program's budget check, run alone.
LEMMA CheckBudgetAlone ==
  ASSUME SerialInv, LifecycleInv', NEW s \in Sessions, IdleBut({s}), CheckBudget(s)
  PROVE  SerialInv'
<1> DEFINE t == tx[s]
           increase == t.amount # NoAmount /\ t.amount > t.oldBudget
           create == /\ increase
                     /\ ~has_pending_budget_approval
                     /\ NeedsApproval(t.amount - t.oldBudget)
           amt == IF t.amount = t.oldBudget THEN NoAmount ELSE t.amount
           cur == IF create THEN HoldStatus(t.cur) ELSE t.cur
           dirty == t.dirty \/ (create /\ HoldStatus(t.cur) # t.cur)
           rec == [t EXCEPT !.pc = "commit", !.req = create, !.amount = amt,
                            !.oldBudget = 0, !.cur = cur, !.dirty = dirty]
<1>1. t.pc = "budget" /\ UNCHANGED rows
  BY DEF CheckBudget
<1>2. Step(s, rec)
  BY DEF CheckBudget
<1>3. /\ t.op = "update" /\ status # "none"
      /\ ~t.dirty => t.cur = status
      /\ t.dirty => /\ t.cur # "none"
                    /\ status \in Retired => t.cur \in Retired
                    /\ closure.st # "none" => t.cur \notin {"intake", "design"}
                    /\ t.cur = "active" => Present # {} /\ ~(open > 0)
  BY <1>1, AloneFacts DEF AloneOK
<1>4. closure.st # "none" => status \notin {"intake", "design"}
  BY DEF SerialInv, SerialRows, ClosureOnlyPastDesign
<1>5. /\ create => cur # "active"
      /\ ~dirty => cur = status
      /\ dirty => /\ cur # "none"
                  /\ status \in Retired => cur \in Retired
                  /\ closure.st # "none" => cur \notin {"intake", "design"}
                  /\ cur = "active" => Present # {} /\ ~(open > 0)
  BY <1>3, <1>4, HoldKeeps
<1>6. rec.pc = "commit" /\ rec.op = t.op /\ rec.req = create
  BY AloneFacts DEF Tx
<1>7. rec.cur = cur /\ rec.dirty = dirty
  BY AloneFacts DEF Tx
<1> HIDE DEF create, cur, dirty, rec, t
<1>8. AloneOK(rec, status, closure.st, Present # {}, open)
  BY <1>3, <1>5, <1>6, <1>7 DEF AloneOK
<1> QED
  BY <1>1, <1>2, <1>8, QuietMoves

\* emergency_activate_program checks for a milestone.
LEMMA CheckEmergencyAlone ==
  ASSUME SerialInv, LifecycleInv', NEW s \in Sessions, IdleBut({s}), CheckEmergency(s)
  PROVE  SerialInv'
<1>1. CASE Present = {} /\ Abort(s)
  BY <1>1, AbortAlone
<1>2. CASE ~(Present = {} /\ Abort(s))
  <2> DEFINE rec == [tx[s] EXCEPT !.pc = "commit", !.cur = "active", !.dirty = TRUE]
  <2>1. tx[s].pc = "emergency" /\ Present # {} /\ Step(s, rec) /\ UNCHANGED rows
    BY <1>2 DEF CheckEmergency
  <2>2. tx[s].op = "emergency" /\ status = "design" /\ ~tx[s].req
    BY <2>1, AloneFacts DEF AloneOK
  <2>3. /\ rec.pc = "commit" /\ rec.op = tx[s].op /\ rec.cur = "active"
        /\ rec.dirty = TRUE /\ rec.req = tx[s].req
    BY AloneFacts DEF Tx
  <2> HIDE DEF rec
  <2>4. AloneOK(rec, status, closure.st, Present # {}, open)
    BY <2>1, <2>2, <2>3 DEF AloneOK, Retired
  <2> QED
    BY <2>1, <2>4, QuietMoves
<1> QED
  BY <1>1, <1>2

\* complete_closure checks the ratings and the ticks.
LEMMA CheckClosureAlone ==
  ASSUME SerialInv, LifecycleInv', NEW s \in Sessions, IdleBut({s}),
         NEW allRated \in BOOLEAN, CheckClosure(s, allRated)
  PROVE  SerialInv'
<1>1. CASE ~(allRated /\ tx[s].ticked) /\ Abort(s)
  BY <1>1, AbortAlone
<1>2. CASE ~(~(allRated /\ tx[s].ticked) /\ Abort(s))
  <2> DEFINE d == status # "closed"
             rec == [tx[s] EXCEPT !.pc = "commit", !.cur = "closed", !.dirty = d]
  <2>1. tx[s].pc = "ratings" /\ Step(s, rec) /\ UNCHANGED rows
    BY <1>2 DEF CheckClosure
  <2>2. tx[s].op = "closure" /\ ~tx[s].req /\ status # "none"
    BY <2>1, AloneFacts DEF AloneOK, SessionOK
  <2>3. /\ rec.pc = "commit" /\ rec.op = tx[s].op /\ rec.cur = "closed"
        /\ rec.dirty = d /\ rec.req = tx[s].req
    BY AloneFacts DEF Tx
  <2> HIDE DEF rec
  <2>4. closure.st \in {"initiated", "in_progress"}
    BY <2>1, <2>2, AloneFacts DEF AloneOK
  <2>5. AloneOK(rec, status, closure.st, Present # {}, open)
    BY <2>1, <2>2, <2>3, <2>4 DEF AloneOK, Retired
  <2> QED
    BY <2>1, <2>5, QuietMoves
<1> QED
  BY <1>1, <1>2

\* A commit that writes the status, run alone.
LEMMA WriteAlone ==
  ASSUME SerialInv, NEW s \in Sessions, WriteStatus(s), tx[s].pc = "commit"
  PROVE  /\ Step(s, Idle)
         /\ status' # "none"
         /\ status \in Retired => status' \in Retired
         /\ closure.st # "none" => status' \notin {"intake", "design"}
<1>1. status' = IF tx[s].dirty THEN tx[s].cur ELSE status
  BY DEF WriteStatus
<1>2. closure.st # "none" => status \notin {"intake", "design"}
  BY DEF SerialInv, SerialRows, ClosureOnlyPastDesign
<1> QED
  BY <1>1, <1>2, AloneFacts DEF AloneOK, WriteStatus

\* update_program, the emergency, archive_program and approve_deletion commit.
LEMMA CommitAlone ==
  ASSUME SerialInv, LifecycleInv', NEW s \in Sessions, IdleBut({s}),
         \/ CommitUpdate(s) \/ CommitEmergency(s) \/ CommitArchive(s) \/ CommitDelete(s)
  PROVE  SerialInv'
<1>1. WriteStatus(s) /\ tx[s].pc = "commit" /\ UNCHANGED closure
  BY DEF CommitUpdate, CommitEmergency, CommitArchive, CommitDelete
<1>2. SerialRows'
  BY <1>1, WriteAlone DEF SerialInv, SerialRows, ClosureOnlyPastDesign
<1> QED
  BY <1>1, <1>2, WriteAlone, IdleAlone, AloneMoves

\* initiate_closure, update_checklist and complete_closure commit.
LEMMA CommitClosureAlone ==
  ASSUME SerialInv, LifecycleInv', NEW s \in Sessions, IdleBut({s}),
         CommitInitiate(s) \/ CommitChecklist(s) \/ CommitClosure(s)
  PROVE  SerialInv'
<1>1. CASE CommitInitiate(s)
  <2>1. CASE closure.st # "none" /\ Abort(s)
    BY <2>1, AbortAlone
  <2>2. CASE ~(closure.st # "none" /\ Abort(s))
    <3>1. /\ tx[s].op = "initiate" /\ Step(s, Idle) /\ UNCHANGED status
          /\ closure' = [st |-> "initiated", ticked |-> FALSE]
      BY <1>1, <2>2 DEF CommitInitiate
    <3>2. closure'.st = "initiated" /\ status \in {"completed", "active"}
      BY <3>1, AloneFacts DEF AloneOK
    <3>3. SerialRows'
      BY <3>1, <3>2 DEF SerialRows, ClosureOnlyPastDesign
    <3> QED
      BY <3>1, <3>3, IdleAlone, AloneMoves
  <2> QED
    BY <2>1, <2>2
<1>2. CASE CommitChecklist(s)
  <2> DEFINE st == IF tx[s].clSeen = "in_progress" THEN closure.st ELSE "in_progress"
  <2>1. /\ tx[s].op = "checklist" /\ Step(s, Idle) /\ UNCHANGED status
        /\ closure' = [st |-> st, ticked |-> tx[s].ticked]
    BY <1>2 DEF CommitChecklist
  <2>2. closure.st \in {"initiated", "in_progress"}
    BY <2>1, AloneFacts DEF AloneOK
  <2>3. closure'.st \in {"initiated", "in_progress"}
    BY <2>1, <2>2
  <2>4. SerialRows'
    BY <2>1, <2>2, <2>3 DEF SerialInv, SerialRows, ClosureOnlyPastDesign
  <2> QED
    BY <2>1, <2>4, IdleAlone, AloneMoves
<1>3. CASE CommitClosure(s)
  <2>1. /\ WriteStatus(s) /\ tx[s].pc = "commit" /\ tx[s].op = "closure"
        /\ status' = IF tx[s].dirty THEN tx[s].cur ELSE status
        /\ closure' = [closure EXCEPT !.st = "completed"]
    BY <1>3 DEF CommitClosure, WriteStatus
  <2>2. status' = "closed"
    BY <2>1, AloneFacts DEF AloneOK
  <2>3. SerialRows'
    BY <2>2 DEF SerialRows, ClosureOnlyPastDesign, Retired
  <2> QED
    BY <2>1, <2>3, WriteAlone, IdleAlone, AloneMoves
<1> QED
  BY <1>1, <1>2, <1>3

\* create_program finds no handler at work on the row.
LEMMA CreateAlone ==
  ASSUME SerialInv, LifecycleInv', Create
  PROVE  SerialInv'
<1>1. /\ status = "none" /\ status' \in {"intake", "design"}
      /\ UNCHANGED <<closure, tx>>
  BY DEF Create, create_program
<1>2. closure.st = "none"
  BY <1>1 DEF SerialInv, SerialRows
<1>3. \A s \in Sessions : tx[s] = Idle
  BY <1>1, AloneFacts DEF AloneOK
<1>4. AllAlone'
  BY <1>1, <1>3, IdleAlone DEF AllAlone
<1>5. SerialRows' /\ OneBusy'
  BY <1>1, <1>2 DEF SerialRows, ClosureOnlyPastDesign, SerialInv, OneBusy
<1> QED
  BY <1>4, <1>5 DEF SerialInv

\* Milestones and requests change between two handlers.
LEMMA EnvironmentAlone ==
  ASSUME SerialInv, LifecycleInv', IdleBut({}), Environment
  PROVE  SerialInv'
<1>1. UNCHANGED <<status, closure, tx>>
  BY DEF Environment, add_milestone, delete_milestone, update_milestone,
     create_request, close_request, Others
<1>2. \A s \in Sessions : tx[s] = Idle
  BY AloneFacts DEF AloneOK, IdleBut
<1>3. AllAlone'
  BY <1>1, <1>2, IdleAlone DEF AllAlone
<1> QED
  BY <1>1, <1>3 DEF SerialInv, SerialRows, ClosureOnlyPastDesign, OneBusy

\* The serial specification is a restriction of the interleaved one.
LEMMA SerialIsNext == [SerialNext]_vars => [Next]_vars
  BY DEF SerialNext, Next

\* Every step of every handler keeps the serial invariant.
LEMMA SerialNextInv == SerialInv /\ [SerialNext]_vars => SerialInv'
<1> SUFFICES ASSUME SerialInv, [SerialNext]_vars PROVE SerialInv'
  OBVIOUS
<1>1. LifecycleInv'
  BY SerialIsNext, NextInv DEF SerialInv
<1>2. ASSUME NEW s \in Sessions, IdleBut({s}), Load(s) PROVE SerialInv'
  BY <1>1, <1>2, LoadUpdateAlone, LoadOtherAlone, LoadClosureAlone DEF Load
<1>3. ASSUME NEW s \in Sessions, IdleBut({s}), Proceed(s) PROVE SerialInv'
  BY <1>1, <1>3, RunGuardAlone, FlushStatusAlone, CheckBudgetAlone,
     CheckEmergencyAlone, CheckClosureAlone DEF Proceed
<1>4. ASSUME NEW s \in Sessions, IdleBut({s}), Commit(s) PROVE SerialInv'
  BY <1>1, <1>4, CommitAlone, CommitClosureAlone DEF Commit
<1>5. CASE UNCHANGED vars
  BY <1>1, <1>5 DEF vars, rows, SerialInv, SerialRows, ClosureOnlyPastDesign,
     OneBusy, AllAlone, Present
<1> QED
  BY <1>1, <1>2, <1>3, <1>4, <1>5, CreateAlone, EnvironmentAlone
     DEF SerialNext, SessionStep

\* The serial invariant holds in every state handlers reach one at a time.
LEMMA SerialInvariance == SerialSpec => []SerialInv
<1>1. Init => SerialInv
  <2> SUFFICES ASSUME Init PROVE SerialInv
    OBVIOUS
  <2>1. LifecycleInv
    BY InitInv
  <2>2. \A s \in Sessions : tx[s] = Idle
    BY DEF Init
  <2>3. AllAlone
    BY <2>2, IdleAlone DEF AllAlone
  <2>4. OneBusy
    BY <2>2 DEF OneBusy, Idle
  <2>5. SerialRows
    BY DEF Init, NoClosure, SerialRows, ClosureOnlyPastDesign
  <2> QED
    BY <2>1, <2>3, <2>4, <2>5 DEF SerialInv
<1> QED
  BY <1>1, SerialNextInv, PTL DEF SerialSpec

\* A handler moves no other handler.
LEMMA OthersWait ==
  ASSUME NEW u \in Sessions, SessionStep(u), NEW s \in Sessions, s # u, SerialInv
  PROVE  tx'[s] = tx[s]
<1>1. CASE Load(u)
  <2>1. \E rec : tx' = [tx EXCEPT ![u] = rec]
    BY <1>1 DEF Load, LoadUpdate, LoadEmergency, LoadArchive, LoadDelete, LoadInitiate,
       LoadChecklist, LoadClosure, Begin, Step
  <2> QED
    BY <2>1 DEF SerialInv, LifecycleInv, TypeOK
<1>2. CASE Proceed(u)
  <2>1. \E rec : tx' = [tx EXCEPT ![u] = rec]
    BY <1>2 DEF Proceed, RunGuard, FlushStatus, CheckBudget, CheckEmergency,
       CheckClosure, Abort, Step
  <2> QED
    BY <2>1 DEF SerialInv, LifecycleInv, TypeOK
<1>3. CASE Commit(u)
  <2>1. \E rec : tx' = [tx EXCEPT ![u] = rec]
    BY <1>3 DEF Commit, CommitUpdate, CommitEmergency, CommitArchive, CommitDelete,
       CommitInitiate, CommitChecklist, CommitClosure, WriteStatus, Abort, Step
  <2> QED
    BY <2>1 DEF SerialInv, LifecycleInv, TypeOK
<1> QED
  BY <1>1, <1>2, <1>3 DEF SessionStep

\* What one handler's step does to the status and to the closure record.
LEMMA StepEffect ==
  ASSUME SerialInv, NEW s \in Sessions, SessionStep(s)
  PROVE  \/ UNCHANGED <<status, closure>>
         \/ tx[s].pc = "flush" /\ status' = tx[s].target /\ UNCHANGED closure
         \/ /\ tx[s].pc = "commit" /\ WriteStatus(s) /\ UNCHANGED closure
            /\ tx[s].op = "emergency" => CommitEmergency(s)
         \/ tx[s].op \in {"initiate", "checklist"} /\ UNCHANGED status
         \/ tx[s].op = "closure" /\ status' = "closed"
<1>1. CASE Load(s)
  BY <1>1 DEF Load, LoadUpdate, LoadEmergency, LoadArchive, LoadDelete, LoadInitiate,
     LoadChecklist, LoadClosure, rows
<1>2. CASE Proceed(s)
  <2>1. ASSUME NEW dispatched \in BOOLEAN, FlushStatus(s, dispatched)
        PROVE  /\ tx[s].pc = "flush" /\ UNCHANGED closure
               /\ status' = tx[s].target \/ UNCHANGED status
    BY <2>1 DEF FlushStatus
  <2>2. CASE ~\E dispatched \in BOOLEAN : FlushStatus(s, dispatched)
    BY <1>2, <2>2 DEF Proceed, RunGuard, CheckBudget, CheckEmergency, CheckClosure,
       Abort, rows
  <2> QED
    BY <2>1, <2>2
<1>3. CASE CommitUpdate(s) \/ CommitEmergency(s) \/ CommitArchive(s) \/ CommitDelete(s)
  BY <1>3 DEF CommitUpdate, CommitEmergency, CommitArchive, CommitDelete
<1>4. CASE CommitInitiate(s) \/ CommitChecklist(s)
  BY <1>4 DEF CommitInitiate, CommitChecklist, Abort, rows
<1>5. CASE CommitClosure(s)
  <2>1. /\ tx[s].pc = "commit" /\ tx[s].op = "closure"
        /\ status' = IF tx[s].dirty THEN tx[s].cur ELSE status
    BY <1>5 DEF CommitClosure, WriteStatus
  <2> QED
    BY <2>1, AloneFacts DEF AloneOK
<1> QED
  BY <1>1, <1>2, <1>3, <1>4, <1>5 DEF SessionStep, Commit

\* Milestones and requests are not the program's status or its closure.
LEMMA EnvironmentEffect == Environment => UNCHANGED <<status, closure, tx>>
  BY DEF Environment, add_milestone, delete_milestone, update_milestone,
     create_request, close_request, Others

\* One step, one handler at a time, from a retired status.
LEMMA RetiredStep ==
  SerialInv /\ [SerialNext]_vars => (status \in Retired => status' \in Retired)
<1> SUFFICES ASSUME SerialInv, [SerialNext]_vars, status \in Retired
             PROVE  status' \in Retired
  OBVIOUS
<1>1. ASSUME NEW s \in Sessions, SessionStep(s) PROVE status' \in Retired
  BY <1>1, StepEffect, FlushFacts, WriteAlone DEF Retired
<1>2. CASE Create
  BY <1>2 DEF Create, create_program, Retired
<1>3. CASE UNCHANGED vars
  BY <1>3 DEF vars, rows
<1> QED
  BY <1>1, <1>2, <1>3, EnvironmentEffect DEF SerialNext

\* One step from a completed closure.
LEMMA CompletedStep ==
  SerialInv /\ [SerialNext]_vars =>
     (closure.st = "completed" => closure' = closure /\ status' \in Retired)
<1> SUFFICES ASSUME SerialInv, [SerialNext]_vars, closure.st = "completed"
             PROVE  closure' = closure
  BY RetiredStep DEF SerialInv, SerialRows
<1>1. ASSUME NEW s \in Sessions, SessionStep(s) PROVE closure' = closure
  <2>1. tx[s].op \notin {"initiate", "checklist", "closure"}
    BY AloneFacts DEF AloneOK
  <2> QED
    BY <1>1, <2>1, StepEffect
<1>2. CASE Create
  BY <1>2 DEF Create, create_program
<1>3. CASE UNCHANGED vars
  BY <1>3 DEF vars, rows
<1> QED
  BY <1>1, <1>2, <1>3, EnvironmentEffect DEF SerialNext

\* One step that makes the program active.
LEMMA ActivationStep ==
  SerialInv /\ [SerialNext]_vars =>
     ((status # "active" /\ status' = "active") =>
         /\ Present # {}
         /\ has_pending_budget_approval => EmergencyCommit)
<1> SUFFICES ASSUME SerialInv, [SerialNext]_vars, status # "active", status' = "active"
             PROVE  /\ Present # {}
                    /\ has_pending_budget_approval => EmergencyCommit
  OBVIOUS
<1>1. ASSUME NEW s \in Sessions, SessionStep(s)
      PROVE  /\ Present # {}
             /\ has_pending_budget_approval => EmergencyCommit
  <2>1. CASE tx[s].pc = "flush" /\ status' = tx[s].target
    <3>1. Present # {} /\ open = 0
      BY <2>1, FlushFacts
    <3>2. ~has_pending_budget_approval
      BY <3>1 DEF has_pending_budget_approval
    <3> QED
      BY <3>1, <3>2
  <2>2. CASE /\ tx[s].pc = "commit" /\ WriteStatus(s)
             /\ tx[s].op = "emergency" => CommitEmergency(s)
    <3>1. tx[s].dirty /\ tx[s].cur = "active"
      BY <2>2 DEF WriteStatus
    <3>2. Present # {} /\ (open > 0 => tx[s].op = "emergency")
      BY <3>1, AloneFacts DEF AloneOK
    <3> QED
      BY <2>2, <3>2 DEF has_pending_budget_approval, EmergencyCommit
  <2> QED
    BY <1>1, <2>1, <2>2, StepEffect
<1>2. ~Create
  BY DEF Create, create_program
<1>3. ~UNCHANGED vars
  BY DEF vars, rows
<1> QED
  BY <1>1, <1>2, <1>3, EnvironmentEffect DEF SerialNext

\* One step that commits a budget request.
LEMMA HoldStep ==
  ASSUME SerialInv, [SerialNext]_vars, NEW s \in Sessions,
         tx[s].pc = "commit", tx[s].req, tx'[s].pc = "idle"
  PROVE  status' # "active"
<1>1. tx[s].op = "update" /\ tx[s].cur # "active" /\ (~tx[s].dirty => tx[s].cur = status)
  BY AloneFacts DEF AloneOK
<1>2. ~(UNCHANGED vars) /\ ~Create /\ ~Environment
  BY EnvironmentEffect DEF vars, Create, create_program
<1>3. PICK u \in Sessions : SessionStep(u)
  BY <1>2 DEF SerialNext
<1>4. u = s
  BY <1>3, OthersWait
<1>5. ~Load(s)
  BY DEF Load, LoadUpdate, LoadEmergency, LoadArchive, LoadDelete, LoadInitiate,
     LoadChecklist, LoadClosure, Begin
<1>6. ~Proceed(s)
  BY DEF Proceed, RunGuard, FlushStatus, CheckBudget, CheckEmergency, CheckClosure
<1>7. CommitUpdate(s)
  BY <1>1, <1>3, <1>4, <1>5, <1>6 DEF SessionStep, Commit, CommitEmergency,
     CommitArchive, CommitDelete, CommitInitiate, CommitChecklist, CommitClosure
<1>8. status' = IF tx[s].dirty THEN tx[s].cur ELSE status
  BY <1>7 DEF CommitUpdate, WriteStatus
<1> QED
  BY <1>1, <1>8

\* One handler at a time, a program with a closure record is never before its
\* activation: initiate_closure accepts active and completed programs, and no
\* edge of VALID_TRANSITIONS and no hold of update_program leads back.
THEOREM ClosureNeverBeforeActivation == SerialSpec => []ClosureOnlyPastDesign
<1>1. SerialInv => ClosureOnlyPastDesign
  BY DEF SerialInv, SerialRows
<1> QED
  BY SerialInvariance, <1>1, PTL

\* One handler at a time, no sequence of PATCHes, holds, emergencies, closures,
\* archivals and deletions brings a retired program back into operation.
THEOREM RetirementIsFinal == SerialSpec => RetiredStaysRetired
  BY SerialInvariance, RetiredStep, PTL DEF SerialSpec, RetiredStaysRetired

\* One handler at a time, a completed closure is never edited again and its
\* program stays retired, whatever else is called (complete_closure,
\* update_checklist).
THEOREM CompletionIsFinal == SerialSpec => CompletedClosureIsFinal
  BY SerialInvariance, CompletedStep, PTL DEF SerialSpec, CompletedClosureIsFinal

\* One handler at a time, a program becomes active only with a milestone and,
\* but for emergency_activate_program, with no pending budget approval: what
\* _guard_active saw still holds at the commit, also when the template dispatch
\* commits early.
THEOREM ActivationGuardHolds == SerialSpec => ActivationIsGuarded
  BY SerialInvariance, ActivationStep, PTL DEF SerialSpec, ActivationIsGuarded

\* One handler at a time, a PATCH that commits a budget request never leaves
\* the program active, also when the same PATCH activates it.
THEOREM BudgetHoldHolds == SerialSpec => BudgetIncreaseHolds
<1>1. SerialInv /\ [SerialNext]_vars =>
         [\A s \in Sessions :
             (tx[s].pc = "commit" /\ tx[s].req /\ tx'[s].pc = "idle")
                => status' # "active"]_vars
  BY HoldStep
<1> QED
  BY SerialInvariance, <1>1, PTL DEF SerialSpec, BudgetIncreaseHolds

===============================================================================
