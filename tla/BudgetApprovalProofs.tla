------------------------- MODULE BudgetApprovalProofs -------------------------
(* Proofs about BudgetApproval, for any chain, numbering and sessions. *)
EXTENDS BudgetApproval, FiniteSetTheorems, TLAPS

\* A session that decides has loaded a step.
DecidesSteps == \A s \in Sessions : tx[s].pc \in {"request", "decide"} => tx[s].step # Idle

ApprovalInv == TypeOK /\ CountsApprovals /\ ApprovedByAll /\ DecidesSteps

\* The approved steps are a finite set, no more than there are steps, and all
\* of them as soon as there are as many.
LEMMA ApprovedFinite ==
  ASSUME NEW A \in SUBSET Steps
  PROVE  /\ IsFiniteSet(A) /\ Cardinality(A) \in Nat
         /\ total_steps \in Nat
         /\ Cardinality(A) <= total_steps
         /\ Cardinality(A) = total_steps => A = Steps
  BY StepsAssumption, FS_Subset, FS_CardinalityType DEF total_steps

\* Approving a pending step adds one to the approvals.
LEMMA OneMore ==
  ASSUME NEW A \in SUBSET Steps, NEW p \in Steps, p \notin A
  PROVE  Cardinality(A \cup {p}) = Cardinality(A) + 1
  BY ApprovedFinite, FS_AddElement

\* A new request.
LEMMA InitInv == Init => ApprovalInv
<1> SUFFICES ASSUME Init PROVE ApprovalInv
  OBVIOUS
<1>1. TypeOK
  <2>1. NoTx \in Tx
    BY DEF NoTx, Tx, Pcs
  <2>2. tx \in [Sessions -> Tx] /\ twice \in BOOLEAN
    BY <2>1 DEF Init
  <2> QED
    BY <2>2, ParallelAssumption DEF Init, TypeOK, Final
<1>2. CountsApprovals
  <2>1. Cardinality(Approved) \in Nat
    BY ApprovedFinite DEF Approved
  <2> QED
    BY <2>1 DEF Init, CountsApprovals, NoTx
<1>3. ApprovedByAll /\ DecidesSteps
  BY DEF Init, ApprovedByAll, DecidesSteps, NoTx
<1> QED
  BY <1>1, <1>2, <1>3 DEF ApprovalInv

\* The facts about the sessions that the invariant gives.
LEMMA SessionFacts ==
  ASSUME ApprovalInv, NEW u \in Sessions
  PROVE  /\ tx \in [Sessions -> Tx] /\ tx[u] \in Tx
         /\ tx[u].step \in Steps \cup {Idle} /\ tx[u].cur \in Nat
         /\ tx[u].pc \in {"request", "decide"} => tx[u].step \in Steps
         /\ ~twice => tx[u].cur - 1 <= Cardinality(Approved)
         /\ Approved \in SUBSET Steps /\ Cardinality(Approved) \in Nat
         /\ total_steps \in Nat
         /\ current \in Nat \ {0}
         /\ ~twice => current - 1 <= Cardinality(Approved)
<1>1. Approved \in SUBSET Steps
  BY DEF Approved
<1>2. tx \in [Sessions -> Tx] /\ tx[u] \in Tx
  BY DEF ApprovalInv, TypeOK
<1>3. tx[u].step \in Steps \cup {Idle} /\ tx[u].cur \in Nat
  BY <1>2 DEF Tx
<1>4. tx[u].pc \in {"request", "decide"} => tx[u].step # Idle
  BY DEF ApprovalInv, DecidesSteps
<1> QED
  BY <1>1, <1>2, <1>3, <1>4, ApprovedFinite DEF ApprovalInv, TypeOK, CountsApprovals

\* One session moves and no approval is lost, or a step is decided twice: what
\* is left to show is about the session's own record.
LEMMA SessionMoves ==
  ASSUME ApprovalInv, NEW s \in Sessions, NEW STATE rec, rec \in Tx,
         tx' = [tx EXCEPT ![s] = rec],
         rec.pc \in {"request", "decide"} => rec.step # Idle,
         twice => twice',
         ~twice' => /\ Approved \subseteq Approved'
                    /\ rec.cur - 1 <= Cardinality(Approved')
                    /\ current' - 1 <= Cardinality(Approved')
  PROVE  CountsApprovals' /\ DecidesSteps' /\ tx' \in [Sessions -> Tx]
<1>1. tx \in [Sessions -> Tx]
  BY SessionFacts
<1>2. /\ tx' \in [Sessions -> Tx] /\ tx'[s] = rec
      /\ \A u \in Sessions \ {s} : tx'[u] = tx[u]
  BY <1>1
<1>3. DecidesSteps'
  BY <1>2 DEF ApprovalInv, DecidesSteps
<1>4. ASSUME ~twice', NEW u \in Sessions \ {s}
      PROVE  tx'[u].cur - 1 <= Cardinality(Approved')
  <2>1. Approved' \in SUBSET Steps
    BY DEF Approved
  <2>2. IsFiniteSet(Approved') /\ Cardinality(Approved') \in Nat
    BY <2>1, ApprovedFinite
  <2>3. Cardinality(Approved) <= Cardinality(Approved')
    BY <1>4, <2>2, FS_Subset
  <2>4. tx[u].cur \in Nat /\ tx[u].cur - 1 <= Cardinality(Approved)
    BY <1>4, SessionFacts
  <2>5. Cardinality(Approved) \in Nat
    BY SessionFacts
  <2> QED
    BY <1>2, <1>4, <2>2, <2>3, <2>4, <2>5
<1>5. CountsApprovals'
  BY <1>2, <1>4 DEF CountsApprovals
<1> QED
  BY <1>2, <1>3, <1>5

\* A finished session.
LEMMA NoTxOK == /\ NoTx \in Tx /\ NoTx.cur = 0
                /\ NoTx.pc \notin {"request", "decide"}
  BY DEF NoTx, Tx, Pcs

\* decide_step loads a pending step.
LEMMA LoadStepInv ==
  ASSUME ApprovalInv, NEW s \in Sessions, NEW p \in Steps, LoadStep(s, p)
  PROVE  ApprovalInv'
<1> DEFINE rec == [NoTx EXCEPT !.pc = "request", !.step = p]
<1>1. /\ tx' = [tx EXCEPT ![s] = rec]
      /\ UNCHANGED <<status, current, step, parallel, twice>>
  BY DEF LoadStep
<1>2. rec \in Tx
  BY NoTxOK DEF Tx, Pcs
<1>3. Approved' = Approved
  BY <1>1 DEF Approved
<1>4. rec.step # Idle /\ rec.cur = 0
  BY IdleAssumption DEF NoTx
<1> HIDE DEF rec
<1>5. CountsApprovals' /\ DecidesSteps' /\ tx' \in [Sessions -> Tx]
  <2>1. rec.cur - 1 <= Cardinality(Approved)
    BY <1>4, SessionFacts
  <2>2. twice => twice'
    BY <1>1
  <2>3. ~twice' => /\ Approved \subseteq Approved'
                   /\ rec.cur - 1 <= Cardinality(Approved')
                   /\ current' - 1 <= Cardinality(Approved')
    BY <1>1, <1>3, <2>1, SessionFacts
  <2> QED
    BY <1>1, <1>2, <1>4, <2>2, <2>3, SessionMoves
<1> QED
  BY <1>1, <1>3, <1>5 DEF ApprovalInv, TypeOK, ApprovedByAll

\* decide_step loads the request; current_step is not ahead of the approvals.
LEMMA LoadRequestInv ==
  ASSUME ApprovalInv, NEW s \in Sessions, LoadRequest(s)
  PROVE  ApprovalInv'
<1> DEFINE rec == [tx[s] EXCEPT !.pc = "decide", !.seen = status, !.cur = current]
<1>0. tx \in [Sessions -> Tx] /\ tx[s].pc = "request" /\ tx[s].step \in Steps
  BY SessionFacts DEF LoadRequest
<1>1. /\ tx' = [tx EXCEPT ![s] = rec]
      /\ UNCHANGED <<status, current, step, parallel, twice>>
  BY <1>0 DEF LoadRequest
<1>2. rec \in Tx
  BY <1>0 DEF Tx, Pcs, ApprovalInv, TypeOK
<1>3. Approved' = Approved
  BY <1>1 DEF Approved
<1>4. rec.step # Idle /\ rec.cur = current
  BY <1>0, IdleAssumption DEF Tx
<1> HIDE DEF rec
<1>5. CountsApprovals' /\ DecidesSteps' /\ tx' \in [Sessions -> Tx]
  <2>1. ~twice => rec.cur - 1 <= Cardinality(Approved)
    BY <1>4, SessionFacts
  <2>2. twice => twice'
    BY <1>1
  <2>3. ~twice' => /\ Approved \subseteq Approved'
                   /\ rec.cur - 1 <= Cardinality(Approved')
                   /\ current' - 1 <= Cardinality(Approved')
    BY <1>1, <1>3, <2>1, SessionFacts
  <2> QED
    BY <1>1, <1>2, <1>4, <2>2, <2>3, SessionMoves
<1> QED
  BY <1>1, <1>3, <1>5 DEF ApprovalInv, TypeOK, ApprovedByAll

\* The approval of a step: one approval more or the step decided twice,
\* current_step at most one more, and the request approved only by the last one.
LEMMA ApproveInv ==
  ASSUME ApprovalInv, NEW s \in Sessions, Approve(s)
  PROVE  ApprovalInv'
<1> DEFINE p == tx[s].step
<1>1. /\ p \in Steps /\ tx[s].cur \in Nat
      /\ ~twice => tx[s].cur - 1 <= Cardinality(Approved)
  BY SessionFacts DEF Approve
<1>2. /\ tx' = [tx EXCEPT ![s] = NoTx] /\ UNCHANGED parallel
      /\ step' = [step EXCEPT ![p] = "approved"]
      /\ twice' = (twice \/ step[p] # "pending")
  BY DEF Approve, Decide
<1>3. step \in [Steps -> {"pending", "approved", "rejected"}]
  BY DEF ApprovalInv, TypeOK
<1>once. ~twice' => ~twice /\ step[p] = "pending"
  BY <1>2
<1>4. Approved' = Approved \cup {p}
  BY <1>1, <1>2, <1>3 DEF Approved
<1>5. ~twice' => Cardinality(Approved') = Cardinality(Approved) + 1
  <2> SUFFICES ASSUME ~twice'
               PROVE  Cardinality(Approved') = Cardinality(Approved) + 1
    OBVIOUS
  <2>1. p \notin Approved
    BY <1>2 DEF Approved
  <2> QED
    BY <1>1, <1>4, <2>1, OneMore DEF Approved
<1>6. \/ UNCHANGED <<status, current>>
      \/ tx[s].cur >= total_steps /\ status' \in {status, "approved"} /\ UNCHANGED current
      \/ tx[s].cur < total_steps /\ current' = tx[s].cur + 1 /\ UNCHANGED status
  BY <1>1, SessionFacts DEF Approve, _advance_request, Column, IsLast
<1>7. /\ current' \in Nat \ {0}
      /\ current' <= total_steps \/ current' = 1
  BY <1>1, <1>6, SessionFacts DEF ApprovalInv, TypeOK
<1>8. ~twice' => current' - 1 <= Cardinality(Approved')
  <2> SUFFICES ASSUME ~twice' PROVE current' - 1 <= Cardinality(Approved')
    OBVIOUS
  <2>1. /\ current - 1 <= Cardinality(Approved) /\ current \in Nat
        /\ Cardinality(Approved) \in Nat
    BY <1>once, SessionFacts
  <2>2. tx[s].cur \in Nat /\ tx[s].cur - 1 <= Cardinality(Approved)
    BY <1>1, <1>once
  <2>3. Cardinality(Approved') = Cardinality(Approved) + 1
    BY <1>5
  <2> QED
    BY <1>6, <2>1, <2>2, <2>3
<1>9. CountsApprovals' /\ DecidesSteps' /\ tx' \in [Sessions -> Tx]
  <2>1. ~twice' => NoTx.cur - 1 <= Cardinality(Approved')
    BY <1>5, NoTxOK, SessionFacts
  <2> QED
    BY <1>2, <1>4, <1>8, <2>1, NoTxOK, SessionMoves
<1>10. ApprovedByAll'
  <2>1. CASE status' = "approved" /\ status # "approved" /\ ~twice'
    <3>1. Cardinality(Approved') >= total_steps
      <4>1. tx[s].cur >= total_steps /\ total_steps \in Nat /\ tx[s].cur \in Nat
        BY <1>1, <1>6, <2>1, SessionFacts
      <4>2. tx[s].cur - 1 <= Cardinality(Approved) /\ Cardinality(Approved) \in Nat
        BY <1>1, <1>once, <2>1, SessionFacts
      <4>3. Cardinality(Approved') = Cardinality(Approved) + 1
        BY <1>5, <2>1
      <4> QED
        BY <4>1, <4>2, <4>3
    <3>2. Approved' \in SUBSET Steps
      BY DEF Approved
    <3> QED
      BY <3>1, <3>2, ApprovedFinite DEF ApprovedByAll
  <2>2. CASE status = "approved" \/ status' # "approved" \/ twice'
    BY <1>1, <1>2, <1>4, <2>2 DEF ApprovedByAll, ApprovalInv, Approved
  <2> QED
    BY <2>1, <2>2
<1>11. TypeOK'
  <2>1. step' \in [Steps -> {"pending", "approved", "rejected"}]
    BY <1>2, <1>3
  <2>2. status' \in Final \cup {"pending"}
    BY <1>6 DEF ApprovalInv, TypeOK, Final
  <2>3. twice' \in BOOLEAN
    BY <1>2 DEF ApprovalInv, TypeOK
  <2> QED
    BY <1>2, <1>7, <1>9, <2>1, <2>2, <2>3 DEF ApprovalInv, TypeOK
<1> QED
  BY <1>9, <1>10, <1>11 DEF ApprovalInv

\* The rejection of a step takes no approval back, or decides it twice.
LEMMA RejectInv ==
  ASSUME ApprovalInv, NEW s \in Sessions, Reject(s)
  PROVE  ApprovalInv'
<1> DEFINE p == tx[s].step
<1>1. p \in Steps
  BY SessionFacts DEF Reject
<1>2. /\ tx' = [tx EXCEPT ![s] = NoTx] /\ UNCHANGED <<current, parallel>>
      /\ step' = [step EXCEPT ![p] = "rejected"]
      /\ twice' = (twice \/ step[p] # "pending")
      /\ status' \in {status, "rejected"}
  BY DEF Reject, Decide, Column
<1>3. step \in [Steps -> {"pending", "approved", "rejected"}]
  BY DEF ApprovalInv, TypeOK
<1>4. ~twice' => Approved' = Approved
  BY <1>1, <1>2, <1>3 DEF Approved
<1>5. CountsApprovals' /\ DecidesSteps' /\ tx' \in [Sessions -> Tx]
  <2>1. ~twice' => NoTx.cur - 1 <= Cardinality(Approved')
    BY <1>4, NoTxOK, SessionFacts
  <2> QED
    BY <1>2, <1>4, <2>1, SessionFacts, NoTxOK, SessionMoves
<1>6. step' \in [Steps -> {"pending", "approved", "rejected"}] /\ twice' \in BOOLEAN
  BY <1>2, <1>3 DEF ApprovalInv, TypeOK
<1>7. ApprovedByAll'
  BY <1>2, <1>4 DEF ApprovalInv, ApprovedByAll
<1>8. TypeOK'
  BY <1>2, <1>5, <1>6 DEF ApprovalInv, TypeOK, Final
<1> QED
  BY <1>5, <1>7, <1>8 DEF ApprovalInv

\* cancel_request, both halves, touches no step.
LEMMA CancelInv ==
  ASSUME ApprovalInv, NEW s \in Sessions, LoadCancel(s) \/ CommitCancel(s)
  PROVE  ApprovalInv'
<1> DEFINE rec == [NoTx EXCEPT !.pc = "cancel"]
<1>1. /\ \/ tx' = [tx EXCEPT ![s] = rec]
         \/ tx' = [tx EXCEPT ![s] = NoTx]
      /\ UNCHANGED <<current, step, parallel, twice>>
      /\ status' \in {status, "cancelled"}
  BY DEF LoadCancel, CommitCancel
<1>2. rec \in Tx /\ rec.pc = "cancel" /\ rec.cur = 0
  BY NoTxOK DEF Tx, Pcs, NoTx
<1>3. Approved' = Approved
  BY <1>1 DEF Approved
<1> HIDE DEF rec
<1>4. CountsApprovals' /\ DecidesSteps' /\ tx' \in [Sessions -> Tx]
  BY <1>1, <1>2, <1>3, SessionFacts, NoTxOK, SessionMoves
<1> QED
  BY <1>1, <1>3, <1>4 DEF ApprovalInv, TypeOK, ApprovedByAll, Final

\* Every step of every session, and every edit of the chain, keeps the invariant.
LEMMA NextInv == ApprovalInv /\ [Next]_vars => ApprovalInv'
<1> SUFFICES ASSUME ApprovalInv, [Next]_vars PROVE ApprovalInv'
  OBVIOUS
<1>1. CASE UNCHANGED <<status, current, step, tx, twice>> /\ parallel' \subseteq Nat
  <2>1. Approved' = Approved
    BY <1>1 DEF Approved
  <2> QED
    BY <1>1, <2>1 DEF ApprovalInv, TypeOK, CountsApprovals, ApprovedByAll, DecidesSteps
<1>2. ASSUME NEW s \in Sessions, SessionStep(s) PROVE ApprovalInv'
  BY <1>2, LoadStepInv, LoadRequestInv, ApproveInv, RejectInv, CancelInv DEF SessionStep
<1>3. ASSUME NEW numbers \in SUBSET Numbers, EditChain(numbers) PROVE ApprovalInv'
  <2>1. Numbers \subseteq Nat
    BY StepsAssumption DEF Numbers
  <2> QED
    BY <1>1, <1>3, <2>1, ParallelAssumption DEF EditChain
<1>4. CASE UNCHANGED vars
  BY <1>1, <1>4 DEF vars, ApprovalInv, TypeOK
<1> QED
  BY <1>2, <1>3, <1>4 DEF Next

\* For every chain, numbering, order of decisions, interleaving, cancellation
\* and edit of the chain, a request is approved only by the approval of all its
\* steps, unless one of them was decided twice.
THEOREM ApprovalNeedsAllSteps == Spec => []ApprovedByAll
<1>1. ApprovalInv => ApprovedByAll
  BY DEF ApprovalInv
<1> QED
  BY InitInv, NextInv, <1>1, PTL DEF Spec

\* Under every interleaving the columns of the request and of its steps, and the
\* objects a session has loaded, keep values of their domains; current_step
\* never runs past the number of steps, decided twice or not.
THEOREM TypeCorrect == Spec => []TypeOK
<1>1. ApprovalInv => TypeOK
  BY DEF ApprovalInv
<1> QED
  BY InitInv, NextInv, <1>1, PTL DEF Spec

\* Under every interleaving, until a step is decided twice, neither current_step
\* nor any copy of it a session has loaded is ahead of the approvals.
THEOREM LoadedCountHolds == Spec => []CountsApprovals
<1>1. ApprovalInv => CountsApprovals
  BY DEF ApprovalInv
<1> QED
  BY InitInv, NextInv, <1>1, PTL DEF Spec

-------------------------------------------------------------------------------
(* Decisions one at a time. *)

\* Decisions one at a time: what the session in flight loaded is still so, no
\* step is decided twice, and a rejected request has a rejected step.
FreshTx(t, st, steps) ==
    /\ t.pc = "idle" => t = NoTx
    /\ t.pc = "decide" => t.seen = st
    /\ t.pc \in {"request", "decide"} => steps[t.step] = "pending"
    /\ t.pc = "cancel" => st = "pending"

SerialInv == /\ ApprovalInv
             /\ ~twice
             /\ \A s \in Sessions : FreshTx(tx[s], status, step)
             /\ status = "rejected" => \E p \in Steps : step[p] = "rejected"

Alone(s) == \A u \in Sessions \ {s} : tx[u].pc = "idle"

\* A step of a session that runs alone: the others hold nothing, before and
\* after it, so its step is still pending when it decides.
LEMMA AloneMoves ==
  ASSUME SerialInv, NEW s \in Sessions, Alone(s), SessionStep(s)
  PROVE  /\ ApprovalInv' /\ ~twice'
         /\ \A u \in Sessions \ {s} : tx'[u] = NoTx
         /\ parallel' = parallel
<1>1. tx \in [Sessions -> Tx]
  BY DEF SerialInv, ApprovalInv, TypeOK
<1>2. /\ \E rec : tx' = [tx EXCEPT ![s] = rec]
      /\ parallel' = parallel
  <2>1. CASE LoadRequest(s)
    <3> DEFINE rec == [tx[s] EXCEPT !.pc = "decide", !.seen = status, !.cur = current]
    <3>1. tx' = [tx EXCEPT ![s] = rec] /\ parallel' = parallel
      BY <1>1, <2>1 DEF LoadRequest
    <3> QED
      BY <3>1
  <2>2. CASE ~LoadRequest(s)
    BY <2>2 DEF SessionStep, LoadStep, Approve, Reject, LoadCancel, CommitCancel
  <2> QED
    BY <2>1, <2>2
<1>3. \A u \in Sessions \ {s} : tx'[u] = NoTx
  <2>1. \A u \in Sessions \ {s} : tx'[u] = tx[u]
    BY <1>1, <1>2
  <2> QED
    BY <2>1 DEF Alone, SerialInv, FreshTx
<1>4. Next
  BY DEF Next
<1>5. ~twice'
  BY DEF SessionStep, LoadStep, LoadRequest, Approve, Reject, Decide, LoadCancel,
     CommitCancel, SerialInv, FreshTx
<1> QED
  BY <1>2, <1>3, <1>4, <1>5, NextInv DEF SerialInv

\* What the invariants say of a session that decides.
LEMMA DecideFacts ==
  ASSUME SerialInv, NEW s \in Sessions, tx[s].pc = "decide"
  PROVE  /\ tx[s].seen = status
         /\ tx[s].step \in Steps /\ step[tx[s].step] = "pending"
         /\ tx[s].cur \in Nat
         /\ step \in [Steps -> {"pending", "approved", "rejected"}]
  BY SessionFacts DEF SerialInv, FreshTx, ApprovalInv, TypeOK

\* A finished session holds nothing.
LEMMA NoTxFresh == \A st, steps : FreshTx(NoTx, st, steps)
  BY DEF FreshTx, NoTx

\* Every step of a session that runs alone keeps the serial invariant, and a
\* rejected request rejected.
LEMMA SerialStep ==
  ASSUME SerialInv, NEW s \in Sessions, Alone(s), SessionStep(s)
  PROVE  SerialInv' /\ (status = "rejected" => status' = "rejected")
<1> DEFINE Goal == /\ FreshTx(tx'[s], status', step')
                   /\ status' = "rejected" => \E p \in Steps : step'[p] = "rejected"
                   /\ status = "rejected" => status' = "rejected"
<1>0. SUFFICES Goal
  <2>1. ASSUME Goal PROVE \A u \in Sessions : FreshTx(tx'[u], status', step')
    BY <2>1, AloneMoves, NoTxFresh
  <2> QED
    BY <2>1, AloneMoves DEF SerialInv
<1>1. tx \in [Sessions -> Tx] /\ tx[s] \in Tx
  BY DEF SerialInv, ApprovalInv, TypeOK
<1>2. ASSUME NEW p \in Steps, LoadStep(s, p) PROVE Goal
  <2> DEFINE rec == [NoTx EXCEPT !.pc = "request", !.step = p]
  <2>1. tx' = [tx EXCEPT ![s] = rec] /\ UNCHANGED <<status, step>> /\ step[p] = "pending"
    BY <1>2 DEF LoadStep
  <2>2. rec.pc = "request" /\ rec.step = p
    BY DEF NoTx
  <2> HIDE DEF rec
  <2>3. tx'[s] = rec
    BY <1>1, <2>1
  <2> QED
    BY <2>1, <2>2, <2>3 DEF FreshTx, SerialInv
<1>3. CASE LoadRequest(s)
  <2> DEFINE rec == [tx[s] EXCEPT !.pc = "decide", !.seen = status, !.cur = current]
  <2>1. tx' = [tx EXCEPT ![s] = rec] /\ UNCHANGED <<status, step>>
    BY <1>1, <1>3 DEF LoadRequest
  <2>2. rec.pc = "decide" /\ rec.seen = status /\ step[rec.step] = "pending"
    BY <1>1, <1>3 DEF Tx, LoadRequest, SerialInv, FreshTx
  <2> HIDE DEF rec
  <2>3. tx'[s] = rec
    BY <1>1, <2>1
  <2> QED
    BY <2>1, <2>2, <2>3 DEF FreshTx, SerialInv
<1>4. CASE Approve(s)
  <2>1. /\ tx[s].pc = "decide" /\ tx' = [tx EXCEPT ![s] = NoTx]
        /\ step' = [step EXCEPT ![tx[s].step] = "approved"]
        /\ status' \in {status, "approved"}
    BY <1>4 DEF Approve, Decide, _advance_request, Column
  <2>2. status = "rejected" => \E p \in Steps : step'[p] = "rejected"
    <3> SUFFICES ASSUME status = "rejected" PROVE \E p \in Steps : step'[p] = "rejected"
      OBVIOUS
    <3>1. PICK p \in Steps : step[p] = "rejected"
      BY DEF SerialInv
    <3>2. step'[p] = "rejected"
      BY <2>1, <3>1, DecideFacts
    <3> QED
      BY <3>2
  <2>3. status = "rejected" => status' # "approved"
    <3> SUFFICES ASSUME status = "rejected", status' = "approved" PROVE FALSE
      BY <2>2
    <3>1. Approved' = Steps
      BY AloneMoves DEF ApprovalInv, ApprovedByAll
    <3> QED
      BY <2>2, <3>1 DEF Approved
  <2>4. tx'[s] = NoTx
    BY <1>1, <2>1
  <2> QED
    BY <2>1, <2>2, <2>3, <2>4, NoTxFresh
<1>5. CASE Reject(s)
  <2>1. /\ tx[s].pc = "decide" /\ tx' = [tx EXCEPT ![s] = NoTx]
        /\ step' = [step EXCEPT ![tx[s].step] = "rejected"]
        /\ status' = Column(status, tx[s].seen, "rejected")
    BY <1>5 DEF Reject, Decide
  <2>2. step'[tx[s].step] = "rejected" /\ tx[s].step \in Steps
    BY <2>1, DecideFacts
  <2>3. status' = "rejected" /\ tx'[s] = NoTx
    BY <1>1, <2>1, DecideFacts DEF Column
  <2> QED
    BY <2>2, <2>3, NoTxFresh
<1>6. CASE LoadCancel(s)
  <2> DEFINE rec == [NoTx EXCEPT !.pc = "cancel"]
  <2>1. tx' = [tx EXCEPT ![s] = rec] /\ status = "pending" /\ UNCHANGED <<status, step>>
    BY <1>6 DEF LoadCancel
  <2>2. rec.pc = "cancel"
    BY DEF NoTx
  <2> HIDE DEF rec
  <2>3. tx'[s] = rec
    BY <1>1, <2>1
  <2> QED
    BY <2>1, <2>2, <2>3 DEF FreshTx
<1>7. CASE CommitCancel(s)
  <2>1. /\ tx[s].pc = "cancel" /\ tx' = [tx EXCEPT ![s] = NoTx]
        /\ status' = "cancelled"
    BY <1>7 DEF CommitCancel
  <2>2. status = "pending" /\ tx'[s] = NoTx
    BY <1>1, <2>1 DEF SerialInv, FreshTx
  <2> QED
    BY <2>1, <2>2, NoTxFresh
<1> QED
  BY <1>2, <1>3, <1>4, <1>5, <1>6, <1>7 DEF SessionStep

\* The same for any step, stuttering included.
LEMMA SerialNextInv ==
  SerialInv /\ [SerialNext]_vars =>
     SerialInv' /\ (status = "rejected" => status' = "rejected")
<1> SUFFICES ASSUME SerialInv, [SerialNext]_vars
             PROVE  SerialInv' /\ (status = "rejected" => status' = "rejected")
  OBVIOUS
<1>1. CASE UNCHANGED vars
  BY <1>1, NextInv DEF vars, SerialInv
<1>2. CASE SerialNext
  BY <1>2, SerialStep DEF SerialNext, Alone
<1> QED
  BY <1>1, <1>2

\* A new request, decided one at a time.
LEMMA SerialInit == Init => SerialInv
  BY InitInv, NoTxFresh DEF Init, SerialInv

\* One session at a time, a rejected request stays rejected, whatever is decided
\* on its other steps, for every chain, numbering and parallel step: the steps
\* left cannot carry current_step to the last one.
THEOREM RejectionIsFinal == SerialSpec => RejectedIsFinal
<1>1. SerialInv /\ [SerialNext]_vars => SerialInv'
  BY SerialNextInv
<1>2. SerialInv /\ [SerialNext]_vars => [status = "rejected" => status' = "rejected"]_vars
  BY SerialNextInv
<1> QED
  BY SerialInit, <1>1, <1>2, PTL DEF SerialSpec, RejectedIsFinal

\* On a chain without parallel steps, current_step counts the approvals exactly
\* until the last one, which ends the request.
ExactInv == /\ SerialInv
            /\ parallel = {}
            /\ \A s \in Sessions : tx[s].pc = "decide" => tx[s].cur = current
            /\ Approved # Steps => current - 1 = Cardinality(Approved)
            /\ NothingLeftPending

\* Every step of a session that runs alone keeps the count exact.
LEMMA ExactStep ==
  ASSUME ExactInv, NEW s \in Sessions, Alone(s), SessionStep(s)
  PROVE  ExactInv'
<1> DEFINE Goal == /\ tx'[s].pc = "decide" => tx'[s].cur = current'
                   /\ Approved' # Steps => current' - 1 = Cardinality(Approved')
                   /\ Approved' = Steps => status' # "pending"
<1>1. SerialInv
  BY DEF ExactInv
<1>2. SUFFICES Goal
  <2>1. NoTx.pc # "decide"
    BY DEF NoTx
  <2>2. ASSUME Goal
        PROVE  \A u \in Sessions : tx'[u].pc = "decide" => tx'[u].cur = current'
    BY <1>1, <2>1, <2>2, AloneMoves
  <2> QED
    BY <1>1, <2>2, AloneMoves, SerialStep DEF ExactInv, NothingLeftPending
<1>3. tx \in [Sessions -> Tx] /\ tx[s] \in Tx
  BY <1>1 DEF SerialInv, ApprovalInv, TypeOK
<1>4. ASSUME UNCHANGED <<current, step>>, status' = status \/ status' # "pending",
             tx'[s].pc = "decide" => tx'[s].cur = current
      PROVE  Goal
  <2>1. Approved' = Approved
    BY <1>4 DEF Approved
  <2> QED
    BY <1>4, <2>1 DEF ExactInv, NothingLeftPending
<1>5. ASSUME NEW p \in Steps, LoadStep(s, p) PROVE Goal
  <2> DEFINE rec == [NoTx EXCEPT !.pc = "request", !.step = p]
  <2>1. tx' = [tx EXCEPT ![s] = rec] /\ UNCHANGED <<status, current, step>>
    BY <1>5 DEF LoadStep
  <2>2. rec.pc = "request"
    BY DEF NoTx
  <2> HIDE DEF rec
  <2>3. tx'[s] = rec
    BY <1>3, <2>1
  <2> QED
    BY <1>4, <2>1, <2>2, <2>3
<1>6. CASE LoadRequest(s)
  <2> DEFINE rec == [tx[s] EXCEPT !.pc = "decide", !.seen = status, !.cur = current]
  <2>1. tx' = [tx EXCEPT ![s] = rec] /\ UNCHANGED <<status, current, step>>
    BY <1>3, <1>6 DEF LoadRequest
  <2>2. rec.cur = current
    BY <1>3 DEF Tx
  <2> HIDE DEF rec
  <2>3. tx'[s] = rec
    BY <1>3, <2>1
  <2> QED
    BY <1>4, <2>1, <2>2, <2>3
<1>7. CASE Approve(s)
  <2> DEFINE p == tx[s].step
  <2>1. /\ tx[s].pc = "decide" /\ tx' = [tx EXCEPT ![s] = NoTx]
        /\ step' = [step EXCEPT ![p] = "approved"]
        /\ _advance_request(p, tx[s].seen, tx[s].cur)
    BY <1>7 DEF Approve, Decide
  <2>2. /\ p \in Steps /\ step[p] = "pending" /\ tx[s].seen = status
        /\ step \in [Steps -> {"pending", "approved", "rejected"}]
        /\ tx[s].cur = current
    BY <1>1, <2>1, DecideFacts DEF ExactInv
  <2>3. Approved' = Approved \cup {p} /\ p \notin Approved
    BY <2>1, <2>2 DEF Approved
  <2>4. /\ Cardinality(Approved') = Cardinality(Approved) + 1
        /\ Approved # Steps
    BY <2>2, <2>3, OneMore DEF Approved
  <2>5. /\ Cardinality(Approved) \in Nat /\ total_steps \in Nat /\ current \in Nat
        /\ current = Cardinality(Approved) + 1
    BY <1>1, <2>4, SessionFacts DEF ExactInv, SerialInv
  <2>6. Approved' \in SUBSET Steps
    BY DEF Approved
  <2>7. ~Waits(p, current)
    BY DEF Waits, ExactInv
  <2>8. \/ /\ current >= total_steps /\ UNCHANGED current
           /\ status' = Column(status, status, "approved")
        \/ current < total_steps /\ current' = current + 1
    BY <2>1, <2>2, <2>5, <2>7 DEF _advance_request, IsLast
  <2>9. CASE current >= total_steps
    <3>1. Approved' = Steps
      BY <2>4, <2>5, <2>6, <2>9, ApprovedFinite
    <3>2. status' = "approved"
      BY <2>5, <2>8, <2>9 DEF Column
    <3> QED
      BY <1>3, <2>1, <3>1, <3>2 DEF NoTx
  <2>10. CASE current < total_steps
    <3>1. current' = current + 1
      BY <2>5, <2>8, <2>10
    <3>2. current' - 1 = Cardinality(Approved')
      BY <2>4, <2>5, <3>1
    <3>3. Approved' # Steps
      BY <2>4, <2>5, <2>10 DEF total_steps
    <3> QED
      BY <1>3, <2>1, <3>2, <3>3 DEF NoTx
  <2> QED
    BY <2>5, <2>9, <2>10
<1>8. CASE Reject(s)
  <2>1. /\ tx[s].pc = "decide" /\ tx' = [tx EXCEPT ![s] = NoTx]
        /\ step' = [step EXCEPT ![tx[s].step] = "rejected"]
        /\ UNCHANGED current
    BY <1>8 DEF Reject, Decide
  <2>2. /\ tx[s].step \in Steps /\ step[tx[s].step] = "pending"
        /\ step \in [Steps -> {"pending", "approved", "rejected"}]
    BY <1>1, <2>1, DecideFacts
  <2>3. Approved' = Approved /\ Approved # Steps
    BY <2>1, <2>2 DEF Approved
  <2> QED
    BY <1>3, <2>1, <2>3 DEF ExactInv, NoTx
<1>9. CASE LoadCancel(s)
  <2> DEFINE rec == [NoTx EXCEPT !.pc = "cancel"]
  <2>1. tx' = [tx EXCEPT ![s] = rec] /\ UNCHANGED <<status, current, step>>
    BY <1>9 DEF LoadCancel
  <2>2. rec.pc = "cancel"
    BY DEF NoTx
  <2> HIDE DEF rec
  <2>3. tx'[s] = rec
    BY <1>3, <2>1
  <2> QED
    BY <1>4, <2>1, <2>2, <2>3
<1>10. CASE CommitCancel(s)
  <2>1. /\ tx' = [tx EXCEPT ![s] = NoTx] /\ status' = "cancelled"
        /\ UNCHANGED <<current, step>>
    BY <1>10 DEF CommitCancel
  <2>2. tx'[s].pc = "idle"
    BY <1>3, <2>1 DEF NoTx
  <2> QED
    BY <1>4, <2>1, <2>2
<1> QED
  BY <1>5, <1>6, <1>7, <1>8, <1>9, <1>10 DEF SessionStep

\* One session at a time, on a chain with steps, none of them parallel: the
\* approval of the last step left, in whatever order they are decided and
\* however they are numbered, ends the request.
THEOREM LastApprovalEnds ==
  ASSUME Parallel = {}, Steps # {}
  PROVE  SerialSpec => []NothingLeftPending
<1>1. Init => ExactInv
  <2> SUFFICES ASSUME Init PROVE ExactInv
    OBVIOUS
  <2>1. Approved = {}
    BY DEF Init, Approved
  <2>2. Cardinality(Approved) = 0 /\ current = 1
    BY <2>1, FS_EmptySet DEF Init
  <2>3. \A s \in Sessions : tx[s].pc # "decide"
    BY DEF Init, NoTx
  <2>4. SerialInv /\ parallel = {}
    BY SerialInit DEF Init
  <2> QED
    BY <2>1, <2>2, <2>3, <2>4 DEF ExactInv, NothingLeftPending
<1>2. ExactInv /\ [SerialNext]_vars => ExactInv'
  <2> SUFFICES ASSUME ExactInv, [SerialNext]_vars PROVE ExactInv'
    OBVIOUS
  <2>1. CASE UNCHANGED vars
    <3>1. SerialInv'
      BY SerialNextInv DEF ExactInv
    <3> QED
      BY <2>1, <3>1 DEF vars, ExactInv, NothingLeftPending, Approved
  <2>2. CASE SerialNext
    BY <2>2, ExactStep DEF SerialNext, Alone
  <2> QED
    BY <2>1, <2>2
<1>3. ExactInv => NothingLeftPending
  BY DEF ExactInv
<1> QED
  BY <1>1, <1>2, <1>3, PTL DEF SerialSpec

===============================================================================
