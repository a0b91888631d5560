---------------------------- MODULE BudgetApproval ----------------------------
(***************************************************************************)
(* One budget approval request and its steps: decide_step, _advance_request*)
(* and cancel_request of backend/app/services/budget_approval_service.py,  *)
(* with the edits of the approval chain that _advance_request reads back.  *)
(*                                                                         *)
(* A decision loads the step, then the request, and works on these two ORM *)
(* objects from there on.  Its first flush takes the audit chain's lock    *)
(* until commit, so what follows (the UPDATE of the step, the SELECT of    *)
(* the steps, the UPDATE of the request) is one step of the model: other   *)
(* sessions commit before it or after it.  Only callers who are assigned   *)
(* the step are modelled; anybody else is refused without a change.        *)
(***************************************************************************)
EXTENDS Integers, FiniteSets

CONSTANTS
    Sessions,   \* requests of approvers and of the requester, at a time
    Steps,      \* the steps of the request, one per step of its chain
    Number,     \* their step_number (>= 1; nothing makes it unique)
    Parallel,   \* step numbers with an is_parallel step when it is created
    Idle        \* a session with nothing in flight

ASSUME StepsAssumption == IsFiniteSet(Steps) /\ Number \in [Steps -> Nat \ {0}]
ASSUME IdleAssumption == Idle \notin Steps
ASSUME ParallelAssumption == Parallel \subseteq Nat

VARIABLES
    status,     \* budget_approval_requests.status ("in_review" is never set)
    current,    \* current_step
    step,       \* status of each step
    parallel,   \* step numbers with an is_parallel chain step now
    tx,         \* per session: what it loaded
    twice       \* history: a step was decided that was no longer pending

vars == <<status, current, step, parallel, tx, twice>>

NoTx == [pc |-> "idle", step |-> Idle, seen |-> "none", cur |-> 0]

\* create_request and create_budget_approval_for_program.
Init == /\ status = "pending"
        /\ current = 1
        /\ step = [p \in Steps |-> "pending"]
        /\ parallel = Parallel
        /\ tx = [s \in Sessions |-> NoTx]
        /\ twice = FALSE

total_steps == Cardinality(Steps)

\* SQLAlchemy writes a column only when it differs from the value loaded.
Column(old, seen, new) == IF new = seen THEN old ELSE new

-------------------------------------------------------------------------------
LoadStep(s, p) ==
    /\ tx[s].pc = "idle"
    /\ step[p] = "pending"
    /\ tx' = [tx EXCEPT ![s] = [NoTx EXCEPT !.pc = "request", !.step = p]]
    /\ UNCHANGED <<status, current, step, parallel, twice>>

LoadRequest(s) ==
    /\ tx[s].pc = "request"
    /\ tx' = [tx EXCEPT ![s].pc = "decide", ![s].seen = status, ![s].cur = current]
    /\ UNCHANGED <<status, current, step, parallel, twice>>

\* The other parallel steps of the current number, as committed; this
\* session's own step p is approved in its identity map.
Waits(p, cur) == /\ cur \in parallel
                 /\ \E q \in Steps \ {p} : Number[q] = cur /\ step[q] # "approved"

\* Mutant: one advance too many before the last step.
Mutant_IsLast(cur) == cur > total_steps
IsLast(cur) == cur >= total_steps

_advance_request(p, seen, cur) ==
    \/ /\ Waits(p, cur)
       /\ UNCHANGED <<status, current>>
    \/ /\ ~Waits(p, cur) /\ IsLast(cur)
       /\ status' = Column(status, seen, "approved")
       /\ UNCHANGED current
    \/ /\ ~Waits(p, cur) /\ ~IsLast(cur)
       /\ current' = cur + 1
       /\ UNCHANGED status

\* The UPDATE of a step names its id alone: it also goes through when another
\* session has decided the step since it was loaded as pending.
Decide(p, decision) ==
    /\ step' = [step EXCEPT ![p] = decision]
    /\ twice' = (twice \/ step[p] # "pending")

Approve(s) ==
    LET t == tx[s] IN
    /\ t.pc = "decide"
    /\ Decide(t.step, "approved")
    /\ _advance_request(t.step, t.seen, t.cur)
    /\ tx' = [tx EXCEPT ![s] = NoTx]
    /\ UNCHANGED parallel

\* Mutant: a rejected step lets the request go on.
Mutant_Reject(s) ==
    LET t == tx[s] IN
    /\ t.pc = "decide"
    /\ Decide(t.step, "rejected")
    /\ _advance_request(t.step, t.seen, t.cur)
    /\ tx' = [tx EXCEPT ![s] = NoTx]
    /\ UNCHANGED parallel

Reject(s) ==
    LET t == tx[s] IN
    /\ t.pc = "decide"
    /\ Decide(t.step, "rejected")
    /\ status' = Column(status, t.seen, "rejected")
    /\ tx' = [tx EXCEPT ![s] = NoTx]
    /\ UNCHANGED <<current, parallel>>

\* Mutant: any request may be cancelled.
Mutant_LoadCancel(s) ==
    /\ tx[s].pc = "idle"
    /\ tx' = [tx EXCEPT ![s] = [NoTx EXCEPT !.pc = "cancel"]]
    /\ UNCHANGED <<status, current, step, parallel, twice>>

\* cancel_request by the requester or the managing director.
LoadCancel(s) ==
    /\ tx[s].pc = "idle"
    /\ status = "pending"
    /\ tx' = [tx EXCEPT ![s] = [NoTx EXCEPT !.pc = "cancel"]]
    /\ UNCHANGED <<status, current, step, parallel, twice>>

CommitCancel(s) ==
    /\ tx[s].pc = "cancel"
    /\ status' = "cancelled"
    /\ tx' = [tx EXCEPT ![s] = NoTx]
    /\ UNCHANGED <<current, step, parallel, twice>>

\* add_chain_step and remove_chain_step: the chain steps of a request cannot
\* be removed (its steps refer to them), others come and go.
EditChain(numbers) ==
    /\ parallel' = Parallel \cup numbers
    /\ UNCHANGED <<status, current, step, tx, twice>>

-------------------------------------------------------------------------------
Numbers == {Number[p] : p \in Steps}

SessionStep(s) == \/ \E p \in Steps : LoadStep(s, p)
                  \/ LoadRequest(s)
                  \/ Approve(s)
                  \/ Reject(s)
                  \/ LoadCancel(s)
                  \/ CommitCancel(s)

Next == \/ \E s \in Sessions : SessionStep(s)
        \/ \E numbers \in SUBSET Numbers : EditChain(numbers)

Spec == Init /\ [][Next]_vars

\* One session at a time, on a chain nobody edits.
SerialNext == \E s \in Sessions :
                 /\ \A u \in Sessions \ {s} : tx[u].pc = "idle"
                 /\ SessionStep(s)
SerialSpec == Init /\ [][SerialNext]_vars

-------------------------------------------------------------------------------
(* Properties *)

Pcs == {"idle", "request", "decide", "cancel"}
Final == {"approved", "rejected", "cancelled"}
Tx == [pc : Pcs, step : Steps \cup {Idle}, seen : Final \cup {"pending", "none"},
       cur : Nat]

\* Every column and every loaded object holds a value of its domain, and
\* current_step never runs past the number of steps.
TypeOK == /\ status \in Final \cup {"pending"}
          /\ current \in Nat \ {0}
          /\ current <= total_steps \/ current = 1
          /\ step \in [Steps -> {"pending", "approved", "rejected"}]
          /\ parallel \subseteq Nat
          /\ tx \in [Sessions -> Tx]
          /\ twice \in BOOLEAN

Approved == {p \in Steps : step[p] = "approved"}

\* "All must approve": however the decisions, cancellations and edits of the
\* chain interleave, an approved request has every step approved
\* (_advance_request only counts), unless one of its steps was decided twice:
\* two sessions loaded it as pending (decide_step takes no lock on it), both
\* decisions advanced current_step.
ApprovedByAll == status = "approved" => Approved = Steps \/ twice

\* The same without the exception, which is false: with a step decided twice
\* the request is approved while another step is pending or rejected.
ApprovedOnlyByAll == status = "approved" => Approved = Steps

\* A rejection ends the request: nothing decided later makes it pending,
\* approved or cancelled again (decide_step, cancel_request).
RejectedIsFinal == [][status = "rejected" => status' = "rejected"]_vars

\* The request is completed by the approval of its last step: it never stays
\* pending with nothing left to decide (_advance_request).
NothingLeftPending == Approved = Steps => status # "pending"

\* The inductive invariant behind ApprovedByAll: as long as no step was
\* decided twice, current_step is at most one ahead of the approvals, and so is
\* every copy of it a session has loaded, however stale.
CountsApprovals ==
    ~twice => /\ current - 1 <= Cardinality(Approved)
              /\ \A s \in Sessions : tx[s].cur - 1 <= Cardinality(Approved)
===============================================================================
