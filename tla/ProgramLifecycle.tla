--------------------------- MODULE ProgramLifecycle ---------------------------
(***************************************************************************)
(* The life of one program row: backend/app/services/                      *)
(* program_state_machine.py and every handler that writes programs.status, *)
(* with the rows its guards read (milestones, budget approvals, the        *)
(* closure record).                                                        *)
(*                                                                         *)
(* A handler is a database session.  Postgres runs READ COMMITTED, no      *)
(* handler takes a row lock when it reads and no row has a version column, *)
(* so a handler is split where its statements are: what it loaded stays in *)
(* its ORM objects (tx[s]) while other sessions commit, its guards read    *)
(* what is committed when they run, and its UPDATE writes only the columns *)
(* it changed.  A flush that changes anything also takes the advisory lock *)
(* of the audit chain (core/audit_chain.py) until the session commits, so  *)
(* at most one session (writer) is between its first flush and its commit. *)
(***************************************************************************)
EXTENDS Integers, FiniteSets

CONSTANTS
    Sessions,    \* request handlers and jobs that may run at the same time
    Milestones,  \* identities of the milestones the program may get
    Amounts,     \* values of budget_envelope a client may send
    Thresholds,  \* active ApprovalThresholds, [min, max]; chains exist
    MaxOpen,     \* bound on the requests opened through the approvals API
    NoSession    \* no session has flushed

ASSUME NoSessionAssumption == NoSession \notin Sessions
ASSUME BoundsAssumption == Amounts \subseteq Nat /\ MaxOpen \in Nat
ASSUME ThresholdsAssumption == Thresholds \subseteq [min : Int, max : Int]

VARIABLES
    status,      \* programs.status; "none" before create_program
    budget,      \* programs.budget_envelope (NULL counts as 0)
    archivedAt,  \* archived_at is set
    milestones,  \* "absent", "completed", or "open" for every other status
    open,        \* number of budget requests that are pending or in review
    closure,     \* the program_closures row: its status, all items ticked?
    writer,      \* the session that has flushed and not committed
    tx,          \* what each session has loaded and is about to write
    activated    \* history: some handler passed its activation checks and
                 \* flushed "active"

\* The committed rows.
rows == <<status, budget, archivedAt, milestones, open, closure>>
vars == <<rows, writer, tx, activated>>

-------------------------------------------------------------------------------
Statuses == {"intake", "design", "active", "on_hold", "completed", "closed",
             "archived"}

\* Mutants of the table: closed programs may be reactivated; an active program
\* may go back to design.
Mutant_Reopen ==
    [intake    |-> {"design", "closed"},
     design    |-> {"active", "intake", "closed"},
     active    |-> {"on_hold", "completed", "closed"},
     on_hold   |-> {"active", "closed"},
     completed |-> {"closed", "archived"},
     closed    |-> {"archived", "active"},
     archived  |-> {}]
Mutant_BackToDesign ==
    [intake    |-> {"design", "closed"},
     design    |-> {"active", "intake", "closed"},
     active    |-> {"on_hold", "completed", "closed", "design"},
     on_hold   |-> {"active", "closed"},
     completed |-> {"closed", "archived"},
     closed    |-> {"archived"},
     archived  |-> {}]

VALID_TRANSITIONS ==
    [intake    |-> {"design", "closed"},
     design    |-> {"active", "intake", "closed"},
     active    |-> {"on_hold", "completed", "closed"},
     on_hold   |-> {"active", "closed"},
     completed |-> {"closed", "archived"},
     closed    |-> {"archived"},
     archived  |-> {}]

\* A soft-deleted program has a status outside the table: nothing is allowed.
validate_transition(current, new) ==
    current \in Statuses /\ new \in VALID_TRANSITIONS[current]

Present == {m \in Milestones : milestones[m] # "absent"}

has_pending_budget_approval == open > 0

\* Mutants: a guard that forgets the approvals, one that forgets the closure.
Mutant_guard_active == Present # {}
Mutant_guard_closed == TRUE
guard_active == Present # {} /\ ~has_pending_budget_approval
guard_completed == \A m \in Present : milestones[m] = "completed"
guard_closed == closure.st # "none" /\ closure.ticked

Guarded == {"active", "completed", "closed"}
guard(new) == /\ new = "active"    => guard_active
              /\ new = "completed" => guard_completed
              /\ new = "closed"    => guard_closed

\* find_matching_threshold finds one (which one does not matter here).
NeedsApproval(amount) == \E t \in Thresholds : t.min <= amount /\ amount <= t.max

\* Mutants: the hold of an active program is forgotten; the hold has no name.
Mutant_HoldStatus(current) == IF current = "intake" THEN "design" ELSE current
Mutant_HoldUnnamed(current) == IF current = "active" THEN "held" ELSE current

\* Where update_program holds a program whose budget increase needs approval.
HoldStatus(current) == CASE current \in {"intake", "design"} -> "design"
                         [] current = "active" -> "on_hold"
                         [] OTHER -> current

\* Side effects whose template dispatch commits the session on the way.
DispatchEdges == {<<"design", "active">>, <<"active", "completed">>}

-------------------------------------------------------------------------------
NoAmount == -1
NoStatus == "none"

Idle == [pc |-> "idle", op |-> "none", target |-> NoStatus, cur |-> NoStatus,
         dirty |-> FALSE, amount |-> NoAmount, oldBudget |-> 0, req |-> FALSE,
         clSeen |-> "none", ticked |-> FALSE]

NoClosure == [st |-> "none", ticked |-> FALSE]

Init == /\ status = "none"
        /\ budget = 0
        /\ archivedAt = FALSE
        /\ milestones = [m \in Milestones |-> "absent"]
        /\ open = 0
        /\ closure = NoClosure
        /\ writer = NoSession
        /\ tx = [s \in Sessions |-> Idle]
        /\ activated = FALSE

\* create_program: the row, its milestones and its approval request are one
\* transaction on a row nobody else can see yet.
create_program(amount, ms) ==
    /\ status = "none"
    /\ LET held == NeedsApproval(amount) IN
         /\ status' = IF held THEN "design" ELSE "intake"
         /\ open' = IF held THEN 1 ELSE 0
    /\ budget' = amount
    /\ milestones' = [m \in Milestones |-> IF m \in ms THEN "open" ELSE "absent"]
    /\ UNCHANGED <<archivedAt, closure, writer, tx, activated>>

-------------------------------------------------------------------------------
(* Parts every handler is made of. *)

Step(s, rec) == tx' = [tx EXCEPT ![s] = rec]

Begin(s, rec) == /\ tx[s].pc = "idle"
                 /\ status # "none"
                 /\ Step(s, rec)

MayLock(s) == writer \in {NoSession, s}

Unlock(s) == writer' = IF writer = s THEN NoSession ELSE writer

\* An exception leaves the handler and the session rolls back.
Abort(s) == /\ Step(s, Idle)
            /\ Unlock(s)
            /\ UNCHANGED <<rows, activated>>

Activate(st) == activated' = (activated \/ st = "active")

\* The session ends, writing the status if its ORM object changed it.
WriteStatus(s) == /\ MayLock(s)
                  /\ status' = IF tx[s].dirty THEN tx[s].cur ELSE status
                  /\ Unlock(s)
                  /\ Step(s, Idle)

-------------------------------------------------------------------------------
(* update_program: PATCH with an optional status and an optional budget. *)

\* transition_program validates the edge on the status just loaded; a PATCH
\* with an edge that is not allowed changes nothing.
LoadUpdate(s, target, amount) ==
    LET same == target \in {NoStatus, status} IN
    /\ same \/ validate_transition(status, target)
    /\ Begin(s, [Idle EXCEPT !.pc = IF same THEN "budget"
                                    ELSE IF target \in Guarded THEN "guard"
                                    ELSE "flush",
                             !.op = "update",
                             !.target = IF same THEN NoStatus ELSE target,
                             !.cur = status,
                             !.amount = amount, !.oldBudget = budget])
    /\ UNCHANGED <<rows, writer, activated>>

\* The guard of the target status reads the other tables.
RunGuard(s) ==
    /\ tx[s].pc = "guard"
    /\ \/ /\ guard(tx[s].target)
          /\ Step(s, [tx[s] EXCEPT !.pc = "flush"])
          /\ UNCHANGED <<rows, writer, activated>>
       \/ ~guard(tx[s].target) /\ Abort(s)

\* The status is flushed; when a template is dispatched (dispatched: client
\* and template exist) the dispatch commits it before the rest of the PATCH.
FlushStatus(s, dispatched) ==
    LET t == tx[s] IN
    /\ t.pc = "flush"
    /\ MayLock(s)
    /\ dispatched => <<t.cur, t.target>> \in DispatchEdges
    /\ Step(s, [tx[s] EXCEPT !.pc = "budget", !.cur = t.target,
                            !.target = NoStatus, !.dirty = ~dispatched])
    /\ status' = IF dispatched THEN t.target ELSE status
    /\ writer' = IF dispatched THEN NoSession ELSE s
    /\ Activate(t.target)
    /\ UNCHANGED <<budget, archivedAt, milestones, open, closure>>

\* The rest of the fields.  Setting the budget to the value loaded changes no
\* column; only an increase reads the approvals (autoflushing the new budget
\* first), and only when none is pending is a request created.
CheckBudget(s) ==
    LET t == tx[s]
        increase == t.amount # NoAmount /\ t.amount > t.oldBudget
        create == /\ increase
                  /\ ~has_pending_budget_approval
                  /\ NeedsApproval(t.amount - t.oldBudget)
        held == HoldStatus(t.cur)
    IN  /\ t.pc = "budget"
        /\ increase => MayLock(s)
        /\ writer' = IF increase THEN s ELSE writer
        /\ Step(s, [tx[s] EXCEPT !.pc = "commit", !.req = create,
                                !.amount = IF @ = t.oldBudget THEN NoAmount ELSE @,
                                !.oldBudget = 0,
                                !.cur = IF create THEN held ELSE t.cur,
                                !.dirty = t.dirty \/ (create /\ held # t.cur)])
        /\ UNCHANGED <<rows, activated>>

CommitUpdate(s) ==
    LET t == tx[s] IN
    /\ t.pc = "commit" /\ t.op = "update"
    /\ WriteStatus(s)
    /\ budget' = IF t.amount = NoAmount THEN budget ELSE t.amount
    /\ open' = IF t.req THEN open + 1 ELSE open
    /\ UNCHANGED <<archivedAt, milestones, closure, activated>>

-------------------------------------------------------------------------------
(* emergency_activate_program, archive_program, approve_deletion. *)

LoadEmergency(s) ==
    /\ status = "design"
    /\ Begin(s, [Idle EXCEPT !.pc = "emergency", !.op = "emergency",
                             !.cur = status])
    /\ UNCHANGED <<rows, writer, activated>>

CheckEmergency(s) ==
    /\ tx[s].pc = "emergency"
    /\ \/ /\ Present # {}
          /\ MayLock(s)
          /\ writer' = s
          /\ Activate("active")
          /\ Step(s, [tx[s] EXCEPT !.pc = "commit", !.cur = "active",
                                  !.dirty = TRUE])
          /\ UNCHANGED rows
       \/ Present = {} /\ Abort(s)

CommitEmergency(s) ==
    /\ tx[s].pc = "commit" /\ tx[s].op = "emergency"
    /\ WriteStatus(s)
    /\ UNCHANGED <<budget, archivedAt, milestones, open, closure, activated>>

LoadArchive(s) ==
    /\ status = "closed"
    /\ Begin(s, [Idle EXCEPT !.pc = "commit", !.op = "archive",
                             !.cur = "archived", !.dirty = TRUE])
    /\ UNCHANGED <<rows, writer, activated>>

CommitArchive(s) ==
    /\ tx[s].pc = "commit" /\ tx[s].op = "archive"
    /\ WriteStatus(s)
    /\ archivedAt' = TRUE
    /\ UNCHANGED <<budget, milestones, open, closure, activated>>

LoadDelete(s) ==
    /\ Begin(s, [Idle EXCEPT !.pc = "commit", !.op = "delete",
                             !.cur = "deleted", !.dirty = (status # "deleted")])
    /\ UNCHANGED <<rows, writer, activated>>

CommitDelete(s) ==
    /\ tx[s].pc = "commit" /\ tx[s].op = "delete"
    /\ WriteStatus(s)
    /\ UNCHANGED <<budget, archivedAt, milestones, open, closure, activated>>

-------------------------------------------------------------------------------
(* The closure workflow, as far as the program row depends on it. *)

LoadInitiate(s) ==
    /\ status \in {"completed", "active"}
    /\ closure.st = "none"
    /\ Begin(s, [Idle EXCEPT !.pc = "commit", !.op = "initiate"])
    /\ UNCHANGED <<rows, writer, activated>>

\* program_id is unique: the second of two racing INSERTs fails.
CommitInitiate(s) ==
    /\ tx[s].pc = "commit" /\ tx[s].op = "initiate"
    /\ MayLock(s)
    /\ \/ /\ closure.st = "none"
          /\ closure' = [st |-> "initiated", ticked |-> FALSE]
          /\ Step(s, Idle)
          /\ UNCHANGED <<status, budget, archivedAt, milestones, open,
                         writer, activated>>
       \/ closure.st # "none" /\ Abort(s)

\* Mutant: the completed closure is not refused.
Mutant_LoadChecklist(s, ticked) ==
    /\ closure.st # "none"
    /\ Begin(s, [Idle EXCEPT !.pc = "commit", !.op = "checklist",
                             !.clSeen = closure.st, !.ticked = ticked])
    /\ UNCHANGED <<rows, writer, activated>>

LoadChecklist(s, ticked) ==
    /\ closure.st \in {"initiated", "in_progress"}
    /\ Begin(s, [Idle EXCEPT !.pc = "commit", !.op = "checklist",
                             !.clSeen = closure.st, !.ticked = ticked])
    /\ UNCHANGED <<rows, writer, activated>>

\* update_checklist replaces the list; the closure status is a changed column
\* only when another one than in_progress was loaded.
CommitChecklist(s) ==
    /\ tx[s].pc = "commit" /\ tx[s].op = "checklist"
    /\ MayLock(s)
    /\ closure' = [st |-> IF tx[s].clSeen = "in_progress" THEN closure.st
                                                          ELSE "in_progress",
                   ticked |-> tx[s].ticked]
    /\ Step(s, Idle)
    /\ UNCHANGED <<status, budget, archivedAt, milestones, open,
                   writer, activated>>

\* complete_closure loads the closure, ...
LoadClosure(s) ==
    /\ closure.st \in {"initiated", "in_progress"}
    /\ Begin(s, [Idle EXCEPT !.pc = "ratings", !.op = "closure",
                             !.clSeen = closure.st, !.ticked = closure.ticked])
    /\ UNCHANGED <<rows, writer, activated>>

\* ... rejects missing partner ratings (allRated) and unticked items, then loads
\* the program, whatever its status, to close it: the SELECT flushes the
\* completed closure first.
CheckClosure(s, allRated) ==
    /\ tx[s].pc = "ratings"
    /\ \/ /\ allRated /\ tx[s].ticked
          /\ MayLock(s)
          /\ writer' = s
          /\ Step(s, [tx[s] EXCEPT !.pc = "commit", !.cur = "closed",
                                  !.dirty = (status # "closed")])
          /\ UNCHANGED <<rows, activated>>
       \/ ~(allRated /\ tx[s].ticked) /\ Abort(s)

CommitClosure(s) ==
    /\ tx[s].pc = "commit" /\ tx[s].op = "closure"
    /\ WriteStatus(s)
    /\ closure' = [closure EXCEPT !.st = "completed"]
    /\ UNCHANGED <<budget, archivedAt, milestones, open, activated>>

-------------------------------------------------------------------------------
(* Rows other handlers write without looking at the program's status. *)

Others(body) ==
    /\ status # "none"
    /\ writer = NoSession
    /\ body
    /\ UNCHANGED <<status, budget, archivedAt, closure, writer, tx,
                   activated>>

add_milestone(m) ==
    /\ milestones[m] = "absent"
    /\ Others(milestones' = [milestones EXCEPT ![m] = "open"] /\ open' = open)

\* update_milestone and the task cascade write any milestone status.
update_milestone(m, st) ==
    /\ milestones[m] # "absent"
    /\ Others(milestones' = [milestones EXCEPT ![m] = st] /\ open' = open)

delete_milestone(m) ==
    /\ milestones[m] # "absent"
    /\ Others(milestones' = [milestones EXCEPT ![m] = "absent"] /\ open' = open)

\* A request opened through the approvals API, whatever the program's status.
create_request ==
    /\ open < MaxOpen
    /\ Others(open' = open + 1 /\ milestones' = milestones)

\* A request is approved, rejected or cancelled.
close_request ==
    /\ open > 0
    /\ Others(open' = open - 1 /\ milestones' = milestones)

-------------------------------------------------------------------------------
Create == \E amount \in Amounts \cup {0}, ms \in SUBSET Milestones :
              create_program(amount, ms)

Load(s) ==
    \/ \E target \in Statuses \cup {NoStatus},
          amount \in Amounts \cup {NoAmount} : LoadUpdate(s, target, amount)
    \/ LoadEmergency(s)
    \/ LoadArchive(s)
    \/ LoadDelete(s)
    \/ LoadInitiate(s)
    \/ \E ticked \in BOOLEAN : LoadChecklist(s, ticked)
    \/ LoadClosure(s)

Proceed(s) ==
    \/ RunGuard(s)
    \/ \E dispatched \in BOOLEAN : FlushStatus(s, dispatched)
    \/ CheckBudget(s)
    \/ CheckEmergency(s)
    \/ \E allRated \in BOOLEAN : CheckClosure(s, allRated)

Commit(s) ==
    \/ CommitUpdate(s)
    \/ CommitEmergency(s)
    \/ CommitArchive(s)
    \/ CommitDelete(s)
    \/ CommitInitiate(s)
    \/ CommitChecklist(s)
    \/ CommitClosure(s)

SessionStep(s) == Load(s) \/ Proceed(s) \/ Commit(s)

Environment ==
    \/ \E m \in Milestones : add_milestone(m) \/ delete_milestone(m)
    \/ \E m \in Milestones, st \in {"open", "completed"} : update_milestone(m, st)
    \/ create_request
    \/ close_request

Next == Create \/ (\E s \in Sessions : SessionStep(s)) \/ Environment

\* All interleavings of the handlers' statements.
Spec == Init /\ [][Next]_vars

\* One request at a time: a handler runs from its first read to its commit
\* before another one starts.
IdleBut(S) == \A t \in Sessions \ S : tx[t].pc = "idle"
SerialNext == \/ Create
              \/ \E s \in Sessions : IdleBut({s}) /\ SessionStep(s)
              \/ IdleBut({}) /\ Environment
SerialSpec == Init /\ [][SerialNext]_vars

-------------------------------------------------------------------------------
(* Properties *)

RowStatuses == Statuses \cup {"none", "deleted"}
ClosureStatuses == {"none", "initiated", "in_progress", "completed"}
Pcs == {"idle", "guard", "flush", "budget", "emergency", "ratings", "commit"}
Ops == {"none", "update", "emergency", "archive", "delete", "initiate",
        "checklist", "closure"}
Closure == [st : ClosureStatuses, ticked : BOOLEAN]
Tx == [pc : Pcs, op : Ops, target : Statuses \cup {NoStatus}, cur : RowStatuses,
       dirty : BOOLEAN, amount : Int, oldBudget : Int, req : BOOLEAN,
       clSeen : ClosureStatuses, ticked : BOOLEAN]

\* Every column and every ORM object holds a value of its domain.
TypeOK == /\ status \in RowStatuses
          /\ budget \in Int
          /\ archivedAt \in BOOLEAN
          /\ milestones \in [Milestones -> {"absent", "open", "completed"}]
          /\ open \in Nat
          /\ closure \in Closure
          /\ writer \in Sessions \cup {NoSession}
          /\ tx \in [Sessions -> Tx]
          /\ activated \in BOOLEAN

LateStatuses == {"active", "on_hold", "completed", "closed", "archived"}

\* However the handlers interleave, a program that is past design, or has a
\* closure record, once passed the activation checks: stale PATCHes, holds and
\* closures may misplace a program but never skip its activation
\* (VALID_TRANSITIONS, initiate_closure and _guard_closed together).
PastDesignWasActivated ==
    (status \in LateStatuses \/ closure.st # "none") => activated

\* However the handlers interleave, a closed program, and one archived by
\* archive_program, has a closure record (_guard_closed, complete_closure).
ClosedHasClosure == (status = "closed" \/ archivedAt) => closure.st # "none"

\* What a session in flight holds: a late status in its ORM object was loaded
\* from, or checked for, an activated program; a closed one, and every closure
\* handler, has seen the closure record, which is never deleted.
SessionOK(t, act, cl) ==
    /\ t.cur \in LateStatuses => act
    /\ t.cur = "closed" => cl # "none"
    /\ t.op \in {"archive", "checklist", "closure"} => cl # "none"
    /\ t.pc = "ratings" => t.op = "closure"
    /\ t.op = "initiate" => act
    /\ t.pc \in {"guard", "flush"} => validate_transition(t.cur, t.target)
    /\ (t.pc = "flush" /\ t.target = "closed") => cl # "none"

SessionInv == \A s \in Sessions : SessionOK(tx[s], activated, closure.st)

\* The inductive invariant behind PastDesignWasActivated and ClosedHasClosure.
LifecycleInv == TypeOK /\ PastDesignWasActivated /\ ClosedHasClosure /\ SessionInv

Retired == {"closed", "archived", "deleted"}

\* A program that is closed, archived or deleted never comes back into
\* operation: no handler of update_program, emergency_activate_program or
\* initiate_closure moves it out of the retired statuses.
RetiredStaysRetired == [][(status \in Retired) => (status' \in Retired)]_vars

\* initiate_closure accepts active and completed programs only, and none of
\* the later operations takes the program back before its activation.
ClosureOnlyPastDesign == closure.st # "none" => status \notin {"intake", "design"}

\* A completed closure is never edited or reopened, and its program stays
\* retired (complete_closure, update_checklist).
CompletedClosureIsFinal ==
    [][(closure.st = "completed") => closure' = closure /\ status' \in Retired]_vars

EmergencyCommit == \E s \in Sessions : tx[s].op = "emergency" /\ CommitEmergency(s)

\* _guard_active: a commit makes a program active only when it has a milestone
\* and, unless it is an emergency activation, no budget approval is pending.
ActivationIsGuarded ==
    [][(status # "active" /\ status' = "active") =>
          /\ Present # {}
          /\ has_pending_budget_approval => EmergencyCommit]_vars

\* update_program: a budget increase that needs an approval never leaves the
\* program active when the request is committed.
BudgetIncreaseHolds ==
    [][\A s \in Sessions :
          (tx[s].pc = "commit" /\ tx[s].req /\ tx'[s].pc = "idle")
             => status' # "active"]_vars

\* The state machine's terminal status: archived programs are not reopened.
ArchivedIsTerminal == [][status = "archived" => status' \in {"archived", "deleted"}]_vars

===============================================================================
