------------------------------- MODULE TaskBoard -------------------------------
(* The task board end to end: the mutations and the cached list of            *)
(* frontend/src/hooks/use-task-board.ts, the endpoints of                     *)
(* backend/app/api/v1/tasks.py and task_service.bulk_update, and the          *)
(* milestone cascade of backend/app/services/task_cascade_service.py they run *)
(* after their commits.  Beside the board, the other endpoints that write the *)
(* same columns: batch_reorder_tasks, update_milestone, add_task and          *)
(* update_task of api/v1/programs.py, and the two of api/v1/public/           *)
(* webhooks.py, which do not cascade.  The tasks are those of one milestone.  *)
(*                                                                            *)
(* A request loads rows, commits the tasks, reads the siblings for the        *)
(* cascade and commits the milestone in separate steps; other requests run in *)
(* between.  The session does not expire rows on commit, so a row that is     *)
(* still referenced keeps its early value in the cascade.  react-query is     *)
(* external: an invalidation drops the fetch under way and starts another.    *)
EXTENDS Naturals, FiniteSets

CONSTANTS Tasks,      \* identifiers of tasks
          Statuses,   \* the statuses users choose, within AllStatuses
          Edits,      \* the milestone statuses they choose, within Milestones
          Jobs,       \* mutations the users make
          MaxFaults   \* bound: failed fetches, requests and cascades

AllStatuses == {"todo", "in_progress", "blocked", "done", "cancelled"}
Absent == "absent"

Milestones == {"pending", "in_progress", "at_risk", "completed", "cancelled"}

ASSUME BoardAssumption ==
    /\ Statuses \subseteq AllStatuses /\ Edits \subseteq Milestones
    /\ IsFiniteSet(Jobs) /\ MaxFaults \in Nat

VARIABLES
    tasks,      \* the tasks table: status of each task, or Absent
    milestone,  \* status of their milestone
    version,    \* commits to the tasks table so far
    job,        \* requests
    cache,      \* the board's query: rows, their version, and staleness
    fetch,      \* its GET /tasks under way
    overlap,    \* history: requests that ran beside another one
    settled,    \* history: nothing was written since a status change run alone
    trusted,    \* history: nothing was since that bypasses or upsets a cascade
    faults

vars == <<tasks, milestone, version, job, cache, fetch, overlap,
          settled, trusted, faults>>

Inserts == {"create", "addTask", "apiCreate"}
Removes == {"delete", "bulkDelete"}
Silent == {"apiCreate", "apiStatus"}                    \* run no cascade
StatusKinds == {"update", "patchTask", "reorder", "bulk", "batch"}
Many == {"bulk", "bulkDelete", "batch"}                 \* skip missing tasks
Elsewhere == {"batch", "milestone", "addTask", "patchTask", "apiCreate", "apiStatus"}
Kinds == Inserts \union Removes \union Silent \union StatusKinds \union {"milestone"}

\* A request: the status each of its tasks is to get (to), the tasks it has
\* still to read (todo), and what its session holds.
NoJob == [pc |-> "idle", kind |-> "update", to |-> <<>>, todo |-> {},
          seen |-> <<>>, seenMs |-> Absent, desired |-> Absent, version |-> 0]
NoFetch == [pc |-> "none", rows |-> <<>>, version |-> 0]

Terminal == {"done", "cancelled"}

\* Mutant: milestones get the word tasks have for it.
Mutant_TaskWord(rows) ==
    LET has == {rows[t] : t \in DOMAIN rows} \ {Absent} IN
    IF has = {"done"} THEN "done" ELSE "pending"

\* _derive_milestone_status
Derive(rows) ==
    LET has == {rows[t] : t \in DOMAIN rows} \ {Absent} IN
    IF has = {} THEN "pending"
    ELSE IF has \subseteq Terminal THEN "completed"
    ELSE IF "blocked" \in has THEN "at_risk"
    ELSE IF "in_progress" \in has THEN "in_progress"
    ELSE "pending"

Rows == [Tasks -> AllStatuses \union {Absent}]
Running(j) == job[j].pc \in {"load", "commit", "refresh", "cascade", "write"}
Idle == \A j \in Jobs : ~Running(j)

TypeOK ==
    /\ tasks \in Rows
    /\ milestone \in Milestones
    /\ version \in 0 .. Cardinality(Jobs)
    /\ \A j \in Jobs : /\ job[j].pc \in {"idle", "load", "commit", "refresh", "cascade",
                                         "write", "replied", "refused", "ok", "error"}
                       /\ job[j].kind \in Kinds /\ DOMAIN job[j].to \subseteq Tasks
    /\ cache.rows \in Rows /\ cache.version \in 0 .. version
    /\ fetch.pc \in {"none", "sent", "read"} /\ fetch.version \in 0 .. version
    /\ overlap \subseteq Jobs /\ {settled, trusted} \subseteq BOOLEAN /\ faults \in 0 .. MaxFaults

\* A milestone whose status agrees with its tasks, shown by a fresh board.
Init ==
    /\ tasks \in [Tasks -> {"todo", Absent}]
    /\ milestone = "pending"
    /\ version = 0
    /\ job = [j \in Jobs |-> NoJob]
    /\ cache = [rows |-> tasks, version |-> 0, stale |-> FALSE]
    /\ fetch = NoFetch
    /\ overlap = {} /\ settled = TRUE /\ trusted = TRUE /\ faults = 0

--------------------------------------------------------------------------------
(* The users start mutations.                                                 *)

\* What is left of a request that has been answered.
Answered(j, pc) == [NoJob EXCEPT !.pc = pc, !.kind = job[j].kind,
                                 !.version = job[j].version]

\* A request sets out; requests at the server at the same time overlap.
Mutate(j, kind, to, edit) ==
    /\ job[j].pc = "idle"
    /\ job' = [job EXCEPT ![j] = [NoJob EXCEPT
                  !.pc = "load", !.kind = kind, !.to = to, !.desired = edit,
                  !.todo = IF kind \in Inserts THEN {} ELSE DOMAIN to]]
    /\ overlap' = IF Idle THEN overlap
                  ELSE overlap \union {j} \union {i \in Jobs : Running(i)}
    /\ trusted' = (trusted /\ Idle)
    /\ UNCHANGED <<tasks, milestone, version, cache, fetch, settled, faults>>

Set(ids, s) == [t \in ids |-> s]
Shown == {t \in Tasks : cache.rows[t] # Absent}

\* handleSubmit for a new task: always "todo".  add_task and the public
\* create_task insert one too.
handleCreate(j, t, kind) ==
    /\ tasks[t] = Absent /\ t \notin Shown
    /\ \A i \in Jobs : t \notin DOMAIN job[i].to \union DOMAIN job[i].seen
    /\ Mutate(j, kind, Set({t}, "todo"), Absent)

\* handleSubmit for an existing one: the dialog always sends a status.
handleSubmit(j, t, s) == t \in Shown /\ Mutate(j, "update", Set({t}, s), Absent)

\* handleDragEnd: nothing to do when the board already shows that status.
handleDragEnd(j, t, s) ==
    t \in Shown /\ cache.rows[t] # s /\ Mutate(j, "reorder", Set({t}, s), Absent)

handleConfirmDeleteTask(j, t) ==
    t \in Shown /\ Mutate(j, "delete", Set({t}, Absent), Absent)

\* The bulk handlers send selectedIds, which may name tasks that are gone.
handleBulkStatus(j, ids, s) == ids # {} /\ Mutate(j, "bulk", Set(ids, s), Absent)
handleBulkDelete(j, ids) == ids # {} /\ Mutate(j, "bulkDelete", Set(ids, Absent), Absent)

\* Not from the board: PATCH /programs/tasks and the public status endpoint,
\* POST /tasks/batch-reorder, PATCH /programs/milestones.
PatchElsewhere(j, t, s, kind) == Mutate(j, kind, Set({t}, s), Absent)
BatchReorder(j, to) == DOMAIN to # {} /\ Mutate(j, "batch", to, Absent)
UpdateMilestone(j, edit) == Mutate(j, "milestone", <<>>, edit)

--------------------------------------------------------------------------------
(* The endpoints.                                                             *)

\* Tasks of the request that are still in the table.
Found(j) == {t \in DOMAIN job[j].to : tasks[t] # Absent}

\* A row as the session sees it: an object it still holds is not read again.
Value(j, t) == IF t \in DOMAIN job[j].seen THEN job[j].seen[t] ELSE tasks[t]

\* A reorder loads the whole target column with its task.
Column(j, ts) == IF job[j].kind \in {"reorder", "batch"}
                 THEN {u \in Tasks : \E t \in ts : tasks[u] = job[j].to[t]} ELSE {}

\* Requests without a task to read load the milestone; create_task holds on to
\* it, the others do not.
LoadMilestone(j) ==
    /\ job[j].pc = "load" /\ job[j].todo = {}
    /\ job' = [job EXCEPT ![j].pc = "commit",
                          ![j].seenMs = IF job[j].kind \in {"create", "milestone"}
                                        THEN milestone ELSE Absent]
    /\ UNCHANGED <<tasks, milestone, version, cache, fetch, overlap, settled, trusted, faults>>

\* One SELECT of a task, and of its column; the board's update_task loads the
\* milestone with it.  A missing task is a 404, or is skipped in a request with
\* many.  Such a request goes on reading until it has something to write: a
\* status, a deletion, or positions of a batch.  The SELECT after that flushes,
\* and from then on the transaction holds the audit lock: see Commit.
Load(j, t) ==
    LET r == job[j]
        gone == tasks[t] = Absent
        seen == [u \in {t} \union Column(j, {t}) |-> Value(j, u)]
        left == r.todo \ {t}
        pending == seen[t] # r.to[t]
        drops == r.kind \in Many /\ (gone \/ ~pending) IN
    /\ r.pc = "load" /\ t \in r.todo
    /\ IF gone /\ r.kind \notin Many
       THEN job' = [job EXCEPT ![j] = Answered(j, "refused")]
       ELSE \E pc \in IF left = {} \/ (pending /\ ~gone) THEN {"commit"}
                      ELSE IF r.kind = "batch" /\ ~gone THEN {"load", "commit"}
                      ELSE {"load"} :
            job' = [job EXCEPT ![j] = [r EXCEPT
                       !.pc = pc, !.todo = left,
                       !.to = IF drops THEN [u \in DOMAIN r.to \ {t} |-> r.to[u]] ELSE r.to,
                       !.seen = IF gone THEN r.seen ELSE seen,
                       !.seenMs = IF r.kind = "update" THEN milestone ELSE Absent]]
    /\ UNCHANGED <<tasks, milestone, version, cache, fetch, overlap, settled, trusted, faults>>

\* Tasks it inserts, or whose status it really changes, the ones not yet read
\* included, as far as they exist.
Changed(j) == {t \in DOMAIN job[j].to :
                  \/ job[j].kind \in Inserts
                  \/ Value(j, t) # job[j].to[t] /\ (t \in job[j].todo => tasks[t] # Absent)}

\* An UPDATE of a row deleted meanwhile fails the request; a DELETE does not.  A
\* reorder rewrites the positions of its tasks and columns, where they change.
MustFail(j) == /\ job[j].kind \notin Inserts \union Removes
               /\ \E t \in Changed(j) : tasks[t] = Absent
MayFail(j) == /\ job[j].kind \in {"reorder", "batch"}
              /\ \E t \in DOMAIN job[j].seen : tasks[t] = Absent

\* update, and create too, go on with the cascade whether the status changes or
\* not; a deletion and the public endpoints never do.
Runs(j) == \/ job[j].kind \in {"create", "addTask", "update", "patchTask"}
           \/ job[j].kind \in StatusKinds /\ Changed(j) # {}

\* The rest of the tasks are read and all is committed.  The first flush has
\* taken the audit lock, so no other audited request commits in between.
Commit(j) ==
    LET r == job[j]
        writes == Changed(j)
        rest == {t \in r.todo : tasks[t] # Absent}
        holds == DOMAIN r.seen \union rest \union Column(j, rest) IN
    /\ r.pc = "commit" /\ r.kind # "milestone"
    /\ \/ /\ MustFail(j) \/ MayFail(j)
          /\ job' = [job EXCEPT ![j] = Answered(j, "refused")]
          /\ UNCHANGED <<tasks, version, settled, trusted>>
       \/ /\ ~MustFail(j)
          /\ tasks' = [t \in Tasks |-> IF t \in writes THEN r.to[t] ELSE tasks[t]]
          /\ version' = version + 1
          /\ settled' = (settled /\ writes = {})
          /\ trusted' = (trusted /\ (r.kind \in Silent => writes = {}))
          /\ job' = [job EXCEPT ![j] =
                IF Runs(j)
                THEN [r EXCEPT
                         !.pc = IF r.kind \in Many \union {"reorder"} THEN "cascade"
                                ELSE "refresh",
                         !.version = version + 1, !.todo = {},
                         !.to = IF r.kind \in Many THEN [t \in writes |-> r.to[t]] ELSE r.to,
                         !.seen = [t \in holds |-> IF t \in writes THEN r.to[t]
                                                   ELSE Value(j, t)]]
                ELSE [Answered(j, "replied") EXCEPT !.version = version + 1]]
    /\ UNCHANGED <<milestone, cache, fetch, overlap, faults>>

\* update_milestone: any status is accepted and none of the tasks is looked at;
\* the status the session has loaded is not written again.
CommitMilestone(j) ==
    /\ job[j].pc = "commit" /\ job[j].kind = "milestone"
    /\ milestone' = IF job[j].desired = job[j].seenMs THEN milestone ELSE job[j].desired
    /\ settled' = (settled /\ milestone' = milestone)
    /\ trusted' = (trusted /\ milestone' = milestone)
    /\ job' = [job EXCEPT ![j] = Answered(j, "replied")]
    /\ UNCHANGED <<tasks, version, cache, fetch, overlap, faults>>

\* db.refresh reads the one task again, and fails when that is gone.
RefreshTask(j) ==
    LET seen == job[j].seen IN
    /\ job[j].pc = "refresh"
    /\ job' = [job EXCEPT ![j] =
          IF Found(j) = {} THEN Answered(j, "refused")
          ELSE [job[j] EXCEPT !.pc = "cascade",
                   !.seen = [t \in DOMAIN seen |-> IF t \in Found(j)
                                THEN tasks[t] ELSE seen[t]]]]
    /\ UNCHANGED <<tasks, milestone, version, cache, fetch, overlap, settled, trusted, faults>>

--------------------------------------------------------------------------------
(* task_cascade_service, called after the commit, and once for each task when *)
(* a request has changed several.                                             *)

\* The siblings as the session sees them.  The loops over many tasks let go of
\* rows they have loaded, which are then read again.
Held(j) == IF job[j].kind \in Many THEN SUBSET DOMAIN job[j].seen
           ELSE {DOMAIN job[j].seen}
Siblings(j, held) ==
    [t \in Tasks |-> IF tasks[t] # Absent /\ t \in held THEN job[j].seen[t] ELSE tasks[t]]

\* The board's create and update still hold the milestone they have loaded.
SeenMilestone(j) == IF job[j].kind \in {"create", "update"} THEN job[j].seenMs ELSE milestone

\* Mutants: the status is derived from the tasks of the request alone; a new
\* task leaves its milestone alone.
Mutant_OwnTasks(j, held) ==
    IF job[j].kind \in Inserts
    THEN IF SeenMilestone(j) = "completed" THEN "in_progress" ELSE SeenMilestone(j)
    ELSE Derive([t \in DOMAIN job[j].to |-> Siblings(j, held)[t]])
Mutant_NoReopen(j, held) ==
    IF job[j].kind \in Inserts \/ SeenMilestone(j) = "cancelled" THEN SeenMilestone(j)
    ELSE Derive(Siblings(j, held))

\* on_task_created and on_task_status_change: the status the milestone ought
\* to have.  A new task only reopens a completed milestone; one that was
\* cancelled is not touched.
Desired(j, held) ==
    IF job[j].kind \in Inserts
    THEN IF SeenMilestone(j) = "completed" THEN "in_progress" ELSE SeenMilestone(j)
    ELSE IF SeenMilestone(j) = "cancelled" THEN "cancelled"
    ELSE Derive(Siblings(j, held))

\* A status change that has run alone has cascaded.
Clean(j) == job[j].kind \in StatusKinds /\ j \notin overlap
Cascaded(j) == settled' = (settled \/ Clean(j)) /\ trusted' = (trusted \/ Clean(j))

\* The board's create and update load their task once more for the answer.
Reply(j) == Answered(j, IF job[j].kind \in {"create", "update"} /\ Found(j) = {}
                        THEN "refused" ELSE "replied")

\* After a call the next one follows, if there is a task left to call it for.
Left(j, t) == IF job[j].kind \in Many THEN [u \in DOMAIN job[j].to \ {t} |-> job[j].to[u]]
              ELSE job[j].to
After(j, to, ms) == IF job[j].kind \in Many /\ DOMAIN to # {}
                    THEN [job[j] EXCEPT !.pc = "cascade", !.to = to, !.seenMs = ms]
                    ELSE Reply(j)

\* A task that is gone ends the call.  So does a milestone that an earlier call
\* has left in the session with its tasks, whose status is compared with itself;
\* the garbage collector may have taken it away, and then it is read again.
CascadeSkip(j, t) ==
    /\ job[j].pc = "cascade" /\ t \in DOMAIN job[j].to
    /\ tasks[t] = Absent \/ (job[j].kind \in Many /\ job[j].seenMs # Absent)
    /\ job' = [job EXCEPT ![j] = After(j, Left(j, t), job[j].seenMs)]
    /\ UNCHANGED <<tasks, milestone, version, cache, fetch, overlap, settled, trusted, faults>>

\* A status that fits is not written.
CascadeRead(j, t) ==
    /\ job[j].pc = "cascade" /\ t \in DOMAIN job[j].to
    /\ tasks[t] # Absent
    /\ \E held \in Held(j) :
          IF Desired(j, held) = SeenMilestone(j)
          THEN job' = [job EXCEPT ![j] = After(j, Left(j, t), SeenMilestone(j))] /\ Cascaded(j)
          ELSE /\ job' = [job EXCEPT ![j].pc = "write", ![j].desired = Desired(j, held),
                                     ![j].to = Left(j, t)]
               /\ UNCHANGED <<settled, trusted>>
    /\ UNCHANGED <<tasks, milestone, version, cache, fetch, overlap, faults>>

CascadeWrite(j) ==
    /\ job[j].pc = "write"
    /\ milestone' = job[j].desired
    /\ job' = [job EXCEPT ![j] = After(j, job[j].to, job[j].desired)]
    /\ Cascaded(j)
    /\ UNCHANGED <<tasks, version, cache, fetch, overlap, faults>>

\* An exception in the cascade is logged and swallowed; the request goes on.  Or
\* the request itself fails, before its commit or after, or its answer is lost.
Fault(j) ==
    /\ faults < MaxFaults /\ faults' = faults + 1
    /\ \/ /\ job[j].pc \in {"cascade", "write"}
          /\ job' = [job EXCEPT ![j] = Reply(j)]
       \/ /\ Running(j) \/ job[j].pc = "replied"
          /\ job' = [job EXCEPT ![j] = Answered(j, "refused")]
    /\ trusted' = (trusted /\ job[j].pc \notin {"refresh", "cascade", "write"})
    /\ UNCHANGED <<tasks, milestone, version, cache, fetch, overlap, settled>>

--------------------------------------------------------------------------------
(* Back on the board: the mutations' callbacks and the cached list.           *)

\* External: invalidateQueries(tasks.all).
Invalidate ==
    /\ cache' = [cache EXCEPT !.stale = TRUE]
    /\ fetch' = [NoFetch EXCEPT !.pc = "sent"]

\* Mutant: the mutations of the board forget the list, as reorderMutation does.
Mutant_NoInvalidate(j) ==
    /\ job[j].pc = "replied"
    /\ job' = [job EXCEPT ![j].pc = "ok"]
    /\ UNCHANGED <<tasks, milestone, version, cache, fetch, overlap, settled, trusted, faults>>

\* onSuccess: every mutation of the board but reorderMutation invalidates the
\* list.
OnSuccess(j) ==
    /\ job[j].pc = "replied"
    /\ job' = [job EXCEPT ![j].pc = "ok"]
    /\ IF job[j].kind \in Elsewhere \union {"reorder"} THEN UNCHANGED <<cache, fetch>>
       ELSE Invalidate
    /\ UNCHANGED <<tasks, milestone, version, overlap, settled, trusted, faults>>

\* onError: only reorderMutation does.
OnError(j) ==
    /\ job[j].pc = "refused"
    /\ job' = [job EXCEPT ![j].pc = "error"]
    /\ IF job[j].kind = "reorder" THEN Invalidate ELSE UNCHANGED <<cache, fetch>>
    /\ UNCHANGED <<tasks, milestone, version, overlap, settled, trusted, faults>>

\* External: GET /tasks reads the table ...
FetchRead ==
    /\ fetch.pc = "sent"
    /\ fetch' = [pc |-> "read", rows |-> tasks, version |-> version]
    /\ UNCHANGED <<tasks, milestone, version, job, cache, overlap,
                   settled, trusted, faults>>

\* ... its rows arrive, or it fails and the query stays stale.
FetchEnds ==
    /\ \/ /\ fetch.pc = "read"
          /\ cache' = [rows |-> fetch.rows, version |-> fetch.version, stale |-> FALSE]
          /\ faults' = faults
       \/ /\ fetch.pc # "none" /\ faults < MaxFaults /\ faults' = faults + 1
          /\ cache' = [cache EXCEPT !.stale = TRUE]
    /\ fetch' = NoFetch
    /\ UNCHANGED <<tasks, milestone, version, job, overlap, settled, trusted>>

\* External: an invalidated query without rows is fetched again when the window
\* gets the focus or the board is mounted.
Refetch ==
    /\ fetch.pc = "none" /\ cache.stale
    /\ fetch' = [NoFetch EXCEPT !.pc = "sent"]
    /\ UNCHANGED <<tasks, milestone, version, job, cache, overlap,
                   settled, trusted, faults>>

User(j) ==
    \/ \E t \in Tasks : \/ \E k \in Inserts : handleCreate(j, t, k)
                        \/ handleConfirmDeleteTask(j, t)
    \/ \E t \in Tasks, s \in Statuses :
          \/ handleSubmit(j, t, s) \/ handleDragEnd(j, t, s)
          \/ \E k \in {"patchTask", "apiStatus"} : PatchElsewhere(j, t, s, k)
    \/ \E ids \in SUBSET Tasks : \/ handleBulkDelete(j, ids)
                                  \/ \E s \in Statuses : handleBulkStatus(j, ids, s)
                                  \/ \E to \in [ids -> Statuses] : BatchReorder(j, to)
    \/ \E edit \in Edits : UpdateMilestone(j, edit)

Server(j) == \/ \E t \in Tasks : Load(j, t) \/ CascadeSkip(j, t) \/ CascadeRead(j, t)
             \/ LoadMilestone(j) \/ Commit(j) \/ CommitMilestone(j)
             \/ RefreshTask(j) \/ CascadeWrite(j)
Callback(j) == OnSuccess(j) \/ OnError(j)

Next ==
    \/ \E j \in Jobs : User(j) \/ Server(j) \/ Fault(j) \/ Callback(j)
    \/ FetchRead \/ FetchEnds \/ Refetch

\* Requests are answered, callbacks run, and a stale board is looked at again.
Spec ==
    /\ Init /\ [][Next]_vars
    /\ \A j \in Jobs : WF_vars(Server(j)) /\ WF_vars(Callback(j))
    /\ WF_vars(FetchRead) /\ WF_vars(FetchEnds) /\ WF_vars(Refetch)

--------------------------------------------------------------------------------
(* A change of status handled while no other request runs leaves the          *)
(* milestone at the status its tasks imply, whatever deletions, new tasks,    *)
(* edits by hand, writes without a cascade, failed cascades and races went    *)
(* before it: the cascade repairs.  It stays so until the tasks or the        *)
(* milestone are written.  Only a cancelled milestone is left alone.          *)
MilestoneTracksTasks ==
    (settled /\ Idle /\ milestone # "cancelled") => milestone = Derive(tasks)

(* After such a change a completed milestone has no open task, through        *)
(* deletions, new tasks and further changes of status in any order, as long   *)
(* as requests do not overlap, no cascade fails, nobody edits the milestone   *)
(* and no task is written through the public endpoints, which run no cascade: *)
(* programs are closed on a completed milestone's word.                       *)
CompletedMeansDone ==
    (Idle /\ trusted /\ milestone = "completed")
        => \A t \in Tasks : tasks[t] \in Terminal \union {Absent}

(* "When any task in a milestone is blocked, the milestone is set to at_risk  *)
(* (unless it is already completed or cancelled)" (task_cascade_service): no  *)
(* cascade turns a completed milestone to at_risk.  _derive_milestone_status  *)
(* does not look at the milestone, so one does.                               *)
CompletedIsNotAtRisk ==
    [][milestone = "completed" /\ (\E j \in Jobs : CascadeWrite(j)) => milestone' # "at_risk"]_vars

(* The board comes to show what a mutation that succeeded has done, or        *)
(* something newer, although a fetch that read the table before the commit    *)
(* was under way.  Drags are the exception: reorderMutation invalidates       *)
(* nothing on success.                                                        *)
SettledIsShown ==
    \A j \in Jobs :
        (job[j].pc = "ok" /\ job[j].kind \notin Elsewhere \union {"reorder"})
            ~> (cache.version >= job[j].version)
================================================================================
