---------------------------- MODULE TaskBoardProofs ----------------------------
(* The milestone follows its tasks, for any number of tasks and of requests   *)
(* that interleave.                                                           *)
EXTENDS TaskBoard, FiniteSetTheorems, TLAPS

--------------------------------------------------------------------------------
(* The inductive invariant.                                                   *)

JobStates == {"idle", "load", "commit", "refresh", "cascade", "write", "replied",
              "refused", "ok", "error"}
RunStates == {"load", "commit", "refresh", "cascade", "write"}
Seen == UNION {[D -> AllStatuses \union {Absent}] : D \in SUBSET Tasks}
Job == [pc : JobStates, kind : Kinds, to : Seen, todo : SUBSET Tasks,
        seen : Seen, seenMs : Milestones \union {Absent},
        desired : Milestones \union {Absent}, version : Nat]

Types == /\ tasks \in Rows /\ milestone \in Milestones
         /\ job \in [Jobs -> Job]
         /\ overlap \subseteq Jobs /\ settled \in BOOLEAN /\ trusted \in BOOLEAN
         /\ version \in Nat

\* Committed, with the cascade still to come or under way.
Cascades(j) == job[j].pc \in {"refresh", "cascade", "write"}

(* A request outside overlap runs alone, and none that runs is in overlap as  *)
(* long as completed milestones are to be trusted.                            *)
Apart == /\ \A i, j \in Jobs : Running(i) /\ Running(j) /\ i # j => i \in overlap
         /\ \A j \in overlap : job[j].pc # "idle"
         /\ trusted => \A j \in Jobs : Running(j) => j \notin overlap

(* What the session holds is what is stored.                                  *)
Current(j) == /\ \A t \in DOMAIN job[j].seen : job[j].seen[t] = tasks[t]
              /\ job[j].seenMs \in {Absent, milestone}

(* A request as the handlers build it: which have one task and which give it  *)
(* a status, who still holds the milestone, who cascades.                     *)
Shape(r) ==
    /\ r.kind \notin Many \union {"milestone"} => \E t \in Tasks : DOMAIN r.to = {t}
    /\ r.kind = "milestone" => DOMAIN r.to = {}
    /\ r.todo \subseteq DOMAIN r.to
    /\ r.pc = "load" /\ r.kind = "update" => r.todo # {}
    /\ (r.kind \in Inserts \/ (r.pc # "load" /\ r.kind \notin Many)
            \/ r.pc \notin {"load", "commit"}) => r.todo = {}
    /\ \A t \in DOMAIN r.to : r.to[t] = Absent <=> r.kind \in Removes
    /\ r.pc # "load" /\ r.kind \in {"create", "update"} => r.seenMs \in Milestones
    /\ r.pc \in {"load", "commit"} /\ r.kind \in Many => r.seenMs = Absent
    /\ r.pc = "write" \/ r.kind = "milestone" => r.desired \in Milestones
    /\ r.pc = "refresh" => r.kind \notin Many
    /\ r.pc \in {"refresh", "cascade", "write"} => r.kind \in StatusKinds \union {"create", "addTask"}

(* A request alone still finds its tasks after the commit, and will write     *)
(* what the tasks imply; a new task reopens.                                  *)
Aim(j) ==
    LET r == job[j] IN
    /\ r.pc = "write" =>
          r.desired = IF r.kind \in Inserts THEN "in_progress" ELSE Derive(tasks)
    /\ r.pc \in {"load", "commit"} /\ r.kind \notin Inserts =>
          \A t \in DOMAIN r.to \ r.todo : tasks[t] # Absent
    /\ Cascades(j) => \A t \in DOMAIN r.to : tasks[t] # Absent
    /\ r.pc \in {"refresh", "cascade"} => DOMAIN r.to # {}
    /\ r.pc = "cascade" /\ r.kind \in Many /\ r.seenMs # Absent => settled

(* While nothing has been written since the milestone was last right, what    *)
(* any request holds is current and none is about to write the milestone.     *)
Sound(j) ==
    /\ Shape(job[j])
    /\ settled \/ j \notin overlap => Current(j)
    /\ settled /\ Cascades(j) => job[j].pc # "write" /\ job[j].kind \in StatusKinds
    /\ j \notin overlap => Aim(j)

(* A milestone that was set right is right, or was cancelled.                 *)
Right == settled => milestone \in {Derive(tasks), "cancelled"}

(* Between cascades, a completed milestone has no open task.                  *)
Closed == \A t \in Tasks : tasks[t] \in Terminal \union {Absent}
NoneOpen == (trusted /\ milestone = "completed" /\ \A j \in Jobs : ~Cascades(j)) => Closed

AllSound == \A j \in Jobs : Running(j) => Sound(j)
BoardInv == Types /\ Apart /\ AllSound /\ Right /\ NoneOpen

--------------------------------------------------------------------------------
(* The operators of the model.                                                *)

(* What a request has loaded, or is to write, is a function on some tasks.    *)
LEMMA SeenTypes ==
    /\ <<>> \in Seen
    /\ \A f \in Seen : DOMAIN f \subseteq Tasks
    /\ \A f \in Seen : \A t \in DOMAIN f : f[t] \in AllStatuses \union {Absent}
    /\ \A D \in SUBSET Tasks : [D -> AllStatuses \union {Absent}] \subseteq Seen
<1>1. <<>> \in [{} -> AllStatuses \union {Absent}]
    OBVIOUS
<1>2. ASSUME NEW f \in Seen
      PROVE  DOMAIN f \subseteq Tasks /\ \A t \in DOMAIN f : f[t] \in AllStatuses \union {Absent}
    <2>1. PICK D \in SUBSET Tasks : f \in [D -> AllStatuses \union {Absent}]
        BY DEF Seen
    <2> QED  BY <2>1
<1> QED  BY <1>1, <1>2 DEF Seen

(* The record of a request that has not begun.                                *)
LEMMA NoJobTypes == NoJob \in Job
<1>1. "update" \in Kinds
    BY DEF Kinds, StatusKinds
<1> QED  BY <1>1, SeenTypes DEF NoJob, Job, JobStates

(* Which kinds are which.                                                     *)
LEMMA KindFacts ==
    /\ StatusKinds \subseteq Kinds /\ StatusKinds \intersect Inserts = {}
    /\ StatusKinds \intersect Removes = {} /\ Inserts \intersect Removes = {}
    /\ Many \intersect Inserts = {} /\ "milestone" \notin Inserts \union Removes \union StatusKinds
    /\ \A k \in Kinds : k \in Inserts \union Removes \union StatusKinds \union {"apiStatus", "milestone"}
    /\ "apiStatus" \notin StatusKinds \union Inserts \union Removes
    /\ {"create", "addTask", "apiCreate"} = Inserts
    BY DEF StatusKinds, Kinds, Inserts, Removes, Many, Silent

(* _derive_milestone_status returns a status of milestones, "completed" only  *)
(* when every task is done, cancelled or gone.                                *)
LEMMA DeriveFacts ==
    ASSUME NEW rows
    PROVE  /\ Derive(rows) \in Milestones
           /\ Derive(rows) = "completed" =>
                  \A t \in DOMAIN rows : rows[t] \in Terminal \union {Absent}
<1> DEFINE has == {rows[t] : t \in DOMAIN rows} \ {Absent}
<1>1. Derive(rows) \in Milestones
    BY DEF Derive, Milestones
<1>2. Derive(rows) = "completed" => has \subseteq Terminal
    BY DEF Derive
<1> QED  BY <1>1, <1>2

(* So a milestone that is right and completed has no open task.               *)
LEMMA RightIsClosed ==
    ASSUME Types, milestone' = "completed", milestone' \in {Derive(tasks), "cancelled"}
    PROVE  Closed
<1>1. Derive(tasks) = "completed" /\ DOMAIN tasks = Tasks
    BY DEF Types, Rows
<1> QED  BY <1>1, DeriveFacts DEF Closed

(* What is left of a request that has been answered.                          *)
LEMMA AnsweredTypes ==
    ASSUME NEW j \in Jobs, job[j] \in Job, NEW p \in JobStates
    PROVE  Answered(j, p) \in Job /\ Answered(j, p).pc = p /\ Answered(j, p).kind = job[j].kind
<1>1. job[j].kind \in Kinds /\ job[j].version \in Nat
    BY DEF Job
<1> DEFINE k == job[j].kind
           v == job[j].version
           q(r) == [r EXCEPT !.pc = p, !.kind = k, !.version = v]
<1>2. \A r \in Job : q(r) \in Job /\ q(r).pc = p /\ q(r).kind = k
    <2>1. k \in Kinds /\ v \in Nat
        BY <1>1
    <2> HIDE DEF k, v
    <2> QED  BY <2>1 DEF Job
<1>3. Answered(j, p) = q(NoJob)
    BY DEF Answered
<1> HIDE DEF q
<1> QED  BY <1>2, <1>3, NoJobTypes

(* A reply is an answer.                                                      *)
LEMMA ReplyTypes ==
    ASSUME Types, NEW j \in Jobs
    PROVE  Reply(j) \in Job /\ Reply(j).pc \in {"replied", "refused"}
    BY AnsweredTypes DEF Reply, Types, JobStates

(* A request whose rows are current sees the tasks and the milestone that are *)
(* stored, whichever rows it still holds.                                     *)
LEMMA CurrentValues ==
    ASSUME Types, NEW j \in Jobs, Current(j)
    PROVE  /\ \A t \in Tasks : Value(j, t) = tasks[t]
           /\ \A held : held \in Held(j) => Siblings(j, held) = tasks
           /\ Shape(job[j]) /\ job[j].pc # "load" => SeenMilestone(j) = milestone
<1>1. tasks = [t \in Tasks |-> tasks[t]]
    BY DEF Types, Rows
<1>2. ASSUME NEW held, held \in Held(j) PROVE Siblings(j, held) = [t \in Tasks |-> tasks[t]]
    <2>1. held \subseteq DOMAIN job[j].seen
        BY <1>2 DEF Held
    <2> QED  BY <2>1 DEF Siblings, Current
<1>3. Shape(job[j]) /\ job[j].pc # "load" => SeenMilestone(j) = milestone
    BY DEF Shape, SeenMilestone, Current, Milestones, Absent
<1> QED  BY <1>1, <1>2, <1>3 DEF Value, Current

--------------------------------------------------------------------------------
(* Steps of one request, as the others see them.                              *)

(* A request that moves and writes neither takes anything from the others     *)
(* nor lets them claim more, unless it is alone.                              *)
LEMMA Moves ==
    ASSUME BoardInv, NEW j \in Jobs, NEW r \in Job, job' = [job EXCEPT ![j] = r],
           job[j].pc # "idle", r.pc # "idle", r.pc \in RunStates => Running(j),
           Types', overlap' = overlap,
           Running(j) \/ UNCHANGED <<tasks, milestone, settled>>,
           (settled' => settled /\ UNCHANGED <<tasks, milestone>>)
               \/ (Running(j) /\ j \notin overlap),
           trusted' => trusted \/ (Running(j) /\ j \notin overlap),
           r.pc \in RunStates => Sound(j)', Right', NoneOpen'
    PROVE  BoardInv'
<1>1. job'[j] = r /\ \A i \in Jobs \ {j} : job'[i] = job[i]
    BY DEF BoardInv, Types
<1>2. \A i \in Jobs : Running(i)' => Running(i)
    BY <1>1 DEF Running, RunStates
<1>3. Running(j) /\ j \notin overlap => \A i \in Jobs \ {j} : ~Running(i)
    BY DEF BoardInv, Apart
<1>4. Apart'
    <2>1. \A i, x \in Jobs : Running(i)' /\ Running(x)' /\ i # x => i \in overlap'
        BY <1>2 DEF BoardInv, Apart
    <2>2. \A i \in overlap' : job'[i].pc # "idle"
        BY <1>1 DEF BoardInv, Apart, Types
    <2>3. trusted' => \A i \in Jobs : Running(i)' => i \notin overlap'
        BY <1>2, <1>3 DEF BoardInv, Apart
    <2> QED  BY <2>1, <2>2, <2>3 DEF Apart
<1>5. ASSUME NEW i \in Jobs, Running(i)', i # j PROVE Sound(i)'
    <2>1. Running(i) /\ Sound(i) /\ job'[i] = job[i]
        BY <1>1, <1>2, <1>5 DEF BoardInv, AllSound
    <2>2. settled' => settled /\ UNCHANGED <<tasks, milestone>>
        BY <1>3, <1>5, <2>1
    <2>3. i \notin overlap => UNCHANGED <<tasks, milestone, settled>>
        BY <1>5, <2>1 DEF BoardInv, Apart
    <2>4. settled' \/ i \notin overlap' => Current(i)'
        BY <2>1, <2>2, <2>3 DEF Sound, Current
    <2>5. i \notin overlap' => Aim(i)'
        BY <2>1, <2>3 DEF Sound, Aim, Cascades
    <2>6. settled' /\ Cascades(i)' => job'[i].pc # "write" /\ job'[i].kind \in StatusKinds
        BY <2>1, <2>2 DEF Sound, Cascades
    <2> QED  BY <2>1, <2>4, <2>5, <2>6 DEF Sound
<1>6. AllSound'
    <2>1. Running(j)' => r.pc \in RunStates
        BY <1>1 DEF Running, RunStates
    <2> QED  BY <1>5, <2>1 DEF AllSound
<1> QED  BY <1>4, <1>6 DEF BoardInv

(* A request that stops running, with the milestone as it was: no claim is    *)
(* about it any more.  If it skips its cascade, a completed milestone is no   *)
(* longer to be trusted, or has no open task anyhow.                          *)
LEMMA Leaves ==
    ASSUME BoardInv, NEW j \in Jobs, NEW r \in Job, r.pc \notin RunStates \union {"idle"},
           job' = [job EXCEPT ![j] = r], job[j].pc # "idle",
           UNCHANGED <<tasks, milestone, version, overlap, settled>>,
           trusted' \in BOOLEAN, trusted' => trusted,
           Cascades(j) => ~trusted' \/ (milestone = "completed" => Closed)
    PROVE  BoardInv'
<1>1. job'[j] = r /\ \A i \in Jobs \ {j} : job'[i] = job[i]
    BY DEF BoardInv, Types
<1>2. Types'
    BY DEF BoardInv, Types
<1>3. Right'
    BY DEF BoardInv, Right
<1>4. NoneOpen'
    BY <1>1 DEF BoardInv, NoneOpen, Cascades, Closed, RunStates
<1> QED  BY <1>2, <1>3, <1>4, Moves

--------------------------------------------------------------------------------
(* Steps of the board and of the query.                                       *)

(* A milestone without tasks that are begun.                                  *)
LEMMA InitBoard == Init => BoardInv
<1> SUFFICES ASSUME Init PROVE BoardInv
    OBVIOUS
<1>1. \A j \in Jobs : job[j] = NoJob /\ job[j].pc = "idle"
    BY DEF Init, NoJob
<1>2. Types
    <2>1. tasks \in Rows
        BY DEF Init, Rows, AllStatuses
    <2>2. job \in [Jobs -> Job]
        BY NoJobTypes DEF Init
    <2>3. settled \in BOOLEAN /\ trusted \in BOOLEAN
        BY DEF Init
    <2> QED  BY <2>1, <2>2, <2>3 DEF Init, Types, Milestones
<1>3. milestone = Derive(tasks)
    <2>1. \A t \in Tasks : tasks[t] \in {"todo", Absent}
        BY DEF Init
    <2>2. DOMAIN tasks = Tasks
        BY DEF Init
    <2>3. {tasks[t] : t \in DOMAIN tasks} \ {Absent} \subseteq {"todo"}
        BY <2>1, <2>2
    <2> HIDE DEF Init
    <2>4. Derive(tasks) = "pending"
        BY <2>3 DEF Derive, Terminal
    <2> QED  BY <2>4 DEF Init
<1>4. Apart /\ AllSound /\ Right
    BY <1>1, <1>3 DEF Apart, AllSound, Right, Running, Init
<1>5. NoneOpen
    BY DEF Init, NoneOpen
<1> QED  BY <1>2, <1>4, <1>5 DEF BoardInv

(* A step that moves no request and writes neither tasks nor milestone.       *)
LEMMA Unmoved ==
    ASSUME BoardInv, UNCHANGED <<tasks, milestone, version, job, overlap, settled, trusted>>
    PROVE  BoardInv'
<1>1. Types' /\ Apart' /\ Right'
    BY DEF BoardInv, Types, Apart, Right, Running
<1>2. AllSound'
    BY DEF BoardInv, AllSound, Running, Sound, Current, Aim, Cascades
<1>3. NoneOpen'
    BY DEF BoardInv, NoneOpen, Closed, Cascades
<1> QED  BY <1>1, <1>2, <1>3 DEF BoardInv

(* A request as it sets out.                                                  *)
Fresh(kind, to, edit) ==
    [NoJob EXCEPT !.pc = "load", !.kind = kind, !.to = to, !.desired = edit,
                  !.todo = IF kind \in Inserts THEN {} ELSE DOMAIN to]

LEMMA FreshTypes ==
    ASSUME NEW kind \in Kinds, NEW to \in Seen, NEW edit \in Milestones \union {Absent}
    PROVE  /\ Fresh(kind, to, edit) \in Job
           /\ Fresh(kind, to, edit).pc = "load" /\ Fresh(kind, to, edit).kind = kind
           /\ Fresh(kind, to, edit).to = to /\ Fresh(kind, to, edit).desired = edit
           /\ Fresh(kind, to, edit).seen = <<>> /\ Fresh(kind, to, edit).seenMs = Absent
           /\ Fresh(kind, to, edit).todo = IF kind \in Inserts THEN {} ELSE DOMAIN to
<1> DEFINE todo == IF kind \in Inserts THEN {} ELSE DOMAIN to
<1>1. todo \in SUBSET Tasks
    BY SeenTypes
<1> HIDE DEF todo
<1>2. ASSUME NEW n \in Job, NEW q,
             q = [n EXCEPT !.pc = "load", !.kind = kind, !.to = to, !.desired = edit, !.todo = todo]
      PROVE  /\ q \in Job /\ q.pc = "load" /\ q.kind = kind /\ q.to = to /\ q.desired = edit
             /\ q.todo = todo /\ q.seen = n.seen /\ q.seenMs = n.seenMs
    BY <1>1, <1>2 DEF Job, JobStates
<1>3. NoJob.seen = <<>> /\ NoJob.seenMs = Absent
    BY DEF NoJob
<1>4. Fresh(kind, to, edit) = [NoJob EXCEPT !.pc = "load", !.kind = kind, !.to = to,
                                           !.desired = edit, !.todo = todo]
    BY DEF Fresh, todo
<1> QED  BY <1>2, <1>3, <1>4, NoJobTypes DEF todo

(* It sets out alone, or marked together with all that run.                   *)
LEMMA MutateKeeps ==
    ASSUME BoardInv, NEW j \in Jobs, NEW kind \in Kinds, NEW to \in Seen,
           NEW edit \in Milestones \union {Absent}, Mutate(j, kind, to, edit),
           kind \notin Many \union {"milestone"} => \E t \in Tasks : DOMAIN to = {t},
           \A t \in DOMAIN to : to[t] = Absent <=> kind \in Removes,
           kind = "milestone" => DOMAIN to = {} /\ edit \in Milestones
    PROVE  BoardInv'
<1> DEFINE r == Fresh(kind, to, edit)
<1>1. /\ r \in Job /\ r.pc = "load" /\ r.kind = kind /\ r.to = to /\ r.desired = edit
      /\ r.seen = <<>> /\ r.seenMs = Absent
      /\ r.todo = IF kind \in Inserts THEN {} ELSE DOMAIN to
    BY FreshTypes
<1>2. /\ job[j].pc = "idle" /\ job' = [job EXCEPT ![j] = r]
      /\ overlap' = IF Idle THEN overlap
                    ELSE overlap \union {j} \union {i \in Jobs : Running(i)}
      /\ trusted' = (trusted /\ Idle)
      /\ UNCHANGED <<tasks, milestone, version, settled>>
    BY DEF Mutate, Fresh
<1> HIDE DEF r
<1>3. job'[j] = r /\ \A i \in Jobs \ {j} : job'[i] = job[i]
    BY <1>2 DEF BoardInv, Types
<1>4. overlap \subseteq overlap' /\ overlap' \subseteq Jobs /\ j \notin overlap
    BY <1>2 DEF BoardInv, Types, Apart
<1>5. Types'
    <2>1. trusted' \in BOOLEAN
        BY <1>2, Zenon
    <2> QED  BY <1>1, <1>2, <1>4, <2>1 DEF BoardInv, Types
<1>6. Apart'
    <2>1. ASSUME NEW i \in Jobs, NEW x \in Jobs, Running(i)', Running(x)', i # x
          PROVE  i \in overlap'
        <3>1. CASE i # j /\ x # j
            BY <1>3, <1>4, <2>1, <3>1 DEF BoardInv, Apart, Running
        <3>2. CASE i = j
            BY <1>2, <1>3, <2>1, <3>2 DEF Idle, Running
        <3>3. CASE x = j
            BY <1>2, <1>3, <2>1, <3>3 DEF Idle, Running
        <3> QED  BY <3>1, <3>2, <3>3
    <2>2. \A i \in overlap' : job'[i].pc # "idle"
        BY <1>1, <1>2, <1>3, <1>4 DEF BoardInv, Apart, Running
    <2>3. ASSUME trusted', NEW i \in Jobs, Running(i)' PROVE i \notin overlap'
        <3>1. Idle
            BY <1>2, <2>3
        <3>2. i = j
            BY <1>3, <2>3, <3>1 DEF Idle, Running
        <3> QED  BY <1>2, <1>4, <3>1, <3>2
    <2> QED  BY <2>1, <2>2, <2>3 DEF Apart
<1>7. AllSound'
    <2>1. ASSUME NEW i \in Jobs, Running(i)', i # j PROVE Sound(i)'
        <3>1. Sound(i) /\ job'[i] = job[i]
            BY <1>3, <2>1 DEF BoardInv, AllSound, Running
        <3> QED  BY <1>2, <1>4, <3>1 DEF Sound, Current, Aim, Cascades
    <2>2. Shape(r)
        <3>1. kind = "update" => r.todo # {}
            BY <1>1, KindFacts DEF Many, StatusKinds
        <3> QED  BY <1>1, <3>1 DEF Shape
    <2>3. Current(j)' /\ Aim(j)'
        BY <1>1, <1>3, KindFacts DEF Current, Aim, Cascades
    <2>4. ~Cascades(j)'
        BY <1>1, <1>3 DEF Cascades
    <2>5. Sound(j)'
        BY <1>3, <2>2, <2>3, <2>4 DEF Sound
    <2> QED  BY <2>1, <2>5 DEF AllSound
<1>8. Right'
    BY <1>2 DEF BoardInv, Right
<1>9. NoneOpen'
    <2>1. trusted' => trusted
        BY <1>2
    <2> QED  BY <1>1, <1>2, <1>3, <2>1 DEF BoardInv, NoneOpen, Cascades, Closed
<1> QED  BY <1>5, <1>6, <1>7, <1>8, <1>9 DEF BoardInv

(* The same status for some tasks.                                            *)
LEMMA SetTypes ==
    ASSUME NEW ids \in SUBSET Tasks, NEW s \in AllStatuses \union {Absent}
    PROVE  Set(ids, s) \in Seen /\ DOMAIN Set(ids, s) = ids /\ \A t \in ids : Set(ids, s)[t] = s
<1>1. Set(ids, s) \in [ids -> AllStatuses \union {Absent}]
    BY DEF Set
<1> QED  BY <1>1, SeenTypes DEF Set

(* The handlers send requests of the shape the invariant asks for.            *)
Proper(kind, to, edit) ==
    /\ kind \in Kinds /\ to \in Seen /\ edit \in Milestones \union {Absent}
    /\ kind \notin Many \union {"milestone"} => \E t \in Tasks : DOMAIN to = {t}
    /\ \A t \in DOMAIN to : to[t] = Absent <=> kind \in Removes
    /\ kind = "milestone" => DOMAIN to = {} /\ edit \in Milestones

LEMMA UserIsProper ==
    ASSUME NEW j \in Jobs, User(j)
    PROVE  \E kind, to, edit : Mutate(j, kind, to, edit) /\ Proper(kind, to, edit)
<1>1. /\ "todo" \in AllStatuses /\ \A s \in Statuses : s \in AllStatuses
      /\ \A s \in AllStatuses : s # Absent
    BY BoardAssumption DEF AllStatuses, Absent
<1>2. /\ Inserts \union {"delete", "update", "reorder", "patchTask", "apiStatus"} \subseteq Kinds
      /\ {"bulk", "bulkDelete", "batch", "milestone"} \subseteq Kinds
      /\ "delete" \in Removes /\ "bulkDelete" \in Removes
      /\ (Inserts \union {"update", "reorder", "patchTask", "apiStatus", "bulk", "batch", "milestone"})
             \intersect Removes = {}
      /\ {"bulk", "bulkDelete", "batch"} = Many /\ "milestone" \notin Inserts
    BY DEF Kinds, Inserts, Removes, Silent, StatusKinds, Many
<1>3. ASSUME NEW t \in Tasks, NEW s \in AllStatuses,
             NEW k \in Inserts \union {"update", "reorder", "patchTask", "apiStatus"}
      PROVE  Proper(k, Set({t}, s), Absent)
    <2>1. {t} \in SUBSET Tasks /\ k # "milestone" /\ k \in Kinds /\ k \notin Removes /\ s # Absent
        BY <1>1, <1>2
    <2> DEFINE to == Set({t}, s)
    <2>2. to \in Seen /\ DOMAIN to = {t} /\ \A u \in DOMAIN to : to[u] = s
        BY <2>1, SetTypes
    <2> HIDE DEF to
    <2>3. Proper(k, to, Absent)
        BY <2>1, <2>2 DEF Proper
    <2> QED  BY <2>3 DEF to
<1>4. ASSUME NEW t \in Tasks PROVE Proper("delete", Set({t}, Absent), Absent)
    <2>1. {t} \in SUBSET Tasks
        OBVIOUS
    <2> QED  BY <1>2, <2>1, SetTypes DEF Proper
<1>5. ASSUME NEW ids \in SUBSET Tasks PROVE Proper("bulkDelete", Set(ids, Absent), Absent)
    BY <1>2, SetTypes DEF Proper
<1>6. ASSUME NEW ids \in SUBSET Tasks, NEW s \in Statuses PROVE Proper("bulk", Set(ids, s), Absent)
    BY <1>1, <1>2, SetTypes DEF Proper
<1>7. ASSUME NEW ids \in SUBSET Tasks, NEW to \in [ids -> Statuses] PROVE Proper("batch", to, Absent)
    <2>1. to \in [ids -> AllStatuses \union {Absent}] /\ \A t \in DOMAIN to : to[t] # Absent
        BY <1>1
    <2> QED  BY <1>2, <2>1, SeenTypes DEF Proper
<1>8. ASSUME NEW edit \in Edits PROVE Proper("milestone", <<>>, edit)
    BY <1>2, BoardAssumption, SeenTypes DEF Proper
<1>9. ASSUME NEW t \in Tasks, (\E k \in Inserts : handleCreate(j, t, k)) \/ handleConfirmDeleteTask(j, t)
      PROVE  \E kind, to, edit : Mutate(j, kind, to, edit) /\ Proper(kind, to, edit)
    BY <1>1, <1>3, <1>4, <1>9 DEF handleCreate, handleConfirmDeleteTask
<1>10. ASSUME NEW t \in Tasks, NEW s \in Statuses,
              \/ handleSubmit(j, t, s) \/ handleDragEnd(j, t, s)
              \/ \E k \in {"patchTask", "apiStatus"} : PatchElsewhere(j, t, s, k)
       PROVE  \E kind, to, edit : Mutate(j, kind, to, edit) /\ Proper(kind, to, edit)
    BY <1>1, <1>3, <1>10 DEF handleSubmit, handleDragEnd, PatchElsewhere
<1>11. ASSUME NEW ids \in SUBSET Tasks,
              \/ handleBulkDelete(j, ids) \/ \E s \in Statuses : handleBulkStatus(j, ids, s)
              \/ \E to \in [ids -> Statuses] : BatchReorder(j, to)
       PROVE  \E kind, to, edit : Mutate(j, kind, to, edit) /\ Proper(kind, to, edit)
    BY <1>5, <1>6, <1>7, <1>11 DEF handleBulkDelete, handleBulkStatus, BatchReorder
<1>12. ASSUME NEW edit \in Edits, UpdateMilestone(j, edit)
       PROVE  \E kind, to, e : Mutate(j, kind, to, e) /\ Proper(kind, to, e)
    BY <1>8, <1>12 DEF UpdateMilestone
<1> QED  BY <1>9, <1>10, <1>11, <1>12 DEF User

(* The users' handlers.                                                       *)
LEMMA UserKeeps == ASSUME BoardInv, NEW j \in Jobs, User(j) PROVE BoardInv'
    BY UserIsProper, MutateKeeps DEF Proper

(* The callbacks of a mutation that has been answered.                        *)
LEMMA CallbackKeeps == ASSUME BoardInv, NEW j \in Jobs, Callback(j) PROVE BoardInv'
<1>1. \A p \in {"ok", "error"} : [job[j] EXCEPT !.pc = p] \in Job
                                 /\ [job[j] EXCEPT !.pc = p].pc = p
    BY DEF BoardInv, Types, Job, JobStates
<1>2. PICK p \in {"ok", "error"} :
          /\ job' = [job EXCEPT ![j] = [job[j] EXCEPT !.pc = p]]
          /\ job[j].pc \in {"replied", "refused"}
          /\ UNCHANGED <<tasks, milestone, version, overlap, settled, trusted>>
    BY DEF Callback, OnSuccess, OnError
<1>3. ~Cascades(j) /\ p \notin RunStates \union {"idle"} /\ trusted' \in BOOLEAN
    BY <1>2 DEF Cascades, RunStates, BoardInv, Types
<1> QED  BY <1>1, <1>2, <1>3, Leaves

--------------------------------------------------------------------------------
(* The endpoints.                                                             *)

(* An answer of any kind is a move out of the running requests.               *)
LEMMA AnsweredLeaves ==
    ASSUME BoardInv, NEW j \in Jobs, NEW p \in {"replied", "refused"}, job[j].pc # "idle",
           job' = [job EXCEPT ![j] = Answered(j, p)],
           UNCHANGED <<tasks, milestone, version, overlap, settled>>,
           trusted' \in BOOLEAN, trusted' => trusted,
           Cascades(j) => ~trusted' \/ (milestone = "completed" => Closed)
    PROVE  BoardInv'
<1>1. job[j] \in Job /\ p \in JobStates /\ p \notin RunStates \union {"idle"}
    BY DEF BoardInv, Types, JobStates, RunStates
<1>2. Answered(j, p) \in Job /\ Answered(j, p).pc = p
    BY <1>1, AnsweredTypes
<1> QED  BY <1>1, <1>2, Leaves

(* Exceptions, lost answers and failed cascades.                              *)
LEMMA FaultKeeps == ASSUME BoardInv, NEW j \in Jobs, Fault(j) PROVE BoardInv'
<1>1. /\ UNCHANGED <<tasks, milestone, version, overlap, settled>>
      /\ trusted' = (trusted /\ job[j].pc \notin {"refresh", "cascade", "write"})
    BY DEF Fault
<1>2. \E p \in {"replied", "refused"} : job' = [job EXCEPT ![j] = Answered(j, p)]
    BY DEF Fault, Reply
<1>3. trusted' \in BOOLEAN /\ (trusted' => trusted) /\ (Cascades(j) => ~trusted')
    BY <1>1, Zenon DEF Cascades
<1>4. job[j].pc # "idle"
    BY DEF Fault, Running
<1> QED  BY <1>1, <1>2, <1>3, <1>4, AnsweredLeaves

(* A request that runs on, with nothing written.                              *)
LEMMA RunsOn ==
    ASSUME BoardInv, NEW j \in Jobs, NEW r \in Job, job' = [job EXCEPT ![j] = r],
           Running(j), r.pc \in RunStates, Sound(j)',
           r.pc \in {"refresh", "cascade", "write"} <=> Cascades(j),
           UNCHANGED <<tasks, milestone, version, overlap, settled, trusted>>
    PROVE  BoardInv'
<1>1. job[j].pc # "idle" /\ r.pc # "idle"
    BY DEF Running, RunStates
<1>2. job'[j] = r /\ \A i \in Jobs \ {j} : job'[i] = job[i]
    BY DEF BoardInv, Types
<1>3. Types' /\ Right'
    BY DEF BoardInv, Types, Right
<1>4. NoneOpen'
    BY <1>2 DEF BoardInv, NoneOpen, Cascades, Closed
<1> QED  BY <1>1, <1>3, <1>4, Moves

(* The milestone is loaded.                                                   *)
LEMMA LoadMilestoneKeeps == ASSUME BoardInv, NEW j \in Jobs, LoadMilestone(j) PROVE BoardInv'
<1> DEFINE ms == IF job[j].kind \in {"create", "milestone"} THEN milestone ELSE Absent
           r == [job[j] EXCEPT !.pc = "commit", !.seenMs = ms]
<1>1. /\ job[j].pc = "load" /\ job[j].todo = {} /\ job' = [job EXCEPT ![j] = r]
      /\ UNCHANGED <<tasks, milestone, version, overlap, settled, trusted>>
    BY DEF LoadMilestone
<1>2. job[j] \in Job /\ milestone \in Milestones /\ ms \in {Absent, milestone}
    BY DEF BoardInv, Types
<1>3. /\ job[j].kind = "create" => ms = milestone
      /\ job[j].kind \in Many => ms = Absent
    BY DEF Many
<1> HIDE DEF ms
<1>4. /\ r \in Job /\ r.pc = "commit" /\ r.kind = job[j].kind /\ r.to = job[j].to
      /\ r.todo = {} /\ r.seen = job[j].seen /\ r.seenMs = ms /\ r.desired = job[j].desired
    BY <1>1, <1>2 DEF Job, JobStates
<1> HIDE DEF r
<1>5. job'[j] = r /\ Running(j) /\ Sound(j)
    BY <1>1 DEF BoardInv, Types, AllSound, Running
<1>6. Shape(r)
    BY <1>1, <1>2, <1>3, <1>4, <1>5 DEF Sound, Shape
<1>7. /\ settled \/ j \notin overlap => Current(j)'
      /\ j \notin overlap => Aim(j)'
    BY <1>1, <1>2, <1>4, <1>5 DEF Sound, Current, Aim, Cascades
<1>8. ~Cascades(j)' /\ ~Cascades(j)
    BY <1>1, <1>4, <1>5 DEF Cascades
<1>9. Sound(j)'
    BY <1>1, <1>5, <1>6, <1>7, <1>8 DEF Sound
<1> QED  BY <1>1, <1>4, <1>5, <1>8, <1>9, RunsOn DEF RunStates

(* A task is loaded: what is held of it is current.                           *)
LEMMA LoadKeeps ==
    ASSUME BoardInv, NEW j \in Jobs, NEW t \in Tasks, Load(j, t) PROVE BoardInv'
<1> DEFINE k == job[j].kind
           gone == tasks[t] = Absent
           ids == {t} \union Column(j, {t})
           seen == [u \in ids |-> Value(j, u)]
           rows == IF gone THEN job[j].seen ELSE seen
           left == job[j].todo \ {t}
           pending == seen[t] # job[j].to[t]
           drops == k \in Many /\ (gone \/ ~pending)
           to == IF drops THEN [u \in DOMAIN job[j].to \ {t} |-> job[j].to[u]] ELSE job[j].to
           ms == IF k = "update" THEN milestone ELSE Absent
<1>1. /\ job[j].pc = "load" /\ t \in job[j].todo
      /\ UNCHANGED <<tasks, milestone, version, overlap, settled, trusted>>
    BY DEF Load
<1>2. CASE gone /\ k \notin Many
    <2>1. job' = [job EXCEPT ![j] = Answered(j, "refused")]
        BY <1>2 DEF Load
    <2>2. trusted' \in BOOLEAN /\ ~Cascades(j)
        BY <1>1 DEF BoardInv, Types, Cascades
    <2> QED  BY <1>1, <2>1, <2>2, AnsweredLeaves
<1>3. CASE ~(gone /\ k \notin Many)
    <2>1. PICK p \in {"load", "commit"} :
              /\ p = "load" => left # {}
              /\ job' = [job EXCEPT ![j] = [job[j] EXCEPT
                            !.pc = p, !.todo = left, !.to = to, !.seen = rows, !.seenMs = ms]]
        BY <1>1, <1>3 DEF Load
    <2>2. job[j] \in Job /\ milestone \in Milestones /\ tasks \in Rows /\ Running(j) /\ Sound(j)
        BY <1>1 DEF BoardInv, Types, AllSound, Running
    <2>3. Shape(job[j]) /\ job[j].to \in Seen /\ job[j].seen \in Seen
        BY <2>2 DEF Sound, Job
    <2>4. /\ to \in Seen /\ DOMAIN to \subseteq DOMAIN job[j].to
          /\ \A u \in DOMAIN to : to[u] = job[j].to[u]
          /\ left \subseteq DOMAIN to /\ left \in SUBSET Tasks
          /\ k \notin Many => to = job[j].to
          /\ gone => t \notin DOMAIN to
        <3>1. PICK D \in SUBSET Tasks : job[j].to \in [D -> AllStatuses \union {Absent}]
            BY <2>3 DEF Seen
        <3>2. to \in [D \ {t} -> AllStatuses \union {Absent}] \/ to = job[j].to
            BY <3>1
        <3>3. to \in Seen
            BY <2>3, <3>2, SeenTypes
        <3>4. left \subseteq DOMAIN to
            BY <1>1, <2>3 DEF Shape
        <3>5. gone => t \notin DOMAIN to
            BY <1>3
        <3> QED  BY <2>3, <3>1, <3>3, <3>4, <3>5, SeenTypes DEF Shape
    <2>5. rows \in Seen /\ (Current(j) => \A u \in DOMAIN rows : rows[u] = tasks[u])
        <3>1. ids \in SUBSET Tasks
            BY DEF Column
        <3>2. \A u \in Tasks : Value(j, u) \in AllStatuses \union {Absent}
            BY <2>2, <2>3, SeenTypes DEF Value, Rows
        <3>3. seen \in [ids -> AllStatuses \union {Absent}]
            BY <3>1, <3>2
        <3>4. Current(j) => \A u \in ids : Value(j, u) = tasks[u]
            BY <3>1, CurrentValues DEF BoardInv
        <3> HIDE DEF ids
        <3>5. seen \in Seen
            BY <3>1, <3>3, SeenTypes
        <3> QED  BY <2>3, <3>4, <3>5 DEF Current
    <2>6. ms \in {Absent, milestone} /\ (k = "update" => ms = milestone) /\ (k \in Many => ms = Absent)
        BY DEF Many
    <2>7. /\ k \notin Many \union {"milestone"} => left = {}
          /\ k # "milestone"
        BY <1>1, <2>3 DEF Shape
    <2> HIDE DEF rows, to, ms
    <2> DEFINE r == [job[j] EXCEPT !.pc = p, !.todo = left, !.to = to, !.seen = rows, !.seenMs = ms]
    <2>8. /\ r \in Job /\ r.pc = p /\ r.kind = k /\ r.to = to /\ r.todo = left /\ r.seen = rows
          /\ r.seenMs = ms /\ r.desired = job[j].desired
        BY <2>2, <2>4, <2>5, <2>6 DEF Job, JobStates
    <2>9. job' = [job EXCEPT ![j] = r]
        BY <2>1
    <2> HIDE DEF r
    <2>10. job'[j] = r
        BY <2>9 DEF BoardInv, Types
    <2>11. Shape(r)
        <3>1. k \notin Many \union {"milestone"} => \E u \in Tasks : DOMAIN r.to = {u}
            BY <2>3, <2>4, <2>8 DEF Shape
        <3>2. r.pc = "load" /\ r.kind = "update" => r.todo # {}
            BY <2>1, <2>8
        <3>3. k \notin Inserts /\ k # "create"
            BY <1>1, <2>3 DEF Shape, Inserts
        <3> QED  BY <2>2, <2>3, <2>4, <2>6, <2>7, <2>8, <3>1, <3>2, <3>3 DEF Shape
    <2>12. settled \/ j \notin overlap => Current(j)'
        BY <1>1, <2>2, <2>5, <2>6, <2>8, <2>10 DEF Sound, Current
    <2>13. j \notin overlap => Aim(j)'
        <3> SUFFICES ASSUME j \notin overlap, k \notin Inserts, NEW u \in DOMAIN to \ left
                     PROVE  tasks[u] # Absent
            BY <1>1, <2>1, <2>8, <2>10 DEF Aim, Cascades
        <3>1. CASE u = t
            BY <2>4, <3>1
        <3>2. CASE u # t
            BY <1>1, <2>2, <2>4, <3>2 DEF Sound, Aim
        <3> QED  BY <3>1, <3>2
    <2>14. ~Cascades(j)' /\ ~Cascades(j)
        BY <1>1, <2>8, <2>10 DEF Cascades
    <2>15. Sound(j)'
        BY <1>1, <2>10, <2>11, <2>12, <2>13, <2>14 DEF Sound
    <2> QED  BY <1>1, <2>2, <2>8, <2>9, <2>14, <2>15, RunsOn DEF RunStates, Cascades
<1> QED  BY <1>2, <1>3

(* update_task reads its task again; alone it finds it.                       *)
LEMMA RefreshTaskKeeps == ASSUME BoardInv, NEW j \in Jobs, RefreshTask(j) PROVE BoardInv'
<1> DEFINE rows == [t \in DOMAIN job[j].seen |-> IF t \in Found(j) THEN tasks[t]
                                                 ELSE job[j].seen[t]]
           r == [job[j] EXCEPT !.pc = "cascade", !.seen = rows]
<1>1. /\ job[j].pc = "refresh"
      /\ UNCHANGED <<tasks, milestone, version, overlap, settled, trusted>>
      /\ \/ Found(j) = {} /\ job' = [job EXCEPT ![j] = Answered(j, "refused")]
         \/ Found(j) # {} /\ job' = [job EXCEPT ![j] = r]
    BY DEF RefreshTask
<1>2. job[j] \in Job /\ tasks \in Rows /\ trusted \in BOOLEAN /\ Running(j) /\ Sound(j)
    BY <1>1 DEF BoardInv, Types, AllSound, Running
<1>3. CASE Found(j) = {} /\ job' = [job EXCEPT ![j] = Answered(j, "refused")]
    <2>1. j \in overlap
        BY <1>1, <1>2, <1>3 DEF Sound, Aim, Found, Cascades
    <2>2. ~trusted'
        BY <1>1, <1>2, <2>1 DEF BoardInv, Apart
    <2> QED  BY <1>1, <1>2, <1>3, <2>2, AnsweredLeaves
<1>4. CASE Found(j) # {} /\ job' = [job EXCEPT ![j] = r]
    <2>1. job[j].seen \in Seen /\ job[j].to \in Seen
        BY <1>2 DEF Job
    <2>2. rows \in Seen /\ (Current(j) => \A t \in DOMAIN rows : rows[t] = tasks[t])
        <3>1. PICK D \in SUBSET Tasks : job[j].seen \in [D -> AllStatuses \union {Absent}]
            BY <2>1 DEF Seen
        <3>2. \A t \in Found(j) : t \in Tasks
            BY <2>1, SeenTypes DEF Found
        <3>3. rows \in [D -> AllStatuses \union {Absent}]
            BY <1>2, <3>1, <3>2 DEF Rows
        <3> QED  BY <3>3, SeenTypes DEF Current
    <2> HIDE DEF rows
    <2>3. /\ r \in Job /\ r.pc = "cascade" /\ r.kind = job[j].kind /\ r.to = job[j].to
          /\ r.todo = job[j].todo /\ r.seenMs = job[j].seenMs /\ r.seen = rows
          /\ r.desired = job[j].desired
        BY <1>2, <2>2 DEF Job, JobStates
    <2> HIDE DEF r
    <2>4. job'[j] = r /\ Shape(job[j])
        BY <1>2, <1>4 DEF BoardInv, Types, Sound
    <2>5. Shape(r)
        BY <1>1, <2>3, <2>4 DEF Shape
    <2>6. /\ settled \/ j \notin overlap => Current(j)'
          /\ settled => job[j].kind \in StatusKinds
        BY <1>1, <1>2, <2>2, <2>3, <2>4 DEF Sound, Current, Cascades
    <2>7. job[j].kind \notin Many
        BY <1>1, <2>4 DEF Shape
    <2>8. j \notin overlap => Aim(j)'
        BY <1>1, <1>2, <2>3, <2>4, <2>7 DEF Sound, Aim, Cascades
    <2>9. Cascades(j) /\ Sound(j)'
        BY <1>1, <2>3, <2>4, <2>5, <2>6, <2>8 DEF Sound, Cascades
    <2> QED  BY <1>1, <1>2, <1>4, <2>3, <2>9, RunsOn DEF RunStates
<1> QED  BY <1>1, <1>3, <1>4

(* A commit that goes through: rows get the status asked for, or are gone.    *)
Commits(j) ==
    /\ job[j].pc = "commit" /\ job[j].kind # "milestone"
    /\ tasks' = [t \in Tasks |-> IF t \in Changed(j) THEN job[j].to[t] ELSE tasks[t]]
    /\ version' = version + 1
    /\ settled' = (settled /\ Changed(j) = {})
    /\ trusted' = (trusted /\ (job[j].kind \in Silent => Changed(j) = {}))
    /\ UNCHANGED <<milestone, overlap>>

LEMMA CommitFacts ==
    ASSUME BoardInv, NEW j \in Jobs, Commits(j)
    PROVE  /\ job[j] \in Job /\ Running(j) /\ Sound(j) /\ Shape(job[j])
           /\ Changed(j) \subseteq DOMAIN job[j].to /\ DOMAIN job[j].to \subseteq Tasks
           /\ tasks' \in Rows /\ settled' \in BOOLEAN /\ trusted' \in BOOLEAN /\ version' \in Nat
           /\ \A t \in Tasks : tasks'[t] = IF t \in Changed(j) THEN job[j].to[t] ELSE tasks[t]
           /\ settled' => settled /\ tasks' = tasks /\ Changed(j) = {}
           /\ trusted' => trusted /\ (job[j].kind \in Silent => Changed(j) = {})
           /\ Right'
<1>1. /\ job[j] \in Job /\ Running(j) /\ Sound(j) /\ Shape(job[j])
      /\ tasks \in [Tasks -> AllStatuses \union {Absent}]
    BY DEF Commits, BoardInv, Types, AllSound, Running, Sound, Rows
<1>2. Changed(j) \subseteq DOMAIN job[j].to /\ DOMAIN job[j].to \subseteq Tasks
    BY <1>1, SeenTypes DEF Changed, Job
<1>3. \A t \in Changed(j) : job[j].to[t] \in AllStatuses \union {Absent}
    BY <1>1, <1>2, SeenTypes DEF Job
<1>4. /\ tasks' \in Rows
      /\ \A t \in Tasks : tasks'[t] = IF t \in Changed(j) THEN job[j].to[t] ELSE tasks[t]
    BY <1>1, <1>3 DEF Commits, Rows
<1>5. Changed(j) = {} => tasks' = tasks
    <2>1. tasks = [t \in Tasks |-> tasks[t]]
        BY <1>1
    <2> QED  BY <2>1 DEF Commits
<1>6. /\ settled' \in BOOLEAN /\ (settled' => settled /\ Changed(j) = {})
      /\ trusted' \in BOOLEAN
      /\ (trusted' => trusted /\ (job[j].kind \in Silent => Changed(j) = {}))
    BY Zenon DEF Commits
<1>7. version' \in Nat
    BY DEF Commits, BoardInv, Types
<1>8. Right'
    BY <1>5, <1>6 DEF BoardInv, Right, Commits
<1> QED  BY <1>1, <1>2, <1>4, <1>5, <1>6, <1>7, <1>8

(* A commit without a cascade: deletions, changes that change nothing, and    *)
(* the endpoints that know of no cascade.                                     *)
LEMMA CommitEndsKeeps ==
    ASSUME BoardInv, NEW j \in Jobs, Commits(j), ~Runs(j),
           NEW r \in Job, r.pc = "replied", job' = [job EXCEPT ![j] = r]
    PROVE  BoardInv'
<1>1. /\ UNCHANGED <<milestone, overlap>> /\ job[j].pc = "commit" /\ job[j].kind # "milestone"
      /\ job'[j] = r /\ \A i \in Jobs \ {j} : job'[i] = job[i]
    BY DEF Commits, BoardInv, Types
<1>2. Types'
    BY <1>1, CommitFacts DEF BoardInv, Types
<1>3. NoneOpen'
    <2> SUFFICES ASSUME trusted', milestone = "completed", \A i \in Jobs : ~Cascades(i)'
                 PROVE  Closed'
        BY <1>1 DEF NoneOpen
    <2>1. \A i \in Jobs : ~Cascades(i)
        BY <1>1 DEF Cascades
    <2>2. Closed
        BY <2>1, CommitFacts DEF BoardInv, NoneOpen
    <2>3. CASE Changed(j) = {}
        BY <2>2, <2>3, CommitFacts DEF Closed
    <2>4. CASE job[j].kind \in Removes
        <3>1. \A t \in Changed(j) : job[j].to[t] = Absent
            BY <2>4, CommitFacts DEF Shape
        <3> QED  BY <2>2, <3>1, CommitFacts DEF Closed
    <2>5. Changed(j) = {} \/ job[j].kind \in Removes
        <3>1. job[j].kind \in Kinds /\ (job[j].kind \in Silent => Changed(j) = {})
            BY CommitFacts DEF Job
        <3> QED  BY <1>1, <3>1 DEF Runs, Kinds, Inserts, Silent
    <2> QED  BY <2>3, <2>4, <2>5
<1> QED  BY <1>1, <1>2, <1>3, CommitFacts, Moves DEF RunStates

(* A commit that cascades: alone, the request sees the tasks it has written,  *)
(* and finds its own among them.                                              *)
LEMMA CommitRunsKeeps ==
    ASSUME BoardInv, NEW j \in Jobs, Commits(j), Runs(j), ~MustFail(j),
           NEW holds \in SUBSET Tasks,
           NEW r \in Job, r.pc \in {"refresh", "cascade"}, job' = [job EXCEPT ![j] = r],
           r.kind = job[j].kind, r.seenMs = job[j].seenMs, r.todo = {},
           r.pc = "refresh" => job[j].kind \notin Many,
           job[j].kind \in Many => r.to = [t \in Changed(j) |-> job[j].to[t]],
           job[j].kind \notin Many => r.to = job[j].to,
           r.seen = [t \in holds |-> IF t \in Changed(j) THEN job[j].to[t] ELSE Value(j, t)]
    PROVE  BoardInv'
<1>1. /\ UNCHANGED <<milestone, overlap>> /\ job[j].pc = "commit" /\ job[j].kind # "milestone"
      /\ job'[j] = r /\ \A i \in Jobs \ {j} : job'[i] = job[i]
    BY DEF Commits, BoardInv, Types
<1>2. Types'
    BY <1>1, CommitFacts DEF BoardInv, Types
<1>3. NoneOpen'
    BY <1>1 DEF NoneOpen, Cascades
<1>4. job[j].kind \in StatusKinds \union {"create", "addTask"}
    BY DEF Runs, StatusKinds
<1>5. /\ DOMAIN r.to \subseteq DOMAIN job[j].to /\ \A t \in DOMAIN r.to : r.to[t] = job[j].to[t]
      /\ \A t \in DOMAIN job[j].to : job[j].to[t] # Absent
      /\ job[j].kind \notin Many => \E t \in Tasks : DOMAIN job[j].to = {t}
    <2>1. job[j].kind \notin Removes
        BY <1>4 DEF StatusKinds, Removes
    <2> QED  BY <1>1, <2>1, CommitFacts DEF Shape
<1>6. Shape(r)
    BY <1>1, <1>4, <1>5, CommitFacts DEF Shape
<1>7. settled' \/ j \notin overlap => Current(j)'
    <2> SUFFICES ASSUME settled' \/ j \notin overlap PROVE Current(j)'
        OBVIOUS
    <2>1. Current(j)
        BY CommitFacts DEF Sound
    <2>2. \A t \in Tasks : Value(j, t) = tasks[t]
        BY <2>1, CurrentValues DEF BoardInv
    <2>3. \A t \in DOMAIN r.seen : r.seen[t] = tasks'[t]
        BY <2>2, CommitFacts
    <2> QED  BY <1>1, <2>1, <2>3 DEF Current
<1>8. settled' => job[j].kind \in StatusKinds
    <2>1. job[j].kind \in {"create", "addTask"} => Changed(j) = DOMAIN job[j].to /\ DOMAIN job[j].to # {}
        BY <1>5 DEF Changed, Inserts, Many
    <2> QED  BY <1>4, <2>1, CommitFacts
<1>9. j \notin overlap => Aim(j)'
    <2> SUFFICES ASSUME j \notin overlap PROVE Aim(j)'
        OBVIOUS
    <2>1. DOMAIN r.to # {}
        BY <1>4, <1>5, KindFacts DEF Runs, Many
    <2>2. ASSUME NEW t \in DOMAIN r.to PROVE tasks'[t] # Absent
        <3>1. t \in Tasks /\ t \in DOMAIN job[j].to /\ job[j].to[t] # Absent
            BY <1>5, CommitFacts
        <3>2. CASE t \in Changed(j)
            BY <3>1, <3>2, CommitFacts
        <3>3. CASE t \notin Changed(j)
            <4>1. job[j].kind \notin Many /\ job[j].kind \notin Inserts /\ job[j].todo = {}
                BY <1>1, <3>1, <3>3, CommitFacts DEF Changed, Shape
            <4>2. tasks[t] # Absent
                BY <1>1, <3>1, <4>1, CommitFacts DEF Sound, Aim
            <4> QED  BY <3>1, <3>3, <4>2, CommitFacts
        <3> QED  BY <3>2, <3>3
    <2>3. job[j].kind \in Many => r.seenMs = Absent
        BY <1>1, CommitFacts DEF Shape
    <2> QED  BY <1>1, <2>1, <2>2, <2>3 DEF Aim, Cascades
<1>10. Sound(j)'
    BY <1>1, <1>6, <1>7, <1>8, <1>9 DEF Sound
<1> QED  BY <1>1, <1>2, <1>3, <1>10, CommitFacts, Moves DEF RunStates

(* The record of a request whose commit leads to the cascade.                 *)
Holds(j) ==
    LET rest == {t \in job[j].todo : tasks[t] # Absent} IN
    DOMAIN job[j].seen \union rest \union Column(j, rest)
Committed(j) ==
    [job[j] EXCEPT
        !.pc = IF job[j].kind \in Many \union {"reorder"} THEN "cascade" ELSE "refresh",
        !.version = version + 1, !.todo = {},
        !.to = IF job[j].kind \in Many THEN [t \in Changed(j) |-> job[j].to[t]] ELSE job[j].to,
        !.seen = [t \in Holds(j) |-> IF t \in Changed(j) THEN job[j].to[t] ELSE Value(j, t)]]

LEMMA CommittedTypes ==
    ASSUME BoardInv, NEW j \in Jobs
    PROVE  LET r == Committed(j)
               k == job[j].kind IN
           /\ Holds(j) \in SUBSET Tasks
           /\ r \in Job /\ r.pc \in {"refresh", "cascade"} /\ r.kind = k
           /\ r.seenMs = job[j].seenMs /\ r.todo = {} /\ (r.pc = "refresh" => k \notin Many)
           /\ k \in Many => r.to = [t \in Changed(j) |-> job[j].to[t]]
           /\ k \notin Many => r.to = job[j].to
           /\ r.seen = [t \in Holds(j) |-> IF t \in Changed(j) THEN job[j].to[t] ELSE Value(j, t)]
<1> DEFINE k == job[j].kind
           p == IF k \in Many \union {"reorder"} THEN "cascade" ELSE "refresh"
           to == IF k \in Many THEN [t \in Changed(j) |-> job[j].to[t]] ELSE job[j].to
           rows == [t \in Holds(j) |-> IF t \in Changed(j) THEN job[j].to[t] ELSE Value(j, t)]
           v == version + 1
           r == [job[j] EXCEPT !.pc = p, !.version = v, !.todo = {}, !.to = to, !.seen = rows]
<1>1. job[j] \in Job /\ job[j].to \in Seen /\ job[j].seen \in Seen /\ v \in Nat
      /\ job[j].todo \subseteq Tasks
    BY DEF BoardInv, Types, Job
<1>2. /\ DOMAIN job[j].to \subseteq Tasks /\ DOMAIN job[j].seen \subseteq Tasks
      /\ \A t \in DOMAIN job[j].to : job[j].to[t] \in AllStatuses \union {Absent}
      /\ \A t \in Tasks : Value(j, t) \in AllStatuses \union {Absent}
    BY <1>1, SeenTypes DEF Value, BoardInv, Types, Rows
<1>3. Holds(j) \in SUBSET Tasks /\ Changed(j) \in SUBSET Tasks /\ Changed(j) \subseteq DOMAIN job[j].to
    BY <1>1, <1>2 DEF Holds, Column, Changed
<1>4. rows \in Seen
    <2>1. rows \in [Holds(j) -> AllStatuses \union {Absent}]
        BY <1>2, <1>3
    <2> QED  BY <1>3, <2>1, SeenTypes
<1>5. to \in Seen
    <2>1. [t \in Changed(j) |-> job[j].to[t]] \in [Changed(j) -> AllStatuses \union {Absent}]
        BY <1>2, <1>3
    <2> QED  BY <1>1, <1>3, <2>1, SeenTypes
<1>6. p \in {"refresh", "cascade"} /\ p \in JobStates /\ (p = "refresh" => k \notin Many)
    BY DEF JobStates
<1>7. Committed(j) = r
    BY DEF Committed
<1> HIDE DEF p, to, rows, v
<1>8. /\ r \in Job /\ r.pc = p /\ r.kind = k /\ r.seenMs = job[j].seenMs /\ r.todo = {}
      /\ r.to = to /\ r.seen = rows
    BY <1>1, <1>4, <1>5, <1>6 DEF Job
<1> HIDE DEF r
<1> QED  BY <1>3, <1>6, <1>7, <1>8 DEF to, rows

(* The commit, whether it fails, ends the request or leads to the cascade.    *)
LEMMA CommitCases ==
    ASSUME NEW j \in Jobs, Commit(j)
    PROVE  /\ job[j].pc = "commit" /\ UNCHANGED <<milestone, overlap>>
           /\ \/ /\ job' = [job EXCEPT ![j] = Answered(j, "refused")]
                 /\ UNCHANGED <<tasks, version, settled, trusted>>
              \/ /\ ~MustFail(j) /\ Commits(j)
                 /\ job' = [job EXCEPT ![j] = IF Runs(j) THEN Committed(j)
                               ELSE [Answered(j, "replied") EXCEPT !.version = version + 1]]
    BY DEF Commit, Commits, Committed, Holds

LEMMA CommitKeeps == ASSUME BoardInv, NEW j \in Jobs, Commit(j) PROVE BoardInv'
<1> DEFINE q == [Answered(j, "replied") EXCEPT !.version = version + 1]
<1>1. job[j].pc = "commit" /\ UNCHANGED <<milestone, overlap>>
    BY CommitCases
<1>2. CASE job' = [job EXCEPT ![j] = Answered(j, "refused")]
           /\ UNCHANGED <<tasks, version, settled, trusted>>
    <2>1. trusted' \in BOOLEAN /\ ~Cascades(j)
        BY <1>1, <1>2 DEF BoardInv, Types, Cascades
    <2> QED  BY <1>1, <1>2, <2>1, AnsweredLeaves
<1>3. CASE /\ ~MustFail(j) /\ Commits(j)
           /\ job' = [job EXCEPT ![j] = IF Runs(j) THEN Committed(j) ELSE q]
    <2>1. CASE Runs(j)
        <3> DEFINE r == Committed(j)
        <3>1. job' = [job EXCEPT ![j] = r]
            BY <1>3, <2>1
        <3>2. /\ Holds(j) \in SUBSET Tasks
              /\ r \in Job /\ r.pc \in {"refresh", "cascade"} /\ r.kind = job[j].kind
              /\ r.seenMs = job[j].seenMs /\ r.todo = {} /\ (r.pc = "refresh" => job[j].kind \notin Many)
              /\ job[j].kind \in Many => r.to = [t \in Changed(j) |-> job[j].to[t]]
              /\ job[j].kind \notin Many => r.to = job[j].to
              /\ r.seen = [t \in Holds(j) |-> IF t \in Changed(j) THEN job[j].to[t] ELSE Value(j, t)]
            BY CommittedTypes
        <3> HIDE DEF r
        <3> QED  BY <1>3, <2>1, <3>1, <3>2, CommitRunsKeeps
    <2>2. CASE ~Runs(j)
        <3>1. job[j] \in Job /\ version + 1 \in Nat
            BY DEF BoardInv, Types
        <3>2. Answered(j, "replied") \in Job /\ Answered(j, "replied").pc = "replied"
            BY <3>1, AnsweredTypes DEF JobStates
        <3>3. q \in Job /\ q.pc = "replied"
            <4>1. \A a \in Job : /\ [a EXCEPT !.version = version + 1] \in Job
                                 /\ [a EXCEPT !.version = version + 1].pc = a.pc
                BY <3>1 DEF Job
            <4> QED  BY <3>2, <4>1
        <3>4. job' = [job EXCEPT ![j] = q]
            BY <1>3, <2>2
        <3> HIDE DEF q
        <3> QED  BY <1>3, <2>2, <3>3, <3>4, CommitEndsKeeps
    <2> QED  BY <2>1, <2>2
<1> QED  BY <1>2, <1>3, CommitCases

(* update_milestone: whatever it writes, nobody relies on it.                 *)
LEMMA CommitMilestoneKeeps ==
    ASSUME BoardInv, NEW j \in Jobs, CommitMilestone(j) PROVE BoardInv'
<1>1. /\ job[j].pc = "commit" /\ job[j].kind = "milestone"
      /\ milestone' = IF job[j].desired = job[j].seenMs THEN milestone ELSE job[j].desired
      /\ settled' = (settled /\ milestone' = milestone)
      /\ trusted' = (trusted /\ milestone' = milestone)
      /\ job' = [job EXCEPT ![j] = Answered(j, "replied")]
      /\ UNCHANGED <<tasks, version, overlap>>
    BY DEF CommitMilestone
<1>2. job[j] \in Job /\ Running(j) /\ Sound(j)
    BY <1>1 DEF BoardInv, Types, AllSound, Running
<1>3. Answered(j, "replied") \in Job /\ Answered(j, "replied").pc = "replied"
    BY <1>2, AnsweredTypes DEF JobStates
<1>4. /\ settled' \in BOOLEAN /\ (settled' => settled /\ milestone' = milestone)
      /\ trusted' \in BOOLEAN /\ (trusted' => trusted /\ milestone' = milestone)
    BY <1>1, Zenon
<1>5. milestone' \in Milestones
    BY <1>1, <1>2 DEF Sound, Shape, BoardInv, Types
<1>6. Types'
    BY <1>1, <1>3, <1>4, <1>5 DEF BoardInv, Types
<1>7. Right'
    BY <1>1, <1>4 DEF BoardInv, Right
<1>8. NoneOpen'
    <2>1. \A i \in Jobs : Cascades(i) => Cascades(i)'
        BY <1>1 DEF BoardInv, Types, Cascades
    <2> QED  BY <1>1, <1>4, <2>1 DEF BoardInv, NoneOpen, Closed
<1>9. Answered(j, "replied").pc \notin RunStates \union {"idle"} /\ job[j].pc # "idle"
    BY <1>1, <1>3 DEF RunStates
<1> QED  BY <1>1, <1>2, <1>3, <1>4, <1>6, <1>7, <1>8, <1>9, Moves

--------------------------------------------------------------------------------
(* The cascade.                                                               *)

(* One call of the cascade ends, with the milestone it wanted.  If that is    *)
(* right for a request alone, the request may go on to the next call, or be   *)
(* answered.                                                                  *)
LEMMA CallEnds ==
    ASSUME BoardInv, NEW j \in Jobs, job[j].pc \in {"cascade", "write"},
           NEW to \in Seen, DOMAIN to \subseteq DOMAIN job[j].to,
           \A t \in DOMAIN to : to[t] = job[j].to[t],
           job[j].kind \notin Many => DOMAIN to = DOMAIN job[j].to,
           NEW ms \in Milestones \union {Absent},
           job' = [job EXCEPT ![j] = After(j, to, ms)],
           UNCHANGED <<tasks, version, overlap>>, milestone' \in Milestones,
           settled' \in BOOLEAN, trusted' \in BOOLEAN,
           settled => milestone' = milestone,
           settled' => settled \/ Clean(j), trusted' => trusted \/ Clean(j),
           job[j].kind \in Many /\ (settled' \/ j \notin overlap) => ms \in {Absent, milestone'},
           job[j].kind \in Many /\ j \notin overlap /\ ms # Absent => settled',
           Right', trusted' /\ milestone' = "completed" => Closed
    PROVE  BoardInv'
<1>1. job[j] \in Job /\ Running(j) /\ Sound(j) /\ Cascades(j)
    BY DEF BoardInv, Types, AllSound, Running, Cascades
<1>2. Clean(j) => j \notin overlap
    BY DEF Clean
<1>3. NoneOpen'
    BY DEF NoneOpen, Closed
<1>4. /\ (settled' => settled /\ UNCHANGED <<tasks, milestone>>) \/ (Running(j) /\ j \notin overlap)
      /\ trusted' => trusted \/ (Running(j) /\ j \notin overlap)
    BY <1>1, <1>2
<1>5. ASSUME NEW r \in Job, job' = [job EXCEPT ![j] = r] PROVE Types' /\ job'[j] = r
    BY <1>5 DEF BoardInv, Types
<1>6. CASE job' = [job EXCEPT ![j] = Reply(j)]
    <2>1. /\ Reply(j) \in Job /\ Reply(j).pc \notin RunStates \union {"idle"} /\ job[j].pc # "idle"
        BY ReplyTypes DEF BoardInv, RunStates
    <2> QED  BY <1>1, <1>3, <1>4, <1>5, <1>6, <2>1, Moves
<1>7. CASE /\ job[j].kind \in Many /\ DOMAIN to # {}
           /\ job' = [job EXCEPT ![j] = [job[j] EXCEPT !.pc = "cascade", !.to = to, !.seenMs = ms]]
    <2> DEFINE r == [job[j] EXCEPT !.pc = "cascade", !.to = to, !.seenMs = ms]
    <2>1. /\ r \in Job /\ r.pc = "cascade" /\ r.kind = job[j].kind /\ r.to = to
          /\ r.todo = job[j].todo /\ r.seenMs = ms /\ r.seen = job[j].seen
          /\ r.desired = job[j].desired
        BY <1>1 DEF Job, JobStates
    <2>2. job' = [job EXCEPT ![j] = r]
        BY <1>7
    <2> HIDE DEF r
    <2>3. Types' /\ job'[j] = r
        BY <1>5, <2>1, <2>2
    <2>4. job[j].kind \in StatusKinds
        BY <1>1, <1>7 DEF Sound, Shape, Cascades, Many
    <2>5. Shape(r)
        <3>1. Shape(job[j]) /\ job[j].kind \notin {"milestone", "create", "update"}
              /\ job[j].kind \notin Inserts /\ job[j].kind \notin Removes
            BY <1>1, <1>7, <2>4, KindFacts DEF Sound, Many
        <3>2. r.todo \subseteq DOMAIN r.to
            BY <1>1, <2>1 DEF Sound, Shape
        <3> QED  BY <1>7, <2>1, <2>4, <3>1, <3>2 DEF Shape
    <2>6. settled' \/ j \notin overlap => Current(j)'
        BY <1>1, <1>2, <1>7, <2>1, <2>3 DEF Sound, Current
    <2>7. j \notin overlap => Aim(j)'
        BY <1>1, <1>7, <2>1, <2>3 DEF Sound, Aim, Cascades
    <2>8. Sound(j)'
        BY <2>1, <2>3, <2>4, <2>5, <2>6, <2>7 DEF Sound
    <2>9. r.pc # "idle" /\ job[j].pc # "idle"
        BY <2>1
    <2> QED  BY <1>1, <1>3, <1>4, <2>1, <2>2, <2>3, <2>8, <2>9, Moves
<1> QED  BY <1>6, <1>7 DEF After

(* What is left for further calls.                                            *)
LEMMA LeftTypes ==
    ASSUME BoardInv, NEW j \in Jobs, NEW t
    PROVE  /\ Left(j, t) \in Seen /\ DOMAIN Left(j, t) \subseteq DOMAIN job[j].to
           /\ \A u \in DOMAIN Left(j, t) : Left(j, t)[u] = job[j].to[u]
           /\ job[j].kind \notin Many => Left(j, t) = job[j].to
<1>1. job[j].to \in Seen
    BY DEF BoardInv, Types, Job
<1>2. PICK D \in SUBSET Tasks : job[j].to \in [D -> AllStatuses \union {Absent}]
    BY <1>1 DEF Seen
<1>3. [u \in DOMAIN job[j].to \ {t} |-> job[j].to[u]] \in [D \ {t} -> AllStatuses \union {Absent}]
    BY <1>2
<1> QED  BY <1>1, <1>2, <1>3, SeenTypes DEF Left

(* Nothing to call for: alone, that only happens to a milestone that an       *)
(* earlier call has set right.                                                *)
LEMMA CascadeSkipKeeps ==
    ASSUME BoardInv, NEW j \in Jobs, NEW t \in Tasks, CascadeSkip(j, t) PROVE BoardInv'
<1>1. /\ job[j].pc = "cascade" /\ t \in DOMAIN job[j].to
      /\ tasks[t] = Absent \/ (job[j].kind \in Many /\ job[j].seenMs # Absent)
      /\ job' = [job EXCEPT ![j] = After(j, Left(j, t), job[j].seenMs)]
      /\ UNCHANGED <<tasks, milestone, version, overlap, settled, trusted>>
    BY DEF CascadeSkip
<1>2. job[j].seenMs \in Milestones \union {Absent} /\ Sound(j) /\ Running(j)
    BY <1>1 DEF BoardInv, Types, Job, AllSound, Running
<1>3. settled \/ j \notin overlap => job[j].seenMs \in {Absent, milestone}
    BY <1>2 DEF Sound, Current
<1>4. job[j].kind \in Many /\ j \notin overlap /\ job[j].seenMs # Absent => settled
    BY <1>1, <1>2 DEF Sound, Aim
<1>5. trusted /\ milestone = "completed" => Closed
    <2> SUFFICES ASSUME trusted, milestone = "completed" PROVE Closed
        OBVIOUS
    <2>1. j \notin overlap
        BY <1>2 DEF BoardInv, Apart
    <2>2. settled
        BY <1>1, <1>2, <1>4, <2>1 DEF Sound, Aim, Cascades
    <2> QED  BY <1>1, <2>2, RightIsClosed DEF BoardInv, Right
<1>6. Right' /\ milestone' \in Milestones /\ settled' \in BOOLEAN /\ trusted' \in BOOLEAN
    BY <1>1 DEF BoardInv, Types, Right
<1> DEFINE to == Left(j, t)
           ms == job[j].seenMs
<1>7. /\ to \in Seen /\ DOMAIN to \subseteq DOMAIN job[j].to
      /\ \A u \in DOMAIN to : to[u] = job[j].to[u]
      /\ job[j].kind \notin Many => to = job[j].to
    BY LeftTypes
<1>8. job' = [job EXCEPT ![j] = After(j, to, ms)] /\ ms \in Milestones \union {Absent}
    BY <1>1, <1>2
<1> HIDE DEF to
<1> QED  BY <1>1, <1>3, <1>4, <1>5, <1>6, <1>7, <1>8, CallEnds

(* The siblings are read: the milestone fits, or will be written.             *)
LEMMA CascadeReadKeeps ==
    ASSUME BoardInv, NEW j \in Jobs, NEW t \in Tasks, CascadeRead(j, t) PROVE BoardInv'
<1> DEFINE k == job[j].kind
           ms == SeenMilestone(j)
           to == Left(j, t)
<1>1. /\ job[j].pc = "cascade" /\ t \in DOMAIN job[j].to
      /\ UNCHANGED <<tasks, milestone, version, overlap>>
    BY DEF CascadeRead
<1>2. PICK held \in Held(j) :
          IF Desired(j, held) = ms
          THEN job' = [job EXCEPT ![j] = After(j, to, ms)] /\ Cascaded(j)
          ELSE /\ job' = [job EXCEPT ![j].pc = "write", ![j].desired = Desired(j, held), ![j].to = to]
               /\ UNCHANGED <<settled, trusted>>
    BY DEF CascadeRead
<1>3. /\ job[j] \in Job /\ Sound(j) /\ Running(j) /\ Shape(job[j]) /\ Cascades(j)
      /\ milestone \in Milestones /\ settled \in BOOLEAN /\ trusted \in BOOLEAN
    BY <1>1 DEF BoardInv, Types, AllSound, Running, Sound, Cascades
<1>4. settled \/ j \notin overlap => Siblings(j, held) = tasks /\ ms = milestone
    BY <1>1, <1>3, CurrentValues DEF BoardInv, Sound
<1>5. /\ trusted => j \notin overlap
      /\ settled => k \in StatusKinds /\ milestone \in {Derive(tasks), "cancelled"}
    BY <1>3 DEF BoardInv, Apart, Sound, Right
<1>6. /\ k \in StatusKinds \union {"create", "addTask"} /\ ms \in Milestones
      /\ k \in StatusKinds <=> k \notin Inserts
      /\ k \in Many => k \in StatusKinds
    BY <1>1, <1>3, KindFacts DEF Shape, SeenMilestone, Many
<1>7. /\ to \in Seen /\ DOMAIN to \subseteq DOMAIN job[j].to
      /\ \A u \in DOMAIN to : to[u] = job[j].to[u]
      /\ k \notin Many => to = job[j].to
    BY LeftTypes
<1> HIDE DEF to
<1>8. CASE Desired(j, held) = ms
    <2>1. job' = [job EXCEPT ![j] = After(j, to, ms)] /\ Cascaded(j)
        BY <1>2, <1>8
    <2>2. /\ settled' \in BOOLEAN /\ (settled' <=> settled \/ Clean(j))
          /\ trusted' \in BOOLEAN /\ (trusted' <=> trusted \/ Clean(j))
        BY <1>3, <2>1, Zenon DEF Cascaded
    <2>3. (settled \/ j \notin overlap) /\ k \in StatusKinds => milestone \in {Derive(tasks), "cancelled"}
        BY <1>4, <1>6, <1>8 DEF Desired
    <2>4. j \notin overlap /\ k \in Inserts => milestone # "completed"
        BY <1>4, <1>8 DEF Desired
    <2>5. Clean(j) <=> k \in StatusKinds /\ j \notin overlap
        BY DEF Clean
    <2>6. Right'
        BY <1>1, <1>5, <2>2, <2>3, <2>5 DEF Right
    <2>7. trusted' /\ milestone' = "completed" => Closed
        <3> SUFFICES ASSUME trusted', milestone' = "completed" PROVE Closed
            OBVIOUS
        <3>1. j \notin overlap
            BY <1>5, <2>2, <2>5
        <3>2. k \in StatusKinds
            BY <1>1, <1>6, <2>4, <3>1
        <3> QED  BY <1>1, <2>3, <3>1, <3>2, RightIsClosed DEF BoardInv
    <2>8. /\ k \in Many /\ (settled' \/ j \notin overlap) => ms \in {Absent, milestone'}
          /\ k \in Many /\ j \notin overlap /\ ms # Absent => settled'
        BY <1>1, <1>4, <1>6, <2>2, <2>5
    <2>9. milestone' \in Milestones /\ ms \in Milestones \union {Absent}
        BY <1>1, <1>3, <1>6
    <2> HIDE DEF ms
    <2> QED  BY <1>1, <1>7, <2>1, <2>2, <2>6, <2>7, <2>8, <2>9, CallEnds
<1>9. CASE Desired(j, held) # ms
    <2> DEFINE d == Desired(j, held)
               r == [job[j] EXCEPT !.pc = "write", !.desired = d, !.to = to]
    <2>1. job' = [job EXCEPT ![j] = r] /\ UNCHANGED <<settled, trusted>>
        BY <1>2, <1>9
    <2>2. ~settled
        BY <1>4, <1>5, <1>6, <1>9 DEF Desired
    <2>3. d \in Milestones
        <3>1. "in_progress" \in Milestones /\ "cancelled" \in Milestones
            BY DEF Milestones
        <3> QED  BY <1>6, <3>1, DeriveFacts DEF Desired
    <2>4. j \notin overlap => d = IF k \in Inserts THEN "in_progress" ELSE Derive(tasks)
        BY <1>4, <1>9 DEF Desired
    <2> HIDE DEF d
    <2>5. /\ r \in Job /\ r.pc = "write" /\ r.desired = d /\ r.kind = k /\ r.to = to
          /\ r.todo = job[j].todo /\ r.seen = job[j].seen /\ r.seenMs = job[j].seenMs
        BY <1>3, <1>7, <2>3 DEF Job, JobStates
    <2> HIDE DEF r
    <2>6. job'[j] = r
        BY <2>1 DEF BoardInv, Types
    <2>7. Shape(r)
        <3>1. job[j].todo = {}
            BY <1>1, <1>3 DEF Shape
        <3> QED  BY <1>1, <1>3, <1>6, <1>7, <2>3, <2>5, <3>1 DEF Shape
    <2>8. j \notin overlap => Current(j)' /\ Aim(j)'
        BY <1>1, <1>3, <1>7, <2>4, <2>5, <2>6 DEF Sound, Current, Aim, Cascades
    <2>9. Sound(j)'
        BY <1>1, <2>1, <2>2, <2>6, <2>7, <2>8 DEF Sound
    <2> QED  BY <1>1, <1>3, <2>1, <2>5, <2>9, RunsOn DEF RunStates
<1> QED  BY <1>8, <1>9

(* The milestone is written.                                                  *)
LEMMA CascadeWriteKeeps == ASSUME BoardInv, NEW j \in Jobs, CascadeWrite(j) PROVE BoardInv'
<1> DEFINE k == job[j].kind
           d == job[j].desired
           to == job[j].to
<1>1. /\ job[j].pc = "write" /\ milestone' = d /\ Cascaded(j)
      /\ job' = [job EXCEPT ![j] = After(j, to, d)]
      /\ UNCHANGED <<tasks, version, overlap>>
    BY DEF CascadeWrite
<1>2. /\ Sound(j) /\ Running(j) /\ Shape(job[j]) /\ Cascades(j) /\ to \in Seen
      /\ settled \in BOOLEAN /\ trusted \in BOOLEAN
    BY <1>1 DEF BoardInv, Types, AllSound, Running, Sound, Cascades, Job
<1>3. ~settled /\ (trusted => j \notin overlap)
    BY <1>1, <1>2 DEF Sound, BoardInv, Apart
<1>4. /\ d \in Milestones /\ (k \in StatusKinds <=> k \notin Inserts)
      /\ k \in Many => k \in StatusKinds
    BY <1>1, <1>2, KindFacts DEF Shape, Many
<1>5. j \notin overlap => d = IF k \in Inserts THEN "in_progress" ELSE Derive(tasks)
    BY <1>1, <1>2 DEF Sound, Aim
<1>6. /\ settled' \in BOOLEAN /\ (settled' <=> settled \/ Clean(j))
      /\ trusted' \in BOOLEAN /\ (trusted' <=> trusted \/ Clean(j))
    BY <1>1, <1>2, Zenon DEF Cascaded
<1>7. Clean(j) <=> k \in StatusKinds /\ j \notin overlap
    BY DEF Clean
<1>8. Right'
    BY <1>1, <1>3, <1>4, <1>5, <1>6, <1>7 DEF Right
<1>9. trusted' /\ milestone' = "completed" => Closed
    <2> SUFFICES ASSUME trusted', milestone' = "completed" PROVE Closed
        OBVIOUS
    <2>1. j \notin overlap
        BY <1>3, <1>6, <1>7
    <2>2. milestone' = Derive(tasks)
        BY <1>1, <1>5, <2>1
    <2> QED  BY <2>2, RightIsClosed DEF BoardInv
<1>10. /\ k \in Many /\ j \notin overlap /\ d # Absent => settled'
       /\ d \in {Absent, milestone'} /\ milestone' \in Milestones /\ d \in Milestones \union {Absent}
    BY <1>1, <1>4, <1>6, <1>7
<1> HIDE DEF d, to
<1> QED  BY <1>1, <1>2, <1>3, <1>6, <1>8, <1>9, <1>10, CallEnds DEF to

(* Every step preserves the invariant.                                        *)
LEMMA NextBoard == BoardInv /\ [Next]_vars => BoardInv'
<1> SUFFICES ASSUME BoardInv, [Next]_vars PROVE BoardInv'
    OBVIOUS
<1>1. ASSUME NEW j \in Jobs, User(j) \/ Fault(j) \/ Callback(j) PROVE BoardInv'
    BY <1>1, UserKeeps, FaultKeeps, CallbackKeeps
<1>2. ASSUME NEW j \in Jobs, Server(j) PROVE BoardInv'
    BY <1>2, LoadKeeps, LoadMilestoneKeeps, CommitKeeps, CommitMilestoneKeeps, RefreshTaskKeeps,
       CascadeSkipKeeps, CascadeReadKeeps, CascadeWriteKeeps
       DEF Server
<1>3. CASE FetchRead \/ FetchEnds \/ Refetch \/ UNCHANGED vars
    <2>1. UNCHANGED <<tasks, milestone, version, job, overlap, settled, trusted>>
        BY <1>3 DEF FetchRead, FetchEnds, Refetch, vars
    <2> QED  BY <2>1, Unmoved
<1> QED  BY <1>1, <1>2, <1>3 DEF Next

--------------------------------------------------------------------------------
(* For any number of tasks and requests, and whatever failed, raced, bypassed *)
(* the cascade or was set by hand before: a change of status that ran alone   *)
(* has set the milestone right, unless it was cancelled, and it stays right   *)
(* until a task or the milestone is written again.                            *)
THEOREM CascadeRepairs == Spec => []MilestoneTracksTasks
<1>1. BoardInv => MilestoneTracksTasks
    BY DEF BoardInv, Right, MilestoneTracksTasks
<1> QED  BY <1>1, InitBoard, NextBoard, PTL DEF Spec

(* For any number of tasks and requests: after such a change a completed      *)
(* milestone has no open task, whatever the board, batch reorders and         *)
(* add_task do one after the other, until requests overlap, a cascade fails,  *)
(* or somebody writes the milestone by hand or a task without a cascade.      *)
THEOREM CompletedIsHonest == Spec => []CompletedMeansDone
<1>1. BoardInv => CompletedMeansDone
    BY DEF BoardInv, NoneOpen, Closed, CompletedMeansDone, Idle, Running, Cascades
<1> QED  BY <1>1, InitBoard, NextBoard, PTL DEF Spec

--------------------------------------------------------------------------------
(* Types.  A list is never newer than the table, and every commit is one      *)
(* request's, so the version is bounded by the requests that are past theirs. *)

Early == {"idle", "load", "commit"}
Past == {j \in Jobs : job[j].pc \notin Early}

Lists ==
    /\ cache \in [rows : Rows, version : Nat, stale : BOOLEAN]
    /\ cache.version <= version
    /\ fetch.pc \in {"none", "sent", "read"} /\ fetch.version \in Nat
    /\ fetch.version <= version
    /\ fetch.pc = "read" => fetch.rows \in Rows

Count == version \in Nat /\ version <= Cardinality(Past) /\ faults \in 0 .. MaxFaults

(* The number of requests past their commit, when one more gets there.        *)
LEMMA PastGrows ==
    ASSUME Count, Past \subseteq Past',
           \/ version' = version
           \/ version' = version + 1 /\ \E j \in Jobs : j \in Past' /\ j \notin Past
    PROVE  version' \in Nat /\ version' <= Cardinality(Past') /\ Past' \in SUBSET Jobs
<1>1. Past \in SUBSET Jobs /\ Past' \in SUBSET Jobs /\ IsFiniteSet(Jobs)
    BY BoardAssumption DEF Past
<1>2. IsFiniteSet(Past) /\ IsFiniteSet(Past')
    BY <1>1, FS_Subset
<1>3. Cardinality(Past) \in Nat /\ Cardinality(Past') \in Nat
    BY <1>2, FS_CardinalityType
<1>4. CASE version' = version
    <2>1. Cardinality(Past) <= Cardinality(Past')
        BY <1>2, FS_Subset
    <2> QED  BY <1>1, <1>3, <1>4, <2>1 DEF Count
<1>5. ASSUME version' = version + 1, NEW j \in Jobs, j \in Past', j \notin Past
      PROVE  version' \in Nat /\ version' <= Cardinality(Past')
    <2>1. Cardinality(Past \union {j}) = Cardinality(Past) + 1
        BY <1>2, <1>5, FS_AddElement
    <2>2. Past \union {j} \in SUBSET Past'
        BY <1>5
    <2>3. Cardinality(Past \union {j}) <= Cardinality(Past')
        BY <1>2, <2>2, FS_Subset
    <2> QED  BY <1>3, <1>5, <2>1, <2>3 DEF Count
<1> QED  BY <1>1, <1>4, <1>5

(* A request moves; once past its commit it does not come back before it, and *)
(* only with its commit does the version grow.                                *)
Step(j) ==
    \E q : /\ job' = [job EXCEPT ![j] = q]
           /\ q.pc \in Early => job[j].pc \in Early
           /\ \/ version' = version
              \/ version' = version + 1 /\ job[j].pc \in Early /\ q.pc \notin Early

LEMMA StepCounts ==
    ASSUME Types, NEW j \in Jobs, Step(j)
    PROVE  /\ Past \subseteq Past'
           /\ \/ version' = version
              \/ version' = version + 1 /\ \E i \in Jobs : i \in Past' /\ i \notin Past
<1>1. PICK q : /\ job' = [job EXCEPT ![j] = q]
               /\ q.pc \in Early => job[j].pc \in Early
               /\ \/ version' = version
                  \/ version' = version + 1 /\ job[j].pc \in Early /\ q.pc \notin Early
    BY DEF Step
<1>2. \A i \in Jobs : job'[i] = IF i = j THEN q ELSE job[i]
    BY <1>1 DEF Types
<1> QED  BY <1>1, <1>2 DEF Past

(* What follows a call of the cascade is past the commit.                     *)
LEMMA AfterIsPast ==
    ASSUME Types, NEW j \in Jobs, NEW to, NEW ms PROVE After(j, to, ms).pc \notin Early
<1>1. Reply(j).pc \notin Early /\ job[j] \in Job
    BY ReplyTypes DEF Early, Types
<1>2. [job[j] EXCEPT !.pc = "cascade", !.to = to, !.seenMs = ms].pc = "cascade"
    BY <1>1 DEF Job
<1> QED  BY <1>1, <1>2 DEF After, Early

LEMMA EveryStep ==
    ASSUME BoardInv, [Next]_vars
    PROVE  (\E j \in Jobs : Step(j)) \/ UNCHANGED <<job, version>>
<1>1. Types /\ \A j \in Jobs : job[j] \in Job
    BY DEF BoardInv, Types
<1>2. ASSUME NEW j \in Jobs, NEW p \in JobStates \ Early, version' = version,
             job' = [job EXCEPT ![j] = Answered(j, p)]
      PROVE  Step(j)
    BY <1>1, <1>2, AnsweredTypes DEF Step
<1>3. ASSUME NEW j \in Jobs, NEW q, job' = [job EXCEPT ![j] = q], job[j].pc \in Early, version' = version
      PROVE  Step(j)
    BY <1>3 DEF Step
<1>4. ASSUME NEW j \in Jobs, NEW q, job' = [job EXCEPT ![j] = q], q.pc \notin Early,
             version' = version \/ (version' = version + 1 /\ job[j].pc \in Early)
      PROVE  Step(j)
    BY <1>4 DEF Step
<1>5. ASSUME NEW j \in Jobs, User(j) PROVE Step(j)
    <2>1. PICK k, to, edit : Mutate(j, k, to, edit)
        BY <1>5, UserIsProper
    <2> QED  BY <1>3, <2>1 DEF Mutate, Early
<1>6. ASSUME NEW j \in Jobs, Fault(j) \/ CommitMilestone(j) PROVE Step(j)
    <2>1. \E p \in JobStates \ Early : job' = [job EXCEPT ![j] = Answered(j, p)]
        BY <1>6 DEF Fault, CommitMilestone, Reply, JobStates, Early
    <2> QED  BY <1>2, <1>6, <2>1 DEF Fault, CommitMilestone
<1>7. ASSUME NEW j \in Jobs, Callback(j) PROVE Step(j)
    <2>1. PICK p \in {"ok", "error"} : job' = [job EXCEPT ![j] = [job[j] EXCEPT !.pc = p]]
                                       /\ version' = version
        BY <1>7 DEF Callback, OnSuccess, OnError
    <2>2. [job[j] EXCEPT !.pc = p].pc \notin Early
        BY <1>1 DEF Job, Early
    <2> QED  BY <1>4, <2>1, <2>2
<1>8. ASSUME NEW j \in Jobs, LoadMilestone(j) \/ \E t \in Tasks : Load(j, t) PROVE Step(j)
    <2>1. job[j].pc \in Early /\ version' = version /\ \E q : job' = [job EXCEPT ![j] = q]
        BY <1>8 DEF Load, LoadMilestone, Early
    <2> QED  BY <1>3, <2>1
<1>9. ASSUME NEW j \in Jobs, NEW t \in Tasks, CascadeSkip(j, t) \/ CascadeRead(j, t) \/ CascadeWrite(j)
      PROVE  Step(j)
    <2>1. CASE \E to, ms : job' = [job EXCEPT ![j] = After(j, to, ms)]
        BY <1>1, <1>4, <1>9, <2>1, AfterIsPast DEF CascadeSkip, CascadeRead, CascadeWrite
    <2>2. CASE \E d, to : job' = [job EXCEPT ![j].pc = "write", ![j].desired = d, ![j].to = to]
        <3>1. PICK d, to : job' = [job EXCEPT ![j].pc = "write", ![j].desired = d, ![j].to = to]
            BY <2>2
        <3> DEFINE q == [job[j] EXCEPT !.pc = "write", !.desired = d, !.to = to]
        <3>2. job' = [job EXCEPT ![j] = q]
            BY <3>1
        <3>3. q.pc = "write"
            BY <1>1 DEF Job
        <3> HIDE DEF q
        <3> QED  BY <1>4, <1>9, <3>2, <3>3 DEF Early, CascadeSkip, CascadeRead, CascadeWrite
    <2> QED  BY <1>9, <2>1, <2>2 DEF CascadeSkip, CascadeRead, CascadeWrite
<1>10. ASSUME NEW j \in Jobs, CascadeWrite(j) PROVE Step(j)
    BY <1>1, <1>4, <1>10, AfterIsPast DEF CascadeWrite
<1>11. ASSUME NEW j \in Jobs, RefreshTask(j) PROVE Step(j)
    <2>1. CASE job' = [job EXCEPT ![j] = Answered(j, "refused")]
        BY <1>2, <1>11, <2>1 DEF RefreshTask, JobStates, Early
    <2>2. ASSUME NEW f, job' = [job EXCEPT ![j] = [job[j] EXCEPT !.pc = "cascade", !.seen = f]]
          PROVE  Step(j)
        <3>1. [job[j] EXCEPT !.pc = "cascade", !.seen = f].pc \notin Early
            BY <1>1 DEF Job, Early
        <3> QED  BY <1>4, <1>11, <2>2, <3>1 DEF RefreshTask
    <2> QED  BY <1>11, <2>1, <2>2 DEF RefreshTask
<1>12. ASSUME NEW j \in Jobs, Commit(j) PROVE Step(j)
    <2>1. job[j].pc \in Early
        BY <1>12, CommitCases DEF Early
    <2>2. CASE job' = [job EXCEPT ![j] = Answered(j, "refused")] /\ version' = version
        BY <1>2, <2>2 DEF JobStates, Early
    <2>3. CASE job' = [job EXCEPT ![j] = Committed(j)] /\ version' = version + 1
        <3>1. Committed(j).pc \notin Early
            BY CommittedTypes DEF Early
        <3> QED  BY <1>4, <2>1, <2>3, <3>1
    <2>4. CASE job' = [job EXCEPT ![j] = [Answered(j, "replied") EXCEPT !.version = version + 1]]
               /\ version' = version + 1
        <3>1. Answered(j, "replied") \in Job /\ Answered(j, "replied").pc = "replied"
            BY <1>1, AnsweredTypes DEF JobStates
        <3>2. [Answered(j, "replied") EXCEPT !.version = version + 1].pc \notin Early
            BY <3>1 DEF Job, Early
        <3> QED  BY <1>4, <2>1, <2>4, <3>2
    <2> QED  BY <1>12, <2>2, <2>3, <2>4, CommitCases DEF Commits
<1>13. CASE FetchRead \/ FetchEnds \/ Refetch \/ UNCHANGED vars
    BY <1>13 DEF FetchRead, FetchEnds, Refetch, vars
<1> QED
    BY <1>5, <1>6, <1>7, <1>8, <1>9, <1>10, <1>11, <1>12, <1>13 DEF Next, Server

(* Every commit of the tasks is that of a request which is then past it.      *)
LEMMA EveryCommitCounts ==
    ASSUME BoardInv, [Next]_vars
    PROVE  /\ Past \subseteq Past'
           /\ \/ version' = version
              \/ version' = version + 1 /\ \E j \in Jobs : j \in Past' /\ j \notin Past
<1>1. CASE \E j \in Jobs : Step(j)
    BY <1>1, StepCounts DEF BoardInv
<1>2. CASE UNCHANGED <<job, version>>
    BY <1>2 DEF Past
<1> QED  BY <1>1, <1>2, EveryStep

(* A list that was fetched is the table of some moment.                       *)
LEMMA ListsKept ==
    ASSUME BoardInv, Lists, Count, version' \in Nat, version <= version', [Next]_vars
    PROVE  Lists'
<1>1. tasks \in Rows /\ version \in Nat
    BY DEF BoardInv, Types, Count
<1>2. ASSUME UNCHANGED <<cache, fetch>> PROVE Lists'
    BY <1>1, <1>2 DEF Lists
<1>3. NoFetch.pc = "none" /\ NoFetch.version = 0
    BY DEF NoFetch
<1>4. ASSUME Invalidate \/ Refetch PROVE Lists'
    <2>1. cache' = cache \/ cache' = [cache EXCEPT !.stale = TRUE]
        BY <1>4 DEF Invalidate, Refetch
    <2>2. cache' \in [rows : Rows, version : Nat, stale : BOOLEAN] /\ cache'.version = cache.version
        BY <2>1 DEF Lists
    <2>3. fetch'.pc = "sent" /\ fetch'.version = 0
        BY <1>4 DEF Invalidate, Refetch, NoFetch
    <2> QED  BY <1>1, <2>2, <2>3 DEF Lists
<1>5. ASSUME FetchRead PROVE Lists'
    <2>1. /\ fetch'.pc = "read" /\ fetch'.rows = tasks /\ fetch'.version = version
          /\ cache' = cache /\ version' = version
        BY <1>5 DEF FetchRead
    <2> QED  BY <1>1, <2>1 DEF Lists
<1>6. ASSUME FetchEnds PROVE Lists'
    <2>1. fetch' = NoFetch /\ version' = version
        BY <1>6 DEF FetchEnds
    <2>2. \/ cache' = [cache EXCEPT !.stale = TRUE]
          \/ /\ fetch.pc = "read"
             /\ cache' = [rows |-> fetch.rows, version |-> fetch.version, stale |-> FALSE]
        BY <1>6 DEF FetchEnds
    <2>3. cache' \in [rows : Rows, version : Nat, stale : BOOLEAN] /\ cache'.version <= version
        <3>1. CASE cache' = [cache EXCEPT !.stale = TRUE]
            BY <3>1 DEF Lists
        <3>2. CASE /\ fetch.pc = "read"
                   /\ cache' = [rows |-> fetch.rows, version |-> fetch.version, stale |-> FALSE]
            <4>1. fetch.rows \in Rows /\ fetch.version \in Nat /\ fetch.version <= version
                BY <3>2 DEF Lists
            <4> DEFINE w == fetch.rows
                       n == fetch.version
            <4>2. w \in Rows /\ n \in Nat /\ n <= version
                  /\ cache' = [rows |-> w, version |-> n, stale |-> FALSE]
                BY <3>2, <4>1
            <4> HIDE DEF w, n
            <4> QED  BY <4>2
        <3> QED  BY <2>2, <3>1, <3>2
    <2> QED  BY <1>1, <1>3, <2>1, <2>3 DEF Lists
<1>7. ASSUME NEW j \in Jobs, User(j) \/ Server(j) \/ Fault(j) PROVE UNCHANGED <<cache, fetch>>
    <2>1. CASE User(j)
        BY <2>1, UserIsProper DEF Mutate
    <2>2. CASE Server(j) \/ Fault(j)
        BY <2>2 DEF Server, Load, LoadMilestone, Commit, CommitMilestone, RefreshTask, CascadeSkip,
            CascadeRead, CascadeWrite, Fault
    <2> QED  BY <1>7, <2>1, <2>2
<1>8. ASSUME NEW j \in Jobs, Callback(j) PROVE Lists'
    BY <1>2, <1>4, <1>8 DEF Callback, OnSuccess, OnError
<1> QED  BY <1>2, <1>4, <1>5, <1>6, <1>7, <1>8 DEF Next, vars

(* For any number of tasks and requests: every status is one its table knows, *)
(* the milestone's column never holds a word of the tasks', there are no more *)
(* commits of tasks than requests, and neither the board's list nor a fetch   *)
(* under way is ever newer than the table.                                    *)
THEOREM TypeCorrect == Spec => []TypeOK
<1>1. Init => Lists /\ Count
    <2> SUFFICES ASSUME Init PROVE Lists /\ Count
        OBVIOUS
    <2>1. \A j \in Jobs : job[j].pc = "idle"
        BY DEF Init, NoJob
    <2>2. Past = {}
        BY <2>1 DEF Past, Early
    <2>3. Count
        BY <2>2, FS_EmptySet, BoardAssumption DEF Init, Count
    <2>4. tasks \in Rows
        BY DEF Init, Rows, AllStatuses
    <2> QED  BY <2>3, <2>4 DEF Init, Lists, NoFetch
<1>2. BoardInv /\ Lists /\ Count /\ [Next]_vars => (Lists /\ Count)'
    <2> SUFFICES ASSUME BoardInv, Lists, Count, [Next]_vars PROVE (Lists /\ Count)'
        OBVIOUS
    <2>1. version' \in Nat /\ version' <= Cardinality(Past') /\ version <= version'
        <3>1. version <= version'
            BY EveryCommitCounts DEF Count
        <3> QED  BY <3>1, EveryCommitCounts, PastGrows
    <2>2. faults' \in 0 .. MaxFaults
        <3>1. ASSUME NEW j \in Jobs, User(j) PROVE faults' = faults
            BY <3>1, UserIsProper DEF Mutate
        <3>2. ASSUME NEW j \in Jobs, Server(j) \/ Callback(j) PROVE faults' = faults
            BY <3>2 DEF Server, Load, LoadMilestone, Commit, CommitMilestone, RefreshTask,
                CascadeSkip, CascadeRead, CascadeWrite, Callback, OnSuccess, OnError
        <3>3. faults' = faults \/ (faults < MaxFaults /\ faults' = faults + 1)
            BY <3>1, <3>2 DEF Next, Fault, FetchRead, FetchEnds, Refetch, vars
        <3> QED  BY <3>3, BoardAssumption DEF Count
    <2>3. Lists'
        BY <2>1, ListsKept
    <2> QED  BY <2>1, <2>2, <2>3 DEF Count
<1>3. BoardInv /\ Lists /\ Count => TypeOK
    <2> SUFFICES ASSUME BoardInv, Lists, Count PROVE TypeOK
        OBVIOUS
    <2>1. Past \in SUBSET Jobs /\ IsFiniteSet(Jobs)
        BY BoardAssumption DEF Past
    <2>2. /\ Cardinality(Past) <= Cardinality(Jobs)
          /\ Cardinality(Past) \in Nat /\ Cardinality(Jobs) \in Nat
        BY <2>1, FS_Subset, FS_CardinalityType
    <2>3. version \in 0 .. Cardinality(Jobs)
        BY <2>2 DEF Count
    <2>4. \A j \in Jobs : job[j].pc \in JobStates /\ job[j].kind \in Kinds /\ job[j].to \in Seen
        BY DEF BoardInv, Types, Job
    <2>5. \A j \in Jobs : DOMAIN job[j].to \subseteq Tasks
        BY <2>4, SeenTypes
    <2>6. cache.rows \in Rows /\ cache.version \in 0 .. version /\ fetch.version \in 0 .. version
        BY DEF Lists, Count
    <2>7. {settled, trusted} \subseteq BOOLEAN
        BY DEF BoardInv, Types
    <2> QED
        BY <2>3, <2>4, <2>5, <2>6, <2>7 DEF TypeOK, BoardInv, Types, Lists, Count, JobStates
<1> QED  BY <1>1, <1>2, <1>3, InitBoard, NextBoard, PTL DEF Spec

================================================================================
