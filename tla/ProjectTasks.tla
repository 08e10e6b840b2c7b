------------------------------ MODULE ProjectTasks ------------------------------
(***************************************************************************)
(* A project and its tasks: tasks.go (createTask, patchTask, deleteTask),  *)
(* projects.go (createProject, patchProject, deleteProject), portal.go     *)
(* (completePortalTask) and the task side of jira.go (linkTask,            *)
(* unlinkTask, jiraWebhook).  Projects share no task, so there is one here.*)
(*                                                                         *)
(* patchTask, patchProject and jiraWebhook read in one statement, decide   *)
(* in Go and write in another, whose WHERE names the row and nothing that  *)
(* was read: at READ COMMITTED other requests commit in between.  After    *)
(* its commit patchTask notifies and queues a Jira push, each of its own.  *)
(* An audit row is dated by now(), the time its transaction began, and a   *)
(* transaction may have begun any time before its first statement.         *)
(***************************************************************************)
EXTENDS Naturals, FiniteSets, TaskStatus

CONSTANTS
    Tasks,          \* tasks the project may get
    Handlers,       \* requests the API serves at once
    TaskForms,      \* what createTask may be asked for
    TaskPatches,    \* what patchTask may be asked for
    ProjectPatches, \* what patchProject may be asked for
    JiraStatuses,   \* statuses the Jira names of events map to
    Linkable,       \* tasks that have an issue in Jira
    Null            \* a column that is NULL, a field a request leaves out

Paused == {"on_hold", "at_risk", "delayed", "cancelled"}
ProjectStatus == {"draft", "active", "completed"} \cup Paused
Life == {"none", "live", "deleted"}

(* required_fields is empty or names fields (gated); these are all set or   *)
(* not (filled); completed_at is NULL or not (completed).                   *)
TaskRow == [life : Life, status : Status, required : BOOLEAN, visible : BOOLEAN,
            gated : BOOLEAN, filled : BOOLEAN, completed : BOOLEAN]

TaskForm == [status : Status, required : BOOLEAN, visible : BOOLEAN,
             gated : BOOLEAN, filled : BOOLEAN]

TaskPatch == [status : Status \cup {Null}, visible : BOOLEAN \cup {Null},
              gated : BOOLEAN \cup {Null}, filled : BOOLEAN \cup {Null}, reason : BOOLEAN]

ProjectPatch == [status : ProjectStatus \cup {Null}, start : BOOLEAN]

ASSUME NullAssumption == Null \notin Status \cup ProjectStatus /\ Null \notin BOOLEAN
ASSUME FormsAssumption == TaskForms \subseteq TaskForm
ASSUME PatchesAssumption ==
    TaskPatches \subseteq TaskPatch /\ ProjectPatches \subseteq ProjectPatch
ASSUME JiraAssumption ==
    JiraStatuses \subseteq {"todo", "in_progress", "done"} /\ Linkable \subseteq Tasks

VARIABLES
    project,    \* its row; completions counts the times it was completed, up to 2
    task,       \* rows of the tasks
    op,         \* each handler: what it has read and has still to do
    audit,      \* per task, what its audit row of the latest date tells, of those that tell
                \* a status
    linked,     \* tasks with a row in task_links
    jobs,       \* tasks a Jira push has been queued for
    heard,      \* per task, calls of notifyEvent since it became done, up to 2
    late,       \* history: handlers whose transaction began before that of the latest row
    outrun,     \* history: tasks last written by such a handler
    raced,      \* history: handlers since whose read another has changed what they go by
    doubled     \* history: tasks whose completion such a handler has announced

vars == <<project, task, op, audit, linked, jobs, heard, late, outrun, raced, doubled>>
trail == <<audit, late, outrun>>
news == <<heard, doubled>>

Idle == [at |-> "idle"]
Ops ==
    {Idle}
    \cup [at : {"task"}, task : Tasks, ask : TaskPatch, saw : Status]
    \cup [at : {"webhook"}, task : Tasks, to : Status]
    \cup [at : {"tail"}, task : Tasks, notify : BOOLEAN, push : BOOLEAN]
    \cup [at : {"count", "project"}, ask : ProjectPatch]

TypeOK ==
    /\ project \in [life : Life, status : ProjectStatus, started : BOOLEAN,
                    golive : 0 .. 2, completions : 0 .. 2]
    /\ task \in [Tasks -> TaskRow]
    /\ op \in [Handlers -> Ops]
    /\ audit \in [Tasks -> Status \cup {Null}]
    /\ linked \subseteq Tasks
    /\ jobs \subseteq Tasks
    /\ heard \in [Tasks -> 0 .. 2]
    /\ late \subseteq Handlers /\ raced \subseteq Handlers
    /\ outrun \subseteq Tasks /\ doubled \subseteq Tasks

NoTask == [life |-> "none", status |-> "todo", required |-> FALSE, visible |-> FALSE,
           gated |-> FALSE, filled |-> FALSE, completed |-> FALSE]

Init ==
    /\ project = [life |-> "none", status |-> "draft", started |-> FALSE,
                  golive |-> 0, completions |-> 0]
    /\ task = [t \in Tasks |-> NoTask]
    /\ op = [h \in Handlers |-> Idle]
    /\ audit = [t \in Tasks |-> Null]
    /\ linked = {}
    /\ jobs = {}
    /\ heard = [t \in Tasks |-> 0]
    /\ late = {} /\ outrun = {} /\ raced = {} /\ doubled = {}

(* COALESCE($n, column)                                                     *)
Given(new, old) == IF new = Null THEN old ELSE new

UpToTwo(n) == IF n < 2 THEN n + 1 ELSE 2

Continues(h, next) == op' = [op EXCEPT ![h] = next]
Done(h) == Continues(h, Idle)

(* Handler h is through: what it has read matters no more.                  *)
Through(h) == raced' = raced \ {h}
Forgotten(h) == Through(h) /\ late' = late \ {h}

(* Handlers about to write a project for which tasks were counted, or that  *)
(* go by the status of t.                                                   *)
Counted == {h \in Handlers : op[h].at = "project"}
GoingBy(t) ==
    {h \in Handlers : \/ op[h].at = "task" /\ op[h].task = t
                      \/ op[h].at = "tail" /\ op[h].task = t /\ op[h].notify}

-----------------------------------------------------------------------------
(* Tasks.                                                                   *)

Live(t) == task[t].life = "live"

(* The fields the row requires, as the request leaves them: the list a      *)
(* request brings itself is not looked at.                                  *)
MissingFields(row, ask) == row.gated /\ ~Given(ask.filled, row.filled)

MayPatchTask(row, ask) ==
    \/ ask.status \in {Null, row.status}
    \/ /\ IF row.status = "done" /\ ask.status = "todo"
          THEN ask.reason ELSE TransitionOK(row.status, ask.status)
       /\ ask.status \in {"in_progress", "done"} => ~MissingFields(row, ask)

(* Mutant: `completed_at` is only cleared, never set. *)
CompletedCleared(to, completed) == to # "todo" /\ completed

(* CASE WHEN $n = 'done' AND completed_at IS NULL THEN now()                *)
(*      WHEN $n = 'todo' THEN NULL ELSE completed_at END                    *)
CompletedAfter(to, completed) == to = "done" \/ (to # "todo" /\ completed)

InTransaction(t) == {h \in Handlers : op[h].at \in {"task", "webhook"} /\ op[h].task = t}

(* An audit row of h about t, which tells `told`: the row of a transaction  *)
(* that began before the latest one's does not become the latest; of one    *)
(* that does, others may have begun before.                                 *)
Audit(h, t, told, before) ==
    IF before /\ audit[t] # Null
    THEN /\ outrun' = outrun \cup {t}
         /\ late' = late \ {h}
         /\ UNCHANGED audit
    ELSE /\ audit' = [audit EXCEPT ![t] = told]
         /\ outrun' = outrun \ {t}
         /\ \E older \in SUBSET (InTransaction(t) \ {h}) : late' = (late \cup older) \ {h}

(* The row of t becomes `row`.  Who goes by the status of t, or has counted *)
(* the tasks, has read what no longer is; the calls about a completion that *)
(* is undone are over.                                                      *)
Update(h, t, row) ==
    /\ task' = [task EXCEPT ![t] = row]
    /\ IF row.status = task[t].status THEN UNCHANGED <<heard, doubled, raced>>
       ELSE /\ heard' = [heard EXCEPT ![t] = 0]
            /\ doubled' = doubled \ {t}
            /\ raced' = raced \cup ((Counted \cup GoingBy(t)) \ {h})

(* The audit row tells the new status: by its value, task.reopened by its   *)
(* name (its value is the reason).                                          *)
Write(h, t, row, before) == Update(h, t, row) /\ Audit(h, t, row.status, before)

(* A task cannot be created done: CHECK (status <> 'done' OR completed_at   *)
(* IS NOT NULL) refuses the row.  The gate is not asked, and the audit row  *)
(* tells the title only.                                                    *)
CreateTask(t, form) ==
    /\ task[t].life = "none"
    /\ project.life = "live"
    /\ form.status # "done"
    /\ task' = [task EXCEPT ![t] =
           [life |-> "live", status |-> form.status, required |-> form.required,
            visible |-> form.visible, gated |-> form.gated, filled |-> form.filled,
            completed |-> FALSE]]
    /\ raced' = raced \cup Counted
    /\ UNCHANGED <<project, op, linked, jobs, trail, news>>

(* Whether the transaction began before that of the latest audit row.       *)
Begun(h, t, before) ==
    /\ before => audit[t] # Null
    /\ late' = IF before THEN late \cup {h} ELSE late

ReadTask(h, t, ask, before) ==
    /\ op[h] = Idle
    /\ Live(t)
    /\ MayPatchTask(task[t], ask)
    /\ Continues(h, [at |-> "task", task |-> t, ask |-> ask, saw |-> task[t].status])
    /\ Begun(h, t, before)
    /\ UNCHANGED <<project, task, audit, outrun, linked, jobs, raced, news>>

Patched(row, ask) ==
    [life |-> row.life, status |-> Given(ask.status, row.status), required |-> row.required,
     visible |-> Given(ask.visible, row.visible), gated |-> Given(ask.gated, row.gated),
     filled |-> Given(ask.filled, row.filled),
     completed |-> CompletedAfter(ask.status, row.completed)]

(* Mutant: the completion is announced whenever the task is found done. *)
AnnouncesDone(saw, status) == status = "done"

Announces(saw, status) == status = "done" /\ saw # "done"

Tail(t, notify, push) == [at |-> "tail", task |-> t, notify |-> notify, push |-> push]

(* Mutant: the audit row tells the status that was read, if none was asked. *)
WriteTaskTellsRead(h) ==
    /\ op[h].at = "task"
    /\ Live(op[h].task)
    /\ LET t == op[h].task
           ask == op[h].ask
           row == Patched(task[t], ask)
       IN  Update(h, t, row) /\ Audit(h, t, Given(ask.status, op[h].saw), h \in late)
    /\ Done(h)
    /\ UNCHANGED <<project, linked, jobs>>

(* UPDATE, audit row, a look at the link, commit.                           *)
WriteTask(h) ==
    /\ op[h].at = "task"
    /\ Live(op[h].task)
    /\ LET t == op[h].task
           ask == op[h].ask
           saw == op[h].saw
           row == Patched(task[t], ask)
       IN  /\ Write(h, t, row, h \in late)
           /\ Continues(h, Tail(t, Announces(saw, row.status),
                                ask.status \notin {Null, saw} /\ t \in linked))
    /\ UNCHANGED <<project, linked, jobs>>

(* The task was deleted since: 404.                                         *)
TaskGone(h) ==
    /\ op[h].at = "task"
    /\ ~Live(op[h].task)
    /\ Done(h)
    /\ Forgotten(h)
    /\ UNCHANGED <<project, task, linked, jobs, audit, outrun, news>>

(* A call while the task is not done is about a completion that was undone. *)
Notify(h) ==
    /\ op[h].at = "tail"
    /\ op[h].notify
    /\ LET t == op[h].task
       IN  /\ IF task[t].status = "done"
              THEN /\ heard' = [heard EXCEPT ![t] = UpToTwo(@)]
                   /\ doubled' = IF h \in raced THEN doubled \cup {t} ELSE doubled
              ELSE UNCHANGED news
           /\ Continues(h, Tail(t, FALSE, op[h].push))
    /\ Through(h)
    /\ UNCHANGED <<project, task, linked, jobs, trail>>

(* The insertion of the job is a transaction of its own.                    *)
Push(h) ==
    /\ op[h].at = "tail"
    /\ ~op[h].notify
    /\ jobs' = IF op[h].push THEN jobs \cup {op[h].task} ELSE jobs
    /\ Done(h)
    /\ Through(h)
    /\ UNCHANGED <<project, task, linked, trail, news>>

DeleteTask(t) ==
    /\ Live(t)
    /\ task' = [task EXCEPT ![t] =
           [life |-> "deleted", status |-> @.status, required |-> @.required,
            visible |-> @.visible, gated |-> @.gated, filled |-> @.filled,
            completed |-> @.completed]]
    /\ raced' = raced \cup Counted
    /\ UNCHANGED <<project, op, linked, jobs, trail, news>>

(* A contact completes a task it sees, from any status: one guarded UPDATE, *)
(* asking for no transition and no required field, then the notification.   *)
CompletePortalTask(h, t, before) ==
    /\ op[h] = Idle
    /\ Live(t)
    /\ task[t].visible
    /\ task[t].status # "done"
    /\ before => audit[t] # Null
    /\ Write(h, t, [life |-> "live", status |-> "done", required |-> task[t].required,
                    visible |-> TRUE, gated |-> task[t].gated, filled |-> task[t].filled,
                    completed |-> TRUE], before)
    /\ Continues(h, Tail(t, TRUE, FALSE))
    /\ UNCHANGED <<project, linked, jobs>>

LinkTask(t) ==
    /\ t \in Linkable
    /\ Live(t)
    /\ linked' = linked \cup {t}
    /\ UNCHANGED <<project, task, op, jobs, raced, trail, news>>

UnlinkTask(t) ==
    /\ t \in linked
    /\ linked' = linked \ {t}
    /\ UNCHANGED <<project, task, op, jobs, raced, trail, news>>

(* An event of a linked issue; nobody looks whether the task is deleted.    *)
ReadWebhook(h, t, to, before) ==
    /\ op[h] = Idle
    /\ t \in linked
    /\ to # task[t].status
    /\ TransitionOK(task[t].status, to)
    /\ Continues(h, [at |-> "webhook", task |-> t, to |-> to])
    /\ Begun(h, t, before)
    /\ UNCHANGED <<project, task, audit, outrun, linked, jobs, raced, news>>

WriteWebhook(h) ==
    /\ op[h].at = "webhook"
    /\ LET t == op[h].task
           row == task[t]
       IN  Write(h, t,
                 [life |-> row.life, status |-> op[h].to, required |-> row.required,
                  visible |-> row.visible, gated |-> row.gated, filled |-> row.filled,
                  completed |-> CompletedAfter(op[h].to, row.completed)],
                 h \in late)
    /\ Done(h)
    /\ UNCHANGED <<project, linked, jobs>>

-----------------------------------------------------------------------------
(* The project.                                                             *)

CreateProject(status, started) ==
    /\ project.life = "none"
    /\ status = "active" => started
    /\ project' = [life |-> "live", status |-> status, started |-> started,
                   golive |-> 0, completions |-> 0]
    /\ UNCHANGED <<task, op, linked, jobs, raced, trail, news>>

MayPatchProject(ask) ==
    \/ ask.status \in {Null, project.status, "draft"} \cup Paused
    \/ ask.status = "active" /\ project.status = "draft" /\ (ask.start \/ project.started)
    \/ ask.status = "completed" /\ project.status = "active"

(* Only a move to active or completed counts tasks before it is written.    *)
ReadProject(h, ask) ==
    /\ op[h] = Idle
    /\ project.life = "live"
    /\ MayPatchProject(ask)
    /\ Continues(h, [at |-> IF ask.status \in {"active", "completed"} \ {project.status}
                            THEN "count" ELSE "project",
                     ask |-> ask])
    /\ UNCHANGED <<project, task, linked, jobs, raced, trail, news>>

(* Mutant: work that is blocked is not counted as open. *)
OpenUnblocked(t) ==
    Live(t) /\ task[t].required /\ task[t].status \notin {"done", "waived", "blocked"}

Open(t) == Live(t) /\ task[t].required /\ task[t].status \notin {"done", "waived"}

GatePassed(to) ==
    /\ to = "active" => \E t \in Tasks : Live(t)
    /\ to = "completed" => \A t \in Tasks : ~Open(t)

CountTasks(h) ==
    /\ op[h].at = "count"
    /\ IF GatePassed(op[h].ask.status)
       THEN Continues(h, [at |-> "project", ask |-> op[h].ask]) ELSE Done(h)
    /\ UNCHANGED <<project, task, linked, jobs, raced, trail, news>>

(* CASE WHEN $3 = 'completed' AND actual_go_live IS NULL THEN now()::date:  *)
(* a date is the number of the completion that set it.                      *)
GoLiveAfter(completes) ==
    IF completes /\ project.golive = 0
    THEN UpToTwo(project.completions) ELSE project.golive

(* Who was asked for the status the project had, and so counted no tasks.   *)
Uncounted == {h \in Handlers : op[h].at = "project" /\ op[h].ask.status = project.status}

WriteProject(h) ==
    /\ op[h].at = "project"
    /\ LET ask == op[h].ask
           completes == ask.status = "completed"
       IN  project' = IF project.life # "live" THEN project ELSE
               [life |-> "live", status |-> Given(ask.status, project.status),
                started |-> project.started \/ ask.start,
                golive |-> GoLiveAfter(completes),
                completions |-> IF completes THEN UpToTwo(project.completions)
                                ELSE project.completions]
    /\ raced' = (IF project'.status = project.status THEN raced ELSE raced \cup Uncounted) \ {h}
    /\ Done(h)
    /\ UNCHANGED <<task, linked, jobs, trail, news>>

DeleteProject ==
    /\ project.life = "live"
    /\ project' = [life |-> "deleted", status |-> project.status,
                   started |-> project.started, golive |-> project.golive,
                   completions |-> project.completions]
    /\ UNCHANGED <<task, op, linked, jobs, raced, trail, news>>

(* The client goes away, the database fails or the process ends: before the *)
(* commit nothing was written, after it the rest of the tail is lost.       *)
Abandon(h) ==
    /\ op[h] # Idle
    /\ Done(h)
    /\ Forgotten(h)
    /\ UNCHANGED <<project, task, linked, jobs, audit, outrun, news>>

-----------------------------------------------------------------------------
Begin(h) ==
    \/ \E t \in Tasks, ask \in TaskPatches, before \in BOOLEAN : ReadTask(h, t, ask, before)
    \/ \E t \in Tasks, before \in BOOLEAN : CompletePortalTask(h, t, before)
    \/ \E t \in Tasks, to \in JiraStatuses, before \in BOOLEAN : ReadWebhook(h, t, to, before)
    \/ \E ask \in ProjectPatches : ReadProject(h, ask)

Continue(h) ==
    \/ WriteTask(h) \/ TaskGone(h) \/ Notify(h) \/ Push(h)
    \/ WriteWebhook(h)
    \/ CountTasks(h) \/ WriteProject(h)
    \/ Abandon(h)

AtOnce ==
    \/ \E t \in Tasks, form \in TaskForms : CreateTask(t, form)
    \/ \E t \in Tasks : DeleteTask(t) \/ LinkTask(t) \/ UnlinkTask(t)
    \/ \E status \in {"draft", "active"}, started \in BOOLEAN : CreateProject(status, started)
    \/ DeleteProject

Next == AtOnce \/ \E h \in Handlers : Begin(h) \/ Continue(h)

Spec == Init /\ [][Next]_vars

-----------------------------------------------------------------------------
(* The two CASE expressions and the portal keep completed_at in step with   *)
(* the status, whatever other requests wrote since theirs was read: no      *)
(* UPDATE runs into the CHECK of migration 00002.                           *)
DoneIsCompleted == \A t \in Tasks : task[t].status = "done" => task[t].completed

(* The audit row of a task that is of the latest date tells the status it   *)
(* has, whatever else was written between read and write (tasks.go takes it *)
(* from RETURNING), unless the last to write had begun before the one whose *)
(* row that is (created_at is now(): migration 00002).                      *)
AuditTellsStatus ==
    \A t \in Tasks \ outrun : audit[t] # Null => audit[t] = task[t].status

(* actual_go_live is the date of the first completion, and is set as soon   *)
(* as there has been one, however the project went on (projects.go).        *)
FirstGoLive == project.golive = IF project.completions = 0 THEN 0 ELSE 1

(* "active→completed needs all required tasks done or waived (§6.3)",       *)
(* "draft→active needs ≥1 task (§6.3)" (projects.go): so it is at the very  *)
(* step that writes the status, unless since the count a task was created,  *)
(* deleted or moved, or another request changed a status that was asked for *)
(* again (patchProject).                                                    *)
GatesKept ==
    [][\A h \in Handlers \ raced :
          op[h].at = "project" /\ op'[h] # op[h] /\ project'.status # project.status =>
              /\ project'.status = "active" => \E t \in Tasks : Live(t)
              /\ project'.status = "completed" =>
                     \A t \in Tasks : Live(t) /\ task[t].required
                                         => task[t].status \in {"done", "waived"}]_vars

(* A completion is announced twice only if one of those who announce it     *)
(* went by a status another had changed meanwhile (tasks.go, patchTask;     *)
(* portal.go, completePortalTask).                                          *)
TwiceHeardOnlyByRaces == \A t \in Tasks : heard[t] > 1 => t \in doubled

-----------------------------------------------------------------------------
(* What is said of the code and does not hold of it.                        *)

(* A completion is announced once ("task.completed").                       *)
AnnouncedOnce == \A t \in Tasks : heard[t] <= 1

(* The same gates, whatever happens between count and write.                *)
GatesAlwaysKept ==
    [][project.life = "live" /\ project.status = "active" /\ project'.status = "completed" =>
          \A t \in Tasks : Live(t) /\ task[t].required
                              => task[t].status \in {"done", "waived"}]_vars

(* The trail is read by date: the latest row tells the status.              *)
LatestRowTells == \A t \in Tasks : audit[t] # Null => audit[t] = task[t].status

(* A patch of t by h is written.                                            *)
Patches(h, t) == op[h].at = "task" /\ op[h].task = t /\ op'[h].at = "tail"

(* "reopen = done→todo with reason is the only exit from done" (tasks.go).  *)
DoneLeftByReopening ==
    [][\A t \in Tasks : task[t].status = "done" /\ task'[t].status # "done"
           => \E h \in Handlers : Patches(h, t) /\ op[h].ask.reason]_vars

(* "waived is a terminal admin action" (tasks.go).                          *)
WaivedIsTerminal ==
    [][\A t \in Tasks : Live(t) /\ task[t].status = "waived"
           => task'[t].status = "waived"]_vars

(* The gate of required fields, whoever changes the status.                 *)
NeverStartedWithout ==
    [][\A t \in Tasks :
          /\ task'[t].status \in {"in_progress", "done"} \ {task[t].status}
          /\ Live(t) /\ task[t].gated
          => task'[t].filled]_vars

(* "jobs are inserted ... in the SAME tx as the data they serve, so a crash *)
(* between write and notify can't lose one half of the pair" (river.go): a  *)
(* change of a linked task that staff asked for is queued when it is there. *)
PushedWithChange ==
    [][\A t \in linked : (\E h \in Handlers : Patches(h, t))
                            /\ task'[t].status # task[t].status => t \in jobs']_vars
=============================================================================
