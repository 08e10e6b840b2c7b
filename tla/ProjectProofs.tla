------------------------------ MODULE ProjectProofs ------------------------------
(***************************************************************************)
(* Theorems about ProjectTasks, for any tasks, handlers and requests.      *)
(*                                                                         *)
(* Correct needs little more than the types: each of its conjuncts is kept *)
(* by every single UPDATE, whatever the request had read before.  The      *)
(* gates of the project and the announcements are kept by the requests     *)
(* that have not been raced, because what such a request has read is still *)
(* so when it writes (RaceInv).                                            *)
(***************************************************************************)
EXTENDS ProjectTasks, TLAPS

(* Of a task that is not there nothing is known, and no request is about it. *)
NotYet ==
    \A t \in Tasks : task[t].life = "none" =>
        /\ task[t].status = "todo" /\ audit[t] = Null /\ t \notin linked
        /\ \A h \in Handlers : op[h].at \in {"task", "webhook"} => op[h].task # t

Correct ==
    /\ TypeOK
    /\ NotYet
    /\ DoneIsCompleted
    /\ AuditTellsStatus
    /\ FirstGoLive

-----------------------------------------------------------------------------
(* The pieces the actions are made of keep to their types.                  *)

(* What a handler does next, and what the others still have to do.          *)
LEMMA OneMoves ==
    ASSUME TypeOK, NEW h \in Handlers, NEW next, Continues(h, next)
    PROVE  op'[h] = next /\ \A k \in Handlers \ {h} : op'[k] = op[k]
BY DEF TypeOK, Continues

LEMMA ContinuesTyped ==
    ASSUME TypeOK, NEW h \in Handlers, NEW next \in Ops, Continues(h, next)
    PROVE  op' \in [Handlers -> Ops]
BY DEF TypeOK, Continues

LEMMA IdleTyped == Idle \in Ops /\ Idle.at = "idle"
BY DEF Ops, Idle

LEMMA OpAsk ==
    ASSUME TypeOK, NEW h \in Handlers
    PROVE  /\ op[h].at = "task" => /\ op[h].task \in Tasks
                                   /\ op[h].ask \in TaskPatch
                                   /\ op[h].saw \in Status
           /\ op[h].at = "webhook" => op[h].task \in Tasks /\ op[h].to \in Status
           /\ op[h].at = "tail" => /\ op[h].task \in Tasks
                                   /\ op[h].notify \in BOOLEAN
                                   /\ op[h].push \in BOOLEAN
           /\ op[h].at \in {"count", "project"} => op[h].ask \in ProjectPatch
<1>1. op[h] \in Ops
  BY DEF TypeOK
<1> QED
  BY <1>1 DEF Ops, Idle

LEMMA UpToTwoTyped ==
    ASSUME NEW n \in 0 .. 2
    PROVE  UpToTwo(n) \in 1 .. 2
BY DEF UpToTwo

LEMMA TailTyped ==
    ASSUME NEW t \in Tasks, NEW notify \in BOOLEAN, NEW push \in BOOLEAN
    PROVE  /\ Tail(t, notify, push) \in Ops
           /\ Tail(t, notify, push).at = "tail"
           /\ Tail(t, notify, push).task = t
           /\ Tail(t, notify, push).notify = notify
BY DEF Tail, Ops

(* The row a patch leaves.                                                  *)
LEMMA PatchedRow ==
    ASSUME NEW row \in TaskRow, NEW ask \in TaskPatch
    PROVE  /\ Patched(row, ask) \in TaskRow
           /\ Patched(row, ask).life = row.life
           /\ Patched(row, ask).required = row.required
           /\ Patched(row, ask).status = Given(ask.status, row.status)
           /\ (row.status = "done" => row.completed)
                => (Patched(row, ask).status = "done" => Patched(row, ask).completed)
<1>1. /\ Given(ask.status, row.status) \in Status
      /\ Given(ask.visible, row.visible) \in BOOLEAN
      /\ Given(ask.gated, row.gated) \in BOOLEAN
      /\ Given(ask.filled, row.filled) \in BOOLEAN
  BY DEF Given, TaskPatch, TaskRow
<1>2. CompletedAfter(ask.status, row.completed) \in BOOLEAN
  BY DEF CompletedAfter, TaskRow
<1>3. /\ row.life \in Life
      /\ row.required \in BOOLEAN
  BY DEF TaskRow
<1>4. Patched(row, ask) \in TaskRow
  BY <1>1, <1>2, <1>3, Zenon DEF Patched, TaskRow
<1>5. /\ Patched(row, ask).life = row.life
      /\ Patched(row, ask).required = row.required
      /\ Patched(row, ask).status = Given(ask.status, row.status)
      /\ Patched(row, ask).completed = CompletedAfter(ask.status, row.completed)
  BY Zenon DEF Patched
<1>6. ASSUME row.status = "done" => row.completed,
             Given(ask.status, row.status) = "done"
      PROVE  CompletedAfter(ask.status, row.completed)
  <2>1. ask.status = "done" \/ (ask.status = Null /\ row.status = "done")
    BY <1>6 DEF Given
  <2>2. Null # "todo"
    BY NullAssumption DEF Status
  <2> QED
    BY <2>1, <2>2, <1>6 DEF CompletedAfter
<1> QED
  BY <1>4, <1>5, <1>6, Zenon

(* A row written with a status, and the audit row that tells it, keep the   *)
(* whole invariant.                                                         *)
LEMMA WriteCorrect ==
    ASSUME Correct, NEW h \in Handlers, NEW t \in Tasks, NEW row \in TaskRow,
           NEW before \in BOOLEAN, NEW next \in Ops,
           row.status = "done" => row.completed,
           task[t].life # "none", row.life # "none",
           Write(h, t, row, before),
           Continues(h, next), next.at \notin {"task", "webhook"},
           UNCHANGED <<project, linked, jobs>>
    PROVE  Correct'
<1>1. row.status \in Status
  BY DEF TaskRow
<1>2. task' = [task EXCEPT ![t] = row] /\ task' \in [Tasks -> TaskRow]
  BY DEF Write, Update, Correct, TypeOK
<1>3. heard' \in [Tasks -> 0 .. 2] /\ raced' \subseteq Handlers /\ doubled' \subseteq Tasks
  BY DEF Write, Update, Counted, GoingBy, Correct, TypeOK
<1>4. DoneIsCompleted' /\ FirstGoLive'
  BY <1>2 DEF Correct, TypeOK, DoneIsCompleted, FirstGoLive
<1>5. op' \in [Handlers -> Ops]
  BY ContinuesTyped DEF Correct
<1>6. /\ audit' \in [Tasks -> Status \cup {Null}]
      /\ \A s \in Tasks : s # t => audit'[s] = audit[s]
      /\ late' \subseteq Handlers
      /\ outrun' \subseteq Tasks
      /\ AuditTellsStatus'
  <2>1. CASE before /\ audit[t] # Null
    <3>1. outrun' = outrun \cup {t} /\ late' = late \ {h} /\ audit' = audit
      BY <2>1 DEF Write, Audit
    <3>2. AuditTellsStatus'
      BY <3>1, <1>2 DEF Correct, TypeOK, AuditTellsStatus
    <3> QED
      BY <3>1, <3>2 DEF Correct, TypeOK
  <2>2. CASE ~(before /\ audit[t] # Null)
    <3>1. /\ audit' = [audit EXCEPT ![t] = row.status]
          /\ outrun' = outrun \ {t}
          /\ \E older \in SUBSET (InTransaction(t) \ {h}) : late' = (late \cup older) \ {h}
      BY <2>2 DEF Write, Audit
    <3>2. late' \subseteq Handlers
      BY <3>1 DEF InTransaction, Correct, TypeOK
    <3>3. /\ audit' \in [Tasks -> Status \cup {Null}] /\ outrun' \subseteq Tasks
          /\ \A s \in Tasks : s # t => audit'[s] = audit[s]
      BY <3>1, <1>1 DEF Correct, TypeOK
    <3>4. AuditTellsStatus'
      BY <3>1, <1>2 DEF Correct, TypeOK, AuditTellsStatus
    <3> QED
      BY <3>2, <3>3, <3>4
  <2> QED
    BY <2>1, <2>2
<1>7. NotYet'
  <2> SUFFICES ASSUME NEW s \in Tasks, task'[s].life = "none"
               PROVE  /\ task'[s].status = "todo" /\ audit'[s] = Null /\ s \notin linked
                      /\ \A k \in Handlers :
                            op'[k].at \in {"task", "webhook"} => op'[k].task # s
    BY DEF NotYet
  <2>1. s # t /\ task'[s] = task[s] /\ audit'[s] = audit[s]
    BY <1>2, <1>6 DEF Correct, TypeOK
  <2>2. op'[h] = next /\ \A k \in Handlers \ {h} : op'[k] = op[k]
    BY OneMoves DEF Correct
  <2> QED
    BY <2>1, <2>2 DEF Correct, NotYet
<1> QED
  BY <1>2, <1>3, <1>4, <1>5, <1>6, <1>7 DEF Correct, TypeOK

(* An action that changes little but what its handler is about to do.       *)
LEMMA OpOnlyCorrect ==
    ASSUME Correct, NEW h \in Handlers, NEW next \in Ops, Continues(h, next),
           next.at \in {"task", "webhook"} => task[next.task].life # "none",
           late' \subseteq Handlers, raced' \subseteq Handlers, jobs' \subseteq Tasks,
           UNCHANGED <<project, task, audit, outrun, linked, heard, doubled>>
    PROVE  Correct'
<1>1. op' \in [Handlers -> Ops]
  BY ContinuesTyped DEF Correct
<1>2. op'[h] = next /\ \A k \in Handlers \ {h} : op'[k] = op[k]
  BY OneMoves DEF Correct
<1>3. NotYet'
  BY <1>2 DEF Correct, NotYet
<1> QED
  BY <1>1, <1>3 DEF Correct, TypeOK, DoneIsCompleted, AuditTellsStatus, FirstGoLive

-----------------------------------------------------------------------------
(* One lemma per action that changes a row.                                 *)

LEMMA InitCorrect == Init => Correct
<1> SUFFICES ASSUME Init PROVE Correct
  OBVIOUS
<1>1. NoTask \in TaskRow
  BY DEF NoTask, TaskRow, Life, Status
<1>2. TypeOK
  BY <1>1 DEF Init, TypeOK, Ops, Idle, Life, ProjectStatus
<1>3. DoneIsCompleted /\ NotYet
  BY DEF Init, DoneIsCompleted, NotYet, NoTask, Idle
<1>4. AuditTellsStatus /\ FirstGoLive
  BY DEF Init, AuditTellsStatus, FirstGoLive
<1> QED
  BY <1>2, <1>3, <1>4 DEF Correct

LEMMA CreateTaskCorrect ==
    ASSUME Correct, NEW t \in Tasks, NEW form \in TaskForms, CreateTask(t, form)
    PROVE  Correct'
<1> DEFINE row == [life |-> "live", status |-> form.status, required |-> form.required,
                   visible |-> form.visible, gated |-> form.gated,
                   filled |-> form.filled, completed |-> FALSE]
<1>1. form \in TaskForm
  BY FormsAssumption
<1>2. row \in TaskRow /\ row.life = "live"
  BY <1>1 DEF TaskForm, TaskRow, Life
<1>3. /\ task' = [task EXCEPT ![t] = row]
      /\ row.status # "done"
      /\ task[t].life = "none"
      /\ raced' = raced \cup Counted
      /\ UNCHANGED <<project, op, linked, jobs, audit, late, outrun, heard, doubled>>
  BY DEF CreateTask, trail, news
<1> HIDE DEF row
<1>4. TypeOK'
  BY <1>2, <1>3 DEF Correct, TypeOK, Counted
<1>5. DoneIsCompleted' /\ FirstGoLive'
  BY <1>3 DEF Correct, TypeOK, DoneIsCompleted, FirstGoLive
<1>6. AuditTellsStatus' /\ NotYet'
  BY <1>2, <1>3 DEF Correct, TypeOK, AuditTellsStatus, NotYet
<1> QED
  BY <1>4, <1>5, <1>6 DEF Correct

LEMMA WriteTaskCorrect ==
    ASSUME Correct, NEW h \in Handlers, WriteTask(h)
    PROVE  Correct'
<1> DEFINE t == op[h].task
           ask == op[h].ask
           saw == op[h].saw
           row == Patched(task[t], ask)
           announces == Announces(saw, row.status)
           pushes == ask.status \notin {Null, saw} /\ t \in linked
           next == Tail(t, announces, pushes)
<1>1. t \in Tasks /\ ask \in TaskPatch
  BY OpAsk DEF WriteTask, Correct
<1>2. /\ task[t] \in TaskRow /\ (task[t].status = "done" => task[t].completed)
      /\ task[t].life = "live"
  BY <1>1 DEF Correct, TypeOK, DoneIsCompleted, WriteTask, Live
<1>3. row \in TaskRow /\ (row.status = "done" => row.completed) /\ row.life = "live"
  BY <1>1, <1>2, PatchedRow
<1>4. announces \in BOOLEAN /\ pushes \in BOOLEAN /\ (h \in late) \in BOOLEAN
  BY DEF Announces
<1>5. next \in Ops /\ next.at = "tail"
  BY <1>1, <1>4, TailTyped
<1>6. /\ Write(h, t, row, h \in late)
      /\ Continues(h, next)
      /\ UNCHANGED <<project, linked, jobs>>
  BY DEF WriteTask
<1> HIDE DEF t, ask, saw, row, announces, pushes, next
<1> QED
  BY <1>1, <1>2, <1>3, <1>4, <1>5, <1>6, WriteCorrect

LEMMA CompletePortalTaskCorrect ==
    ASSUME Correct, NEW h \in Handlers, NEW t \in Tasks, NEW before \in BOOLEAN,
           CompletePortalTask(h, t, before)
    PROVE  Correct'
<1> DEFINE row == [life |-> "live", status |-> "done", required |-> task[t].required,
                   visible |-> TRUE, gated |-> task[t].gated,
                   filled |-> task[t].filled, completed |-> TRUE]
           next == Tail(t, TRUE, FALSE)
<1>1. row \in TaskRow /\ row.completed /\ row.life = "live"
  BY DEF Correct, TypeOK, TaskRow, Life, Status
<1>2. next \in Ops /\ next.at = "tail"
  BY TailTyped
<1>3. /\ Write(h, t, row, before)
      /\ Continues(h, next)
      /\ task[t].life = "live"
      /\ UNCHANGED <<project, linked, jobs>>
  BY DEF CompletePortalTask, Live
<1> HIDE DEF row, next
<1> QED
  BY <1>1, <1>2, <1>3, WriteCorrect

LEMMA WriteWebhookCorrect ==
    ASSUME Correct, NEW h \in Handlers, WriteWebhook(h)
    PROVE  Correct'
<1> DEFINE t == op[h].task
           old == task[t]
           row == [life |-> old.life, status |-> op[h].to, required |-> old.required,
                   visible |-> old.visible, gated |-> old.gated, filled |-> old.filled,
                   completed |-> CompletedAfter(op[h].to, old.completed)]
<1>1. t \in Tasks /\ op[h].to \in Status
  BY OpAsk DEF WriteWebhook, Correct
<1>2. old \in TaskRow /\ old.life # "none"
  BY <1>1 DEF Correct, TypeOK, NotYet, WriteWebhook
<1>3. row \in TaskRow /\ (row.status = "done" => row.completed) /\ row.life # "none"
  BY <1>1, <1>2 DEF TaskRow, CompletedAfter
<1>4. /\ Write(h, t, row, h \in late)
      /\ Continues(h, Idle)
      /\ UNCHANGED <<project, linked, jobs>>
  BY DEF WriteWebhook, Done
<1>5. (h \in late) \in BOOLEAN
  OBVIOUS
<1> HIDE DEF t, row
<1> QED
  BY <1>1, <1>2, <1>3, <1>4, <1>5, IdleTyped, WriteCorrect

LEMMA WriteProjectCorrect ==
    ASSUME Correct, NEW h \in Handlers, WriteProject(h)
    PROVE  Correct'
<1> DEFINE ask == op[h].ask
           completes == ask.status = "completed"
           row == [life |-> "live", status |-> Given(ask.status, project.status),
                   started |-> project.started \/ ask.start,
                   golive |-> GoLiveAfter(completes),
                   completions |-> IF completes THEN UpToTwo(project.completions)
                                   ELSE project.completions]
           Row == [life : Life, status : ProjectStatus, started : BOOLEAN,
                   golive : 0 .. 2, completions : 0 .. 2]
<1>1. project' = IF project.life # "live" THEN project ELSE row
  BY DEF WriteProject
<1>2. /\ Continues(h, Idle)
      /\ UNCHANGED <<task, linked, jobs, audit, late, outrun, heard, doubled>>
  BY DEF WriteProject, Done, trail, news
<1>3. project \in Row
  BY DEF Correct, TypeOK
<1>4. ask \in ProjectPatch
  BY OpAsk DEF WriteProject, Correct
<1>5. row \in Row
  <2>1. Given(ask.status, project.status) \in ProjectStatus
    BY <1>3, <1>4 DEF Given, ProjectPatch
  <2>2. UpToTwo(project.completions) \in 1 .. 2
    BY <1>3, UpToTwoTyped
  <2>3. GoLiveAfter(completes) \in 0 .. 2
    BY <1>3, <2>2 DEF GoLiveAfter
  <2>4. (project.started \/ ask.start) \in BOOLEAN
    OBVIOUS
  <2>5. "live" \in Life
    BY DEF Life
  <2>6. (IF completes THEN UpToTwo(project.completions) ELSE project.completions) \in 0 .. 2
    BY <1>3, <2>2
  <2> QED
    BY <2>1, <2>3, <2>4, <2>5, <2>6
<1>6. row.golive = IF row.completions = 0 THEN 0 ELSE 1
  BY <1>3 DEF Correct, FirstGoLive, GoLiveAfter, UpToTwo
<1> HIDE DEF row
<1>7. project' \in Row /\ FirstGoLive'
  BY <1>1, <1>3, <1>5, <1>6 DEF Correct, FirstGoLive
<1>8. op' \in [Handlers -> Ops] /\ op'[h] = Idle /\ \A k \in Handlers \ {h} : op'[k] = op[k]
  BY <1>2, IdleTyped, ContinuesTyped, OneMoves DEF Correct
<1>9. raced' \subseteq Handlers /\ NotYet'
  BY <1>2, <1>8, IdleTyped DEF Correct, TypeOK, WriteProject, Uncounted, NotYet
<1> QED
  BY <1>2, <1>7, <1>8, <1>9 DEF Correct, TypeOK, DoneIsCompleted, AuditTellsStatus

LEMMA NotifyCorrect ==
    ASSUME Correct, NEW h \in Handlers, Notify(h)
    PROVE  Correct'
<1> DEFINE t == op[h].task
           next == Tail(t, FALSE, op[h].push)
<1>1. t \in Tasks /\ op[h].push \in BOOLEAN
  BY OpAsk DEF Notify, Correct
<1>2. next \in Ops /\ next.at = "tail"
  BY <1>1, TailTyped
<1>3. /\ Continues(h, next)
      /\ UNCHANGED <<project, task, linked, jobs, audit, late, outrun>>
      /\ raced' \subseteq Handlers
  BY DEF Notify, trail, Through, Correct, TypeOK
<1>4. heard' \in [Tasks -> 0 .. 2] /\ doubled' \subseteq Tasks
  <2>1. heard[t] \in 0 .. 2 /\ UpToTwo(heard[t]) \in 0 .. 2
    BY <1>1, UpToTwoTyped DEF Correct, TypeOK
  <2>2. CASE task[t].status = "done"
    BY <2>1, <2>2, <1>1 DEF Notify, Correct, TypeOK
  <2>3. CASE task[t].status # "done"
    BY <2>3 DEF Notify, news, Correct, TypeOK
  <2> QED
    BY <2>2, <2>3
<1> HIDE DEF t, next
<1>5. op' \in [Handlers -> Ops] /\ op'[h] = next /\ \A k \in Handlers \ {h} : op'[k] = op[k]
  BY <1>2, <1>3, ContinuesTyped, OneMoves DEF Correct
<1>6. NotYet'
  BY <1>2, <1>3, <1>5 DEF Correct, NotYet
<1> QED
  BY <1>3, <1>4, <1>5, <1>6 DEF Correct, TypeOK, DoneIsCompleted, AuditTellsStatus, FirstGoLive

LEMMA AtOnceCorrect ==
    ASSUME Correct, AtOnce
    PROVE  Correct'
<1>1. CASE \E t \in Tasks, form \in TaskForms : CreateTask(t, form)
  BY <1>1, CreateTaskCorrect
<1>2. ASSUME NEW t \in Tasks, DeleteTask(t)
      PROVE  Correct'
  <2> DEFINE row == [life |-> "deleted", status |-> task[t].status,
                     required |-> task[t].required, visible |-> task[t].visible,
                     gated |-> task[t].gated, filled |-> task[t].filled,
                     completed |-> task[t].completed]
  <2>1. /\ task' = [task EXCEPT ![t] = row]
        /\ raced' \subseteq Handlers
        /\ UNCHANGED <<project, op, linked, jobs, audit, late, outrun, heard, doubled>>
    BY <1>2 DEF DeleteTask, trail, news, Counted, Correct, TypeOK
  <2>2. /\ row \in TaskRow
        /\ row.life = "deleted"
        /\ row.status = task[t].status
        /\ row.completed = task[t].completed
    BY DEF Correct, TypeOK, TaskRow, Life
  <2> HIDE DEF row
  <2>3. TypeOK' /\ FirstGoLive'
    BY <2>1, <2>2 DEF Correct, TypeOK, FirstGoLive
  <2>4. DoneIsCompleted' /\ AuditTellsStatus' /\ NotYet'
    BY <2>1, <2>2 DEF Correct, TypeOK, DoneIsCompleted, AuditTellsStatus, NotYet
  <2> QED
    BY <2>3, <2>4 DEF Correct
<1>3. ASSUME NEW t \in Tasks, LinkTask(t) \/ UnlinkTask(t)
      PROVE  Correct'
  <2>1. /\ UNCHANGED <<project, task, op, jobs, raced, audit, late, outrun, heard, doubled>>
        /\ linked' \subseteq Tasks
        /\ \A s \in Tasks : s \in linked' => s \in linked \/ task[s].life = "live"
    BY <1>3 DEF LinkTask, UnlinkTask, Live, trail, news, Correct, TypeOK
  <2>2. NotYet'
    BY <2>1 DEF Correct, NotYet
  <2> QED
    BY <2>1, <2>2 DEF Correct, TypeOK, DoneIsCompleted, AuditTellsStatus, FirstGoLive
<1>4. ASSUME NEW status \in {"draft", "active"}, NEW started \in BOOLEAN,
             CreateProject(status, started)
      PROVE  Correct'
  BY <1>4 DEF CreateProject, trail, news, Correct, TypeOK, DoneIsCompleted, AuditTellsStatus,
              FirstGoLive, NotYet, Life, ProjectStatus
<1>5. CASE DeleteProject
  BY <1>5 DEF DeleteProject, trail, news, Correct, TypeOK, DoneIsCompleted, AuditTellsStatus,
              FirstGoLive, NotYet, Life
<1> QED
  BY <1>1, <1>2, <1>3, <1>4, <1>5 DEF AtOnce

LEMMA BeginCorrect ==
    ASSUME Correct, NEW h \in Handlers, Begin(h)
    PROVE  Correct'
<1>1. ASSUME NEW t \in Tasks, NEW ask \in TaskPatches, NEW before \in BOOLEAN,
             ReadTask(h, t, ask, before)
      PROVE  Correct'
  <2> DEFINE next == [at |-> "task", task |-> t, ask |-> ask, saw |-> task[t].status]
  <2>1. next \in Ops /\ next.task = t
    BY PatchesAssumption DEF Ops, Correct, TypeOK, TaskRow
  <2>2. /\ Continues(h, next) /\ task[t].life = "live"
        /\ late' \subseteq Handlers
        /\ UNCHANGED <<project, task, audit, outrun, linked, jobs, raced, heard, doubled>>
    BY <1>1 DEF ReadTask, Begun, Live, news, Correct, TypeOK
  <2> HIDE DEF next
  <2> QED
    BY <2>1, <2>2, OpOnlyCorrect DEF Correct, TypeOK
<1>2. CASE \E t \in Tasks, before \in BOOLEAN : CompletePortalTask(h, t, before)
  BY <1>2, CompletePortalTaskCorrect
<1>3. ASSUME NEW t \in Tasks, NEW to \in JiraStatuses, NEW before \in BOOLEAN,
             ReadWebhook(h, t, to, before)
      PROVE  Correct'
  <2> DEFINE next == [at |-> "webhook", task |-> t, to |-> to]
  <2>1. next \in Ops /\ next.task = t
    BY JiraAssumption DEF Ops, Status
  <2>2. /\ Continues(h, next) /\ t \in linked
        /\ late' \subseteq Handlers
        /\ UNCHANGED <<project, task, audit, outrun, linked, jobs, raced, heard, doubled>>
    BY <1>3 DEF ReadWebhook, Begun, news, Correct, TypeOK
  <2>3. task[t].life # "none"
    BY <2>2 DEF Correct, NotYet
  <2> HIDE DEF next
  <2> QED
    BY <2>1, <2>2, <2>3, OpOnlyCorrect DEF Correct, TypeOK
<1>4. ASSUME NEW ask \in ProjectPatches, ReadProject(h, ask)
      PROVE  Correct'
  <2> DEFINE at == IF ask.status \in {"active", "completed"} \ {project.status}
                   THEN "count" ELSE "project"
             next == [at |-> at, ask |-> ask]
  <2>1. next \in Ops /\ next.at \notin {"task", "webhook"}
    BY PatchesAssumption DEF Ops
  <2>2. /\ Continues(h, next)
        /\ UNCHANGED <<project, task, audit, late, outrun, linked, jobs, raced, heard, doubled>>
    BY <1>4 DEF ReadProject, trail, news
  <2> HIDE DEF next
  <2> QED
    BY <2>1, <2>2, OpOnlyCorrect DEF Correct, TypeOK
<1> QED
  BY <1>1, <1>2, <1>3, <1>4 DEF Begin

LEMMA ContinueCorrect ==
    ASSUME Correct, NEW h \in Handlers, Continue(h)
    PROVE  Correct'
<1>1. CASE WriteTask(h)
  BY <1>1, WriteTaskCorrect
<1>2. CASE TaskGone(h) \/ Abandon(h)
  <2>1. /\ Continues(h, Idle)
        /\ late' \subseteq Handlers /\ raced' \subseteq Handlers
        /\ UNCHANGED <<project, task, audit, outrun, linked, jobs, heard, doubled>>
    BY <1>2 DEF TaskGone, Abandon, Done, Forgotten, Through, news, Correct, TypeOK
  <2> QED
    BY <2>1, IdleTyped, OpOnlyCorrect DEF Correct, TypeOK
<1>3. CASE Notify(h)
  BY <1>3, NotifyCorrect
<1>4. CASE Push(h)
  <2>1. op[h].task \in Tasks
    BY <1>4, OpAsk DEF Push, Correct
  <2>2. /\ Continues(h, Idle)
        /\ late' \subseteq Handlers /\ raced' \subseteq Handlers /\ jobs' \subseteq Tasks
        /\ UNCHANGED <<project, task, audit, outrun, linked, heard, doubled>>
    BY <1>4, <2>1 DEF Push, Done, Through, trail, news, Correct, TypeOK
  <2> QED
    BY <2>2, IdleTyped, OpOnlyCorrect
<1>5. CASE WriteWebhook(h)
  BY <1>5, WriteWebhookCorrect
<1>6. CASE CountTasks(h)
  <2> DEFINE passed == [at |-> "project", ask |-> op[h].ask]
  <2>1. passed \in Ops /\ passed.at = "project"
    BY <1>6, OpAsk DEF CountTasks, Correct, Ops
  <2>2. /\ Continues(h, passed) \/ Continues(h, Idle)
        /\ UNCHANGED <<project, task, audit, late, outrun, linked, jobs, raced, heard, doubled>>
    BY <1>6 DEF CountTasks, Done, trail, news
  <2> HIDE DEF passed
  <2> QED
    BY <2>1, <2>2, IdleTyped, OpOnlyCorrect DEF Correct, TypeOK
<1>7. CASE WriteProject(h)
  BY <1>7, WriteProjectCorrect
<1> QED
  BY <1>1, <1>2, <1>3, <1>4, <1>5, <1>6, <1>7 DEF Continue

LEMMA StepCorrect == Correct /\ [Next]_vars => Correct'
<1> SUFFICES ASSUME Correct, [Next]_vars PROVE Correct'
  OBVIOUS
<1>1. CASE Next
  BY <1>1, AtOnceCorrect, BeginCorrect, ContinueCorrect DEF Next
<1>2. CASE UNCHANGED vars
  BY <1>2 DEF vars, Correct, TypeOK, NotYet, DoneIsCompleted, AuditTellsStatus, FirstGoLive
<1> QED
  BY <1>1, <1>2

(* The whole invariant, with requests interleaving in any way.              *)
THEOREM ProjectCorrect == Spec => []Correct
<1> QED
  BY InitCorrect, StepCorrect, PTL DEF Spec

(* A done task has its completed_at (tasks.go, portal.go, jira.go).         *)
THEOREM DoneCompleted == Spec => []DoneIsCompleted
<1>1. Correct => DoneIsCompleted
  BY DEF Correct
<1> QED
  BY <1>1, ProjectCorrect, PTL

(* The audit row of the latest date tells the status a task has, but for    *)
(* tasks whose last writer had begun before that row's.                     *)
THEOREM TrailTells == Spec => []AuditTellsStatus
<1>1. Correct => AuditTellsStatus
  BY DEF Correct
<1> QED
  BY <1>1, ProjectCorrect, PTL

(* actual_go_live dates the first completion (projects.go, patchProject).   *)
THEOREM GoLiveFirst == Spec => []FirstGoLive
<1>1. Correct => FirstGoLive
  BY DEF Correct
<1> QED
  BY <1>1, ProjectCorrect, PTL

-----------------------------------------------------------------------------
(* Requests that have not been raced.                                       *)

(* The status a request has read is the one the task has.                   *)
StillAsRead ==
    \A h \in Handlers \ raced : op[h].at = "task" => op[h].saw = task[op[h].task].status

(* The tasks a request has counted pass as they did, and one that has       *)
(* counted none will leave the status of the project as it is.              *)
StillPassed ==
    \A h \in Handlers \ raced :
        op[h].at = "project" /\ op[h].ask.status # project.status
            => GatePassed(op[h].ask.status)

(* About to announce the completion t is in. *)
Announcing(h, t) == h \notin raced /\ op[h].at = "tail" /\ op[h].task = t /\ op[h].notify

(* A completion has been announced once, or one request is about to.        *)
HeardOnce(t) ==
    /\ heard[t] <= 1
    /\ heard[t] > 0 => task[t].status = "done"
    /\ \A h \in Handlers : Announcing(h, t) => task[t].status = "done" /\ heard[t] = 0
    /\ \A h, k \in Handlers : Announcing(h, t) /\ Announcing(k, t) => h = k

NewsInv == \A t \in Tasks \ doubled : HeardOnce(t)

(* Nobody is about to patch a project that is not there. *)
NoProject ==
    project.life = "none" => \A h \in Handlers : op[h].at \notin {"count", "project"}

RaceInv == Correct /\ NoProject /\ StillAsRead /\ StillPassed /\ NewsInv

LEMMA RaceInit == Init => RaceInv
BY InitCorrect DEF Init, RaceInv, NoProject, StillAsRead, StillPassed, NewsInv, HeardOnce, Announcing,
   Idle, NoTask

(* A step that leaves tasks, project and calls alone, and its handler with  *)
(* nothing to announce.                                                     *)
LEMMA ReadsOnly ==
    ASSUME RaceInv, NEW h \in Handlers, NEW next, Continues(h, next),
           UNCHANGED <<project, task, heard, doubled>>,
           raced' \in {raced, raced \ {h}},
           next.at = "task" => next.saw = task[next.task].status,
           next.at = "project" /\ next.ask.status # project.status
               => GatePassed(next.ask.status),
           next.at = "tail" => ~next.notify
    PROVE  StillAsRead' /\ StillPassed' /\ NewsInv'
<1>1. op'[h] = next /\ \A k \in Handlers \ {h} : op'[k] = op[k]
  BY OneMoves DEF RaceInv, Correct
<1>2. \A k \in Handlers \ {h} : k \notin raced' => k \notin raced
  OBVIOUS
<1>3. StillAsRead'
  BY <1>1, <1>2 DEF RaceInv, StillAsRead
<1>5. StillPassed'
  <2> SUFFICES ASSUME NEW k \in Handlers \ raced', op'[k].at = "project",
                      op'[k].ask.status # project.status
               PROVE  GatePassed(op[k].ask.status)'
    BY DEF StillPassed
  <2>1. GatePassed(op'[k].ask.status)
    BY <1>1, <1>2 DEF RaceInv, StillPassed
  <2> QED
    BY <2>1 DEF GatePassed, Open, Live
<1>6. \A k \in Handlers, t \in Tasks : Announcing(k, t)' => Announcing(k, t)
  BY <1>1, <1>2 DEF Announcing
<1>7. NewsInv'
  BY <1>6 DEF RaceInv, NewsInv, HeardOnce
<1> QED
  BY <1>3, <1>5, <1>7

(* A row is written, and announced only by a request that found it not done *)
(* and made it so, or that was raced.                                       *)
LEMMA Updated ==
    ASSUME RaceInv, NEW h \in Handlers, NEW t \in Tasks, NEW row,
           row.life = task[t].life, row.required = task[t].required,
           Update(h, t, row),
           NEW next, Continues(h, next), next.at \in {"tail", "idle"},
           next.at = "tail" => next.task = t,
           next.at = "tail" /\ next.notify /\ h \notin raced
               => row.status = "done" /\ task[t].status # "done",
           UNCHANGED project
    PROVE  StillAsRead' /\ StillPassed' /\ NewsInv'
<1>1. op'[h] = next /\ \A k \in Handlers \ {h} : op'[k] = op[k]
  BY OneMoves DEF RaceInv, Correct
<1>2. /\ task' = [task EXCEPT ![t] = row]
      /\ task'[t] = row /\ \A s \in Tasks : s # t => task'[s] = task[s]
  BY DEF Update, RaceInv, Correct, TypeOK
<1>3. CASE row.status = task[t].status
  <2>1. UNCHANGED <<heard, doubled, raced>>
    BY <1>3 DEF Update
  <2>2. \A s \in Tasks : task'[s].status = task[s].status
    BY <1>2, <1>3
  <2>3. StillAsRead'
    <3> SUFFICES ASSUME NEW k \in Handlers \ raced, op'[k].at = "task"
                 PROVE  op'[k].saw = task'[op'[k].task].status
      BY <2>1 DEF StillAsRead
    <3>1. k # h /\ op'[k] = op[k]
      BY <1>1
    <3>2. op[k].task \in Tasks
      BY <3>1, OpAsk DEF RaceInv, Correct
    <3> QED
      BY <2>2, <3>1, <3>2 DEF RaceInv, StillAsRead
  <2>4. StillPassed'
    <3> SUFFICES ASSUME NEW k \in Handlers \ raced, op'[k].at = "project",
                        op'[k].ask.status # project.status
                 PROVE  GatePassed(op[k].ask.status)'
      BY <2>1 DEF StillPassed
    <3>1. k # h /\ op'[k] = op[k]
      BY <1>1
    <3>2. GatePassed(op'[k].ask.status)
      BY <3>1 DEF RaceInv, StillPassed
    <3>3. \A s \in Tasks : /\ task'[s].life = task[s].life
                           /\ task'[s].required = task[s].required
      BY <1>2
    <3> QED
      BY <2>2, <3>2, <3>3 DEF GatePassed, Open, Live
  <2>5. NewsInv'
    <3>1. \A k \in Handlers, s \in Tasks : Announcing(k, s)' => Announcing(k, s)
      BY <1>1, <1>3, <2>1 DEF Announcing
    <3> QED
      BY <2>1, <2>2, <3>1 DEF RaceInv, NewsInv, HeardOnce
  <2> QED
    BY <2>3, <2>4, <2>5
<1>4. CASE row.status # task[t].status
  <2>1. /\ heard' = [heard EXCEPT ![t] = 0]
        /\ heard'[t] = 0 /\ \A s \in Tasks : s # t => heard'[s] = heard[s]
        /\ doubled' = doubled \ {t}
        /\ raced' = raced \cup ((Counted \cup GoingBy(t)) \ {h})
    BY <1>4 DEF Update, RaceInv, Correct, TypeOK
  <2>2. StillAsRead'
    <3> SUFFICES ASSUME NEW k \in Handlers \ raced', op'[k].at = "task"
                 PROVE  op'[k].saw = task'[op'[k].task].status
      BY DEF StillAsRead
    <3>1. k # h /\ op'[k] = op[k] /\ k \notin raced
      BY <1>1, <2>1
    <3>2. op[k].task \in Tasks /\ op[k].task # t
      BY <2>1, <3>1, OpAsk DEF RaceInv, Correct, GoingBy
    <3> QED
      BY <1>2, <3>1, <3>2 DEF RaceInv, StillAsRead
  <2>3. StillPassed'
    <3> SUFFICES ASSUME NEW k \in Handlers \ raced', op'[k].at = "project" PROVE FALSE
      BY DEF StillPassed
    <3> QED
      BY <1>1, <2>1 DEF Counted
  <2>4. NewsInv'
    <3> SUFFICES ASSUME NEW s \in Tasks \ doubled' PROVE HeardOnce(s)'
      BY DEF NewsInv
    <3>1. CASE s # t
      <4>1. \A k \in Handlers : Announcing(k, s)' => Announcing(k, s)
        BY <1>1, <2>1, <3>1 DEF Announcing
      <4> QED
        BY <1>2, <2>1, <3>1, <4>1 DEF RaceInv, NewsInv, HeardOnce
    <3>2. CASE s = t
      <4>1. \A k \in Handlers \ {h} : ~Announcing(k, t)'
        BY <1>1, <2>1 DEF Announcing, GoingBy
      <4>2. Announcing(h, t)' => row.status = "done"
        BY <1>1, <2>1 DEF Announcing
      <4> QED
        BY <1>2, <2>1, <3>2, <4>1, <4>2 DEF HeardOnce
    <3> QED
      BY <3>1, <3>2
  <2> QED
    BY <2>2, <2>3, <2>4
<1> QED
  BY <1>3, <1>4

LEMMA RaceAtOnce ==
    ASSUME RaceInv, AtOnce
    PROVE  StillAsRead' /\ StillPassed' /\ NewsInv'
<1>1. ASSUME NEW t \in Tasks, NEW form \in TaskForms, CreateTask(t, form)
      PROVE  StillAsRead' /\ StillPassed' /\ NewsInv'
  <2>1. /\ \A s \in Tasks : s # t => task'[s] = task[s]
        /\ task[t].life = "none" /\ task[t].status = "todo"
        /\ \A h \in Handlers : op[h].at = "task" => op[h].task # t
        /\ raced' = raced \cup Counted
        /\ UNCHANGED <<project, op, heard, doubled>>
    BY <1>1 DEF CreateTask, news, RaceInv, Correct, TypeOK, NotYet
  <2>2. StillAsRead'
    <3> SUFFICES ASSUME NEW k \in Handlers \ raced', op[k].at = "task"
                 PROVE  op[k].saw = task'[op[k].task].status
      BY <2>1 DEF StillAsRead
    <3>1. op[k].task \in Tasks /\ op[k].task # t
      BY <2>1, OpAsk DEF RaceInv, Correct
    <3> QED
      BY <2>1, <3>1 DEF RaceInv, StillAsRead
  <2>3. StillPassed'
    BY <2>1 DEF StillPassed, Counted
  <2>4. NewsInv'
    <3> SUFFICES ASSUME NEW s \in Tasks \ doubled PROVE HeardOnce(s)'
      BY <2>1 DEF NewsInv
    <3>1. \A k \in Handlers : Announcing(k, s)' => Announcing(k, s)
      BY <2>1 DEF Announcing
    <3>2. HeardOnce(s) /\ (s = t => task[s].status # "done")
      BY <2>1 DEF RaceInv, NewsInv
    <3> QED
      BY <2>1, <3>1, <3>2 DEF HeardOnce
  <2> QED
    BY <2>2, <2>3, <2>4
<1>2. ASSUME NEW t \in Tasks, DeleteTask(t)
      PROVE  StillAsRead' /\ StillPassed' /\ NewsInv'
  <2>1. /\ \A s \in Tasks : task'[s].status = task[s].status
        /\ raced' = raced \cup Counted
        /\ UNCHANGED <<project, op, heard, doubled>>
    BY <1>2 DEF DeleteTask, news, RaceInv, Correct, TypeOK
  <2>2. StillAsRead'
    <3> SUFFICES ASSUME NEW k \in Handlers \ raced', op[k].at = "task"
                 PROVE  op[k].saw = task'[op[k].task].status
      BY <2>1 DEF StillAsRead
    <3>1. op[k].task \in Tasks
      BY OpAsk DEF RaceInv, Correct
    <3> QED
      BY <2>1, <3>1 DEF RaceInv, StillAsRead
  <2>3. StillPassed'
    BY <2>1 DEF StillPassed, Counted
  <2>4. NewsInv'
    <3>1. \A k \in Handlers, s \in Tasks : Announcing(k, s)' => Announcing(k, s)
      BY <2>1 DEF Announcing
    <3> QED
      BY <2>1, <3>1 DEF RaceInv, NewsInv, HeardOnce
  <2> QED
    BY <2>2, <2>3, <2>4
<1>3. ASSUME UNCHANGED <<task, op, raced, heard, doubled>>,
             project'.status = project.status \/ \A h \in Handlers : op[h].at # "project"
      PROVE  StillAsRead' /\ StillPassed' /\ NewsInv'
  <2>2. StillPassed'
    BY <1>3 DEF RaceInv, StillPassed, GatePassed, Open, Live
  <2> QED
    BY <1>3, <2>2 DEF RaceInv, StillAsRead, NewsInv, HeardOnce, Announcing
<1>4. CASE \E t \in Tasks : LinkTask(t) \/ UnlinkTask(t)
  BY <1>3, <1>4 DEF LinkTask, UnlinkTask, news
<1>5. CASE DeleteProject
  BY <1>3, <1>5 DEF DeleteProject, news
<1>6. ASSUME NEW status \in {"draft", "active"}, NEW started \in BOOLEAN,
             CreateProject(status, started)
      PROVE  StillAsRead' /\ StillPassed' /\ NewsInv'
  BY <1>3, <1>6 DEF CreateProject, news, RaceInv, NoProject
<1> QED
  BY <1>1, <1>2, <1>4, <1>5, <1>6 DEF AtOnce

LEMMA RaceBegin ==
    ASSUME RaceInv, NEW h \in Handlers, Begin(h)
    PROVE  StillAsRead' /\ StillPassed' /\ NewsInv'
<1>1. ASSUME NEW t \in Tasks, NEW ask \in TaskPatches, NEW before \in BOOLEAN,
             ReadTask(h, t, ask, before)
      PROVE  StillAsRead' /\ StillPassed' /\ NewsInv'
  <2> DEFINE next == [at |-> "task", task |-> t, ask |-> ask, saw |-> task[t].status]
  <2>1. next.at = "task" /\ next.saw = task[next.task].status
    OBVIOUS
  <2>2. /\ Continues(h, next)
        /\ UNCHANGED <<project, task, heard, doubled, raced>>
    BY <1>1 DEF ReadTask, news
  <2> HIDE DEF next
  <2> QED
    BY <2>1, <2>2, ReadsOnly
<1>2. ASSUME NEW t \in Tasks, NEW before \in BOOLEAN, CompletePortalTask(h, t, before)
      PROVE  StillAsRead' /\ StillPassed' /\ NewsInv'
  <2> DEFINE row == [life |-> "live", status |-> "done", required |-> task[t].required,
                     visible |-> TRUE, gated |-> task[t].gated,
                     filled |-> task[t].filled, completed |-> TRUE]
             next == Tail(t, TRUE, FALSE)
  <2>1. /\ Update(h, t, row) /\ Continues(h, next) /\ UNCHANGED project
        /\ task[t].life = "live" /\ task[t].status # "done"
    BY <1>2 DEF CompletePortalTask, Write, Live
  <2>2. /\ row.life = "live" /\ row.required = task[t].required /\ row.status = "done"
        /\ next.at = "tail" /\ next.task = t
    BY DEF Tail
  <2> HIDE DEF row, next
  <2> QED
    BY <2>1, <2>2, Updated
<1>3. ASSUME NEW t \in Tasks, NEW to \in JiraStatuses, NEW before \in BOOLEAN,
             ReadWebhook(h, t, to, before)
      PROVE  StillAsRead' /\ StillPassed' /\ NewsInv'
  <2> DEFINE next == [at |-> "webhook", task |-> t, to |-> to]
  <2>1. next.at = "webhook"
    OBVIOUS
  <2>2. /\ Continues(h, next)
        /\ UNCHANGED <<project, task, heard, doubled, raced>>
    BY <1>3 DEF ReadWebhook, news
  <2> HIDE DEF next
  <2> QED
    BY <2>1, <2>2, ReadsOnly
<1>4. ASSUME NEW ask \in ProjectPatches, ReadProject(h, ask)
      PROVE  StillAsRead' /\ StillPassed' /\ NewsInv'
  <2> DEFINE at == IF ask.status \in {"active", "completed"} \ {project.status}
                   THEN "count" ELSE "project"
             next == [at |-> at, ask |-> ask]
  <2>1. /\ next.at \in {"count", "project"} /\ next.ask = ask
        /\ next.at = "project" /\ ask.status # project.status
               => ask.status \notin {"active", "completed"}
    OBVIOUS
  <2>2. /\ Continues(h, next)
        /\ UNCHANGED <<project, task, heard, doubled, raced>>
    BY <1>4 DEF ReadProject, news
  <2>3. ask.status \notin {"active", "completed"} => GatePassed(ask.status)
    BY DEF GatePassed
  <2> HIDE DEF next, at
  <2> QED
    BY <2>1, <2>2, <2>3, ReadsOnly
<1> QED
  BY <1>1, <1>2, <1>3, <1>4 DEF Begin

LEMMA RaceWriteTask ==
    ASSUME RaceInv, NEW h \in Handlers, WriteTask(h)
    PROVE  StillAsRead' /\ StillPassed' /\ NewsInv'
<1> DEFINE t == op[h].task
           ask == op[h].ask
           saw == op[h].saw
           row == Patched(task[t], ask)
           announces == Announces(saw, row.status)
           pushes == ask.status \notin {Null, saw} /\ t \in linked
           next == Tail(t, announces, pushes)
<1>1. t \in Tasks /\ ask \in TaskPatch
  BY OpAsk DEF WriteTask, RaceInv, Correct
<1>2. task[t] \in TaskRow
  BY <1>1 DEF RaceInv, Correct, TypeOK
<1>3. row.life = task[t].life /\ row.required = task[t].required
  BY <1>1, <1>2, PatchedRow
<1>4. next.at = "tail" /\ next.task = t /\ next.notify = announces
  BY DEF Tail
<1>5. h \notin raced => saw = task[t].status
  BY DEF WriteTask, RaceInv, StillAsRead
<1>6. announces => row.status = "done" /\ saw # "done"
  BY DEF Announces
<1>7. Update(h, t, row) /\ Continues(h, next) /\ UNCHANGED project
  BY DEF WriteTask, Write
<1> HIDE DEF t, ask, saw, row, announces, pushes, next
<1> QED
  BY <1>1, <1>3, <1>4, <1>5, <1>6, <1>7, Updated

LEMMA RaceNotify ==
    ASSUME RaceInv, NEW h \in Handlers, Notify(h)
    PROVE  StillAsRead' /\ StillPassed' /\ NewsInv'
<1> DEFINE t == op[h].task
           next == Tail(t, FALSE, op[h].push)
<1>1. t \in Tasks /\ op[h].at = "tail" /\ op[h].notify
  BY OpAsk DEF Notify, RaceInv, Correct
<1>2. /\ Continues(h, next) /\ raced' = raced \ {h}
      /\ UNCHANGED <<project, task>>
      /\ IF task[t].status = "done"
         THEN /\ heard' = [heard EXCEPT ![t] = UpToTwo(@)]
              /\ doubled' = IF h \in raced THEN doubled \cup {t} ELSE doubled
         ELSE UNCHANGED <<heard, doubled>>
  BY DEF Notify, Through, news
<1>3. next.at = "tail" /\ next.notify = FALSE
  BY DEF Tail
<1> HIDE DEF next
<1>4. op'[h] = next /\ \A k \in Handlers \ {h} : op'[k] = op[k]
  BY <1>2, OneMoves DEF RaceInv, Correct
<1>5. StillAsRead'
  BY <1>2, <1>3, <1>4 DEF RaceInv, StillAsRead
<1>6. StillPassed'
  BY <1>2, <1>3, <1>4 DEF RaceInv, StillPassed, GatePassed, Open, Live
<1>7. NewsInv'
  <2> SUFFICES ASSUME NEW s \in Tasks \ doubled' PROVE HeardOnce(s)'
    BY DEF NewsInv
  <2>1. \A k \in Handlers : Announcing(k, s)' => k # h /\ Announcing(k, s)
    BY <1>2, <1>3, <1>4 DEF Announcing
  <2>2. s \notin doubled /\ HeardOnce(s)
    BY <1>2 DEF RaceInv, NewsInv
  <2>3. CASE s # t
    <3>1. heard'[s] = heard[s]
      BY <1>2, <2>3 DEF RaceInv, Correct, TypeOK
    <3> QED
      BY <1>2, <2>1, <2>2, <3>1 DEF HeardOnce
  <2>4. CASE s = t /\ task[t].status # "done"
    BY <1>2, <2>1, <2>2, <2>4 DEF HeardOnce
  <2>5. CASE s = t /\ task[t].status = "done"
    <3>1. h \notin raced
      BY <1>1, <1>2, <2>5
    <3>2. Announcing(h, s)
      BY <1>1, <2>5, <3>1 DEF Announcing
    <3>3. heard[s] = 0 /\ heard'[s] = 1
      BY <1>1, <1>2, <2>2, <2>5, <3>2 DEF HeardOnce, UpToTwo, RaceInv, Correct, TypeOK
    <3>4. \A k \in Handlers : ~Announcing(k, s)'
      BY <2>1, <2>2, <3>2 DEF HeardOnce
    <3> QED
      BY <1>2, <2>5, <3>3, <3>4 DEF HeardOnce
  <2> QED
    BY <2>3, <2>4, <2>5
<1> QED
  BY <1>5, <1>6, <1>7

LEMMA RaceWriteProject ==
    ASSUME RaceInv, NEW h \in Handlers, WriteProject(h)
    PROVE  StillAsRead' /\ StillPassed' /\ NewsInv'
<1>1. /\ Continues(h, Idle)
      /\ UNCHANGED <<task, heard, doubled>>
      /\ raced' = (IF project'.status = project.status THEN raced
                   ELSE raced \cup Uncounted) \ {h}
  BY DEF WriteProject, Done, news
<1>2. op'[h] = Idle /\ \A k \in Handlers \ {h} : op'[k] = op[k]
  BY <1>1, OneMoves DEF RaceInv, Correct
<1>3. \A k \in Handlers \ {h} : k \notin raced' => k \notin raced
  BY <1>1
<1>4. StillAsRead'
  BY <1>1, <1>2, <1>3, IdleTyped DEF RaceInv, StillAsRead
<1>5. StillPassed'
  <2> SUFFICES ASSUME NEW k \in Handlers \ raced', op'[k].at = "project",
                      op'[k].ask.status # project'.status
               PROVE  GatePassed(op[k].ask.status)'
    BY DEF StillPassed
  <2>1. k # h /\ op'[k] = op[k] /\ k \notin raced
    BY <1>2, <1>3, IdleTyped
  <2>2. op[k].ask.status # project.status
    BY <1>1, <2>1 DEF Uncounted
  <2>3. GatePassed(op[k].ask.status)
    BY <2>1, <2>2 DEF RaceInv, StillPassed
  <2> QED
    BY <1>1, <2>1, <2>3 DEF GatePassed, Open, Live
<1>6. \A k \in Handlers, t \in Tasks : Announcing(k, t)' => Announcing(k, t)
  BY <1>2, <1>3, IdleTyped DEF Announcing
<1>7. NewsInv'
  BY <1>1, <1>6 DEF RaceInv, NewsInv, HeardOnce
<1> QED
  BY <1>4, <1>5, <1>7

LEMMA RaceContinue ==
    ASSUME RaceInv, NEW h \in Handlers, Continue(h)
    PROVE  StillAsRead' /\ StillPassed' /\ NewsInv'
<1>1. CASE WriteTask(h)
  BY <1>1, RaceWriteTask
<1>2. CASE TaskGone(h) \/ Abandon(h) \/ Push(h)
  <2>1. /\ Continues(h, Idle)
        /\ raced' = raced \ {h}
        /\ UNCHANGED <<project, task, heard, doubled>>
    BY <1>2 DEF TaskGone, Abandon, Push, Done, Forgotten, Through, news
  <2> QED
    BY <2>1, IdleTyped, ReadsOnly
<1>3. CASE Notify(h)
  BY <1>3, RaceNotify
<1>4. CASE WriteWebhook(h)
  <2> DEFINE t == op[h].task
             old == task[t]
             row == [life |-> old.life, status |-> op[h].to, required |-> old.required,
                     visible |-> old.visible, gated |-> old.gated, filled |-> old.filled,
                     completed |-> CompletedAfter(op[h].to, old.completed)]
  <2>1. t \in Tasks
    BY <1>4, OpAsk DEF WriteWebhook, RaceInv, Correct
  <2>2. row.life = task[t].life /\ row.required = task[t].required
    OBVIOUS
  <2>3. Update(h, t, row) /\ Continues(h, Idle) /\ UNCHANGED project
    BY <1>4 DEF WriteWebhook, Write, Done
  <2> HIDE DEF t, row
  <2> QED
    BY <2>1, <2>2, <2>3, IdleTyped, Updated
<1>5. CASE CountTasks(h)
  <2> DEFINE passed == [at |-> "project", ask |-> op[h].ask]
  <2>1. passed.at = "project" /\ passed.ask = op[h].ask
    OBVIOUS
  <2>2. /\ \/ Continues(h, passed) /\ GatePassed(op[h].ask.status)
           \/ Continues(h, Idle)
        /\ UNCHANGED <<project, task, heard, doubled, raced>>
    BY <1>5 DEF CountTasks, Done, news
  <2> HIDE DEF passed
  <2> QED
    BY <2>1, <2>2, IdleTyped, ReadsOnly
<1>6. CASE WriteProject(h)
  BY <1>6, RaceWriteProject
<1> QED
  BY <1>1, <1>2, <1>3, <1>4, <1>5, <1>6 DEF Continue

LEMMA NoProjectStep == RaceInv /\ [Next]_vars => NoProject'
<1> SUFFICES ASSUME RaceInv, [Next]_vars PROVE NoProject'
  OBVIOUS
<1>1. project'.life = "none" => project.life = "none"
  <2>1. CASE AtOnce
    <3>1. ASSUME NEW status, NEW started, CreateProject(status, started)
          PROVE  project'.life = "live"
      BY <3>1 DEF CreateProject
    <3>2. DeleteProject => project'.life = "deleted"
      BY DEF DeleteProject
    <3> QED
      BY <2>1, <3>1, <3>2 DEF AtOnce, CreateTask, DeleteTask, LinkTask, UnlinkTask
  <2>2. ASSUME NEW h \in Handlers, WriteProject(h)
        PROVE  project'.life \in {project.life, "live"}
    BY <2>2 DEF WriteProject
  <2>3. ASSUME NEW h \in Handlers, Begin(h) \/ Continue(h), ~WriteProject(h)
        PROVE  UNCHANGED project
    BY <2>3 DEF Begin, Continue, ReadTask, CompletePortalTask, ReadWebhook, ReadProject,
       WriteTask, TaskGone, Notify, Push, WriteWebhook, CountTasks, Abandon
  <2> QED
    BY <2>1, <2>2, <2>3 DEF Next, vars
<1>2. CASE UNCHANGED op
  BY <1>1, <1>2 DEF RaceInv, NoProject
<1>3. ASSUME NEW h \in Handlers, NEW next, Continues(h, next),
             next.at \in {"count", "project"} => project.life # "none"
      PROVE  NoProject'
  <2>1. op'[h] = next /\ \A k \in Handlers \ {h} : op'[k] = op[k]
    BY <1>3, OneMoves DEF RaceInv, Correct
  <2> QED
    BY <1>1, <1>3, <2>1 DEF RaceInv, NoProject
<1>4. ASSUME NEW h \in Handlers, Begin(h)
      PROVE  NoProject'
  <2>1. ASSUME NEW ask \in ProjectPatches, ReadProject(h, ask)
        PROVE  NoProject'
    BY <1>3, <2>1 DEF ReadProject
  <2>2. ASSUME NEW t \in Tasks, NEW ask \in TaskPatches, NEW before \in BOOLEAN,
               ReadTask(h, t, ask, before)
        PROVE  NoProject'
    BY <1>3, <2>2 DEF ReadTask
  <2>3. ASSUME NEW t \in Tasks, NEW to \in JiraStatuses, NEW before \in BOOLEAN,
               ReadWebhook(h, t, to, before)
        PROVE  NoProject'
    BY <1>3, <2>3 DEF ReadWebhook
  <2>4. ASSUME NEW t \in Tasks, NEW before \in BOOLEAN, CompletePortalTask(h, t, before)
        PROVE  NoProject'
    BY <1>3, <2>4 DEF CompletePortalTask, Tail
  <2> QED
    BY <1>4, <2>1, <2>2, <2>3, <2>4 DEF Begin
<1>5. ASSUME NEW h \in Handlers, Continue(h)
      PROVE  NoProject'
  <2>1. CASE WriteTask(h) \/ Notify(h)
    <3>1. \E t, notify, push : Continues(h, Tail(t, notify, push))
      BY <2>1 DEF WriteTask, Notify
    <3>2. PICK t, notify, push : Continues(h, Tail(t, notify, push))
      BY <3>1
    <3>3. Tail(t, notify, push).at = "tail"
      BY DEF Tail
    <3> QED
      BY <1>3, <3>2, <3>3
  <2>2. CASE TaskGone(h) \/ Push(h) \/ WriteWebhook(h) \/ WriteProject(h) \/ Abandon(h)
    <3>1. Continues(h, Idle)
      BY <2>2 DEF TaskGone, Push, WriteWebhook, WriteProject, Abandon, Done
    <3> QED
      BY <1>3, <3>1, IdleTyped
  <2>3. CASE CountTasks(h)
    <3>1. \E next : Continues(h, next) /\ project.life # "none"
      BY <2>3 DEF CountTasks, Done, RaceInv, NoProject
    <3> QED
      BY <1>3, <3>1
  <2> QED
    BY <1>5, <2>1, <2>2, <2>3 DEF Continue
<1>6. CASE AtOnce /\ ~UNCHANGED op
  <2>1. UNCHANGED op \/ \E status, started : CreateProject(status, started)
    BY <1>6 DEF AtOnce, CreateTask, DeleteTask, LinkTask, UnlinkTask, DeleteProject
  <2> QED
    BY <1>6, <2>1 DEF CreateProject
<1> QED
  BY <1>2, <1>4, <1>5, <1>6 DEF Next, vars

LEMMA RaceStep == RaceInv /\ [Next]_vars => RaceInv'
<1> SUFFICES ASSUME RaceInv, [Next]_vars PROVE RaceInv'
  OBVIOUS
<1>1. Correct' /\ NoProject'
  BY StepCorrect, NoProjectStep DEF RaceInv
<1>2. CASE Next
  BY <1>1, <1>2, RaceAtOnce, RaceBegin, RaceContinue DEF Next, RaceInv
<1>3. CASE UNCHANGED vars
  BY <1>1, <1>3 DEF vars, RaceInv, StillAsRead, StillPassed, NewsInv, HeardOnce, Announcing,
     GatePassed, Open, Live
<1> QED
  BY <1>2, <1>3

LEMMA RaceAlways == Spec => []RaceInv
<1> QED
  BY RaceInit, RaceStep, PTL DEF Spec

(* A completion is announced twice only by a request that went by a status  *)
(* another had changed (tasks.go, portal.go), however requests interleave.  *)
THEOREM SecondCallNeedsRace == Spec => []TwiceHeardOnlyByRaces
<1>1. RaceInv => TwiceHeardOnlyByRaces
  BY DEF RaceInv, NewsInv, HeardOnce, Correct, TypeOK, TwiceHeardOnlyByRaces
<1> QED
  BY <1>1, RaceAlways, PTL

(* A project becomes active or completed by a request whose count nobody    *)
(* has outdated only with its tasks as the gate wants them (projects.go).   *)
THEOREM ProjectGates == Spec => GatesKept
<1>1. RaceInv /\ [Next]_vars =>
         [\A h \in Handlers \ raced :
             op[h].at = "project" /\ op'[h] # op[h] /\ project'.status # project.status =>
                 /\ project'.status = "active" => \E t \in Tasks : Live(t)
                 /\ project'.status = "completed" =>
                        \A t \in Tasks : Live(t) /\ task[t].required
                                            => task[t].status \in {"done", "waived"}]_vars
  <2> SUFFICES ASSUME RaceInv, Next, NEW h \in Handlers \ raced,
                      op[h].at = "project", op'[h] # op[h],
                      project'.status # project.status
               PROVE  /\ project'.status = "active" => \E t \in Tasks : Live(t)
                      /\ project'.status = "completed" =>
                             \A t \in Tasks : Live(t) /\ task[t].required
                                                 => task[t].status \in {"done", "waived"}
    OBVIOUS
  <2>1. \E k \in Handlers : WriteProject(k)
    <3>1. ~AtOnce
      BY DEF AtOnce, CreateTask, DeleteTask, LinkTask, UnlinkTask, CreateProject, DeleteProject
    <3>2. PICK k \in Handlers : Begin(k) \/ Continue(k)
      BY <3>1 DEF Next
    <3> QED
      BY <3>2 DEF Begin, Continue, ReadTask, CompletePortalTask, ReadWebhook, ReadProject,
         WriteTask, TaskGone, Notify, Push, WriteWebhook, CountTasks, Abandon
  <2>2. PICK k \in Handlers : WriteProject(k)
    BY <2>1
  <2>3. k = h
    BY <2>2, OneMoves DEF WriteProject, Done, RaceInv, Correct
  <2>4. project'.status = Given(op[h].ask.status, project.status)
    BY <2>2, <2>3 DEF WriteProject
  <2>5. op[h].ask.status = project'.status
    BY <2>4 DEF Given
  <2>6. GatePassed(project'.status)
    BY <2>5 DEF RaceInv, StillPassed
  <2> QED
    BY <2>6 DEF GatePassed, Open
<1> QED
  BY <1>1, RaceAlways, PTL DEF Spec, GatesKept
=============================================================================
