------------------------------- MODULE JiraProofs -------------------------------
(***************************************************************************)
(* JiraSync for any jobs, workers, handlers, comments and workflow.        *)
(*                                                                         *)
(* WorkInv holds whatever interleaves: no two workers run one job, and the *)
(* queue keeps a job that runs.  SyncInv is what makes the two sides agree *)
(* after a change that nothing overlaps, whatever overlapped before it:    *)
(* there is one job at most and it pushes the task's status; whatever is in*)
(* flight tells the status of the side that changed last; and a push is    *)
(* skipped, or done, only when the issue is where it is to be.             *)
(***************************************************************************)
EXTENDS JiraSync, TLAPS

WorkInv ==
    /\ TypeOK
    /\ \A w \in Workers : Running(w) => jobs[worker[w].job] \in Mapped
    /\ \A v, w \in Workers :
           Running(v) /\ Running(w) /\ worker[v].job = worker[w].job => v = w

Pending(j) == jobs[j] # None

(* The task was changed last: the issue is there, or a job can move it.     *)
PushOwed ==
    /\ linked
    /\ events \subseteq {status}
    /\ events # {} => issue = status
    /\ \A j \in Jobs : Pending(j) =>
           /\ mode = "both" /\ jobs[j] = status /\ status \in Mapped
           /\ issue = status \/ <<issue, status>> \in Flow
           /\ ~behind => issue = status
           /\ \A w \in Workers : worker[w].at = "posted" => issue = status
    /\ (\A j \in Jobs : ~Pending(j)) => issue = status

(* The issue was changed last: the task is there, or an event will move it. *)
EventOwed ==
    /\ linked
    /\ events \subseteq {issue}
    /\ issue = status \/ (issue \in events /\ Takes(issue))

SyncInv ==
    /\ \A i, j \in Jobs : Pending(i) /\ Pending(j) => i = j
    /\ \A j \in Jobs : Pending(j) =>
           /\ posts = {} /\ \A h \in Handlers : handler[h] = Idle
           /\ last \in {"staff", "none"}
    /\ last = "staff" => PushOwed
    /\ last = "jira" => EventOwed

-----------------------------------------------------------------------------
(* What is in flight keeps its type, and overlapping changes are counted.   *)

LEMMA OverlapsKept ==
    ASSUME TypeOK, Changed \/ Meanwhile
    PROVE  /\ overlaps' \in 0..MaxOverlaps
           /\ Calm' => Quiet /\ (Calm \/ Changed)
<1>1. overlaps \in 0..MaxOverlaps /\ MaxOverlaps \in Nat
    BY BoundAssumption DEF TypeOK
<1> QED BY <1>1 DEF Changed, Meanwhile, Overlapping, Calm

Work1 == [at : {"running", "posted"}, job : Jobs, moved : BOOLEAN]
Mirror == [at : {"mirrors"}, of : Comments, new : BOOLEAN, moved : BOOLEAN]

LEMMA StatusKinds ==
    /\ Mapped \subseteq Status /\ Mapped \subseteq IssueStatus
    /\ None \notin Mapped /\ None \notin Status
BY NoneAssumption DEF Mapped, Status, IssueStatus

LEMMA WorkerKinds ==
    ASSUME TypeOK, NEW w \in Workers
    PROVE  /\ Running(w) => /\ worker[w] \in Work1 /\ worker[w].job \in Jobs
                            /\ worker[w].moved \in BOOLEAN
           /\ worker[w].at \in {"running", "posted"} => Running(w)
           /\ ~Running(w) => worker[w] = Idle
           /\ Idle.at = "idle"
BY DEF TypeOK, Work1, Running, Idle

LEMMA HandlerKinds ==
    ASSUME TypeOK, NEW h \in Handlers
    PROVE  /\ handler[h] # Idle => /\ handler[h] \in Mirror /\ handler[h].of \in Comments
                                   /\ handler[h].new \in BOOLEAN /\ handler[h].moved \in BOOLEAN
           /\ handler[h].at = "mirrors" => handler[h] # Idle
BY DEF TypeOK, Mirror, Idle

(* A change that moves updated_at is noted by what runs, and by that only.  *)
LEMMA TouchedKeeps ==
    ASSUME TypeOK, Touched
    PROVE  /\ worker' \in [Workers -> {Idle} \cup Work1]
           /\ handler' \in [Handlers -> {Idle} \cup Mirror]
           /\ \A w \in Workers : /\ worker'[w].at = worker[w].at
                                 /\ Running(w) => worker'[w].job = worker[w].job
           /\ \A h \in Handlers : /\ handler[h] = Idle => handler'[h] = Idle
                                  /\ handler[h] # Idle => /\ handler'[h].of = handler[h].of
                                                          /\ handler'[h].new = handler[h].new
                                                          /\ handler'[h].at = "mirrors"
<1> DEFINE v(w) == [at |-> worker[w].at, job |-> worker[w].job, moved |-> TRUE]
           g(h) == [at |-> "mirrors", of |-> handler[h].of, new |-> handler[h].new,
                    moved |-> TRUE]
<1>1. /\ worker' = [w \in Workers |-> IF Running(w) THEN v(w) ELSE Idle]
      /\ handler' = [h \in Handlers |-> IF handler[h] = Idle THEN Idle ELSE g(h)]
    BY DEF Touched
<1>2. \A w \in Workers : Running(w) =>
          v(w) \in Work1 /\ v(w).at = worker[w].at /\ v(w).job = worker[w].job
    BY WorkerKinds DEF Work1
<1>3. \A h \in Handlers : handler[h] # Idle =>
          /\ g(h) \in Mirror /\ g(h).of = handler[h].of /\ g(h).new = handler[h].new
          /\ g(h).at = "mirrors"
    BY HandlerKinds DEF Mirror
<1> HIDE DEF v, g
<1> QED BY <1>1, <1>2, <1>3, WorkerKinds

-----------------------------------------------------------------------------
(* Whatever interleaves.                                                    *)

(* A step that leaves the jobs queued and lets no worker take one.          *)
LEMMA SameWork ==
    ASSUME WorkInv, TypeOK',
           \A w \in Workers : worker'[w].at # "idle" =>
               Running(w) /\ worker'[w].job = worker[w].job,
           \A j \in Jobs : jobs[j] # None => jobs'[j] = jobs[j]
    PROVE  WorkInv'
<1>1. \A w \in Workers : Running(w) => /\ worker[w].job \in Jobs
                                       /\ jobs[worker[w].job] # None
    BY WorkerKinds, StatusKinds DEF WorkInv
<1> QED BY <1>1 DEF WorkInv, Running

(* A job is taken off the queue: nobody runs it any more.                   *)
LEMMA JobDone ==
    ASSUME WorkInv, TypeOK', NEW j \in Jobs, jobs' = [jobs EXCEPT ![j] = None],
           \A w \in Workers : worker'[w].at # "idle" =>
               Running(w) /\ worker'[w].job = worker[w].job /\ worker[w].job # j
    PROVE  WorkInv'
<1>1. \A w \in Workers : worker'[w].at # "idle" =>
          /\ worker[w].job \in Jobs /\ jobs'[worker[w].job] = jobs[worker[w].job]
    BY WorkerKinds DEF WorkInv, TypeOK
<1> QED BY <1>1 DEF WorkInv, Running

LEMMA WorkChanges ==
    ASSUME WorkInv, Change
    PROVE  WorkInv'
<1> USE DEF WorkInv
<1>o. overlaps' \in 0..MaxOverlaps
    <2>1. Changed \/ Meanwhile
        BY DEF Change, PutJiraSettings, LinkTask, UnlinkTask, PatchTask, PatchOther,
               CompletePortalTask, ChangeIssue, WriteIssueComment
    <2> QED BY <2>1, OverlapsKept
<1>1. ASSUME NEW pat \in BOOLEAN, PutJiraSettings(pat)
      PROVE  WorkInv'
    <2>1. TypeOK'
        BY <1>1, <1>o DEF PutJiraSettings, commentVars, TypeOK
    <2> QED BY <1>1, <2>1, SameWork DEF PutJiraSettings, Running
<1>2. CASE LinkTask \/ UnlinkTask
    <2>1. TypeOK' /\ worker' = worker /\ jobs' = jobs
        BY <1>2, <1>o DEF LinkTask, UnlinkTask, commentVars, TypeOK
    <2> QED BY <2>1, SameWork DEF Running
<1>3. ASSUME NEW to \in Status, PatchTask(to)
      PROVE  WorkInv'
    <2>1. /\ jobs' \in [Jobs -> Status \cup {None}]
          /\ \A j \in Jobs : jobs[j] # None => jobs'[j] = jobs[j]
        BY <1>3 DEF PatchTask, TypeOK
    <2>2. /\ worker' \in [Workers -> {Idle} \cup Work1]
          /\ handler' \in [Handlers -> {Idle} \cup Mirror]
          /\ \A w \in Workers : worker'[w].at # "idle" =>
                 Running(w) /\ worker'[w].job = worker[w].job
        BY <1>3, TouchedKeeps DEF PatchTask, Running
    <2>3. TypeOK'
        BY <1>3, <2>1, <2>2, <1>o DEF PatchTask, TypeOK, Work1, Mirror
    <2> QED BY <2>1, <2>2, <2>3, SameWork
<1>4. CASE PatchOther
    <2>1. /\ worker' \in [Workers -> {Idle} \cup Work1]
          /\ handler' \in [Handlers -> {Idle} \cup Mirror]
          /\ \A w \in Workers : worker'[w].at # "idle" =>
                 Running(w) /\ worker'[w].job = worker[w].job
        BY <1>4, TouchedKeeps DEF PatchOther, Running
    <2>2. TypeOK' /\ jobs' = jobs
        BY <1>4, <2>1, <1>o DEF PatchOther, TypeOK, Work1, Mirror
    <2> QED BY <2>1, <2>2, SameWork
<1>5. CASE CompletePortalTask
    <2>1. TypeOK' /\ worker' = worker /\ jobs' = jobs
        BY <1>5, <1>o DEF CompletePortalTask, commentVars, TypeOK, Status
    <2> QED BY <2>1, SameWork DEF Running
<1>6. ASSUME NEW to \in IssueStatus, ChangeIssue(to)
      PROVE  WorkInv'
    <2>1. TypeOK' /\ worker' = worker /\ jobs' = jobs
        BY <1>6, <1>o DEF ChangeIssue, commentVars, TypeOK
    <2> QED BY <2>1, SameWork DEF Running
<1>7. ASSUME NEW c \in Comments, WriteIssueComment(c)
      PROVE  WorkInv'
    <2>1. TypeOK' /\ worker' = worker /\ jobs' = jobs
        BY <1>7, <1>o DEF WriteIssueComment, TypeOK
    <2> QED BY <2>1, SameWork DEF Running
<1> QED BY <1>1, <1>2, <1>3, <1>4, <1>5, <1>6, <1>7 DEF Change

LEMMA WorkServes ==
    ASSUME WorkInv, Serve
    PROVE  WorkInv'
<1> USE DEF WorkInv
<1>1. ASSUME NEW to \in IssueStatus, NEW again \in BOOLEAN, JiraWebhook(to, again)
      PROVE  WorkInv'
    <2>1. /\ worker' \in [Workers -> {Idle} \cup Work1]
          /\ handler' \in [Handlers -> {Idle} \cup Mirror]
          /\ \A w \in Workers : worker'[w].at # "idle" =>
                 Running(w) /\ worker'[w].job = worker[w].job
        <3>1. CASE UNCHANGED <<worker, handler>>
            BY <3>1 DEF TypeOK, Running, Work1, Mirror
        <3>2. CASE Touched
            BY <3>2, TouchedKeeps DEF Running
        <3> QED BY <1>1, <3>1, <3>2 DEF JiraWebhook
    <2>2. status' \in Status /\ behind' \in BOOLEAN /\ events' \subseteq IssueStatus
        BY <1>1, StatusKinds DEF JiraWebhook, Takes, TypeOK
    <2>3. TypeOK' /\ jobs' = jobs
        BY <1>1, <2>1, <2>2 DEF JiraWebhook, TypeOK, Work1, Mirror
    <2> QED BY <2>1, <2>3, SameWork
<1>2. ASSUME NEW h \in Handlers, NEW c \in Comments, NEW again \in BOOLEAN,
             ReadComment(h, c, again)
      PROVE  WorkInv'
    <2> DEFINE new == mirrored[c] = 0
               next == [at |-> "mirrors", of |-> c, new |-> new, moved |-> FALSE]
    <2>1. new \in BOOLEAN
        OBVIOUS
    <2>2. handler' = [handler EXCEPT ![h] = IF linked THEN next ELSE Idle]
        BY <1>2 DEF ReadComment
    <2> HIDE DEF new
    <2>3. next \in Mirror
        BY <2>1 DEF Mirror
    <2> HIDE DEF next
    <2>4. handler' \in [Handlers -> {Idle} \cup Mirror]
        BY <2>2, <2>3 DEF TypeOK, Mirror
    <2>5. TypeOK' /\ worker' = worker /\ jobs' = jobs
        BY <1>2, <2>4 DEF ReadComment, TypeOK, Mirror
    <2> QED BY <2>5, SameWork DEF Running
<1>3. ASSUME NEW h \in Handlers, WriteComment(h)
      PROVE  WorkInv'
    <2>1. handler[h].of \in Comments /\ handler[h].moved \in BOOLEAN
        BY <1>3, HandlerKinds DEF WriteComment
    <2>2. mirrored' \in [Comments -> Nat]
        BY <1>3, <2>1 DEF WriteComment, TypeOK
    <2>3. TypeOK' /\ worker' = worker /\ jobs' = jobs
        BY <1>3, <2>1, <2>2 DEF WriteComment, TypeOK
    <2> QED BY <2>3, SameWork DEF Running
<1>4. ASSUME NEW h \in Handlers, AbandonComment(h)
      PROVE  WorkInv'
    <2>1. handler[h].of \in Comments
        BY <1>4, HandlerKinds DEF AbandonComment
    <2>2. TypeOK' /\ worker' = worker /\ jobs' = jobs
        BY <1>4, <2>1 DEF AbandonComment, TypeOK
    <2> QED BY <2>2, SameWork DEF Running
<1> QED BY <1>1, <1>2, <1>3, <1>4 DEF Serve

LEMMA WorkWorks ==
    ASSUME WorkInv, NEW w \in Workers, Work(w)
    PROVE  WorkInv'
<1>t. TypeOK
    BY DEF WorkInv
<1>1. ASSUME NEW j \in Jobs, StartJob(w, j)
      PROVE  WorkInv'
    <2> DEFINE next == [at |-> "running", job |-> j, moved |-> FALSE]
    <2>1. next \in Work1 /\ next.job = j
        BY DEF Work1
    <2>2. worker' = [worker EXCEPT ![w] = next] /\ jobs' = jobs
        BY <1>1 DEF StartJob
    <2> HIDE DEF next
    <2>3. TypeOK'
        BY <1>1, <1>t, <2>1, <2>2 DEF StartJob, commentVars, TypeOK, Work1
    <2>4. worker'[w] = next /\ \A v \in Workers : v # w => worker'[v] = worker[v]
        BY <2>2, <1>t DEF TypeOK
    <2>5. \A v \in Workers : Running(v) => worker[v].job # j
        BY <1>1 DEF StartJob, Waiting
    <2>6. jobs[j] \in Mapped
        BY <1>1 DEF StartJob, Due
    <2> QED BY <2>1, <2>2, <2>3, <2>4, <2>5, <2>6 DEF WorkInv, Running
<1>2. ASSUME NEW j \in Jobs, SkipJob(w, j)
      PROVE  WorkInv'
    <2>1. TypeOK'
        BY <1>2, <1>t DEF SkipJob, commentVars, TypeOK
    <2> QED BY <1>2, <2>1, JobDone DEF SkipJob, Waiting, Running
<1>3. CASE NoTransition(w) \/ CommitPush(w)
    <2> DEFINE j == worker[w].job
    <2>1. /\ Running(w) /\ jobs' = [jobs EXCEPT ![j] = None]
          /\ worker' = [worker EXCEPT ![w] = Idle]
        BY <1>3 DEF NoTransition, CommitPush, Running
    <2>2. j \in Jobs /\ worker[w].moved \in BOOLEAN
        BY <2>1, <1>t, WorkerKinds
    <2>3. TypeOK'
        BY <1>3, <1>t, <2>2 DEF NoTransition, CommitPush, commentVars, TypeOK
    <2>4. \A v \in Workers : worker'[v].at # "idle" =>
              Running(v) /\ worker'[v].job = worker[v].job /\ worker[v].job # j
        BY <2>1, <1>t DEF WorkInv, Running, TypeOK, Idle
    <2> HIDE DEF j
    <2> QED BY <2>1, <2>2, <2>3, <2>4, JobDone
<1>4. CASE PostTransition(w)
    <2> DEFINE next == [at |-> "posted", job |-> worker[w].job, moved |-> worker[w].moved]
    <2>1. Running(w) /\ worker' = [worker EXCEPT ![w] = next] /\ jobs' = jobs
        BY <1>4 DEF PostTransition, Running
    <2>2. worker[w].job \in Jobs /\ next \in Work1 /\ next.job = worker[w].job
        BY <2>1, <1>t, WorkerKinds DEF Work1
    <2>3. issue' \in IssueStatus
        BY <1>4, <2>1, StatusKinds DEF PostTransition, WorkInv
    <2> HIDE DEF next
    <2>4. TypeOK'
        BY <1>4, <1>t, <2>1, <2>2, <2>3 DEF PostTransition, commentVars, TypeOK, Work1
    <2>5. \A v \in Workers : worker'[v].at # "idle" =>
              Running(v) /\ worker'[v].job = worker[v].job
        BY <2>1, <2>2, <1>t DEF TypeOK, Running
    <2> QED BY <2>1, <2>4, <2>5, SameWork
<1>5. CASE FailJob(w)
    <2>1. TypeOK' /\ jobs' = jobs
        BY <1>5, <1>t DEF FailJob, commentVars, TypeOK
    <2>2. \A v \in Workers : worker'[v].at # "idle" =>
              Running(v) /\ worker'[v].job = worker[v].job
        BY <1>5, <1>t DEF FailJob, TypeOK, Running, Idle
    <2> QED BY <2>1, <2>2, SameWork
<1> QED BY <1>1, <1>2, <1>3, <1>4, <1>5 DEF Work

LEMMA WorkInit == Init => WorkInv
<1>1. Init => TypeOK
    <2> SUFFICES ASSUME Init PROVE TypeOK
        OBVIOUS
    <2>0. overlaps \in 0..MaxOverlaps
        BY BoundAssumption DEF Init
    <2>1. /\ jobs \in [Jobs -> Status \cup {None}]
          /\ worker \in [Workers -> {Idle} \cup Work1]
          /\ handler \in [Handlers -> {Idle} \cup Mirror]
          /\ mirrored \in [Comments -> Nat]
        BY DEF Init
    <2>2. status \in Status /\ issue \in IssueStatus
        BY DEF Init, Status, IssueStatus, Mapped
    <2> QED BY <2>0, <2>1, <2>2 DEF Init, TypeOK, Work1, Mirror
<1>2. Init => \A w \in Workers : ~Running(w)
    BY DEF Init, Running, Idle
<1> QED BY <1>1, <1>2 DEF WorkInv

LEMMA WorkNext == WorkInv /\ [Next]_vars => WorkInv'
<1>1. WorkInv /\ UNCHANGED vars => WorkInv'
    BY DEF vars, commentVars, WorkInv, TypeOK, Running
<1> QED BY <1>1, WorkChanges, WorkServes, WorkWorks DEF Next

-----------------------------------------------------------------------------
(* Until the last change has arrived.                                       *)

CalmInv == Calm => SyncInv

(* A change is made when nothing is queued and nothing in flight: it is the *)
(* first of a calm, or the calm goes on.                                    *)
LEMMA SyncChanges ==
    ASSUME WorkInv, CalmInv, Quiet, Change, Calm'
    PROVE  SyncInv'
<1>q. /\ \A j \in Jobs : ~Pending(j)
      /\ \A w \in Workers : worker[w].at = "idle"
      /\ \A h \in Handlers : handler[h] = Idle
      /\ events = {} /\ posts = {}
    BY DEF Quiet, Pending, Idle
<1>c. Meanwhile => SyncInv
    BY DEF Meanwhile, CalmInv, Calm
<1>s. Meanwhile /\ last = "staff" => linked /\ issue = status
    BY <1>c, <1>q DEF SyncInv, PushOwed
<1>j. Meanwhile /\ last = "jira" => linked /\ issue = status
    BY <1>c, <1>q DEF SyncInv, EventOwed
<1>1. CASE \/ \E pat \in BOOLEAN : PutJiraSettings(pat)
           \/ \E c \in Comments : WriteIssueComment(c)
           \/ PatchOther
    <2>1. UNCHANGED <<status, linked, jobs, issue, events, last>> /\ Meanwhile
        BY <1>1 DEF PutJiraSettings, WriteIssueComment, PatchOther
    <2>2. \A j \in Jobs : ~Pending(j)'
        BY <2>1, <1>q DEF Pending
    <2>3. last = "staff" => PushOwed'
        BY <2>1, <2>2, <1>q, <1>s DEF PushOwed
    <2>4. last = "jira" => EventOwed'
        BY <2>1, <1>q, <1>j DEF EventOwed
    <2> QED BY <2>1, <2>2, <2>3, <2>4 DEF SyncInv
<1>2. CASE LinkTask \/ UnlinkTask
    <2>1. last' = "none" /\ jobs' = jobs
        BY <1>2 DEF LinkTask, UnlinkTask
    <2> QED BY <2>1, <1>q DEF SyncInv, Pending
<1>3. ASSUME NEW to \in Status, PatchTask(to)
      PROVE  SyncInv'
    <2>1. /\ status' = to /\ behind' = TRUE
          /\ UNCHANGED <<mode, linked, issue, events, posts>>
          /\ last' = IF Reaches(to) THEN "staff" ELSE "none"
          /\ Touched
        BY <1>3 DEF PatchTask
    <2>2. /\ \A h \in Handlers : handler'[h] = Idle
          /\ \A w \in Workers : worker'[w].at = "idle"
        BY <2>1, <1>q, TouchedKeeps DEF WorkInv
    <2>3. /\ \A i, j \in Jobs : Pending(i)' /\ Pending(j)' => i = j
          /\ \A j \in Jobs : Pending(j)' => jobs'[j] = to
          /\ linked => \E j \in Jobs : Pending(j)'
        <3>1. CASE linked
            <4>1. PICK j \in Jobs : jobs' = [jobs EXCEPT ![j] = to]
                BY <1>3, <3>1 DEF PatchTask
            <4>2. to # None
                BY StatusKinds
            <4> QED BY <4>1, <4>2, <1>q DEF Pending, WorkInv, TypeOK
        <3>2. CASE ~linked
            BY <1>3, <3>2, <1>q DEF PatchTask, Pending
        <3> QED BY <3>1, <3>2
    <2>4. ASSUME last' = "staff" PROVE PushOwed'
        <3>1. linked /\ mode = "both" /\ to \in Mapped /\ (issue = to \/ <<issue, to>> \in Flow)
            BY <2>1, <2>4 DEF Reaches
        <3> QED BY <3>1, <2>1, <2>2, <2>3, <1>q DEF PushOwed
    <2>5. last' \in {"staff", "none"}
        BY <2>1
    <2> QED BY <2>1, <2>2, <2>3, <2>4, <2>5, <1>q DEF SyncInv
<1>4. CASE CompletePortalTask
    <2>1. last' \notin {"staff", "jira"} /\ jobs' = jobs
        BY <1>4 DEF CompletePortalTask
    <2> QED BY <2>1, <1>q DEF SyncInv, Pending
<1>5. ASSUME NEW to \in IssueStatus, ChangeIssue(to)
      PROVE  SyncInv'
    <2>1. /\ issue' = to /\ events' = {to}
          /\ UNCHANGED <<mode, status, linked, behind, jobs, worker>>
          /\ last' = IF to = issue THEN last
                     ELSE IF linked /\ (to = status \/ Takes(to)) THEN "jira" ELSE "none"
          /\ to = issue => Meanwhile
        BY <1>5, <1>q DEF ChangeIssue
    <2>2. \A j \in Jobs : ~Pending(j)'
        BY <2>1, <1>q DEF Pending
    <2>3. ASSUME last' = "staff" PROVE PushOwed'
        BY <2>1, <2>2, <2>3, <1>s DEF PushOwed
    <2>4. ASSUME last' = "jira" PROVE EventOwed'
        BY <2>1, <2>4, <1>j DEF EventOwed, Takes
    <2> QED BY <2>2, <2>3, <2>4 DEF SyncInv
<1> QED BY <1>1, <1>2, <1>3, <1>4, <1>5 DEF Change

(* An event brings the status of its side, which the other has or takes.    *)
LEMMA SyncEvents ==
    ASSUME WorkInv, SyncInv, NEW to \in IssueStatus, NEW again \in BOOLEAN,
           JiraWebhook(to, again)
    PROVE  SyncInv'
<1>1. /\ to \in events /\ events' \subseteq events
      /\ UNCHANGED <<mode, linked, jobs, issue, posts, last>>
      /\ ~again => events' = events \ {to}
      /\ again => events' = events
    BY DEF JiraWebhook
<1>2. \A w \in Workers : worker'[w].at = worker[w].at
    BY TouchedKeeps DEF JiraWebhook, WorkInv
<1>3. (\A h \in Handlers : handler[h] = Idle) => \A h \in Handlers : handler'[h] = Idle
    BY TouchedKeeps DEF JiraWebhook, WorkInv
<1>4. ASSUME last = "staff" PROVE PushOwed'
    <2>1. PushOwed /\ to = status /\ issue = status
        BY <1>4, <1>1 DEF SyncInv, PushOwed
    <2>2. status' = status
        BY <2>1 DEF JiraWebhook
    <2> QED BY <2>1, <2>2, <1>1, <1>2 DEF PushOwed, Pending
<1>5. ASSUME last = "jira" PROVE EventOwed'
    <2>1. EventOwed /\ to = issue /\ linked
        BY <1>5, <1>1 DEF SyncInv, EventOwed
    <2>2. status' = IF Takes(to) THEN to ELSE status
        BY <2>1 DEF JiraWebhook
    <2>3. status' = issue
        BY <2>1, <2>2 DEF EventOwed
    <2> QED BY <2>1, <2>3, <1>1 DEF EventOwed
<1> QED BY <1>1, <1>3, <1>4, <1>5 DEF SyncInv, Pending

(* A comment is served only while no push is owed.                          *)
LEMMA SyncComments ==
    ASSUME WorkInv, SyncInv, NEW h \in Handlers,
           \/ \E c \in Comments, again \in BOOLEAN : ReadComment(h, c, again)
           \/ WriteComment(h) \/ AbandonComment(h)
    PROVE  SyncInv'
<1>1. \A j \in Jobs : ~Pending(j)
    BY DEF SyncInv, ReadComment, WriteComment, AbandonComment, Idle
<1>2. UNCHANGED <<mode, status, linked, jobs, issue, events, last>>
    BY DEF ReadComment, WriteComment, AbandonComment
<1>3. last = "staff" => PushOwed'
    BY <1>1, <1>2 DEF SyncInv, PushOwed, Pending
<1>4. last = "jira" => EventOwed'
    BY <1>2 DEF SyncInv, EventOwed, Takes
<1> QED BY <1>1, <1>2, <1>3, <1>4 DEF SyncInv, Pending

(* A push that is done, or skipped, left the issue where it is to be.       *)
LEMMA PushEnds ==
    ASSUME WorkInv, SyncInv, NEW w \in Workers, NEW j \in Jobs,
           \/ SkipJob(w, j)
           \/ (NoTransition(w) \/ CommitPush(w)) /\ j = worker[w].job
    PROVE  /\ Pending(j) /\ jobs' = [jobs EXCEPT ![j] = None]
           /\ last = "staff" => issue = status
<1>1. Pending(j) /\ jobs' = [jobs EXCEPT ![j] = None]
    <2>1. CASE SkipJob(w, j)
        BY <2>1 DEF SkipJob, Waiting, Pending
    <2>2. CASE (NoTransition(w) \/ CommitPush(w)) /\ j = worker[w].job
        <3>1. Running(w)
            BY <2>2 DEF NoTransition, CommitPush, Running
        <3> QED BY <2>2, <3>1, StatusKinds DEF WorkInv, Pending, NoTransition, CommitPush
    <2> QED BY <2>1, <2>2
<1>2. ASSUME last = "staff" PROVE issue = status
    <2>1. /\ mode = "both" /\ linked /\ jobs[j] = status /\ status \in Mapped
          /\ issue = status \/ <<issue, status>> \in Flow
          /\ ~behind => issue = status
          /\ \A v \in Workers : worker[v].at = "posted" => issue = status
        BY <1>1, <1>2 DEF SyncInv, PushOwed
    <2> QED BY <2>1 DEF SkipJob, Due, NoTransition, CommitPush
<1> QED BY <1>1, <1>2

LEMMA SyncWorks ==
    ASSUME WorkInv, SyncInv, NEW w \in Workers, Work(w)
    PROVE  SyncInv'
<1>t. TypeOK
    BY DEF WorkInv
<1>1. CASE (\E j \in Jobs : StartJob(w, j)) \/ FailJob(w)
    <2>1. UNCHANGED <<mode, status, linked, behind, jobs, issue, events, commentVars, last>>
        BY <1>1 DEF StartJob, FailJob
    <2>2. \A v \in Workers : worker'[v].at = "posted" => worker[v].at = "posted"
        BY <1>1, <1>t DEF StartJob, FailJob, TypeOK, Idle
    <2>3. last = "staff" => PushOwed'
        BY <2>1, <2>2 DEF SyncInv, PushOwed, Pending
    <2>4. last = "jira" => EventOwed'
        BY <2>1 DEF SyncInv, EventOwed, Takes
    <2> QED BY <2>1, <2>3, <2>4 DEF SyncInv, Pending, commentVars
<1>2. ASSUME NEW j \in Jobs,
             \/ SkipJob(w, j)
             \/ (NoTransition(w) \/ CommitPush(w)) /\ j = worker[w].job
      PROVE  SyncInv'
    <2>1. /\ Pending(j) /\ jobs' = [jobs EXCEPT ![j] = None]
          /\ last = "staff" => issue = status
        BY <1>2, PushEnds
    <2>2. \A i \in Jobs : ~Pending(i)'
        BY <2>1, <1>t DEF SyncInv, Pending, TypeOK
    <2>3. UNCHANGED <<status, linked, issue, events, last>>
        BY <1>2 DEF SkipJob, NoTransition, CommitPush
    <2>4. last = "staff" => PushOwed'
        BY <2>1, <2>2, <2>3 DEF SyncInv, PushOwed
    <2>5. last # "jira"
        BY <2>1 DEF SyncInv
    <2> QED BY <2>2, <2>3, <2>4, <2>5 DEF SyncInv
<1>3. CASE PostTransition(w)
    <2> DEFINE j == worker[w].job
    <2>1. j \in Jobs /\ Pending(j)
        <3>1. Running(w)
            BY <1>3 DEF PostTransition, Running
        <3> QED BY <3>1, <1>t, WorkerKinds, StatusKinds DEF WorkInv, Pending
    <2>2. /\ issue' = jobs[j] /\ events' = events \cup {jobs[j]}
          /\ UNCHANGED <<mode, status, linked, behind, jobs, commentVars, last>>
        BY <1>3 DEF PostTransition
    <2>3. last = "staff" => jobs[j] = status
        BY <2>1 DEF SyncInv, PushOwed
    <2>4. last = "staff" => PushOwed'
        BY <2>1, <2>2, <2>3 DEF SyncInv, PushOwed, Pending
    <2>5. last # "jira"
        BY <2>1 DEF SyncInv
    <2> QED BY <2>2, <2>4, <2>5 DEF SyncInv, Pending, commentVars
<1>4. NoTransition(w) \/ CommitPush(w) => worker[w].job \in Jobs
    BY <1>t, WorkerKinds DEF NoTransition, CommitPush
<1> QED BY <1>1, <1>2, <1>3, <1>4 DEF Work

LEMMA SyncInit == Init => SyncInv
BY DEF Init, SyncInv, Pending

(* Only a change disturbs, or begins, a calm.                               *)
LEMMA CalmSteps ==
    ASSUME WorkInv, [Next]_vars
    PROVE  /\ Change /\ Calm' => Quiet
           /\ ~Change => overlaps' = overlaps
<1>1. Change => Changed \/ Meanwhile
    BY DEF Change, PutJiraSettings, LinkTask, UnlinkTask, PatchTask, PatchOther,
           CompletePortalTask, ChangeIssue, WriteIssueComment
<1>2. Serve => overlaps' = overlaps
    BY DEF Serve, JiraWebhook, ReadComment, WriteComment, AbandonComment
<1>3. \A w \in Workers : Work(w) => overlaps' = overlaps
    BY DEF Work, StartJob, SkipJob, NoTransition, PostTransition, FailJob, CommitPush
<1>4. UNCHANGED vars => overlaps' = overlaps
    BY DEF vars
<1> QED BY <1>1, <1>2, <1>3, <1>4, OverlapsKept DEF Next, WorkInv

LEMMA SyncNext == WorkInv /\ CalmInv /\ [Next]_vars => CalmInv'
<1> SUFFICES ASSUME WorkInv, CalmInv, [Next]_vars, Calm' PROVE SyncInv'
    BY DEF CalmInv
<1>1. CASE Change
    BY <1>1, CalmSteps, SyncChanges
<1>2. CASE ~Change
    <2>1. SyncInv
        BY <1>2, CalmSteps DEF CalmInv, Calm
    <2>2. CASE Serve
        BY <2>1, <2>2, SyncEvents, SyncComments DEF Serve
    <2>3. CASE \E w \in Workers : Work(w)
        BY <2>1, <2>3, SyncWorks
    <2>4. CASE UNCHANGED vars
        BY <2>1, <2>4 DEF vars, commentVars, SyncInv, PushOwed, EventOwed, Pending, Takes
    <2> QED BY <1>2, <2>2, <2>3, <2>4 DEF Next
<1> QED BY <1>1, <1>2

(* Only what ends a push takes its job off the queue.                       *)
LEMMA SkippedStep ==
    ASSUME WorkInv, SyncInv, [Next]_vars, NEW j \in Jobs,
           jobs[j] \in Mapped, jobs'[j] = None, last = "staff"
    PROVE  issue = status
<1>1. jobs[j] # None
    BY StatusKinds
<1>2. CASE Change
    BY <1>1, <1>2 DEF WorkInv, TypeOK, Change, PutJiraSettings, LinkTask, UnlinkTask,
           PatchTask, PatchOther, CompletePortalTask, ChangeIssue, WriteIssueComment
<1>3. CASE jobs' = jobs
    BY <1>1, <1>3
<1>4. ASSUME NEW w \in Workers, NEW i \in Jobs,
             \/ SkipJob(w, i)
             \/ (NoTransition(w) \/ CommitPush(w)) /\ i = worker[w].job
      PROVE  issue = status
    BY <1>4, PushEnds
<1>5. \A w \in Workers : NoTransition(w) \/ CommitPush(w) => worker[w].job \in Jobs
    BY WorkerKinds DEF NoTransition, CommitPush, WorkInv
<1>6. \/ Change
      \/ jobs' = jobs
      \/ \E w \in Workers : NoTransition(w) \/ CommitPush(w) \/ \E i \in Jobs : SkipJob(w, i)
    BY DEF Next, Serve, JiraWebhook, ReadComment, WriteComment, AbandonComment, Work,
           StartJob, FailJob, PostTransition, vars
<1> QED BY <1>2, <1>3, <1>4, <1>5, <1>6

-----------------------------------------------------------------------------
(* Comments.  Deliveries of one comment do not overlap.                     *)

OneDelivery ==
    \A g, h \in Handlers :
        handler[g] # Idle /\ handler[h] # Idle /\ handler[g].of = handler[h].of => g = h

(* A request that found no message of its comment is to insert the first.   *)
MirrorInv ==
    /\ MirroredOnce
    /\ \A h \in Handlers : handler[h] # Idle /\ handler[h].new => mirrored[handler[h].of] = 0

LEMMA MirrorNext == WorkInv /\ OneDelivery /\ MirrorInv /\ [Next]_vars => MirrorInv'
<1> SUFFICES ASSUME WorkInv, OneDelivery, MirrorInv, [Next]_vars PROVE MirrorInv'
    OBVIOUS
<1>t. TypeOK
    BY DEF WorkInv
<1>1. CASE mirrored' = mirrored /\ (handler' = handler \/ Touched)
    <2>1. \A h \in Handlers : handler'[h] # Idle =>
              handler[h] # Idle /\ handler'[h].of = handler[h].of /\ handler'[h].new = handler[h].new
        BY <1>1, <1>t, TouchedKeeps
    <2> QED BY <1>1, <2>1 DEF MirrorInv, MirroredOnce
<1>2. ASSUME NEW h \in Handlers, NEW c \in Comments, NEW again \in BOOLEAN,
             ReadComment(h, c, again)
      PROVE  MirrorInv'
    <2> DEFINE new == mirrored[c] = 0
               next == [at |-> "mirrors", of |-> c, new |-> new, moved |-> FALSE]
    <2>1. /\ handler' = [handler EXCEPT ![h] = IF linked THEN next ELSE Idle]
          /\ mirrored' = mirrored
        BY <1>2 DEF ReadComment
    <2>2. next.of = c /\ (next.new => mirrored[c] = 0)
        OBVIOUS
    <2> HIDE DEF next
    <2> QED BY <2>1, <2>2, <1>t DEF MirrorInv, MirroredOnce, TypeOK
<1>3. ASSUME NEW h \in Handlers, WriteComment(h)
      PROVE  MirrorInv'
    <2> DEFINE c == handler[h].of
    <2>1. handler[h] # Idle /\ c \in Comments
        BY <1>3, <1>t, HandlerKinds DEF WriteComment
    <2>2. /\ mirrored' = [mirrored EXCEPT ![c] = IF Mirrors(h) THEN mirrored[c] + 1
                                                 ELSE mirrored[c]]
          /\ handler' = [handler EXCEPT ![h] = Idle]
        BY <1>3 DEF WriteComment
    <2>3. mirrored'[c] <= 1
        BY <2>1, <2>2, <1>t DEF Mirrors, MirrorInv, MirroredOnce, TypeOK
    <2>4. \A d \in Comments : d # c => mirrored'[d] = mirrored[d]
        BY <2>2, <1>t DEF TypeOK
    <2>5. \A g \in Handlers : handler'[g] # Idle =>
              g # h /\ handler'[g] = handler[g] /\ handler[g].of # c /\ handler[g].of \in Comments
        BY <2>1, <2>2, <1>t, HandlerKinds DEF OneDelivery, TypeOK
    <2> QED BY <2>3, <2>4, <2>5 DEF MirrorInv, MirroredOnce
<1>4. ASSUME NEW h \in Handlers, AbandonComment(h)
      PROVE  MirrorInv'
    BY <1>4, <1>t DEF AbandonComment, MirrorInv, MirroredOnce, TypeOK
<1>5. \/ mirrored' = mirrored /\ (handler' = handler \/ Touched)
      \/ \E h \in Handlers, c \in Comments, again \in BOOLEAN : ReadComment(h, c, again)
      \/ \E h \in Handlers : WriteComment(h) \/ AbandonComment(h)
    BY DEF Next, Change, PutJiraSettings, LinkTask, UnlinkTask, PatchTask, PatchOther,
           CompletePortalTask, ChangeIssue, WriteIssueComment, Serve, JiraWebhook, Work,
           StartJob, SkipJob, NoTransition, PostTransition, FailJob, CommitPush, vars,
           commentVars
<1> QED BY <1>1, <1>2, <1>3, <1>4, <1>5

-----------------------------------------------------------------------------
(* The theorems.                                                            *)

(* Types, and no job run by two workers, whatever interleaves (worker       *)
(* main.go, jira.go).                                                       *)
THEOREM JiraCorrect == Spec => []WorkInv
<1> QED BY WorkInit, WorkNext, PTL DEF Spec

LEMMA SyncCorrect == Spec => [](WorkInv /\ CalmInv)
<1>1. Init => WorkInv /\ CalmInv
    BY WorkInit, SyncInit DEF CalmInv
<1>2. WorkInv /\ CalmInv /\ [Next]_vars => WorkInv' /\ CalmInv'
    BY WorkNext, SyncNext
<1> QED BY <1>1, <1>2, PTL DEF Spec

(* The rows, the queue and what is in flight have their types.              *)
THEOREM JiraTyped == Spec => []TypeOK
<1>1. WorkInv => TypeOK
    BY DEF WorkInv
<1> QED BY <1>1, JiraCorrect, PTL

(* Two-way sync: when everything has arrived the side that did not make the *)
(* last change has the status of the one that did, for any workflow and     *)
(* whatever overlapped before, unless a change overlapped that one          *)
(* (tasks.go, jira.go, worker main.go).                                     *)
THEOREM SidesInStep == Spec => []InStep
<1>1. CalmInv => InStep
    BY DEF CalmInv, SyncInv, InStep, PushOwed, EventOwed, Quiet, Pending
<1> QED BY <1>1, SyncCorrect, PTL

(* A push of staff's change is skipped, or ends, only when the issue is     *)
(* where the task is: unless a change overlapped it, the comparison of      *)
(* last_synced_at and updated_at loses none (worker main.go).               *)
THEOREM NothingSkipped == Spec => SkippedIsKnown
<1>1. WorkInv /\ CalmInv /\ [Next]_vars =>
          [\A j \in Jobs : Calm /\ Ends(j) => issue = status]_vars
    BY SkippedStep DEF CalmInv, Ends
<1> QED BY <1>1, SyncCorrect, PTL DEF Spec, SkippedIsKnown

(* Whatever else interleaves, a comment delivered again and again becomes   *)
(* one message, as long as its deliveries do not overlap: the look and the  *)
(* insertion are two statements (jira.go, "dedupe").                        *)
THEOREM CommentMirroredOnce == Spec /\ []OneDelivery => []MirroredOnce
<1>1. Init => MirrorInv
    BY DEF Init, MirrorInv, MirroredOnce
<1>2. MirrorInv => MirroredOnce
    BY DEF MirrorInv
<1> QED BY <1>1, <1>2, JiraCorrect, MirrorNext, PTL DEF Spec
=============================================================================
