-------------------------------- MODULE JiraSync --------------------------------
(***************************************************************************)
(* A task and the Jira issue it is linked to: the push of staff's changes  *)
(* (tasks.go, JiraStatusPushWorker of the worker), the webhook that brings *)
(* Jira's (jira.go), and the messages of both in flight.  Jira answers the *)
(* push of a status with an event like any other; events arrive at least   *)
(* once and in any order, and so do jobs.                                  *)
(*                                                                         *)
(* tasks.updated_at and task_links.last_synced_at are now(), the beginning *)
(* of their transaction, and only their order matters: `behind` says that  *)
(* last_synced_at is before updated_at, `moved` that updated_at is after   *)
(* the beginning of a transaction, here its first read.  What the push     *)
(* loses in a crash of the API, and the steps of patchTask and of the      *)
(* webhook of a status, are in ProjectTasks: here they are one.            *)
(***************************************************************************)
EXTENDS Naturals, FiniteSets, TaskStatus

CONSTANTS
    Jobs,       \* pushes that may be queued at once
    Workers,    \* jobs the worker runs at once (MaxWorkers)
    Handlers,   \* comment events the API serves at once
    Comments,   \* comments written in Jira
    Flow,       \* transitions the issue's workflow offers
    None,       \* an empty slot of the queue
    MaxOverlaps \* bound on the changes that overlap

(* Names of Jira that jiraStatusToOpenLane maps, and any other.             *)
Mapped == {"todo", "in_progress", "done"}
IssueStatus == Mapped \cup {"other"}

ASSUME FlowAssumption == Flow \subseteq IssueStatus \X IssueStatus
ASSUME BoundAssumption == MaxOverlaps \in Nat
ASSUME NoneAssumption == None \notin Status \cup Jobs

VARIABLES
    mode,       \* jira is not configured, configured, configured with a token
    status,     \* of the task
    linked,     \* the task has a row in task_links
    behind,     \* last_synced_at < updated_at
    jobs,       \* the queue: the status each job is to push
    worker,     \* what each worker is doing
    issue,      \* status of the issue
    events,     \* statuses whose jira:issue_updated is in flight
    posts,      \* comments whose comment_created is in flight
    handler,    \* comment events being served
    mirrored,   \* messages made of each comment
    last,       \* whose change the other side has to take over
    overlaps    \* changes from that one on that were made while others were under way

vars == <<mode, status, linked, behind, jobs, worker, issue, events, posts, handler,
          mirrored, last, overlaps>>
commentVars == <<posts, handler, mirrored>>

Idle == [at |-> "idle"]

TypeOK ==
    /\ mode \in {"none", "inbound", "both"}
    /\ status \in Status
    /\ linked \in BOOLEAN
    /\ behind \in BOOLEAN
    /\ jobs \in [Jobs -> Status \cup {None}]
    /\ worker \in [Workers ->
           {Idle} \cup [at : {"running", "posted"}, job : Jobs, moved : BOOLEAN]]
    /\ issue \in IssueStatus
    /\ events \subseteq IssueStatus
    /\ posts \subseteq Comments
    /\ handler \in [Handlers ->
           {Idle} \cup [at : {"mirrors"}, of : Comments, new : BOOLEAN, moved : BOOLEAN]]
    /\ mirrored \in [Comments -> Nat]
    /\ last \in {"none", "staff", "contact", "jira"}
    /\ overlaps \in 0..MaxOverlaps

Init ==
    /\ mode = "none"
    /\ status = "todo"
    /\ linked = FALSE
    /\ behind = TRUE
    /\ jobs = [j \in Jobs |-> None]
    /\ worker = [w \in Workers |-> Idle]
    /\ issue = "todo"
    /\ events = {}
    /\ posts = {}
    /\ handler = [h \in Handlers |-> Idle]
    /\ mirrored = [c \in Comments |-> 0]
    /\ last = "none"
    /\ overlaps = 0

Running(w) == worker[w].at # "idle"

(* updated_at = now(): later than the begin of every transaction that runs. *)
Touched ==
    /\ worker' = [w \in Workers |->
           IF Running(w) THEN [at |-> worker[w].at, job |-> worker[w].job, moved |-> TRUE]
           ELSE Idle]
    /\ handler' = [h \in Handlers |->
           IF handler[h] = Idle THEN Idle
           ELSE [at |-> "mirrors", of |-> handler[h].of, new |-> handler[h].new,
                 moved |-> TRUE]]

(* Nothing is queued, running or in flight.                                 *)
Quiet ==
    /\ \A j \in Jobs : jobs[j] = None
    /\ \A w \in Workers : worker[w] = Idle
    /\ \A h \in Handlers : handler[h] = Idle
    /\ events = {} /\ posts = {}

(* Any change may disturb what is under way; one that the other side has to *)
(* take over, made with all at rest, ends what was before it.               *)
Overlapping == overlaps < MaxOverlaps /\ overlaps' = overlaps + 1
Changed == IF Quiet THEN overlaps' = 0 ELSE Overlapping
Meanwhile == IF Quiet THEN UNCHANGED overlaps ELSE Overlapping

Calm == overlaps = 0

-----------------------------------------------------------------------------
(* The API.                                                                 *)

PutJiraSettings(pat) ==
    /\ mode' = IF pat \/ mode = "both" THEN "both" ELSE "inbound"
    /\ Meanwhile
    /\ UNCHANGED <<status, linked, behind, jobs, worker, issue, events, commentVars, last>>

(* A new link has no last_synced_at; a link there is keeps its own.         *)
LinkTask ==
    /\ mode # "none"
    /\ ~linked
    /\ linked' = TRUE
    /\ behind' = TRUE
    /\ last' = "none" /\ Changed
    /\ UNCHANGED <<mode, status, jobs, worker, issue, events, commentVars>>

UnlinkTask ==
    /\ linked
    /\ linked' = FALSE
    /\ last' = "none" /\ Changed
    /\ UNCHANGED <<mode, status, behind, jobs, worker, issue, events, commentVars>>

(* Jira has to take the change over if it has a transition for it.          *)
Reaches(to) ==
    linked /\ mode = "both" /\ to \in Mapped /\ (issue = to \/ <<issue, to>> \in Flow)

(* Staff moves the task, back to todo from done with a reason; the job is   *)
(* of the status that was asked for.                                        *)
PatchTask(to) ==
    /\ to # status
    /\ TransitionOK(status, to) \/ (status = "done" /\ to = "todo")
    /\ status' = to
    /\ behind' = TRUE
    /\ Touched
    /\ IF linked THEN \E j \in Jobs : jobs[j] = None /\ jobs' = [jobs EXCEPT ![j] = to]
                 ELSE UNCHANGED jobs
    /\ last' = IF Reaches(to) THEN "staff" ELSE "none"
    /\ Changed
    /\ UNCHANGED <<mode, linked, issue, events, posts, mirrored>>

(* A change of another column: updated_at moves, nothing is pushed.         *)
PatchOther ==
    /\ behind' = TRUE
    /\ Touched /\ Meanwhile
    /\ UNCHANGED <<mode, status, linked, jobs, issue, events, posts, mirrored, last>>

(* A contact completes the task: updated_at stays, and nothing is pushed.   *)
CompletePortalTask ==
    /\ status # "done"
    /\ status' = "done"
    /\ last' = IF Reaches("done") THEN "contact" ELSE "none"
    /\ Changed
    /\ UNCHANGED <<mode, linked, behind, jobs, worker, issue, events, commentVars>>

(* "valid OpenLane transition or ignore".                                   *)
Takes(to) == to \in Mapped /\ to # status /\ TransitionOK(status, to)

(* The event of a status; `again`, its sender will repeat it.               *)
JiraWebhook(to, again) ==
    /\ to \in events
    /\ events' = IF again THEN events ELSE events \ {to}
    /\ IF linked
       THEN /\ status' = IF Takes(to) THEN to ELSE status
            /\ behind' = FALSE
            /\ IF Takes(to) THEN Touched ELSE UNCHANGED <<worker, handler>>
       ELSE UNCHANGED <<status, behind, worker, handler>>
    /\ UNCHANGED <<mode, linked, jobs, issue, posts, mirrored, last, overlaps>>

(* The event of a comment: the look for a message made of it, ...           *)
ReadComment(h, c, again) ==
    /\ handler[h] = Idle
    /\ c \in posts
    /\ posts' = IF again THEN posts ELSE posts \ {c}
    /\ handler' = [handler EXCEPT ![h] =
           IF linked
           THEN [at |-> "mirrors", of |-> c, new |-> mirrored[c] = 0, moved |-> FALSE]
           ELSE Idle]
    /\ UNCHANGED <<mode, status, linked, behind, jobs, worker, issue, events, mirrored, last, overlaps>>

(* Mutant: the message is inserted whether or not there is one. *)
MirrorsAgain(h) == handler[h].at = "mirrors"

Mirrors(h) == handler[h].new

(* ... then the message, last_synced_at as by a push, and the commit.       *)
WriteComment(h) ==
    /\ handler[h].at = "mirrors"
    /\ mirrored' = [mirrored EXCEPT ![handler[h].of] = IF Mirrors(h) THEN @ + 1 ELSE @]
    /\ behind' = IF linked THEN handler[h].moved ELSE behind
    /\ handler' = [handler EXCEPT ![h] = Idle]
    /\ UNCHANGED <<mode, status, linked, jobs, worker, issue, events, posts, last, overlaps>>

(* The request fails before its commit, and Jira repeats the event.         *)
AbandonComment(h) ==
    /\ handler[h].at = "mirrors"
    /\ posts' = posts \cup {handler[h].of}
    /\ handler' = [handler EXCEPT ![h] = Idle]
    /\ UNCHANGED <<mode, status, linked, behind, jobs, worker, issue, events, mirrored, last, overlaps>>

-----------------------------------------------------------------------------
(* The worker.                                                              *)

Waiting(j) == jobs[j] # None /\ \A w \in Workers : Running(w) => worker[w].job # j

(* Mutant: the guard is the wrong way round. *)
GuardReversed(j) == mode = "both" /\ linked /\ ~behind /\ jobs[j] \in Mapped

(* A token, a link, last_synced_at before updated_at, a name for it.        *)
Due(j) == mode = "both" /\ linked /\ behind /\ jobs[j] \in Mapped

StartJob(w, j) ==
    /\ worker[w] = Idle
    /\ Waiting(j)
    /\ Due(j)
    /\ worker' = [worker EXCEPT ![w] = [at |-> "running", job |-> j, moved |-> FALSE]]
    /\ UNCHANGED <<mode, status, linked, behind, jobs, issue, events, commentVars, last, overlaps>>

(* Nothing to do: the job is complete.                                      *)
SkipJob(w, j) ==
    /\ worker[w] = Idle
    /\ Waiting(j)
    /\ ~Due(j)
    /\ jobs' = [jobs EXCEPT ![j] = None]
    /\ UNCHANGED <<mode, status, linked, behind, worker, issue, events, commentVars, last, overlaps>>

(* The workflow offers no transition of that name: the job is complete.     *)
NoTransition(w) ==
    /\ worker[w].at = "running"
    /\ <<issue, jobs[worker[w].job]>> \notin Flow
    /\ jobs' = [jobs EXCEPT ![worker[w].job] = None]
    /\ worker' = [worker EXCEPT ![w] = Idle]
    /\ UNCHANGED <<mode, status, linked, behind, issue, events, commentVars, last, overlaps>>

(* Jira carries the transition out and sends the event of it.               *)
PostTransition(w) ==
    /\ worker[w].at = "running"
    /\ <<issue, jobs[worker[w].job]>> \in Flow
    /\ issue' = jobs[worker[w].job]
    /\ events' = events \cup {issue'}
    /\ worker' = [worker EXCEPT ![w] =
           [at |-> "posted", job |-> @.job, moved |-> @.moved]]
    /\ UNCHANGED <<mode, status, linked, behind, jobs, commentVars, last, overlaps>>

(* The answer is lost, a statement fails or the worker stops: the job is    *)
(* run again.                                                               *)
FailJob(w) ==
    /\ Running(w)
    /\ worker' = [worker EXCEPT ![w] = Idle]
    /\ UNCHANGED <<mode, status, linked, behind, jobs, issue, events, commentVars, last, overlaps>>

(* last_synced_at = now(), the begin of the transaction.                    *)
CommitPush(w) ==
    /\ worker[w].at = "posted"
    /\ behind' = IF linked THEN worker[w].moved ELSE behind
    /\ jobs' = [jobs EXCEPT ![worker[w].job] = None]
    /\ worker' = [worker EXCEPT ![w] = Idle]
    /\ UNCHANGED <<mode, status, linked, issue, events, commentVars, last, overlaps>>

-----------------------------------------------------------------------------
(* People in Jira.                                                          *)

(* The event of a change of another field tells the status too.             *)
ChangeIssue(to) ==
    /\ issue' = to
    /\ events' = events \cup {to}
    /\ last' = IF to = issue THEN last
               ELSE IF linked /\ (to = status \/ Takes(to)) THEN "jira" ELSE "none"
    /\ IF to = issue THEN Meanwhile ELSE Changed
    /\ UNCHANGED <<mode, status, linked, behind, jobs, worker, commentVars>>

WriteIssueComment(c) ==
    /\ mirrored[c] = 0
    /\ posts' = posts \cup {c}
    /\ Meanwhile
    /\ UNCHANGED <<mode, status, linked, behind, jobs, worker, issue, events, handler,
                   mirrored, last>>

-----------------------------------------------------------------------------
Change ==
    \/ \E pat \in BOOLEAN : PutJiraSettings(pat)
    \/ LinkTask \/ UnlinkTask
    \/ \E to \in Status : PatchTask(to)
    \/ PatchOther
    \/ CompletePortalTask
    \/ \E to \in IssueStatus : ChangeIssue(to)
    \/ \E c \in Comments : WriteIssueComment(c)

Work(w) ==
    \/ \E j \in Jobs : StartJob(w, j) \/ SkipJob(w, j)
    \/ NoTransition(w) \/ PostTransition(w) \/ FailJob(w) \/ CommitPush(w)

Serve ==
    \/ \E to \in IssueStatus, again \in BOOLEAN : JiraWebhook(to, again)
    \/ \E h \in Handlers, c \in Comments, again \in BOOLEAN : ReadComment(h, c, again)
    \/ \E h \in Handlers : WriteComment(h) \/ AbandonComment(h)

Next == Change \/ Serve \/ \E w \in Workers : Work(w)

(* The worker and the API go on, and what River or Jira repeats because it  *)
(* failed succeeds in the end: an attempt that is possible again and again  *)
(* is made, and a delivery that is the last one is committed.               *)
Progress ==
    /\ \A w \in Workers :
           /\ WF_vars(\E j \in Jobs : StartJob(w, j) \/ SkipJob(w, j))
           /\ SF_vars(NoTransition(w))
           /\ SF_vars(PostTransition(w))
           /\ SF_vars(CommitPush(w))
    /\ \A to \in IssueStatus : SF_vars(JiraWebhook(to, FALSE))
    /\ \A h \in Handlers :
           /\ SF_vars(\E c \in Comments : ReadComment(h, c, FALSE))
           /\ WF_vars(WriteComment(h) \/ AbandonComment(h))
           /\ SF_vars(WriteComment(h) /\ handler[h].of \notin posts)

Spec == Init /\ [][Next]_vars /\ Progress

-----------------------------------------------------------------------------
(* Two-way sync: once everything has arrived, the side that did not make    *)
(* the last change has taken it over, unless something changed on the way.  *)
InStep == Calm /\ Quiet /\ last \in {"staff", "jira"} => issue = status

(* What one side has changed the other side takes over, whatever was going  *)
(* on earlier, unless something changes before it has.                      *)
TakenOver ==
    /\ (Calm /\ last = "staff" /\ ~Quiet) ~> (~Calm \/ (Quiet /\ issue = status))
    /\ (Calm /\ last = "jira" /\ ~Quiet) ~> (~Calm \/ (Quiet /\ issue = status))

(* "dedupe: jira comment id" (jira.go): a comment becomes one message.      *)
MirroredOnce == \A c \in Comments : mirrored[c] <= 1

(* Job j, of a change of staff's that is in force, leaves the queue.        *)
Ends(j) ==
    /\ jobs[j] \in Mapped /\ jobs[j] = status /\ jobs'[j] = None
    /\ mode = "both" /\ linked /\ last = "staff"

(* "skip when last_synced_at >= task updated_at (the change came FROM       *)
(* jira)" (worker main.go): a push that is skipped for its age is one Jira  *)
(* knows of, unless something changed between the change and its push.      *)
SkippedIsKnown == [][\A j \in Jobs : Calm /\ Ends(j) => issue = status]_vars

-----------------------------------------------------------------------------
(* Claims that the code does not keep, each run by hand.                    *)

(* Two-way sync, whatever overtakes whatever.                               *)
AlwaysInStep == Quiet /\ last \in {"staff", "jira"} => issue = status

(* A task the customer completes is completed in Jira too.                  *)
CompletedInJira == Quiet /\ last = "contact" => issue = status

(* The same of the guard that skips, whatever comes in between.             *)
AllSkippedKnown == [][\A j \in Jobs : Ends(j) => issue = status]_vars
=============================================================================
