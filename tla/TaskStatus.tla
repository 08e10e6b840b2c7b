------------------------------- MODULE TaskStatus -------------------------------
(***************************************************************************)
(* The statuses of a task and the moves between them that tasks.go allows  *)
(* staff and jira.go allows Jira.                                          *)
(***************************************************************************)

Status == {"todo", "in_progress", "blocked", "review", "done", "waived"}

TransitionOK(from, to) ==
    \/ from = to
    \/ to = "blocked"
    \/ from \in {"in_progress", "blocked"} /\ to = "todo"
    \/ from \in {"todo", "blocked", "review"} /\ to = "in_progress"
    \/ from = "in_progress" /\ to = "review"
    \/ from \in {"in_progress", "review"} /\ to = "done"
=============================================================================
