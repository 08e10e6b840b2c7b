----------------------------- MODULE MCProjectTasks -----------------------------
(***************************************************************************)
(* Instances of ProjectTasks for TLC.                                      *)
(***************************************************************************)
EXTENDS ProjectTasks, TLC

(* A required task customers see, created with its field unset; a waived    *)
(* one staff keeps to itself; a required one with nothing to fill in.       *)
Gated == [status |-> "todo", required |-> TRUE, visible |-> TRUE, gated |-> TRUE,
          filled |-> FALSE]
Waived == [status |-> "waived", required |-> TRUE, visible |-> FALSE, gated |-> FALSE,
           filled |-> FALSE]
Plain == [status |-> "todo", required |-> TRUE, visible |-> TRUE, gated |-> FALSE,
          filled |-> FALSE]

AnyForms == {Gated, Waived, Plain}

Nothing == [status |-> Null, visible |-> Null, gated |-> Null, filled |-> Null,
            reason |-> FALSE]
To(s) == [Nothing EXCEPT !.status = s]
Reopening == [To("todo") EXCEPT !.reason = TRUE]

(* Each single move, moves with the field set or blanked, and a request     *)
(* that changes no column of the model (a title, say).                      *)
AnyPatches ==
    {To(s) : s \in Status} \cup {Reopening, Nothing}
    \cup {[To("in_progress") EXCEPT !.filled = TRUE], [Nothing EXCEPT !.filled = FALSE],
          [To("in_progress") EXCEPT !.filled = FALSE]}

UngatedForms == {Plain, Waived}
PlainPatches == {To("in_progress"), To("done"), To("blocked"), Reopening, Nothing}

Moves ==
    {[status |-> "active", start |-> TRUE], [status |-> "completed", start |-> FALSE],
     [status |-> "draft", start |-> FALSE]}

FromJira == {"todo", "in_progress", "done"}

Symmetry == Permutations(Handlers)

(* All but the jobs, the dates of completion and the columns of a deleted   *)
(* project, which no guard reads and none of the properties speaks of.      *)
Read ==
    <<project.life, IF project.life = "live" THEN <<project.status, project.started>> ELSE <<>>,
      task, op, audit, linked, heard, late, outrun, raced, doubled>>
=============================================================================
