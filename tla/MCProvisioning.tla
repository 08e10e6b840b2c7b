----------------------------- MODULE MCProvisioning -----------------------------
(***************************************************************************)
(* Instances of Provisioning for TLC.                                      *)
(***************************************************************************)
EXTENDS Provisioning

SameAccount == [d \in Deals |-> CHOOSE a \in Accounts : TRUE]

(* A task by the defaults of createProjectFromTemplate: required, internal. *)
DefaultTask == {<<[required |-> TRUE, visible |-> FALSE]>>}

(* A good line and one that every adapter refuses; a line that some refuse  *)
(* and one whose title the database does.                                   *)
TwoFiles ==
    {<<[title |-> "formula", completed |-> TRUE, status |-> "completed"],
       [title |-> "sigil", completed |-> FALSE, status |-> "todo"]>>,
     <<[title |-> "text", completed |-> FALSE, status |-> "todo"],
       [title |-> "overlong", completed |-> FALSE, status |-> "todo"]>>}

=============================================================================
