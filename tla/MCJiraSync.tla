------------------------------- MODULE MCJiraSync -------------------------------
(***************************************************************************)
(* Instances of JiraSync for TLC.  A worker may be asked to move an issue  *)
(* to where it is: Jira offers no transition for that.                     *)
(***************************************************************************)
EXTENDS JiraSync, TLC

AnyMove == {<<from, to>> \in IssueStatus \X IssueStatus : from # to}

Symmetry == Permutations(Workers) \cup Permutations(Jobs) \cup Permutations(Handlers)
=============================================================================
