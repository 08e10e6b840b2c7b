----------------------------- MODULE MCBudgetAlerts -----------------------------
(***************************************************************************)
(* Instances of BudgetAlerts for TLC: budgets of five and ten hours, and   *)
(* entries that cross one band or several.                                 *)
(***************************************************************************)
EXTENDS BudgetAlerts, TLC

MCBudgets == {5, 10}
MCAmounts == {1, 3}

AllSettings == {"notify_task_completed", "notify_project_created", "notify_approvals",
                "notify_budget"}

Symmetry == Permutations(Checks)
=============================================================================
