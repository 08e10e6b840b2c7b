------------------------------ MODULE MCTimesheet ------------------------------
(***************************************************************************)
(* Instances of Timesheet for TLC: one entry of a developer and one of a   *)
(* manager, so that a manager's own time is among the cases.               *)
(***************************************************************************)
EXTENDS Timesheet, TLC

CONSTANTS e1, e2, dev, boss, lead

MCAuthor == (e1 :> dev) @@ (e2 :> boss)

MCManagers == {boss, lead}

HandlerSymmetry == Permutations(Handlers)
=============================================================================
