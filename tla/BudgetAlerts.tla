------------------------------ MODULE BudgetAlerts ------------------------------
(***************************************************************************)
(* A project's budget and its 50/80/100% alerts: budget.go                 *)
(* (checkBudgetAlert), the budget columns of patchProject (projects.go)    *)
(* and of configApprove (configagent.go), and the gate of notifyEvent      *)
(* (notify.go).  Projects share no budget state, so there is one here.     *)
(*                                                                         *)
(* logTime commits its entry and starts a goroutine.  The goroutine reads  *)
(* budget, announced level and the sum of all entries in one statement,    *)
(* decides in Go, updates the level and commits, and then notifies: three  *)
(* steps, between which other entries are logged, other goroutines run and *)
(* the budget is changed.                                                  *)
(***************************************************************************)
EXTENDS Integers, FiniteSets

CONSTANTS
    Checks,         \* goroutines of checkBudgetAlert that can be running at once
    Budgets,        \* values budget_hours may be given
    Amounts,        \* hours an entry may have
    MaxLogged,      \* bound on the hours logged
    MaxImports,     \* bound on the entries written by calendar imports
    MaxPatches,     \* bound on the budget changes by patchProject
    Completing,     \* whether a patch of the budget may also complete the project
    MaxConfigs,     \* bound on the config sheets executed
    NotifySettings  \* the columns of workspace_settings that are on

ASSUME BudgetsAssumption == Budgets \subseteq Nat \ {0}
ASSUME AmountsAssumption == Amounts \subseteq Nat \ {0}
ASSUME CompletingAssumption == Completing \subseteq BOOLEAN

VARIABLES
    budget,     \* budget_hours, 0 when NULL
    level,      \* budget_alert_level
    logged,     \* hours of the project's time entries
    check,      \* each goroutine: its next step, the level it announces, and whether
                \* the budget is still the one it has read (history)
    sent,       \* per level, calls of notifyEvent about the budget as it is now
    queued,     \* per level, Slack jobs those calls enqueued
    excuse,     \* history: why the band reached may be unannounced
    repeated,   \* history: the levels that may be announced again
    imports,    \* entries imported so far
    patches,    \* budget patches so far
    configs     \* config sheets executed so far

vars == <<budget, level, logged, check, sent, queued, excuse, repeated, imports, patches, configs>>
bounds == <<imports, patches, configs>>

Levels == {50, 80, 100}

Idle == [pc |-> "idle", to |-> 0, current |-> TRUE]
Started == [pc |-> "read", to |-> 0, current |-> TRUE]

CheckType == [pc : {"idle", "read", "write", "notify"}, to : Levels \cup {0}, current : BOOLEAN]

TypeOK ==
    /\ budget \in Budgets \cup {0}
    /\ level \in Levels \cup {0}
    /\ logged \in Nat
    /\ check \in [Checks -> CheckType]
    /\ sent \in [Levels -> Nat]
    /\ queued \in [Levels -> Nat]
    /\ excuse \subseteq {"lost", "changed", "imported", "silenced"}
    /\ repeated \subseteq Levels
    /\ imports \in Nat /\ patches \in Nat /\ configs \in Nat

Init ==
    /\ budget = 0
    /\ level = 0
    /\ logged = 0
    /\ check = [g \in Checks |-> Idle]
    /\ sent = [l \in Levels |-> 0]
    /\ queued = [l \in Levels |-> 0]
    /\ excuse = {}
    /\ repeated = {}
    /\ imports = 0 /\ patches = 0 /\ configs = 0

(* The band n hours of a budget of b are in; none without a budget.         *)
Band(b, n) ==
    IF b = 0 THEN 0
    ELSE IF 100 * n >= 100 * b THEN 100
    ELSE IF 100 * n >= 80 * b THEN 80
    ELSE IF 100 * n >= 50 * b THEN 50 ELSE 0

-----------------------------------------------------------------------------
(* logTime commits an entry and starts the check, which makes good what     *)
(* earlier ones missed, unless the level already stands at the band.        *)
LogTime(g, n) ==
    /\ check[g] = Idle
    /\ logged + n <= MaxLogged
    /\ logged' = logged + n
    /\ check' = [check EXCEPT ![g] = Started]
    /\ excuse' = excuse \cap {"silenced"}
    /\ UNCHANGED <<budget, level, sent, queued, repeated, bounds>>

(* The calendar import and approved agent proposals insert entries too, and *)
(* start no check.                                                          *)
ImportTime(n) ==
    /\ imports < MaxImports
    /\ logged + n <= MaxLogged
    /\ logged' = logged + n
    /\ imports' = imports + 1
    /\ excuse' = excuse \cup {"imported"}
    /\ UNCHANGED <<budget, level, check, sent, queued, repeated, patches, configs>>

(* A check that is to announce the band the budget is in. *)
Decided == [pc |-> "write", to |-> Band(budget, logged), current |-> TRUE]

(* Mutant: the check compares with the level it will find when it writes.   *)
CheckReadOnce(g) ==
    /\ check[g].pc = "read"
    /\ IF Band(budget, logged) > level /\ \A k \in Checks : check[k].pc # "write"
       THEN check' = [check EXCEPT ![g] = Decided]
       ELSE check' = [check EXCEPT ![g] = Idle]
    /\ UNCHANGED <<budget, level, logged, sent, queued, excuse, repeated, bounds>>

(* Budget, level and sum come from one snapshot; a band already announced   *)
(* ends the check.                                                          *)
CheckRead(g) ==
    /\ check[g].pc = "read"
    /\ IF Band(budget, logged) > level
       THEN check' = [check EXCEPT ![g] = Decided]
       ELSE check' = [check EXCEPT ![g] = Idle]
    /\ UNCHANGED <<budget, level, logged, sent, queued, excuse, repeated, bounds>>

(* Mutant: the UPDATE has no `budget_alert_level < $2`. *)
Raised(old, to) == to

(* UPDATE ... SET budget_alert_level = $2 WHERE budget_alert_level < $2     *)
LevelAfter(old, to) == IF old < to THEN to ELSE old

(* The rows affected are not looked at: the check goes on to notify even if *)
(* another has announced the band meanwhile.  A level that is raised for a  *)
(* budget which is no longer the project's silences the bands of the new.   *)
CheckWrite(g) ==
    /\ check[g].pc = "write"
    /\ level' = LevelAfter(level, check[g].to)
    /\ check' = [check EXCEPT ![g].pc = "notify"]
    /\ excuse' = IF level' = level THEN excuse
                 ELSE IF check[g].current THEN excuse \ {"silenced"} ELSE excuse \cup {"silenced"}
    /\ repeated' = IF level < check[g].to THEN repeated ELSE repeated \cup {check[g].to}
    /\ UNCHANGED <<budget, logged, sent, queued, bounds>>

EventOf(l) == IF l = 100 THEN "budget.exceeded" ELSE "budget.warning"

(* The gate of notifyEvent: an event it does not name is off.               *)
Enabled(event) ==
    \/ event = "task.completed" /\ "notify_task_completed" \in NotifySettings
    \/ event \in {"project.created", "project.created_from_template"}
           /\ "notify_project_created" \in NotifySettings
    \/ event \in {"approval.requested", "approval.decided", "csat.submitted"}
           /\ "notify_approvals" \in NotifySettings

CheckNotify(g) ==
    /\ check[g].pc = "notify"
    /\ LET l == check[g].to
           now == IF check[g].current THEN 1 ELSE 0
       IN  /\ sent' = [sent EXCEPT ![l] = @ + now]
           /\ queued' = IF Enabled(EventOf(l)) THEN [queued EXCEPT ![l] = @ + now] ELSE queued
    /\ check' = [check EXCEPT ![g] = Idle]
    /\ UNCHANGED <<budget, level, logged, excuse, repeated, bounds>>

(* The database fails, or the process ends: nobody runs the check again,    *)
(* and if it had written its level, no later one announces it.              *)
CheckLost(g) ==
    /\ check[g] # Idle
    /\ check' = [check EXCEPT ![g] = Idle]
    /\ excuse' = excuse \cup {IF check[g].pc = "notify" THEN "silenced" ELSE "lost"}
    /\ UNCHANGED <<budget, level, logged, sent, queued, repeated, bounds>>

(* Mutant: whatever the request says of the budget, the level stays. *)
LevelAfterPatchKept(b) == level

(* Mutant: the CASE does not ask whether the budget is another. *)
LevelAfterPatchAlways(b) == 0

(* `CASE WHEN COALESCE($7, budget_hours) IS DISTINCT FROM budget_hours      *)
(* THEN 0`: a request for another budget starts the bands anew.             *)
LevelAfterPatch(b) == IF b # budget THEN 0 ELSE level

(* The budget becomes b.  Another one starts the counts of calls again, and *)
(* the checks that have read the old one are no longer about the budget.    *)
NewBudget(b) ==
    /\ budget' = b
    /\ IF b = budget THEN UNCHANGED <<sent, queued, check>>
       ELSE /\ sent' = [l \in Levels |-> 0]
            /\ queued' = [l \in Levels |-> 0]
            /\ check' = [g \in Checks |->
                           IF check[g].pc \in {"write", "notify"}
                           THEN [check[g] EXCEPT !.current = FALSE] ELSE check[g]]

(* patchProject asked for budget b, one UPDATE.  When the same request sets *)
(* the status completed the budget is kept, and yet the level is reset: the *)
(* two CASE expressions differ, and every band is announced once more.      *)
PatchBudget(b, completes) ==
    /\ patches < MaxPatches
    /\ NewBudget(IF completes THEN budget ELSE b)
    /\ level' = LevelAfterPatch(b)
    /\ IF b = budget THEN UNCHANGED <<excuse, repeated>>
       ELSE /\ excuse' = (excuse \ {"silenced"}) \cup {"changed"}
            /\ repeated' = IF completes THEN Levels ELSE {}
    /\ patches' = patches + 1
    /\ UNCHANGED <<logged, imports, configs>>

(* configApprove sets the budget of an approved sheet and nothing else: the *)
(* level stays that of the old budget.                                      *)
ConfigBudget(b) ==
    /\ configs < MaxConfigs
    /\ NewBudget(b)
    /\ IF b = budget THEN UNCHANGED <<excuse, repeated>>
       ELSE /\ excuse' = excuse \cup (IF level = 0 THEN {"changed"} ELSE {"changed", "silenced"})
            /\ repeated' = {}
    /\ configs' = configs + 1
    /\ UNCHANGED <<level, logged, imports, patches>>

-----------------------------------------------------------------------------
Next ==
    \/ \E g \in Checks, n \in Amounts : LogTime(g, n)
    \/ \E n \in Amounts : ImportTime(n)
    \/ \E g \in Checks :
           CheckRead(g) \/ CheckWrite(g) \/ CheckNotify(g) \/ CheckLost(g)
    \/ \E b \in Budgets, completes \in Completing : PatchBudget(b, completes)
    \/ \E b \in Budgets : ConfigBudget(b)

Spec == Init /\ [][Next]_vars

Quiet == \A g \in Checks : check[g] = Idle

-----------------------------------------------------------------------------

(* A check that is slow never takes back a level another has announced: the *)
(* level falls only when the budget is patched (budget.go, checkBudgetAlert).*)
LevelOnlyRises ==
    [][level' < level => level' = 0 /\ patches' # patches]_vars

(* "Alerts fire from the time-entry write that crosses the band": when no   *)
(* check is running, notifyEvent has been called about the band the hours   *)
(* have reached of the budget as it is (what its gate lets through is       *)
(* AlertsQueued).  The exceptions are in excuse.  Since the last entry was  *)
(* logged a check was lost before it wrote, the budget changed or hours     *)
(* came in by another way.  Or, until a check raises the level or a patch   *)
(* resets it, the level stands for a call that was not made of this budget: *)
(* written by a check that was then lost, written by a check that had read  *)
(* an older budget, or kept by a config sheet.                              *)
NoMissedBand ==
    Quiet /\ excuse = {} /\ Band(budget, logged) # 0 => sent[Band(budget, logged)] > 0

(* The level "tracks the highest threshold already announced" (00021): it   *)
(* is a band the hours have reached, and it was announced or a check is     *)
(* about to, unless it stands for a call that was not made of this budget.  *)
LevelTracks ==
    "silenced" \notin excuse =>
        /\ level <= Band(budget, logged)
        /\ level # 0 =>
               \/ sent[level] > 0
               \/ \E g \in Checks :
                      check[g].pc = "notify" /\ check[g].to = level /\ check[g].current

(* A band of one budget is announced twice only if a check, when it wrote,  *)
(* found the level already there, for another check had read the same       *)
(* before, or if the patch that completed the project re-armed the bands    *)
(* (budget.go, checkBudgetAlert; projects.go, patchProject).                *)
TwiceOnlyByRaces == \A l \in Levels : sent[l] > 1 => l \in repeated

-----------------------------------------------------------------------------
(* What is said of the code and does not hold of it.                        *)

(* What NoMissedBand says, of every entry, however it is written.           *)
NoEntryMissesBand == Quiet /\ excuse \subseteq {"imported"} => level >= Band(budget, logged)

(* "each band fires exactly once" (migration 00021; budget.go).             *)
EachBandOnce == \A l \in Levels : sent[l] <= 1

(* The level is a threshold the hours have reached: one that is not keeps   *)
(* the bands below it silent.                                               *)
LevelReached == level <= Band(budget, logged)

(* "Reset to 0 when budget grows past the logged hours again" (00021).      *)
GrowthRearms ==
    [][budget' > budget /\ Band(budget', logged') = 0 => level' = 0]_vars

(* "budget.warning (50/80%) and budget.exceeded (100%) ride the notify      *)
(* rail" (migration 00022): an alert of a workspace that wants them is      *)
(* queued for delivery.                                                     *)
AlertsQueued ==
    "notify_budget" \in NotifySettings => \A l \in Levels : sent[l] > 0 => queued[l] > 0
=============================================================================
