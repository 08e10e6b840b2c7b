------------------------------- MODULE Proposals -------------------------------
(***************************************************************************)
(* What somebody asks for and somebody else decides: the approvals of a    *)
(* project (approvals.go), those that agents propose (mcp.go, mcpwrite.go, *)
(* mcpapprove.go), the rating that follows a decision (csat.go, migration  *)
(* 00012), and the drafts of the configuration and migration agents        *)
(* (configagent.go, migrationagent.go), under the kill switch of agents.go.*)
(*                                                                         *)
(* An approval is decided by one guarded UPDATE, and what an agent         *)
(* proposed is executed in its transaction.  A draft is read in one        *)
(* statement and marked in another, and so is what a tool call or a rating *)
(* rests on: other requests commit in between (READ COMMITTED).            *)
(***************************************************************************)
EXTENDS Naturals, FiniteSets

CONSTANTS
    Approvals,      \* approvals of the project
    Titles,         \* titles they may have
    Sheets,         \* drafts of the configuration agent
    Migrations,     \* drafts of the migration agent
    Handlers,       \* requests the API serves at once
    Contacts,       \* contacts of the customer
    Managers,       \* users that are managers or above
    Null,           \* decided_by of an approval that is not decided; app.user_id of a token
    MaxOpenings     \* how often one approval may be waiting for a decision

Drafts == Sheets \cup Migrations
Verdicts == {"approved", "changes_requested"}

ASSUME IdsAssumption ==
    /\ Sheets \cap Migrations = {}
    /\ Contacts \cap Managers = {}
    /\ Null \notin Contacts \cup Managers
ASSUME OpeningsAssumption == MaxOpenings \in Nat
ASSUME ApprovalsAssumption == IsFiniteSet(Approvals)

VARIABLES
    approval,       \* rows of approvals
    opened,         \* per approval, times it has become pending
    executed,       \* per approval, tasks and time entries made of its payload
    rating,         \* rows of csat_responses, per approval
    escalations,    \* escalation tasks by state
    draft,          \* rows of config_sheets and migration_runs
    effects,        \* per draft, times its rows were created or its result written
    trail,          \* per draft, audit rows that say it was executed
    live,           \* the project is not deleted
    enabled,        \* agents_enabled
    op              \* each handler: what it has read and has still to do

vars == <<approval, opened, executed, rating, escalations, draft, effects, trail,
          live, enabled, op>>
approvalVars == <<approval, opened, executed>>
ratingVars == <<rating, escalations>>
draftVars == <<draft, effects, trail>>

Idle == [at |-> "idle"]
Ops ==
    {Idle}
    \cup [at : {"called", "looked"}, title : Titles]
    \cup [at : {"rates"}, of : Approvals, low : BOOLEAN]
    \cup [at : {"rated"}, of : Approvals, low : BOOLEAN, opens : BOOLEAN]
    \cup [at : {"drafts", "approves"}, of : Drafts]

(* An agent's payload is in the description, after its prefix (agent); a    *)
(* request of staff has a description or NULL there (described).            *)
Approval == [status : {"none", "pending"} \cup Verdicts, title : Titles \cup {Null},
             agent : BOOLEAN, described : BOOLEAN, by : Contacts \cup {Null}]

TypeOK ==
    /\ approval \in [Approvals -> Approval]
    /\ opened \in [Approvals -> 0 .. MaxOpenings]
    /\ executed \in [Approvals -> Nat]
    /\ rating \in [Approvals -> {"none", "low", "high"}]
    /\ escalations \in [{"open", "done", "deleted"} -> Nat]
    /\ draft \in [Drafts -> {"none", "draft", "executed", "deleted"}]
    /\ effects \in [Drafts -> Nat]
    /\ trail \in [Drafts -> Nat]
    /\ live \in BOOLEAN
    /\ enabled \in BOOLEAN
    /\ op \in [Handlers -> Ops]

Init ==
    /\ approval = [a \in Approvals |->
           [status |-> "none", title |-> Null, agent |-> FALSE, described |-> FALSE,
            by |-> Null]]
    /\ opened = [a \in Approvals |-> 0]
    /\ executed = [a \in Approvals |-> 0]
    /\ rating = [a \in Approvals |-> "none"]
    /\ escalations = [s \in {"open", "done", "deleted"} |-> 0]
    /\ draft = [d \in Drafts |-> "none"]
    /\ effects = [d \in Drafts |-> 0]
    /\ trail = [d \in Drafts |-> 0]
    /\ live = TRUE
    /\ enabled = TRUE
    /\ op = [h \in Handlers |-> Idle]

Continues(h, next) == op' = [op EXCEPT ![h] = next]
Done(h) == Continues(h, Idle)

-----------------------------------------------------------------------------
(* Approvals.                                                               *)

Pending(a) == approval[a].status = "pending"
Decided(a) == approval[a].status \in Verdicts

Insert(a, row) ==
    /\ approval[a].status = "none"
    /\ opened[a] < MaxOpenings
    /\ approval' = [approval EXCEPT ![a] = row]
    /\ opened' = [opened EXCEPT ![a] = @ + 1]

CreateApproval(a, title, described) ==
    /\ live
    /\ Insert(a, [status |-> "pending", title |-> title, agent |-> FALSE,
                  described |-> described, by |-> Null])
    /\ UNCHANGED <<executed, ratingVars, draftVars, live, enabled, op>>

(* tools/call asks for the kill switch in a transaction of its own.         *)
CallTool(h, title) ==
    /\ op[h] = Idle
    /\ enabled
    /\ Continues(h, [at |-> "called", title |-> title])
    /\ UNCHANGED <<approvalVars, ratingVars, draftVars, live, enabled>>

(* The look for a twin goes by the title; the payload is not compared.      *)
LookForTwin(h) ==
    /\ op[h].at = "called"
    /\ IF \E a \in Approvals : Pending(a) /\ approval[a].title = op[h].title
       THEN Done(h)
       ELSE Continues(h, [at |-> "looked", title |-> op[h].title])
    /\ UNCHANGED <<approvalVars, ratingVars, draftVars, live, enabled>>

(* The project may be deleted: only its foreign key is asked for.           *)
ProposeApproval(h, a) ==
    /\ op[h].at = "looked"
    /\ Insert(a, [status |-> "pending", title |-> op[h].title, agent |-> TRUE,
                  described |-> TRUE, by |-> Null])
    /\ Done(h)
    /\ UNCHANGED <<executed, ratingVars, draftVars, live, enabled>>

(* Mutant: the decision does not look at the status. *)
DecideDecided(a, by, verdict) ==
    /\ approval[a].status # "none"
    /\ by \in Contacts \cup {Null}
    /\ approval' = [approval EXCEPT ![a] =
           [status |-> verdict, title |-> @.title, agent |-> @.agent,
            described |-> @.described, by |-> by]]

(* Mutant: decided_by takes any user. *)
DecideByAnyone(a, by, verdict) ==
    /\ Pending(a)
    /\ approval' = [approval EXCEPT ![a] =
           [status |-> verdict, title |-> @.title, agent |-> @.agent,
            described |-> @.described, by |-> by]]

(* UPDATE ... WHERE status = 'pending'; decided_by REFERENCES contacts(id). *)
Decide(a, by, verdict) ==
    /\ Pending(a)
    /\ by \in Contacts \cup {Null}
    /\ approval' = [approval EXCEPT ![a] =
           [status |-> verdict, title |-> @.title, agent |-> @.agent,
            described |-> @.described, by |-> by]]

(* A contact decides whatever is pending, what an agent proposed as well.   *)
DecidePortalApproval(a, contact, verdict) ==
    /\ Decide(a, contact, verdict)
    /\ UNCHANGED <<opened, executed, ratingVars, draftVars, live, enabled, op>>

(* `by` is the user of the session, Null for the static token.  RETURNING   *)
(* description is read into a string, which a NULL is not.  `agent` tells   *)
(* what an agent proposed, always a payload of a known kind; what staff     *)
(* type is taken to be none and executes nothing.  A payload that cannot    *)
(* be executed, for a deleted project say, rolls the decision back.         *)
DecideStaffApproval(a, by, verdict) ==
    /\ Decide(a, by, verdict)
    /\ approval[a].described
    /\ IF verdict = "approved" /\ approval[a].agent
       THEN live /\ executed' = [executed EXCEPT ![a] = @ + 1]
       ELSE UNCHANGED executed
    /\ UNCHANGED <<opened, ratingVars, draftVars, live, enabled, op>>

ReopenApproval(a) ==
    /\ Decided(a)
    /\ opened[a] < MaxOpenings
    /\ approval' = [approval EXCEPT ![a] =
           [status |-> "pending", title |-> @.title, agent |-> @.agent,
            described |-> @.described, by |-> Null]]
    /\ opened' = [opened EXCEPT ![a] = @ + 1]
    /\ UNCHANGED <<executed, ratingVars, draftVars, live, enabled, op>>

-----------------------------------------------------------------------------
(* Ratings and escalations.                                                 *)

(* Mutant: whether there is a decision to rate is not asked. *)
MayRatePending(a) == approval[a].status # "none"

MayRate(a) == Decided(a)

(* The approval is looked for in one statement.                             *)
ReadRated(h, a, low) ==
    /\ op[h] = Idle
    /\ MayRate(a)
    /\ Continues(h, [at |-> "rates", of |-> a, low |-> low])
    /\ UNCHANGED <<approvalVars, ratingVars, draftVars, live, enabled>>

(* Mutant: every rating opens an escalation, a good one too. *)
OpensForAny(low) == escalations["open"] = 0

(* A score below 3, and NOT EXISTS an open escalation task of the project.  *)
Opens(low) == low /\ escalations["open"] = 0

(* Another transaction has inserted the key and not ended: this one waits.  *)
KeyHeld(a) == \E k \in Handlers : op[k].at = "rated" /\ op[k].of = a

(* INSERT, and csat_escalate for a score below 3; not committed yet.        *)
InsertRating(h) ==
    /\ op[h].at = "rates"
    /\ LET a == op[h].of
           low == op[h].low
       IN  /\ ~KeyHeld(a)
           /\ rating[a] = "none"
           /\ Continues(h, [at |-> "rated", of |-> a, low |-> low,
                            opens |-> Opens(low)])
    /\ UNCHANGED <<approvalVars, ratingVars, draftVars, live, enabled>>

(* UNIQUE (approval_id): rated before.                                      *)
RatingRefused(h) ==
    /\ op[h].at = "rates"
    /\ rating[op[h].of] # "none"
    /\ Done(h)
    /\ UNCHANGED <<approvalVars, ratingVars, draftVars, live, enabled>>

CommitRating(h) ==
    /\ op[h].at = "rated"
    /\ rating' = [rating EXCEPT ![op[h].of] = IF op[h].low THEN "low" ELSE "high"]
    /\ escalations' = [escalations EXCEPT !["open"] = IF op[h].opens THEN @ + 1 ELSE @]
    /\ Done(h)
    /\ UNCHANGED <<approvalVars, draftVars, live, enabled>>

(* Staff works on an escalation as on any task: see ProjectTasks.           *)
MoveEscalation(from, to) ==
    /\ <<from, to>> \in {<<"open", "done">>, <<"done", "open">>,
                         <<"open", "deleted">>, <<"done", "deleted">>}
    /\ escalations[from] > 0
    /\ escalations' = [escalations EXCEPT ![from] = @ - 1, ![to] = @ + 1]
    /\ UNCHANGED <<approvalVars, rating, draftVars, live, enabled, op>>

-----------------------------------------------------------------------------
(* Drafts.                                                                  *)

(* The switch and, for a sheet, the project are read before the model is    *)
(* asked, which may take a minute.                                          *)
AskModel(h, d) ==
    /\ op[h] = Idle
    /\ enabled
    /\ d \in Sheets => live
    /\ Continues(h, [at |-> "drafts", of |-> d])
    /\ UNCHANGED <<approvalVars, ratingVars, draftVars, live, enabled>>

KeepDraft(h) ==
    /\ op[h].at = "drafts"
    /\ draft[op[h].of] = "none"
    /\ draft' = [draft EXCEPT ![op[h].of] = "draft"]
    /\ Done(h)
    /\ UNCHANGED <<approvalVars, ratingVars, effects, trail, live, enabled>>

ReadDraft(h, d) ==
    /\ op[h] = Idle
    /\ draft[d] = "draft"
    /\ Continues(h, [at |-> "approves", of |-> d])
    /\ UNCHANGED <<approvalVars, ratingVars, draftVars, live, enabled>>

(* Mutant: the result is written whatever the status has become. *)
WritesResultAnyway(d) == draft[d] # "deleted"

(* UPDATE ... WHERE status = 'draft'; neither agent looks at the number of  *)
(* rows it changed.                                                         *)
WritesResult(d) == draft[d] = "draft"

(* The tasks of a sheet are inserted before its row is marked, the result   *)
(* of a migration is part of the row; the audit row is written either way.  *)
ApproveDraft(h) ==
    /\ op[h].at = "approves"
    /\ LET d == op[h].of
       IN  /\ draft' = [draft EXCEPT ![d] = IF @ = "draft" THEN "executed" ELSE @]
           /\ effects' = [effects EXCEPT ![d] =
                  IF d \in Sheets \/ WritesResult(d) THEN @ + 1 ELSE @]
           /\ trail' = [trail EXCEPT ![d] = @ + 1]
    /\ Done(h)
    /\ UNCHANGED <<approvalVars, ratingVars, live, enabled>>

DeleteMigration(d) ==
    /\ d \in Migrations
    /\ draft[d] \in {"draft", "executed"}
    /\ draft' = [draft EXCEPT ![d] = "deleted"]
    /\ UNCHANGED <<approvalVars, ratingVars, effects, trail, live, enabled, op>>

-----------------------------------------------------------------------------
PutAgentsStatus(on) ==
    /\ enabled' = on
    /\ UNCHANGED <<approvalVars, ratingVars, draftVars, live, op>>

DeleteProject ==
    /\ live
    /\ live' = FALSE
    /\ UNCHANGED <<approvalVars, ratingVars, draftVars, enabled, op>>

(* The client goes away, a statement fails or the process ends: nothing of  *)
(* a transaction that has not committed remains.                            *)
Abandon(h) ==
    /\ op[h] # Idle
    /\ Done(h)
    /\ UNCHANGED <<approvalVars, ratingVars, draftVars, live, enabled>>

Begin(h) ==
    \/ \E title \in Titles : CallTool(h, title)
    \/ \E a \in Approvals, low \in BOOLEAN : ReadRated(h, a, low)
    \/ \E d \in Drafts : AskModel(h, d) \/ ReadDraft(h, d)

Continue(h) ==
    \/ LookForTwin(h)
    \/ \E a \in Approvals : ProposeApproval(h, a)
    \/ InsertRating(h) \/ RatingRefused(h) \/ CommitRating(h)
    \/ KeepDraft(h)
    \/ ApproveDraft(h)
    \/ Abandon(h)

AtOnce ==
    \/ \E a \in Approvals, title \in Titles, described \in BOOLEAN :
           CreateApproval(a, title, described)
    \/ \E a \in Approvals, verdict \in Verdicts :
           \/ \E contact \in Contacts : DecidePortalApproval(a, contact, verdict)
           \/ \E by \in Managers \cup {Null} : DecideStaffApproval(a, by, verdict)
    \/ \E a \in Approvals : ReopenApproval(a)
    \/ \E from, to \in {"open", "done", "deleted"} : MoveEscalation(from, to)
    \/ \E d \in Drafts : DeleteMigration(d)
    \/ \E on \in BOOLEAN : PutAgentsStatus(on)
    \/ DeleteProject

Next == AtOnce \/ \E h \in Handlers : Begin(h) \/ Continue(h)

Spec == Init /\ [][Next]_vars

-----------------------------------------------------------------------------
(* "the payload executes INSIDE the decide tx" (mcpapprove.go): whatever    *)
(* staff and contacts decide at once, a payload is executed at most once    *)
(* for each time its approval was open, and never while it is open.         *)
OncePerOpening ==
    \A a \in Approvals :
        executed[a] + (IF approval[a].status = "approved" THEN 0 ELSE 1)
            <= opened[a] + (IF approval[a].status = "none" THEN 1 ELSE 0)

(* "submit one response for a decided approval" (csat.go): an approval that *)
(* is rated has been decided, though staff may reopen it before the rating  *)
(* is written.                                                              *)
RatedAfterDecision ==
    \A a \in Approvals : rating[a] # "none" => Decided(a) \/ opened[a] >= 2

(* A customer who was unhappy is followed up: however ratings overtake one  *)
(* another, a low one means an escalation task was made, and there are no   *)
(* more of them than low ratings (csat.go, csat_escalate).                  *)
Made == escalations["open"] + escalations["done"] + escalations["deleted"]
Low == {a \in Approvals : rating[a] = "low"}
LowIsEscalated == (Low # {} => Made > 0) /\ Made <= Cardinality(Low)

(* An approved draft leaves its audit row whenever it has an effect; the    *)
(* result of a migration is written once, whoever approves it again.        *)
EffectsOnTrail ==
    /\ \A d \in Sheets : effects[d] = trail[d] /\ (effects[d] > 0 => draft[d] = "executed")
    /\ \A d \in Migrations : effects[d] <= 1 /\ effects[d] <= trail[d]

(* Every request takes effect at one instant, at its last statement: seen   *)
(* from its rows, a decision is made of what is open, stands until it is    *)
(* reopened, and executes in the same instant; a rating is never written    *)
(* over, and is followed up if it is low (approvals.go, mcpapprove.go,      *)
(* csat.go, configagent.go, migrationagent.go).                             *)
Promise == INSTANCE ProposalPromise WITH
    st <- [a \in Approvals |-> approval[a].status],
    decided <- {a \in Approvals : Decided(a) \/ opened[a] >= 2},
    ran <- executed, rate <- rating, followed <- Made,
    dst <- draft, did <- effects, told <- trail

ImplementsPromise == Promise!Spec

(* "state machine draft->executed (re-approve 404)" (configagent.go).       *)
SheetExecutedOnce == \A d \in Sheets : effects[d] <= 1

(* "a human approves ... which executes the payload" (mcpwrite.go): an      *)
(* approved proposal has been executed.                                     *)
ApprovedIsExecuted ==
    \A a \in Approvals :
        approval[a].agent /\ approval[a].status = "approved" => executed[a] > 0

(* "a human approves via POST /v1/approvals/{id}/decide which executes the  *)
(* payload" (mcpwrite.go), "a manager must approve": a manager can.         *)
ManagersDecide ==
    \A a \in Approvals, by \in Managers :
        live /\ Pending(a) /\ approval[a].agent
            => ENABLED DecideStaffApproval(a, by, "approved")

(* "an identical payload already pending -> error (no second row)"          *)
(* (mcpwrite.go).                                                           *)
NoTwins ==
    \A a, b \in Approvals :
        /\ approval[a].agent /\ Pending(a)
        /\ approval[b].agent /\ Pending(b)
        /\ approval[a].title = approval[b].title
        => a = b

(* "one open escalation per (project, score-band)" (migration 00012).       *)
OneOpenEscalation == escalations["open"] <= 1

(* "kill switch": nothing an agent made appears while agents are disabled.  *)
NothingWhileDisabled ==
    [][~enabled => /\ \A d \in Drafts : draft[d] = "none" => draft'[d] = "none"
                   /\ \A a \in Approvals :
                          approval'[a].agent => approval[a].status # "none"]_vars

(* An audit row says a migration was executed for each time it was.         *)
TrailTellsMigrations == \A d \in Migrations : trail[d] = effects[d]

(* "re-rating 404": nothing is rated twice, and a low rating that is kept   *)
(* finds or leaves an open escalation.                                      *)
LowFindsOpen ==
    [][\A a \in Approvals :
           rating[a] = "none" /\ rating'[a] = "low" => escalations'["open"] > 0]_vars
=============================================================================
