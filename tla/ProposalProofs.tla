---------------------------- MODULE ProposalProofs ----------------------------
(***************************************************************************)
(* What is decided, rated and executed, for any number of approvals,       *)
(* drafts and requests at once.  The three parts of the invariant share    *)
(* the handlers only, so each is shown to be kept by itself.               *)
(***************************************************************************)
EXTENDS Proposals, FiniteSetTheorems, TLAPS

(* An approval that is there has been pending; one that a request is about  *)
(* to rate was decided when it was read.                                    *)
ApprovalInv ==
    /\ OncePerOpening
    /\ RatedAfterDecision
    /\ \A a \in Approvals : approval[a].status # "none" <=> opened[a] >= 1
    /\ \A h \in Handlers : op[h].at \in {"rates", "rated"}
           => Decided(op[h].of) \/ opened[op[h].of] >= 2

(* The key of a rating is held by one transaction; a low rating that opens  *)
(* no escalation has seen one.                                              *)
RatingInv ==
    /\ LowIsEscalated
    /\ \A h \in Handlers : op[h].at = "rated" =>
           /\ rating[op[h].of] = "none"
           /\ op[h].opens => op[h].low
           /\ op[h].low /\ ~op[h].opens => Made > 0
    /\ \A h, k \in Handlers :
           op[h].at = "rated" /\ op[k].at = "rated" /\ op[h].of = op[k].of => h = k

(* A sheet is never deleted, and what has taken effect is marked.           *)
DraftInv ==
    /\ EffectsOnTrail
    /\ \A d \in Sheets : draft[d] # "deleted"
    /\ \A d \in Migrations : effects[d] > 0 => draft[d] \in {"executed", "deleted"}
    /\ \A h \in Handlers : op[h].at = "approves" => draft[op[h].of] # "none"

ProposalInv == TypeOK /\ ApprovalInv /\ RatingInv /\ DraftInv

LEMMA ProposalInit == Init => ProposalInv
<1> SUFFICES ASSUME Init PROVE ProposalInv
    OBVIOUS
<1> USE DEF Init, Idle
<1>1. TypeOK
    BY OpeningsAssumption DEF TypeOK, Approval, Ops, Drafts
<1>2. ApprovalInv
    BY DEF ApprovalInv, OncePerOpening, RatedAfterDecision
<1>3. RatingInv
    <2>1. Low = {}
        BY DEF Low
    <2>2. Made = 0
        BY DEF Made
    <2> QED BY <2>1, <2>2, FS_EmptySet DEF RatingInv, LowIsEscalated
<1>4. DraftInv
    BY IdsAssumption DEF DraftInv, EffectsOnTrail, Drafts
<1> QED BY <1>1, <1>2, <1>3, <1>4 DEF ProposalInv

LEMMA TypeStep == TypeOK /\ [Next]_vars => TypeOK'
<1> SUFFICES ASSUME TypeOK, [Next]_vars PROVE TypeOK'
    OBVIOUS
<1> USE OpeningsAssumption DEF approvalVars, ratingVars, draftVars
<1>s. ASSUME NEW h \in Handlers, NEW x \in Ops, Continues(h, x)
      PROVE  op' \in [Handlers -> Ops]
    BY <1>s DEF Continues, TypeOK
<1>i. Idle \in Ops
    BY DEF Ops
<1>t. ASSUME NEW h \in Handlers, op[h].at \in {"called", "looked"}
      PROVE  op[h].title \in Titles
    BY <1>t DEF TypeOK, Ops, Idle
<1>r. ASSUME NEW h \in Handlers, op[h].at \in {"rates", "rated"}
      PROVE  op[h].of \in Approvals /\ op[h].low \in BOOLEAN
    BY <1>r DEF TypeOK, Ops, Idle
<1>d. ASSUME NEW h \in Handlers, op[h].at \in {"drafts", "approves"}
      PROVE  op[h].of \in Drafts
    BY <1>d DEF TypeOK, Ops, Idle
<1>1. ASSUME NEW h \in Handlers, NEW title \in Titles, CallTool(h, title) PROVE TypeOK'
    <2>1. op' \in [Handlers -> Ops]
        BY <1>1, <1>s DEF CallTool, Ops
    <2> QED BY <1>1, <2>1 DEF CallTool, TypeOK
<1>2. ASSUME NEW h \in Handlers, NEW a \in Approvals, NEW low \in BOOLEAN,
             ReadRated(h, a, low)
      PROVE  TypeOK'
    <2>1. op' \in [Handlers -> Ops]
        BY <1>2, <1>s DEF ReadRated, Ops
    <2> QED BY <1>2, <2>1 DEF ReadRated, TypeOK
<1>3. ASSUME NEW h \in Handlers, NEW d \in Drafts, AskModel(h, d) \/ ReadDraft(h, d)
      PROVE  TypeOK'
    <2>1. op' \in [Handlers -> Ops]
        BY <1>3, <1>s DEF AskModel, ReadDraft, Ops
    <2> QED BY <1>3, <2>1 DEF AskModel, ReadDraft, TypeOK
<1>4. ASSUME NEW h \in Handlers, LookForTwin(h) PROVE TypeOK'
    <2>1. [at |-> "looked", title |-> op[h].title] \in Ops
        BY <1>4, <1>t DEF LookForTwin, Ops
    <2>2. op' \in [Handlers -> Ops]
        BY <1>4, <2>1, <1>s, <1>i DEF LookForTwin, Done
    <2> QED BY <1>4, <2>2 DEF LookForTwin, TypeOK
<1>5. ASSUME NEW h \in Handlers, NEW a \in Approvals, ProposeApproval(h, a) PROVE TypeOK'
    <2>1. op' \in [Handlers -> Ops]
        BY <1>5, <1>s, <1>i DEF ProposeApproval, Done
    <2>2. [status |-> "pending", title |-> op[h].title, agent |-> TRUE,
           described |-> TRUE, by |-> Null] \in Approval
        BY <1>5, <1>t DEF ProposeApproval, Approval
    <2> QED BY <1>5, <2>1, <2>2 DEF ProposeApproval, Insert, TypeOK
<1>6. ASSUME NEW h \in Handlers, InsertRating(h) PROVE TypeOK'
    <2>1. [at |-> "rated", of |-> op[h].of, low |-> op[h].low,
           opens |-> Opens(op[h].low)] \in Ops
        BY <1>6, <1>r DEF InsertRating, Opens, Ops
    <2>2. op' \in [Handlers -> Ops]
        BY <1>6, <2>1, <1>s DEF InsertRating
    <2> QED BY <1>6, <2>2 DEF InsertRating, TypeOK
<1>7. ASSUME NEW h \in Handlers, RatingRefused(h) \/ Abandon(h) PROVE TypeOK'
    <2>1. op' \in [Handlers -> Ops]
        BY <1>7, <1>s, <1>i DEF RatingRefused, Abandon, Done
    <2> QED BY <1>7, <2>1 DEF RatingRefused, Abandon, TypeOK
<1>8. ASSUME NEW h \in Handlers, CommitRating(h) PROVE TypeOK'
    <2>1. op' \in [Handlers -> Ops]
        BY <1>8, <1>s, <1>i DEF CommitRating, Done
    <2>2. rating' \in [Approvals -> {"none", "low", "high"}]
        <3> DEFINE r == IF op[h].low THEN "low" ELSE "high"
        <3>1. rating' = [rating EXCEPT ![op[h].of] = r] /\ r \in {"none", "low", "high"}
            BY <1>8 DEF CommitRating
        <3> HIDE DEF r
        <3> QED BY <3>1 DEF TypeOK
    <2>3. escalations' \in [{"open", "done", "deleted"} -> Nat]
        <3> DEFINE n == IF op[h].opens THEN escalations["open"] + 1 ELSE escalations["open"]
        <3>1. escalations' = [escalations EXCEPT !["open"] = n] /\ n \in Nat
            BY <1>8 DEF CommitRating, TypeOK
        <3> HIDE DEF n
        <3> QED BY <3>1 DEF TypeOK
    <2> QED BY <1>8, <2>1, <2>2, <2>3 DEF CommitRating, TypeOK
<1>9. ASSUME NEW h \in Handlers, KeepDraft(h) \/ ApproveDraft(h) PROVE TypeOK'
    <2>1. op' \in [Handlers -> Ops]
        BY <1>9, <1>s, <1>i DEF KeepDraft, ApproveDraft, Done
    <2>2. /\ draft' \in [Drafts -> {"none", "draft", "executed", "deleted"}]
          /\ effects' \in [Drafts -> Nat]
          /\ trail' \in [Drafts -> Nat]
        BY <1>9 DEF KeepDraft, ApproveDraft, TypeOK
    <2> QED BY <1>9, <2>1, <2>2 DEF KeepDraft, ApproveDraft, TypeOK
<1>10. ASSUME NEW a \in Approvals, NEW title \in Titles, NEW described \in BOOLEAN,
              CreateApproval(a, title, described)
       PROVE  TypeOK'
    BY <1>10 DEF CreateApproval, Insert, Approval, TypeOK
<1>11. ASSUME NEW a \in Approvals, NEW by, NEW verdict \in Verdicts,
              DecidePortalApproval(a, by, verdict) \/ DecideStaffApproval(a, by, verdict)
       PROVE  TypeOK'
    <2>1. approval' \in [Approvals -> Approval]
        BY <1>11 DEF DecidePortalApproval, DecideStaffApproval, Decide, Approval, TypeOK
    <2>2. executed' \in [Approvals -> Nat]
        BY <1>11 DEF DecidePortalApproval, DecideStaffApproval, TypeOK
    <2> QED BY <1>11, <2>1, <2>2 DEF DecidePortalApproval, DecideStaffApproval, TypeOK
<1>12. ASSUME NEW a \in Approvals, ReopenApproval(a) PROVE TypeOK'
    BY <1>12 DEF ReopenApproval, Approval, TypeOK
<1>13. ASSUME NEW from \in {"open", "done", "deleted"}, NEW to \in {"open", "done", "deleted"},
              MoveEscalation(from, to)
       PROVE  TypeOK'
    <2>1. escalations' \in [{"open", "done", "deleted"} -> Nat]
        BY <1>13 DEF MoveEscalation, TypeOK
    <2> QED BY <1>13, <2>1 DEF MoveEscalation, TypeOK
<1>14. ASSUME NEW d \in Drafts, DeleteMigration(d) PROVE TypeOK'
    BY <1>14 DEF DeleteMigration, TypeOK
<1>15. ASSUME NEW on \in BOOLEAN, PutAgentsStatus(on) PROVE TypeOK'
    BY <1>15 DEF PutAgentsStatus, TypeOK
<1>16. CASE DeleteProject
    BY <1>16 DEF DeleteProject, TypeOK
<1>17. CASE UNCHANGED vars
    BY <1>17 DEF vars, TypeOK
<1> QED BY <1>1, <1>2, <1>3, <1>4, <1>5, <1>6, <1>7, <1>8, <1>9, <1>10, <1>11, <1>12,
           <1>13, <1>14, <1>15, <1>16, <1>17 DEF Next, AtOnce, Begin, Continue

(* A request that stops or goes on leaves the other requests alone.         *)
LEMMA Others ==
    ASSUME TypeOK, NEW h \in Handlers, NEW x, Continues(h, x)
    PROVE  op'[h] = x /\ \A k \in Handlers : k # h => op'[k] = op[k]
BY DEF Continues, TypeOK

(* Decisions: a step of a handler that leaves the approvals alone.          *)
LEMMA ApprovalFrame ==
    ASSUME TypeOK, ApprovalInv, NEW h \in Handlers, NEW x, Continues(h, x),
           UNCHANGED approvalVars,
           x.at \in {"rates", "rated"} =>
               Decided(x.of) \/ (op[h].at \in {"rates", "rated"} /\ op[h].of = x.of),
           \A a \in Approvals : rating'[a] # "none" =>
               rating[a] # "none" \/ (op[h].at = "rated" /\ op[h].of = a)
    PROVE  ApprovalInv'
<1> USE DEF approvalVars, Decided
<1>1. op'[h] = x /\ \A k \in Handlers : k # h => op'[k] = op[k]
    BY Others
<1>2. OncePerOpening'
    BY DEF ApprovalInv, OncePerOpening
<1>3. RatedAfterDecision'
    BY DEF ApprovalInv, RatedAfterDecision
<1>4. \A k \in Handlers : op'[k].at \in {"rates", "rated"}
          => Decided(op[k].of)' \/ opened'[op'[k].of] >= 2
    BY <1>1 DEF ApprovalInv
<1> QED BY <1>2, <1>3, <1>4 DEF ApprovalInv

LEMMA ApprovalStep == TypeOK /\ ApprovalInv /\ [Next]_vars => ApprovalInv'
<1> SUFFICES ASSUME TypeOK, ApprovalInv, [Next]_vars PROVE ApprovalInv'
    OBVIOUS
<1> USE DEF ratingVars
<1>0. \A h \in Handlers : op[h].at \in {"rates", "rated"} => op[h].of \in Approvals
    BY DEF TypeOK, Ops, Idle
<1>1. ASSUME NEW h \in Handlers, NEW title \in Titles, CallTool(h, title)
      PROVE  ApprovalInv'
    BY <1>1, ApprovalFrame DEF CallTool
<1>2. ASSUME NEW h \in Handlers, NEW a \in Approvals, NEW low \in BOOLEAN,
             ReadRated(h, a, low)
      PROVE  ApprovalInv'
    BY <1>2, ApprovalFrame DEF ReadRated, MayRate
<1>3. ASSUME NEW h \in Handlers, NEW d \in Drafts, AskModel(h, d) \/ ReadDraft(h, d)
      PROVE  ApprovalInv'
    BY <1>3, ApprovalFrame DEF AskModel, ReadDraft
<1>4. ASSUME NEW h \in Handlers,
             LookForTwin(h) \/ RatingRefused(h) \/ Abandon(h) \/ KeepDraft(h) \/ ApproveDraft(h)
      PROVE  ApprovalInv'
    <2>1. PICK x : Continues(h, x) /\ x.at \notin {"rates", "rated"}
        BY <1>4 DEF LookForTwin, RatingRefused, Abandon, KeepDraft, ApproveDraft, Done, Idle
    <2>2. UNCHANGED <<approvalVars, rating>>
        BY <1>4 DEF LookForTwin, RatingRefused, Abandon, KeepDraft, ApproveDraft
    <2> QED BY <2>1, <2>2, ApprovalFrame
<1>5. ASSUME NEW h \in Handlers, InsertRating(h) PROVE ApprovalInv'
    BY <1>5, ApprovalFrame DEF InsertRating
<1>6. ASSUME NEW h \in Handlers, CommitRating(h) PROVE ApprovalInv'
    <2>1. \A a \in Approvals : a # op[h].of => rating'[a] = rating[a]
        BY <1>6 DEF CommitRating, TypeOK
    <2>2. op[h].at = "rated" /\ Continues(h, Idle) /\ UNCHANGED approvalVars
        BY <1>6 DEF CommitRating, Done
    <2> QED BY <2>1, <2>2, ApprovalFrame DEF Idle
<1>7. ASSUME NEW a \in Approvals, NEW row, Insert(a, row), row.status = "pending",
             UNCHANGED <<executed, rating>>,
             \A k \in Handlers : op'[k] = op[k] \/ op'[k] = Idle
      PROVE  ApprovalInv'
    <2>1. /\ approval[a].status = "none" /\ approval'[a] = row /\ opened'[a] = opened[a] + 1
          /\ \A b \in Approvals : b # a => approval'[b] = approval[b] /\ opened'[b] = opened[b]
        BY <1>7 DEF Insert, TypeOK
    <2>t. \A b \in Approvals : opened[b] \in Nat /\ executed[b] \in Nat
        BY OpeningsAssumption DEF TypeOK
    <2>2. OncePerOpening'
        BY <1>7, <2>1, <2>t DEF ApprovalInv, OncePerOpening
    <2>3. RatedAfterDecision'
        BY <1>7, <2>1, <2>t DEF ApprovalInv, RatedAfterDecision, Decided, Verdicts
    <2>4. \A b \in Approvals : approval'[b].status # "none" <=> opened'[b] >= 1
        BY <1>7, <2>1, <2>t DEF ApprovalInv
    <2>5. \A k \in Handlers : op'[k].at \in {"rates", "rated"}
              => Decided(op[k].of)' \/ opened'[op'[k].of] >= 2
        BY <1>0, <1>7, <2>1, <2>t DEF ApprovalInv, Decided, Verdicts, Idle
    <2> QED BY <2>2, <2>3, <2>4, <2>5 DEF ApprovalInv
<1>8. ASSUME NEW h \in Handlers, NEW a \in Approvals, ProposeApproval(h, a)
      PROVE  ApprovalInv'
    <2>1. \A k \in Handlers : op'[k] = op[k] \/ op'[k] = Idle
        BY <1>8, Others DEF ProposeApproval, Done
    <2> QED BY <1>7, <1>8, <2>1 DEF ProposeApproval
<1>9. ASSUME NEW a \in Approvals, NEW title \in Titles, NEW described \in BOOLEAN,
             CreateApproval(a, title, described)
      PROVE  ApprovalInv'
    BY <1>7, <1>9 DEF CreateApproval
<1>10. ASSUME NEW a \in Approvals, NEW by, NEW verdict \in Verdicts,
              DecidePortalApproval(a, by, verdict) \/ DecideStaffApproval(a, by, verdict)
       PROVE  ApprovalInv'
    <2>1. /\ approval[a].status = "pending" /\ approval'[a].status = verdict
          /\ \A b \in Approvals : b # a => approval'[b] = approval[b] /\ executed'[b] = executed[b]
          /\ UNCHANGED <<opened, rating, op>>
        BY <1>10 DEF DecidePortalApproval, DecideStaffApproval, Decide, Pending, TypeOK
    <2>2. /\ executed[a] \in Nat /\ executed'[a] \in {executed[a], executed[a] + 1}
          /\ verdict # "approved" => executed'[a] = executed[a]
        BY <1>10 DEF DecidePortalApproval, DecideStaffApproval, TypeOK
    <2>t. \A b \in Approvals : opened[b] \in Nat
        BY OpeningsAssumption DEF TypeOK
    <2>3. OncePerOpening'
        <3>1. executed[a] + 1 <= opened[a]
            BY <2>1, <2>2, <2>t DEF ApprovalInv, OncePerOpening
        <3> QED BY <2>1, <2>2, <2>t, <3>1 DEF ApprovalInv, OncePerOpening, Verdicts
    <2>4. \A b \in Approvals : Decided(b) => Decided(b)'
        BY <2>1 DEF Decided
    <2>5. RatedAfterDecision'
        BY <2>1, <2>4 DEF ApprovalInv, RatedAfterDecision
    <2>6. \A b \in Approvals : approval'[b].status # "none" <=> opened'[b] >= 1
        BY <2>1 DEF ApprovalInv, Verdicts
    <2>7. \A k \in Handlers : op'[k].at \in {"rates", "rated"}
              => Decided(op[k].of)' \/ opened'[op'[k].of] >= 2
        BY <1>0, <2>1, <2>4 DEF ApprovalInv
    <2> QED BY <2>3, <2>5, <2>6, <2>7 DEF ApprovalInv
<1>11. ASSUME NEW a \in Approvals, ReopenApproval(a) PROVE ApprovalInv'
    <2>1. /\ approval[a].status \in Verdicts /\ approval'[a].status = "pending"
          /\ opened'[a] = opened[a] + 1
          /\ \A b \in Approvals : b # a => approval'[b] = approval[b] /\ opened'[b] = opened[b]
          /\ UNCHANGED <<executed, rating, op>>
        BY <1>11 DEF ReopenApproval, Decided, TypeOK
    <2>t. \A b \in Approvals : opened[b] \in Nat /\ executed[b] \in Nat
        BY OpeningsAssumption DEF TypeOK
    <2>2. opened'[a] >= 2
        BY <2>1, <2>t DEF ApprovalInv, Verdicts
    <2>3. OncePerOpening'
        BY <2>1, <2>t DEF ApprovalInv, OncePerOpening, Verdicts
    <2>4. RatedAfterDecision'
        BY <2>1, <2>2 DEF ApprovalInv, RatedAfterDecision, Decided
    <2>5. \A b \in Approvals : approval'[b].status # "none" <=> opened'[b] >= 1
        BY <2>1, <2>t DEF ApprovalInv, Verdicts
    <2>6. \A k \in Handlers : op'[k].at \in {"rates", "rated"}
              => Decided(op[k].of)' \/ opened'[op'[k].of] >= 2
        BY <1>0, <2>1, <2>2 DEF ApprovalInv, Decided
    <2> QED BY <2>3, <2>4, <2>5, <2>6 DEF ApprovalInv
<1>12. ASSUME UNCHANGED <<approvalVars, rating, op>> PROVE ApprovalInv'
    BY <1>12 DEF approvalVars, ApprovalInv, OncePerOpening, RatedAfterDecision, Decided
<1>13. ASSUME \/ \E from, to \in {"open", "done", "deleted"} : MoveEscalation(from, to)
              \/ \E d \in Drafts : DeleteMigration(d)
              \/ \E on \in BOOLEAN : PutAgentsStatus(on)
              \/ DeleteProject
              \/ UNCHANGED vars
       PROVE  ApprovalInv'
    BY <1>12, <1>13 DEF MoveEscalation, DeleteMigration, PutAgentsStatus, DeleteProject, vars,
                        approvalVars
<1> QED BY <1>1, <1>2, <1>3, <1>4, <1>5, <1>6, <1>8, <1>9, <1>10, <1>11, <1>13
        DEF Next, AtOnce, Begin, Continue

(* Ratings: a step of a handler that leaves them alone and begins none.     *)
LEMMA RatingFrame ==
    ASSUME TypeOK, RatingInv, NEW h \in Handlers, NEW x, Continues(h, x),
           UNCHANGED ratingVars, x.at # "rated"
    PROVE  RatingInv'
<1>1. op'[h] = x /\ \A k \in Handlers : k # h => op'[k] = op[k]
    BY Others
<1>2. UNCHANGED <<Low, Made, rating>>
    BY DEF Low, Made, ratingVars
<1>3. \A k \in Handlers : op'[k].at = "rated" => k # h /\ op'[k] = op[k]
    BY <1>1
<1>4. LowIsEscalated'
    BY <1>2 DEF RatingInv, LowIsEscalated
<1>5. \A k \in Handlers : op'[k].at = "rated" =>
           /\ rating'[op'[k].of] = "none"
           /\ op'[k].opens => op'[k].low
           /\ op'[k].low /\ ~op'[k].opens => Made' > 0
    BY <1>2, <1>3 DEF RatingInv
<1>6. \A j, k \in Handlers :
           op'[j].at = "rated" /\ op'[k].at = "rated" /\ op'[j].of = op'[k].of => j = k
    BY <1>3 DEF RatingInv
<1> QED BY <1>4, <1>5, <1>6 DEF RatingInv

LEMMA MadeType ==
    ASSUME TypeOK
    PROVE  /\ Made \in Nat
           /\ escalations["open"] \in Nat /\ Made >= escalations["open"]
           /\ IsFiniteSet(Low) /\ Cardinality(Low) \in Nat
<1>1. Made \in Nat /\ escalations["open"] \in Nat /\ Made >= escalations["open"]
    BY DEF TypeOK, Made
<1>2. IsFiniteSet(Low) /\ Cardinality(Low) \in Nat
    <2>1. Low \in SUBSET Approvals
        BY DEF Low
    <2> QED BY <2>1, ApprovalsAssumption, FS_Subset, FS_CardinalityType
<1> QED BY <1>1, <1>2

LEMMA RatingStep == TypeOK /\ RatingInv /\ [Next]_vars => RatingInv'
<1> SUFFICES ASSUME TypeOK, RatingInv, [Next]_vars PROVE RatingInv'
    OBVIOUS
<1>0. \A h \in Handlers : op[h].at \in {"rates", "rated"}
          => op[h].of \in Approvals /\ op[h].low \in BOOLEAN
    BY DEF TypeOK, Ops, Idle
<1>1. ASSUME NEW h \in Handlers, NEW title \in Titles, CallTool(h, title)
      PROVE  RatingInv'
    BY <1>1, RatingFrame DEF CallTool
<1>2. ASSUME NEW h \in Handlers, NEW a \in Approvals, NEW low \in BOOLEAN,
             ReadRated(h, a, low)
      PROVE  RatingInv'
    BY <1>2, RatingFrame DEF ReadRated
<1>3. ASSUME NEW h \in Handlers, NEW d \in Drafts, AskModel(h, d) \/ ReadDraft(h, d)
      PROVE  RatingInv'
    BY <1>3, RatingFrame DEF AskModel, ReadDraft
<1>4. ASSUME NEW h \in Handlers,
             \/ LookForTwin(h) \/ RatingRefused(h) \/ Abandon(h) \/ KeepDraft(h)
             \/ ApproveDraft(h) \/ \E a \in Approvals : ProposeApproval(h, a)
      PROVE  RatingInv'
    <2>1. PICK x : Continues(h, x) /\ x.at # "rated"
        BY <1>4 DEF LookForTwin, RatingRefused, Abandon, KeepDraft, ApproveDraft,
                    ProposeApproval, Done, Idle
    <2>2. UNCHANGED ratingVars
        BY <1>4 DEF LookForTwin, RatingRefused, Abandon, KeepDraft, ApproveDraft,
                    ProposeApproval
    <2> QED BY <2>1, <2>2, RatingFrame
<1>5. ASSUME NEW h \in Handlers, InsertRating(h) PROVE RatingInv'
    <2> DEFINE x == [at |-> "rated", of |-> op[h].of, low |-> op[h].low,
                     opens |-> Opens(op[h].low)]
    <2>1. op'[h] = x /\ \A k \in Handlers : k # h => op'[k] = op[k]
        BY <1>5, Others DEF InsertRating
    <2>2. UNCHANGED <<Low, Made, rating>>
        BY <1>5 DEF InsertRating, Low, Made, ratingVars
    <2>3. LowIsEscalated'
        BY <2>2 DEF RatingInv, LowIsEscalated
    <2>4. rating[op[h].of] = "none" /\ ~KeyHeld(op[h].of)
        BY <1>5 DEF InsertRating
    <2>5. ASSUME NEW k \in Handlers, op'[k].at = "rated"
          PROVE  /\ rating'[op'[k].of] = "none"
                 /\ op'[k].opens => op'[k].low
                 /\ op'[k].low /\ ~op'[k].opens => Made' > 0
        <3>1. CASE k # h
            BY <2>1, <2>2, <2>5, <3>1 DEF RatingInv
        <3>2. CASE k = h
            <4>1. op[h].low \in BOOLEAN
                BY <1>0, <1>5 DEF InsertRating
            <4>2. escalations["open"] # 0 => Made > 0
                BY MadeType
            <4>3. x.of = op[h].of /\ x.low = op[h].low /\ x.opens = Opens(op[h].low)
                OBVIOUS
            <4> QED BY <2>1, <2>2, <2>4, <3>2, <4>1, <4>2, <4>3 DEF Opens
        <3> QED BY <3>1, <3>2
    <2>6. ASSUME NEW j \in Handlers, NEW k \in Handlers,
                 op'[j].at = "rated", op'[k].at = "rated", op'[j].of = op'[k].of
          PROVE  j = k
        BY <2>1, <2>4, <2>6 DEF RatingInv, KeyHeld
    <2> QED BY <2>3, <2>5, <2>6 DEF RatingInv
<1>6. ASSUME NEW h \in Handlers, CommitRating(h) PROVE RatingInv'
    <2> DEFINE a == op[h].of
               n == IF op[h].opens THEN 1 ELSE 0
    <2>1. /\ op[h].at = "rated" /\ a \in Approvals /\ op[h].low \in BOOLEAN
          /\ op'[h] = Idle /\ \A k \in Handlers : k # h => op'[k] = op[k]
        BY <1>0, <1>6, Others DEF CommitRating, Done
    <2>2. /\ rating'[a] = IF op[h].low THEN "low" ELSE "high"
          /\ \A b \in Approvals : b # a => rating'[b] = rating[b]
        BY <1>6, <2>1 DEF CommitRating, TypeOK
    <2>3. Made' = Made + n
        <3>1. /\ escalations'["open"] = escalations["open"] + n
              /\ escalations'["done"] = escalations["done"]
              /\ escalations'["deleted"] = escalations["deleted"]
            <4>1. escalations["open"] \in Nat
                BY DEF TypeOK
            <4>2. IF op[h].opens THEN escalations' = [escalations EXCEPT !["open"] = @ + 1]
                  ELSE escalations' = [escalations EXCEPT !["open"] = @]
                BY <1>6 DEF CommitRating
            <4> QED BY <4>1, <4>2 DEF TypeOK
        <3>2. /\ escalations["open"] \in Nat /\ escalations["done"] \in Nat
              /\ escalations["deleted"] \in Nat
            BY DEF TypeOK
        <3> QED BY <3>1, <3>2 DEF Made
    <2>4. rating[a] = "none" /\ (op[h].opens => op[h].low)
          /\ (op[h].low /\ ~op[h].opens => Made > 0)
        BY <2>1 DEF RatingInv
    <2>5. /\ op[h].low => Low' = Low \cup {a} /\ a \notin Low
          /\ ~op[h].low => Low' = Low
        BY <2>1, <2>2, <2>4 DEF Low
    <2>6. /\ op[h].low => Cardinality(Low') = Cardinality(Low) + 1
          /\ ~op[h].low => Cardinality(Low') = Cardinality(Low)
        BY <2>5, MadeType, FS_AddElement
    <2>7. Made \in Nat /\ Cardinality(Low) \in Nat /\ n \in {0, 1}
        BY MadeType
    <2>8. LowIsEscalated'
        <3>1. Low' # {} => Made' > 0
            <4>1. CASE op[h].low
                BY <2>3, <2>4, <2>7, <4>1
            <4>2. CASE ~op[h].low
                BY <2>3, <2>5, <2>7, <4>2 DEF RatingInv, LowIsEscalated
            <4> QED BY <4>1, <4>2
        <3>2. Made' <= Cardinality(Low')
            BY <2>3, <2>4, <2>6, <2>7 DEF RatingInv, LowIsEscalated
        <3> QED BY <3>1, <3>2 DEF LowIsEscalated
    <2>9. ASSUME NEW k \in Handlers, op'[k].at = "rated"
          PROVE  /\ rating'[op'[k].of] = "none"
                 /\ op'[k].opens => op'[k].low
                 /\ op'[k].low /\ ~op'[k].opens => Made' > 0
        <3>1. k # h /\ op'[k] = op[k]
            BY <2>1, <2>9 DEF Idle
        <3>2. op[k].of # a /\ op[k].of \in Approvals
            BY <1>0, <2>1, <2>9, <3>1 DEF RatingInv
        <3>3. Made > 0 => Made' > 0
            BY <2>3, <2>7
        <3> QED BY <2>2, <2>9, <3>1, <3>2, <3>3 DEF RatingInv
    <2>10. ASSUME NEW j \in Handlers, NEW k \in Handlers,
                  op'[j].at = "rated", op'[k].at = "rated", op'[j].of = op'[k].of
           PROVE  j = k
        BY <2>1, <2>10 DEF RatingInv, Idle
    <2> QED BY <2>8, <2>9, <2>10 DEF RatingInv
<1>7. ASSUME UNCHANGED <<rating, op>>, Made' = Made PROVE RatingInv'
    <2>1. UNCHANGED Low
        BY <1>7 DEF Low
    <2>2. LowIsEscalated'
        BY <1>7, <2>1 DEF RatingInv, LowIsEscalated
    <2> QED BY <1>7, <2>2 DEF RatingInv
<1>8. ASSUME NEW from \in {"open", "done", "deleted"}, NEW to \in {"open", "done", "deleted"},
             MoveEscalation(from, to)
      PROVE  RatingInv'
    <2>1. /\ escalations["open"] \in Nat /\ escalations["done"] \in Nat
          /\ escalations["deleted"] \in Nat
        BY DEF TypeOK
    <2>2. /\ from # to
          /\ escalations'[from] = escalations[from] - 1 /\ escalations'[to] = escalations[to] + 1
          /\ \A i \in {"open", "done", "deleted"} \ {from, to} : escalations'[i] = escalations[i]
        BY <1>8 DEF MoveEscalation, TypeOK
    <2>3. Made' = Made
        BY <2>1, <2>2 DEF Made
    <2> QED BY <1>7, <1>8, <2>3 DEF MoveEscalation
<1>9. ASSUME \/ AtOnce /\ UNCHANGED <<rating, escalations, op>>
             \/ UNCHANGED vars
      PROVE  RatingInv'
    <2>1. Made' = Made
        BY <1>9 DEF Made, vars, ratingVars
    <2> QED BY <1>7, <1>9, <2>1 DEF vars, ratingVars
<1>10. ASSUME AtOnce PROVE RatingInv'
    <2>1. \/ \E from, to \in {"open", "done", "deleted"} : MoveEscalation(from, to)
          \/ UNCHANGED <<rating, escalations, op>>
        BY <1>10 DEF AtOnce, CreateApproval, DecidePortalApproval, DecideStaffApproval,
                     ReopenApproval, DeleteMigration, PutAgentsStatus, DeleteProject, ratingVars
    <2> QED BY <1>8, <1>9, <1>10, <2>1
<1> QED BY <1>1, <1>2, <1>3, <1>4, <1>5, <1>6, <1>9, <1>10 DEF Next, Begin, Continue

(* Drafts: a step of a handler that leaves them alone.                      *)
LEMMA DraftFrame ==
    ASSUME TypeOK, DraftInv, NEW h \in Handlers, NEW x, Continues(h, x),
           UNCHANGED draftVars, x.at = "approves" => draft[x.of] # "none"
    PROVE  DraftInv'
<1>1. op'[h] = x /\ \A k \in Handlers : k # h => op'[k] = op[k]
    BY Others
<1>2. EffectsOnTrail'
    BY DEF DraftInv, EffectsOnTrail, draftVars
<1>3. \A k \in Handlers : op'[k].at = "approves" => draft'[op'[k].of] # "none"
    BY <1>1 DEF DraftInv, draftVars
<1> QED BY <1>2, <1>3 DEF DraftInv, draftVars

LEMMA DraftStep == TypeOK /\ DraftInv /\ [Next]_vars => DraftInv'
<1> SUFFICES ASSUME TypeOK, DraftInv, [Next]_vars PROVE DraftInv'
    OBVIOUS
<1>0. /\ \A h \in Handlers : op[h].at \in {"drafts", "approves"} => op[h].of \in Drafts
      /\ \A d \in Drafts : d \in Sheets \/ (d \in Migrations /\ d \notin Sheets)
      /\ \A d \in Migrations : d \notin Sheets
      /\ \A d \in Drafts : effects[d] \in Nat /\ trail[d] \in Nat
      /\ Sheets \subseteq Drafts /\ Migrations \subseteq Drafts
    BY IdsAssumption DEF TypeOK, Ops, Idle, Drafts
<1>1. ASSUME NEW h \in Handlers, NEW title \in Titles, CallTool(h, title)
      PROVE  DraftInv'
    BY <1>1, DraftFrame DEF CallTool
<1>2. ASSUME NEW h \in Handlers, NEW a \in Approvals, NEW low \in BOOLEAN,
             ReadRated(h, a, low)
      PROVE  DraftInv'
    BY <1>2, DraftFrame DEF ReadRated
<1>3. ASSUME NEW h \in Handlers, NEW d \in Drafts, AskModel(h, d) \/ ReadDraft(h, d)
      PROVE  DraftInv'
    BY <1>3, DraftFrame DEF AskModel, ReadDraft
<1>4. ASSUME NEW h \in Handlers,
             \/ LookForTwin(h) \/ RatingRefused(h) \/ Abandon(h) \/ InsertRating(h)
             \/ CommitRating(h) \/ \E a \in Approvals : ProposeApproval(h, a)
      PROVE  DraftInv'
    <2>1. PICK x : Continues(h, x) /\ x.at # "approves"
        BY <1>4 DEF LookForTwin, RatingRefused, Abandon, InsertRating, CommitRating,
                    ProposeApproval, Done, Idle
    <2>2. UNCHANGED draftVars
        BY <1>4 DEF LookForTwin, RatingRefused, Abandon, InsertRating, CommitRating,
                    ProposeApproval
    <2> QED BY <2>1, <2>2, DraftFrame
<1>5. ASSUME NEW h \in Handlers, KeepDraft(h) PROVE DraftInv'
    <2> DEFINE d == op[h].of
    <2>1. /\ d \in Drafts /\ draft[d] = "none" /\ draft'[d] = "draft"
          /\ \A b \in Drafts : b # d => draft'[b] = draft[b]
          /\ UNCHANGED <<effects, trail>>
        BY <1>0, <1>5 DEF KeepDraft, TypeOK
    <2>2. \A k \in Handlers : op'[k] = op[k] \/ op'[k] = Idle
        BY <1>5, Others DEF KeepDraft, Done
    <2>3. EffectsOnTrail'
        BY <1>0, <2>1 DEF DraftInv, EffectsOnTrail
    <2>4. \A k \in Handlers : op'[k].at = "approves" => draft'[op'[k].of] # "none"
        BY <1>0, <2>1, <2>2 DEF DraftInv, Idle
    <2>5. /\ \A b \in Sheets : draft'[b] # "deleted"
          /\ \A b \in Migrations : effects'[b] > 0 => draft'[b] \in {"executed", "deleted"}
        BY <1>0, <2>1 DEF DraftInv
    <2> QED BY <2>3, <2>4, <2>5 DEF DraftInv
<1>6. ASSUME NEW h \in Handlers, ApproveDraft(h) PROVE DraftInv'
    <2> DEFINE d == op[h].of
    <2>1. /\ d \in Drafts /\ draft[d] # "none"
          /\ draft'[d] = IF draft[d] = "draft" THEN "executed" ELSE draft[d]
          /\ effects'[d] = IF d \in Sheets \/ draft[d] = "draft" THEN effects[d] + 1 ELSE effects[d]
          /\ trail'[d] = trail[d] + 1
          /\ \A b \in Drafts : b # d =>
                 draft'[b] = draft[b] /\ effects'[b] = effects[b] /\ trail'[b] = trail[b]
        BY <1>0, <1>6 DEF ApproveDraft, WritesResult, DraftInv, TypeOK
    <2>2. \A k \in Handlers : op'[k] = op[k] \/ op'[k] = Idle
        BY <1>6, Others DEF ApproveDraft, Done
    <2>3. d \in Sheets => draft'[d] = "executed"
        BY <1>0, <2>1 DEF DraftInv, TypeOK
    <2>4. d \in Migrations /\ draft[d] = "draft" => effects[d] = 0
        BY <1>0 DEF DraftInv
    <2>5. EffectsOnTrail'
        <3>1. ASSUME NEW b \in Sheets
              PROVE  effects'[b] = trail'[b] /\ (effects'[b] > 0 => draft'[b] = "executed")
            BY <1>0, <2>1, <2>3 DEF DraftInv, EffectsOnTrail
        <3>2. ASSUME NEW b \in Migrations PROVE effects'[b] <= 1 /\ effects'[b] <= trail'[b]
            BY <1>0, <2>1, <2>4 DEF DraftInv, EffectsOnTrail
        <3> QED BY <3>1, <3>2 DEF EffectsOnTrail
    <2>6. \A k \in Handlers : op'[k].at = "approves" => draft'[op'[k].of] # "none"
        BY <1>0, <2>1, <2>2 DEF DraftInv, Idle
    <2>7. /\ \A b \in Sheets : draft'[b] # "deleted"
          /\ \A b \in Migrations : effects'[b] > 0 => draft'[b] \in {"executed", "deleted"}
        BY <1>0, <2>1 DEF DraftInv
    <2> QED BY <2>5, <2>6, <2>7 DEF DraftInv
<1>7. ASSUME NEW d \in Drafts, DeleteMigration(d) PROVE DraftInv'
    <2>1. /\ d \in Migrations /\ draft'[d] = "deleted"
          /\ \A b \in Drafts : b # d => draft'[b] = draft[b]
          /\ UNCHANGED <<effects, trail, op>>
        BY <1>7 DEF DeleteMigration, TypeOK
    <2>2. EffectsOnTrail'
        BY <1>0, <2>1 DEF DraftInv, EffectsOnTrail
    <2>3. \A k \in Handlers : op'[k].at = "approves" => draft'[op'[k].of] # "none"
        BY <1>0, <2>1 DEF DraftInv
    <2>4. /\ \A b \in Sheets : draft'[b] # "deleted"
          /\ \A b \in Migrations : effects'[b] > 0 => draft'[b] \in {"executed", "deleted"}
        BY <1>0, <2>1 DEF DraftInv
    <2> QED BY <2>2, <2>3, <2>4 DEF DraftInv
<1>8. ASSUME UNCHANGED <<draft, effects, trail, op>> PROVE DraftInv'
    BY <1>8 DEF DraftInv, EffectsOnTrail
<1>9. ASSUME AtOnce \/ UNCHANGED vars PROVE DraftInv'
    <2>1. (\E d \in Drafts : DeleteMigration(d)) \/ UNCHANGED <<draft, effects, trail, op>>
        BY <1>9 DEF AtOnce, CreateApproval, DecidePortalApproval, DecideStaffApproval,
                    ReopenApproval, MoveEscalation, PutAgentsStatus, DeleteProject, vars, draftVars
    <2> QED BY <1>7, <1>8, <2>1
<1> QED BY <1>1, <1>2, <1>3, <1>4, <1>5, <1>6, <1>9 DEF Next, Begin, Continue

-----------------------------------------------------------------------------
(* The promise: the rows of the approvals as the promise sees them, and the *)
(* step of the promise that each action takes.                              *)

States == [a \in Approvals |-> approval[a].status]
Once == {a \in Approvals : Decided(a) \/ opened[a] >= 2}

LEMMA SameDecisions ==
    ASSUME UNCHANGED approvalVars
    PROVE  UNCHANGED <<States, Once, executed>>
BY DEF States, Once, Decided, approvalVars

LEMMA SameRatings ==
    ASSUME UNCHANGED ratingVars
    PROVE  UNCHANGED <<rating, Made>>
BY DEF ratingVars, Made

(* An approval is inserted: it was never open, so it is not decided.        *)
LEMMA AskKept ==
    ASSUME ProposalInv, NEW a \in Approvals, NEW row, Insert(a, row), row.status = "pending",
           UNCHANGED <<executed, ratingVars, draftVars>>
    PROVE  Promise!Ask(a)
<1>1. /\ approval[a].status = "none" /\ approval' = [approval EXCEPT ![a] = row]
      /\ opened' = [opened EXCEPT ![a] = opened[a] + 1]
      /\ approval \in [Approvals -> Approval] /\ opened \in [Approvals -> Nat]
    BY OpeningsAssumption DEF Insert, ProposalInv, TypeOK
<1>2. opened[a] = 0
    BY <1>1 DEF ProposalInv, ApprovalInv
<1>3. States[a] = "none" /\ States' = [States EXCEPT ![a] = "pending"]
    BY <1>1 DEF States
<1>4. Once' = Once
    <2>1. ASSUME NEW b \in Approvals, b # a
          PROVE  approval'[b] = approval[b] /\ opened'[b] = opened[b]
        BY <1>1, <2>1
    <2>2. /\ approval[a].status = "none" /\ approval'[a].status = "pending"
          /\ opened[a] = 0 /\ opened'[a] = 1
        BY <1>1, <1>2
    <2> QED BY <2>1, <2>2 DEF Once, Decided, Verdicts
<1> QED BY <1>1, <1>3, <1>4, SameRatings
        DEF Promise!Ask, Promise!ratings, Promise!drafts, States, Once, draftVars

LEMMA DecisionKept ==
    ASSUME ProposalInv, NEW a \in Approvals, NEW by, NEW verdict \in Verdicts,
           DecidePortalApproval(a, by, verdict) \/ DecideStaffApproval(a, by, verdict)
    PROVE  Promise!Decide(a)
<1>1. /\ approval[a].status = "pending" /\ approval'[a].status = verdict
      /\ \A b \in Approvals : b # a => approval'[b] = approval[b]
      /\ UNCHANGED <<opened, ratingVars, draftVars>>
    BY DEF DecidePortalApproval, DecideStaffApproval, Decide, Pending, ProposalInv, TypeOK
<1>2. States[a] = "pending" /\ States' = [States EXCEPT ![a] = verdict]
    BY <1>1 DEF States
<1>3. Once' = Once \cup {a}
    <2>1. \A b \in Approvals : b # a => (b \in Once' <=> b \in Once)
        BY <1>1 DEF Once, Decided
    <2>2. a \in Once'
        BY <1>1 DEF Once, Decided
    <2>3. Once \subseteq Approvals /\ Once' \subseteq Approvals
        BY DEF Once
    <2> QED BY <2>1, <2>2, <2>3
<1>4. PICK runs \in BOOLEAN :
          /\ runs => verdict = "approved"
          /\ executed' = [executed EXCEPT ![a] = IF runs THEN executed[a] + 1 ELSE executed[a]]
    <2>1. \/ executed' = executed
          \/ verdict = "approved" /\ executed' = [executed EXCEPT ![a] = executed[a] + 1]
        BY DEF DecidePortalApproval, DecideStaffApproval
    <2>2. executed = [executed EXCEPT ![a] = executed[a]]
        BY DEF ProposalInv, TypeOK
    <2>3. CASE executed' = executed
        <3> WITNESS FALSE \in BOOLEAN
        <3> QED BY <2>2, <2>3
    <2>4. CASE verdict = "approved" /\ executed' = [executed EXCEPT ![a] = executed[a] + 1]
        <3> WITNESS TRUE \in BOOLEAN
        <3> QED BY <2>4
    <2> QED BY <2>1, <2>3, <2>4
<1> QED BY <1>1, <1>2, <1>3, <1>4, SameRatings
        DEF Promise!Decide, Promise!Verdicts, Promise!ratings, Promise!drafts, Verdicts, States,
            Once, draftVars

LEMMA ReopeningKept ==
    ASSUME ProposalInv, NEW a \in Approvals, ReopenApproval(a)
    PROVE  Promise!Reopen(a)
<1>1. /\ approval[a].status \in Verdicts /\ approval'[a].status = "pending"
      /\ opened'[a] = opened[a] + 1 /\ opened[a] \in Nat
      /\ \A b \in Approvals : b # a => approval'[b] = approval[b] /\ opened'[b] = opened[b]
      /\ UNCHANGED <<executed, ratingVars, draftVars>>
    BY OpeningsAssumption DEF ReopenApproval, Decided, ProposalInv, TypeOK
<1>2. States[a] \in Verdicts /\ States' = [States EXCEPT ![a] = "pending"]
    BY <1>1 DEF States
<1>3. opened[a] >= 1
    BY <1>1 DEF ProposalInv, ApprovalInv, Verdicts
<1>4. Once' = Once
    <2>1. \A b \in Approvals : b # a => (b \in Once' <=> b \in Once)
        BY <1>1 DEF Once, Decided
    <2>2. a \in Once /\ a \in Once'
        BY <1>1, <1>3 DEF Once, Decided
    <2>3. Once \subseteq Approvals /\ Once' \subseteq Approvals
        BY DEF Once
    <2> QED BY <2>1, <2>2, <2>3
<1> QED BY <1>1, <1>2, <1>4, SameRatings
        DEF Promise!Reopen, Promise!Verdicts, Promise!ratings, Promise!drafts, Verdicts, States,
            Once, draftVars

(* A rating was begun of what had been decided; it is written once, and is  *)
(* followed up by what its own look for an open escalation has told it.     *)
LEMMA RatingKept ==
    ASSUME ProposalInv, NEW h \in Handlers, CommitRating(h)
    PROVE  \E a \in Approvals : Promise!Rate(a)
<1> DEFINE a == op[h].of
           score == IF op[h].low THEN "low" ELSE "high"
           follows == op[h].opens
<1>1. op[h].at = "rated" /\ a \in Approvals /\ op[h].low \in BOOLEAN /\ follows \in BOOLEAN
    BY DEF CommitRating, ProposalInv, TypeOK, Ops, Idle
<1>2. a \in Once
    BY <1>1 DEF ProposalInv, ApprovalInv, Once
<1>3. /\ rating[a] = "none" /\ (follows => score = "low")
      /\ score = "low" /\ ~follows => Made > 0
    BY <1>1 DEF ProposalInv, RatingInv
<1>4. rating' = [rating EXCEPT ![a] = score]
    BY DEF CommitRating
<1>5. Made' = IF follows THEN Made + 1 ELSE Made
    <2>1. /\ escalations["open"] \in Nat /\ escalations["done"] \in Nat
          /\ escalations["deleted"] \in Nat
        BY DEF ProposalInv, TypeOK
    <2>2. /\ escalations'["open"] = IF follows THEN escalations["open"] + 1
                                    ELSE escalations["open"]
          /\ escalations'["done"] = escalations["done"]
          /\ escalations'["deleted"] = escalations["deleted"]
        BY DEF CommitRating, ProposalInv, TypeOK
    <2> HIDE DEF follows
    <2> QED BY <2>1, <2>2 DEF Made
<1>6. UNCHANGED <<States, Once, executed>> /\ UNCHANGED <<draft, effects, trail>>
    BY SameDecisions DEF CommitRating, draftVars
<1>7. score \in {"low", "high"}
    OBVIOUS
<1> HIDE DEF a, score, follows
<1>8. Promise!Rate(a)
    BY <1>1, <1>2, <1>3, <1>4, <1>5, <1>6, <1>7
        DEF Promise!Rate, Promise!decisions, Promise!drafts, States, Once
<1> QED BY <1>1, <1>8

(* The rows of a draft: what is approved is there, and a sheet stays.       *)
LEMMA DraftKept ==
    ASSUME ProposalInv, NEW h \in Handlers, KeepDraft(h) \/ ApproveDraft(h)
    PROVE  \E d \in Drafts : Promise!Keep(d) \/ Promise!Approve(d)
<1> DEFINE d == op[h].of
<1>1. d \in Drafts
    BY DEF KeepDraft, ApproveDraft, ProposalInv, TypeOK, Ops, Idle
<1>2. UNCHANGED <<States, Once, executed>> /\ UNCHANGED <<rating, Made>>
    BY SameDecisions, SameRatings DEF KeepDraft, ApproveDraft
<1>3. CASE KeepDraft(h)
    <2>1. Promise!Keep(d)
        BY <1>2, <1>3 DEF KeepDraft, Promise!Keep, Promise!decisions, Promise!ratings, States,
                          Once
    <2> QED BY <1>1, <2>1
<1>4. CASE ApproveDraft(h)
    <2>1. /\ op[h].at = "approves" /\ draft[d] \in {"draft", "executed", "deleted"}
          /\ d \in Sheets => draft[d] # "deleted"
        BY <1>1, <1>4 DEF ApproveDraft, ProposalInv, DraftInv, TypeOK
    <2>2. Promise!Approve(d)
        BY <1>2, <1>4, <2>1 DEF ApproveDraft, WritesResult, Promise!Approve, Promise!decisions,
                                Promise!ratings, States, Once
    <2> QED BY <1>1, <2>2
<1> QED BY <1>3, <1>4

LEMMA Unseen ==
    ASSUME UNCHANGED approvalVars, UNCHANGED <<rating, Made>>, UNCHANGED draftVars
    PROVE  UNCHANGED Promise!pvars
BY SameDecisions DEF Promise!pvars, Promise!decisions, Promise!ratings, Promise!drafts, States,
                     Once, draftVars

LEMMA PromiseStep ==
    ASSUME ProposalInv, [Next]_vars
    PROVE  [Promise!Next]_(Promise!pvars)
<1>1. ASSUME NEW h \in Handlers, Begin(h) PROVE UNCHANGED Promise!pvars
    BY <1>1, Unseen, SameRatings DEF Begin, CallTool, ReadRated, AskModel, ReadDraft
<1>2. ASSUME NEW h \in Handlers,
             LookForTwin(h) \/ InsertRating(h) \/ RatingRefused(h) \/ Abandon(h)
      PROVE  UNCHANGED Promise!pvars
    BY <1>2, Unseen, SameRatings DEF LookForTwin, InsertRating, RatingRefused, Abandon
<1>3. ASSUME NEW h \in Handlers, NEW a \in Approvals, ProposeApproval(h, a)
      PROVE  Promise!Ask(a)
    BY <1>3, AskKept DEF ProposeApproval
<1>4. ASSUME NEW a \in Approvals, NEW title \in Titles, NEW described \in BOOLEAN,
             CreateApproval(a, title, described)
      PROVE  Promise!Ask(a)
    BY <1>4, AskKept DEF CreateApproval
<1>5. ASSUME NEW from \in {"open", "done", "deleted"}, NEW to \in {"open", "done", "deleted"},
             MoveEscalation(from, to)
      PROVE  UNCHANGED Promise!pvars
    <2>1. /\ escalations["open"] \in Nat /\ escalations["done"] \in Nat
          /\ escalations["deleted"] \in Nat
        BY DEF ProposalInv, TypeOK
    <2>2. /\ from # to
          /\ escalations'[from] = escalations[from] - 1 /\ escalations'[to] = escalations[to] + 1
          /\ \A i \in {"open", "done", "deleted"} \ {from, to} : escalations'[i] = escalations[i]
        BY <1>5 DEF MoveEscalation, ProposalInv, TypeOK
    <2>3. Made' = Made
        BY <2>1, <2>2 DEF Made
    <2> QED BY <1>5, <2>3, Unseen DEF MoveEscalation
<1>6. ASSUME NEW d \in Drafts, DeleteMigration(d)
      PROVE  d \in Migrations /\ Promise!Delete(d)
    <2>1. UNCHANGED <<States, Once, executed>> /\ UNCHANGED <<rating, Made>>
        BY <1>6, SameDecisions, SameRatings DEF DeleteMigration
    <2> QED BY <1>6, <2>1 DEF DeleteMigration, Promise!Delete, Promise!decisions,
                              Promise!ratings, States, Once
<1>7. ASSUME NEW on \in BOOLEAN, PutAgentsStatus(on) \/ DeleteProject
      PROVE  UNCHANGED Promise!pvars
    BY <1>7, Unseen, SameRatings DEF PutAgentsStatus, DeleteProject
<1>8. CASE UNCHANGED vars
    BY <1>8, Unseen, SameRatings DEF vars, approvalVars, ratingVars, draftVars
<1>9. CASE AtOnce
    <2>1. CASE \E d \in Drafts : DeleteMigration(d)
        BY <1>6, <2>1 DEF Promise!Next
    <2>2. CASE \E a \in Approvals, verdict \in Verdicts :
                  \/ \E contact \in Contacts : DecidePortalApproval(a, contact, verdict)
                  \/ \E by \in Managers \cup {Null} : DecideStaffApproval(a, by, verdict)
        BY <2>2, DecisionKept DEF Promise!Next, Promise!Verdicts, Verdicts
    <2>3. CASE \E a \in Approvals : ReopenApproval(a)
        BY <2>3, ReopeningKept DEF Promise!Next
    <2>4. CASE \E a \in Approvals, title \in Titles, described \in BOOLEAN :
                  CreateApproval(a, title, described)
        BY <1>4, <2>4 DEF Promise!Next
    <2> QED BY <1>5, <1>7, <1>9, <2>1, <2>2, <2>3, <2>4 DEF AtOnce
<1>10. ASSUME NEW h \in Handlers, Continue(h) PROVE [Promise!Next]_(Promise!pvars)
    <2>1. CASE KeepDraft(h) \/ ApproveDraft(h)
        BY <2>1, DraftKept DEF Promise!Next, Promise!Drafts, Drafts
    <2>2. CASE CommitRating(h)
        BY <2>2, RatingKept DEF Promise!Next
    <2>3. CASE \E a \in Approvals : ProposeApproval(h, a)
        BY <1>3, <2>3 DEF Promise!Next
    <2> QED BY <1>2, <1>10, <2>1, <2>2, <2>3 DEF Continue
<1> QED BY <1>1, <1>8, <1>9, <1>10 DEF Next

-----------------------------------------------------------------------------
(* The theorems.                                                            *)

(* The invariant of approvals, ratings and drafts is inductive.             *)
THEOREM ProposalCorrect == Spec => []ProposalInv
<1>1. ProposalInv /\ [Next]_vars => ProposalInv'
    BY TypeStep, ApprovalStep, RatingStep, DraftStep DEF ProposalInv
<1> QED BY ProposalInit, <1>1, PTL DEF Spec

(* Whatever the handlers were in the middle of, a row has one of its states *)
(* and no approval is opened more often than the model follows.             *)
THEOREM ProposalsTyped == Spec => []TypeOK
<1>1. ProposalInv => TypeOK
    BY DEF ProposalInv
<1> QED BY ProposalCorrect, <1>1, PTL

(* A payload is executed at most once for each time its approval was open:  *)
(* two who decide at once (decidePortalApproval, decideStaffApproval) never *)
(* both execute.                                                            *)
THEOREM ExecutedOncePerOpening == Spec => []OncePerOpening
<1>1. ProposalInv => OncePerOpening
    BY DEF ProposalInv, ApprovalInv
<1> QED BY ProposalCorrect, <1>1, PTL

(* Only what has been decided is rated, however submitPortalCSAT and        *)
(* reopenApproval overtake one another.                                     *)
THEOREM RatingsFollowDecisions == Spec => []RatedAfterDecision
<1>1. ProposalInv => RatedAfterDecision
    BY DEF ProposalInv, ApprovalInv
<1> QED BY ProposalCorrect, <1>1, PTL

(* A low rating has an escalation task, and every such task a low rating    *)
(* (csat_escalate).                                                         *)
THEOREM LowRatingsEscalated == Spec => []LowIsEscalated
<1>1. ProposalInv => LowIsEscalated
    BY DEF ProposalInv, RatingInv
<1> QED BY ProposalCorrect, <1>1, PTL

(* The result of a migration is written once, and each execution of a draft *)
(* is on the trail (configApprove, migrationApprove).                       *)
THEOREM EffectsTrailed == Spec => []EffectsOnTrail
<1>1. ProposalInv => EffectsOnTrail
    BY DEF ProposalInv, DraftInv
<1> QED BY ProposalCorrect, <1>1, PTL

(* Every request takes effect at one instant: the decisions, ratings and    *)
(* drafts of any number of requests that overlap (approvals.go, mcp*.go,    *)
(* csat.go, configagent.go, migrationagent.go) are those of some order of   *)
(* requests that do not.                                                    *)
THEOREM ProposalsKeepPromise == Spec => ImplementsPromise
<1>1. Init => Promise!Init
    <2> SUFFICES ASSUME Init PROVE Promise!Init
        OBVIOUS
    <2>1. States = [a \in Approvals |-> "none"] /\ Once = {}
        BY DEF Init, States, Once, Decided, Verdicts
    <2>2. Made = 0
        BY DEF Init, Made
    <2> QED BY <2>1, <2>2 DEF Init, Promise!Init, Promise!Drafts, Drafts, States, Once
<1>2. ProposalInv /\ [Next]_vars => [Promise!Next]_(Promise!pvars)
    BY PromiseStep
<1> QED BY <1>1, <1>2, ProposalCorrect, PTL DEF Spec, ImplementsPromise, Promise!Spec
=============================================================================
