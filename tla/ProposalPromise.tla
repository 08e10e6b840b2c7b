---------------------------- MODULE ProposalPromise ----------------------------
(***************************************************************************)
(* What approvals, ratings and drafts promise when each request takes      *)
(* effect at one instant, whatever it read before.  A decision is made of  *)
(* what is open, and executes in the same instant what it is to execute;   *)
(* it stands until the approval is reopened.  What has been decided once   *)
(* is rated once, and only a low rating is followed up, unless an earlier  *)
(* one was.  What a draft was approved for happens while it is there, and  *)
(* tells so.                                                               *)
(***************************************************************************)
EXTENDS Naturals

CONSTANTS Approvals, Sheets, Migrations

Drafts == Sheets \cup Migrations
Verdicts == {"approved", "changes_requested"}

VARIABLES
    st,         \* the state of each approval
    decided,    \* those that have been decided, if perhaps reopened
    ran,        \* how often the payload of each was executed
    rate,       \* the rating of each
    followed,   \* follow-ups of ratings so far
    dst,        \* the state of each draft
    did,        \* how often each draft took effect
    told        \* how often that was written down

decisions == <<st, decided, ran>>
ratings == <<rate, followed>>
drafts == <<dst, did, told>>
pvars == <<decisions, ratings, drafts>>

Init ==
    /\ st = [a \in Approvals |-> "none"]
    /\ decided = {}
    /\ ran = [a \in Approvals |-> 0]
    /\ rate = [a \in Approvals |-> "none"]
    /\ followed = 0
    /\ dst = [d \in Drafts |-> "none"]
    /\ did = [d \in Drafts |-> 0]
    /\ told = [d \in Drafts |-> 0]

Ask(a) ==
    /\ st[a] = "none"
    /\ st' = [st EXCEPT ![a] = "pending"]
    /\ UNCHANGED <<decided, ran, ratings, drafts>>

Decide(a) ==
    /\ st[a] = "pending"
    /\ \E verdict \in Verdicts, runs \in BOOLEAN :
           /\ runs => verdict = "approved"
           /\ st' = [st EXCEPT ![a] = verdict]
           /\ ran' = [ran EXCEPT ![a] = IF runs THEN @ + 1 ELSE @]
    /\ decided' = decided \cup {a}
    /\ UNCHANGED <<ratings, drafts>>

Reopen(a) ==
    /\ st[a] \in Verdicts
    /\ st' = [st EXCEPT ![a] = "pending"]
    /\ UNCHANGED <<decided, ran, ratings, drafts>>

Rate(a) ==
    /\ rate[a] = "none"
    /\ a \in decided
    /\ \E score \in {"low", "high"}, follows \in BOOLEAN :
           /\ follows => score = "low"
           /\ score = "low" /\ ~follows => followed > 0
           /\ rate' = [rate EXCEPT ![a] = score]
           /\ followed' = IF follows THEN followed + 1 ELSE followed
    /\ UNCHANGED <<decisions, drafts>>

Keep(d) ==
    /\ dst[d] = "none"
    /\ dst' = [dst EXCEPT ![d] = "draft"]
    /\ UNCHANGED <<decisions, ratings, did, told>>

(* A sheet takes effect each time it is approved, a migration the first.    *)
Approve(d) ==
    /\ dst[d] \in {"draft", "executed", "deleted"}
    /\ d \in Sheets => dst[d] # "deleted"
    /\ dst' = [dst EXCEPT ![d] = IF @ = "draft" THEN "executed" ELSE @]
    /\ did' = [did EXCEPT ![d] = IF d \in Sheets \/ dst[d] = "draft" THEN @ + 1 ELSE @]
    /\ told' = [told EXCEPT ![d] = @ + 1]
    /\ UNCHANGED <<decisions, ratings>>

Delete(d) ==
    /\ dst[d] \in {"draft", "executed"}
    /\ dst' = [dst EXCEPT ![d] = "deleted"]
    /\ UNCHANGED <<decisions, ratings, did, told>>

Next ==
    \/ \E a \in Approvals : Ask(a) \/ Decide(a) \/ Reopen(a) \/ Rate(a)
    \/ \E d \in Drafts : Keep(d) \/ Approve(d)
    \/ \E d \in Migrations : Delete(d)

Spec == Init /\ [][Next]_pvars
=============================================================================
