------------------------------- MODULE PoolProofs -------------------------------
(***************************************************************************)
(* What a standstill of the pool takes, for any number of processes and    *)
(* connections.                                                            *)
(***************************************************************************)
EXTENDS NotifyPool, TLAPS

HoldsNone(p) == \A c \in Conns : owner[c] # p

HoldsOneAtMost(p) == \A c, d \in Conns : owner[c] = p /\ owner[d] = p => c = d

(* A process holds a second connection only inside enqueueSlackEvent, and   *)
(* none before it has acquired its first.                                   *)
Holding ==
    \A p \in Procs :
        /\ pc[p] \in {"idle", "begin", "notify", "fire"} => HoldsNone(p)
        /\ pc[p] \notin {"insert", "ruletx"} => HoldsOneAtMost(p)

(* A rule that runs has not been counted off yet.                           *)
RuleLeft == \A p \in Procs : pc[p] = "ruletx" => rules[p] > 0

PoolInv == TypeOK /\ Holding /\ RuleLeft

LEMMA PoolInit == Init => PoolInv
<1> SUFFICES ASSUME Init PROVE PoolInv
    OBVIOUS
<1>1. TypeOK /\ RuleLeft
    BY DEF Init, TypeOK, RuleLeft
<1>2. \A p \in Procs, c \in Conns : owner[c] # p
    BY PoolAssumption DEF Init
<1>3. Holding
    BY <1>2 DEF Holding, HoldsNone, HoldsOneAtMost
<1> QED BY <1>1, <1>3 DEF PoolInv

LEMMA PoolStep == PoolInv /\ [Next]_vars => PoolInv'
<1> SUFFICES ASSUME PoolInv, [Next]_vars PROVE PoolInv'
    OBVIOUS
<1> USE PoolAssumption
<1>t. /\ pc \in [Procs -> {"idle", "begin", "tx", "notify", "settings", "enqueue", "insert",
                           "fire", "rules", "ruletx"}]
      /\ owner \in [Conns -> Procs \cup {Pool}]
      /\ rules \in [Procs -> Nat]
    BY DEF PoolInv, TypeOK
<1>m. ASSUME NEW p \in Procs, NEW from, NEW to, Move(p, from, to)
      PROVE  /\ pc[p] = from /\ pc'[p] = to
             /\ \A q \in Procs : q # p => pc'[q] = pc[q]
    BY <1>m, <1>t DEF Move
<1>a. ASSUME NEW p \in Procs, Acquire(p)
      PROVE  /\ owner' \in [Conns -> Procs \cup {Pool}]
             /\ \A q \in Procs : q # p => \A c \in Conns : owner'[c] = q => owner[c] = q
             /\ HoldsNone(p) => HoldsOneAtMost(p)'
    <2>1. PICK c \in Conns : owner[c] = Pool /\ owner' = [owner EXCEPT ![c] = p]
        BY <1>a DEF Acquire, Free
    <2> QED BY <2>1, <1>t DEF HoldsNone, HoldsOneAtMost
<1>r. ASSUME NEW p \in Procs, Release(p)
      PROVE  /\ owner' \in [Conns -> Procs \cup {Pool}]
             /\ \A q \in Procs : \A c \in Conns : owner'[c] = q => owner[c] = q
             /\ HoldsNone(p)' /\ HoldsOneAtMost(p)'
    BY <1>r, <1>t DEF Release, HoldsNone, HoldsOneAtMost
<1>o. ASSUME NEW p \in Procs, 
             \A q \in Procs : q # p => pc'[q] = pc[q],
             \A q \in Procs : q # p => \A c \in Conns : owner'[c] = q => owner[c] = q,
             pc'[p] \in {"idle", "begin", "notify", "fire"} => HoldsNone(p)',
             pc'[p] \notin {"insert", "ruletx"} => HoldsOneAtMost(p)'
      PROVE  Holding'
    BY <1>o DEF PoolInv, Holding, HoldsNone, HoldsOneAtMost
<1>n. ASSUME NEW p \in Procs
      PROVE  /\ pc[p] \in {"idle", "begin", "notify", "fire"} => HoldsNone(p)
             /\ pc[p] \notin {"insert", "ruletx"} => HoldsOneAtMost(p)
             /\ UNCHANGED owner =>
                    (HoldsNone(p)' <=> HoldsNone(p)) /\ (HoldsOneAtMost(p)' <=> HoldsOneAtMost(p))
    BY DEF PoolInv, Holding, HoldsNone, HoldsOneAtMost
<1>1. ASSUME NEW p \in Procs,
             \/ Arrive(p) \/ GiveUp(p) \/ WantsSlack(p)
             \/ Free # {} /\ Move(p, "notify", "fire") /\ UNCHANGED <<owner, rules>>
             \/ Free # {} /\ Move(p, "fire", "idle") /\ UNCHANGED <<owner, rules>>
      PROVE  PoolInv'
    <2>1. UNCHANGED <<owner, rules>>
        BY <1>1 DEF Arrive, GiveUp, WantsSlack
    <2>2. /\ \A q \in Procs : q # p => pc'[q] = pc[q]
          /\ pc[p] \in {"idle", "begin", "notify", "fire", "settings"}
          /\ pc'[p] \in {"idle", "begin", "notify", "fire"} => pc[p] # "settings"
          /\ pc'[p] \in {"idle", "begin", "fire", "enqueue"}
        BY <1>1, <1>m DEF Arrive, GiveUp, WantsSlack
    <2>3. TypeOK'
        BY <1>1, <2>1, <1>t DEF Arrive, GiveUp, WantsSlack, Move, TypeOK
    <2>4. Holding'
        BY <2>1, <2>2, <1>n, <1>o
    <2>5. RuleLeft'
        BY <2>1, <2>2 DEF PoolInv, RuleLeft
    <2> QED BY <2>3, <2>4, <2>5 DEF PoolInv
<1>2. ASSUME NEW p \in Procs,
             \/ EndTx(p) \/ NoSlack(p) \/ Enqueued(p) \/ RulesDone(p)
             \/ Move(p, "enqueue", "fire") /\ Release(p) /\ UNCHANGED rules
      PROVE  PoolInv'
    <2>1. Release(p) /\ UNCHANGED rules
        BY <1>2 DEF EndTx, NoSlack, Enqueued, RulesDone
    <2>2. /\ \A q \in Procs : q # p => pc'[q] = pc[q]
          /\ pc' \in [Procs -> {"idle", "begin", "tx", "notify", "settings", "enqueue", "insert",
                                "fire", "rules", "ruletx"}]
        BY <1>2, <1>t DEF EndTx, NoSlack, Enqueued, RulesDone, Move
    <2>3. Holding'
        BY <2>1, <2>2, <1>r, <1>o
    <2>4. RuleLeft'
        BY <1>2, <1>m, <2>1, <2>2
           DEF EndTx, NoSlack, Enqueued, RulesDone, PoolInv, RuleLeft
    <2> QED BY <2>1, <2>2, <2>3, <2>4, <1>r, <1>t DEF PoolInv, TypeOK
<1>3. ASSUME NEW p \in Procs, BeginTx(p) \/ AcquireSettings(p) \/ AcquireRules(p)
      PROVE  PoolInv'
    <2>1. Acquire(p)
        BY <1>3 DEF BeginTx, AcquireSettings, AcquireRules
    <2>2. /\ \A q \in Procs : q # p => pc'[q] = pc[q]
          /\ pc[p] \in {"begin", "notify", "fire"}
          /\ pc'[p] \in {"tx", "settings", "rules"}
          /\ pc' \in [Procs -> {"idle", "begin", "tx", "notify", "settings", "enqueue", "insert",
                                "fire", "rules", "ruletx"}]
        BY <1>3, <1>t DEF BeginTx, AcquireSettings, AcquireRules, Move
    <2>3. rules' \in [Procs -> Nat]
        BY <1>3, <1>t DEF BeginTx, AcquireSettings, AcquireRules
    <2>4. Holding'
        BY <2>1, <2>2, <1>a, <1>n, <1>o
    <2>5. RuleLeft'
        <3>1. \A q \in Procs : q # p => rules'[q] = rules[q]
            BY <1>3, <1>t DEF BeginTx, AcquireSettings, AcquireRules
        <3> QED BY <2>2, <3>1 DEF PoolInv, RuleLeft
    <2> QED BY <2>1, <2>2, <2>3, <2>4, <2>5, <1>a DEF PoolInv, TypeOK
<1>4. ASSUME NEW p \in Procs, BeginEnqueue(p) \/ BeginRule(p) PROVE PoolInv'
    <2>1. Acquire(p) /\ UNCHANGED rules
        BY <1>4 DEF BeginEnqueue, BeginRule
    <2>2. /\ \A q \in Procs : q # p => pc'[q] = pc[q]
          /\ pc'[p] \in {"insert", "ruletx"}
          /\ pc' \in [Procs -> {"idle", "begin", "tx", "notify", "settings", "enqueue", "insert",
                                "fire", "rules", "ruletx"}]
        BY <1>4, <1>t DEF BeginEnqueue, BeginRule, Move
    <2>3. Holding'
        BY <2>1, <2>2, <1>a, <1>o
    <2>4. RuleLeft'
        BY <1>4, <1>m, <2>1, <2>2 DEF BeginEnqueue, BeginRule, PoolInv, RuleLeft
    <2> QED BY <2>1, <2>2, <2>3, <2>4, <1>a, <1>t DEF PoolInv, TypeOK
<1>5. ASSUME NEW p \in Procs, RuleDone(p) PROVE PoolInv'
    <2>0. rules[p] > 0
        BY <1>5 DEF RuleDone, Move, PoolInv, RuleLeft
    <2>1. PICK c \in Conns :
             owner[c] = p /\ owner' = [d \in Conns |-> IF owner[d] = p /\ d # c THEN Pool ELSE owner[d]]
        BY <1>5 DEF RuleDone
    <2>2. /\ owner' \in [Conns -> Procs \cup {Pool}]
          /\ \A q \in Procs : q # p => \A d \in Conns : owner'[d] = q => owner[d] = q
          /\ HoldsOneAtMost(p)'
        BY <2>1, <1>t DEF HoldsOneAtMost
    <2>3. /\ \A q \in Procs : q # p => pc'[q] = pc[q]
          /\ pc'[p] = "rules"
          /\ pc' \in [Procs -> {"idle", "begin", "tx", "notify", "settings", "enqueue", "insert",
                                "fire", "rules", "ruletx"}]
        BY <1>5, <1>t DEF RuleDone, Move
    <2>4. rules' \in [Procs -> Nat]
        BY <1>5, <2>0, <1>t DEF RuleDone
    <2>5. Holding'
        BY <2>2, <2>3, <1>o
    <2>6. RuleLeft'
        <3>1. \A q \in Procs : q # p => rules'[q] = rules[q]
            BY <1>5, <1>t DEF RuleDone
        <3> QED BY <2>3, <3>1 DEF PoolInv, RuleLeft
    <2> QED BY <2>2, <2>3, <2>4, <2>5, <2>6 DEF PoolInv, TypeOK
<1>6. CASE UNCHANGED vars
    BY <1>6 DEF vars, PoolInv, TypeOK, Holding, RuleLeft, HoldsNone, HoldsOneAtMost
<1>7. ASSUME NEW p \in Procs, AcquireFails(p) PROVE PoolInv'
    <2>1. CASE rules[p] > 0 /\ Move(p, "rules", "rules") /\ UNCHANGED owner
               /\ rules' = [rules EXCEPT ![p] = @ - 1]
        <3>1. UNCHANGED pc
            BY <2>1, <1>t DEF Move
        <3>2. rules' \in [Procs -> Nat] /\ \A q \in Procs : q # p => rules'[q] = rules[q]
            BY <2>1, <1>t
        <3>3. pc[p] = "rules"
            BY <2>1, <1>m
        <3>4. TypeOK' /\ RuleLeft'
            BY <2>1, <3>1, <3>2, <3>3 DEF PoolInv, TypeOK, RuleLeft
        <3>5. Holding'
            BY <2>1, <3>1 DEF PoolInv, Holding, HoldsNone, HoldsOneAtMost
        <3> QED BY <3>4, <3>5 DEF PoolInv
    <2> QED BY <1>7, <2>1, <1>1, <1>2 DEF AcquireFails
<1> QED BY <1>1, <1>2, <1>3, <1>4, <1>5, <1>6, <1>7 DEF Next, Work, Obtain

(* The invariant holds in every behaviour.                                  *)
THEOREM PoolCorrect == Spec => []PoolInv
BY PoolInit, PoolStep, PTL DEF Spec

(* The pool stands still only when every connection is held by a process of *)
(* its own that waits for a second one (notify.go:84, automations.go:354).  *)
THEOREM StandstillNeedsAll == Spec => []StandstillTakesAll
<1>1. PoolInv => StandstillTakesAll
    <2> SUFFICES ASSUME PoolInv, Standstill
                 PROVE  /\ \A c \in Conns : pc[owner[c]] \in {"enqueue", "rules"}
                        /\ \A c, d \in Conns : owner[c] = owner[d] => c = d
        BY DEF StandstillTakesAll
    <2>1. \A c \in Conns : owner[c] \in Procs /\ Waiting(owner[c])
        BY DEF PoolInv, TypeOK, Standstill
    <2>2. ASSUME NEW c \in Conns
          PROVE  pc[owner[c]] \in {"enqueue", "rules"} /\ HoldsOneAtMost(owner[c])
        <3>1. ~HoldsNone(owner[c])
            BY DEF HoldsNone
        <3> QED BY <2>1, <3>1 DEF PoolInv, Holding, Waiting
    <2> QED BY <2>2 DEF HoldsOneAtMost
<1> QED BY <1>1, PoolCorrect, PTL
=============================================================================
