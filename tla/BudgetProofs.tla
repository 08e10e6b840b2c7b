------------------------------ MODULE BudgetProofs ------------------------------
(***************************************************************************)
(* What BudgetAlerts keeps for every set of goroutines, budgets, entries   *)
(* and bounds.                                                             *)
(***************************************************************************)
EXTENDS BudgetAlerts, TLAPS

Decisive == {"write", "notify"}

(* A check that has decided carries the threshold it will announce.         *)
DecidedOK == \A g \in Checks : check[g].pc \in Decisive => check[g].to \in Levels

(* Of the budget as it is, that is a threshold the hours have reached.      *)
WithinBand ==
    \A g \in Checks :
        check[g].pc \in Decisive /\ check[g].current => check[g].to <= Band(budget, logged)

(* The level stands at the band reached, or a check that will read it, or   *)
(* has read it and will write it, is still running.                         *)
BandPending ==
    excuse \subseteq {"silenced"} =>
        \/ level >= Band(budget, logged)
        \/ \E g \in Checks : check[g].pc = "read"
        \/ \E g \in Checks : /\ check[g].pc = "write" /\ check[g].current
                             /\ check[g].to >= Band(budget, logged)

BudgetInv == TypeOK /\ DecidedOK /\ WithinBand /\ BandPending /\ LevelTracks

LEMMA BandType ==
    ASSUME NEW b \in Nat, NEW n \in Nat
    PROVE  Band(b, n) \in Levels \cup {0}
BY DEF Band, Levels

(* More hours are never in a lower band.                                    *)
LEMMA BandMonotone ==
    ASSUME NEW b \in Nat, NEW m \in Nat, NEW n \in Nat, m <= n
    PROVE  Band(b, m) <= Band(b, n)
BY DEF Band

LEMMA TypeFacts ==
    ASSUME TypeOK
    PROVE  /\ budget \in Nat /\ logged \in Nat /\ level \in Nat
           /\ level \in Levels \cup {0}
           /\ Band(budget, logged) \in Levels \cup {0}
           /\ Band(budget, logged) \in Nat
           /\ \A l \in Levels \cup {0} : l \in Nat
           /\ check \in [Checks -> CheckType]
           /\ \A g \in Checks : check[g] \in CheckType
           /\ sent \in [Levels -> Nat] /\ queued \in [Levels -> Nat]
           /\ excuse \subseteq {"lost", "changed", "imported", "silenced"}
           /\ repeated \subseteq Levels
           /\ imports \in Nat /\ patches \in Nat /\ configs \in Nat
BY BandType, BudgetsAssumption DEF TypeOK, Levels, CheckType

LEMMA BudgetInit == Init => BudgetInv
BY SMT DEF Init, BudgetInv, TypeOK, DecidedOK, WithinBand, BandPending, LevelTracks, Band, Idle,
   Levels, Decisive, CheckType

(* Hours that only grow, with budget, level, checks and calls left alone,   *)
(* keep every threshold that was reached.                                   *)
LEMMA MoreHours ==
    ASSUME TypeOK, NEW n \in Amounts, logged' = logged + n, budget' = budget
    PROVE  /\ Band(budget, logged)' \in Nat
           /\ Band(budget, logged) <= Band(budget, logged)'
<1>1. n \in Nat /\ budget \in Nat /\ logged \in Nat
    BY AmountsAssumption, TypeFacts
<1>2. Band(budget, logged)' = Band(budget, logged + n)
    BY DEF Band
<1>3. logged + n \in Nat /\ logged <= logged + n
    BY <1>1
<1>4. Band(budget, logged + n) \in Levels \cup {0}
    BY <1>1, <1>3, BandType
<1> QED BY <1>1, <1>2, <1>3, <1>4, BandMonotone DEF Levels

(* Another budget leaves no check that has decided about the budget as it   *)
(* is; the same one leaves everything.                                      *)
LEMMA NewBudgetFacts ==
    ASSUME TypeOK, NEW b \in Budgets \cup {budget}, NewBudget(b)
    PROVE  /\ sent' \in [Levels -> Nat] /\ queued' \in [Levels -> Nat]
           /\ check' \in [Checks -> CheckType]
           /\ \A g \in Checks : check'[g].pc = check[g].pc /\ check'[g].to = check[g].to
           /\ b # budget => /\ \A l \in Levels : sent'[l] = 0
                            /\ \A g \in Checks : check[g].pc \in Decisive => ~check'[g].current
           /\ b = budget => sent' = sent /\ check' = check
<1>1. CASE b = budget
    BY <1>1, TypeFacts DEF NewBudget
<1>2. CASE b # budget
    <2>1. check' = [g \in Checks |->
                        IF check[g].pc \in Decisive
                        THEN [check[g] EXCEPT !.current = FALSE] ELSE check[g]]
        BY <1>2 DEF NewBudget, Decisive
    <2>2. \A g \in Checks :
             /\ check'[g] \in CheckType
             /\ check'[g].pc = check[g].pc /\ check'[g].to = check[g].to
             /\ check[g].pc \in Decisive => ~check'[g].current
        <3> SUFFICES ASSUME NEW g \in Checks
                     PROVE  /\ check'[g] \in CheckType
                            /\ check'[g].pc = check[g].pc /\ check'[g].to = check[g].to
                            /\ check[g].pc \in Decisive => ~check'[g].current
            OBVIOUS
        <3>1. check[g] \in CheckType
            BY TypeFacts
        <3>2. CASE check[g].pc \in Decisive
            BY <2>1, <3>1, <3>2 DEF CheckType
        <3>3. CASE check[g].pc \notin Decisive
            BY <2>1, <3>1, <3>3
        <3> QED BY <3>2, <3>3
    <2>3. check' \in [Checks -> CheckType]
        BY <2>1, <2>2
    <2>4. sent' = [l \in Levels |-> 0] /\ queued' = [l \in Levels |-> 0]
        BY <1>2 DEF NewBudget
    <2> QED BY <1>2, <2>2, <2>3, <2>4
<1> QED BY <1>1, <1>2

LEMMA BudgetStep == BudgetInv /\ [Next]_vars => BudgetInv'
<1> SUFFICES ASSUME BudgetInv, [Next]_vars PROVE BudgetInv'
    OBVIOUS
<1>t. /\ TypeOK /\ DecidedOK /\ WithinBand /\ BandPending /\ LevelTracks
      /\ budget \in Nat /\ logged \in Nat /\ level \in Nat
      /\ level \in Levels \cup {0}
      /\ Band(budget, logged) \in Levels \cup {0}
      /\ Band(budget, logged) \in Nat
      /\ \A l \in Levels \cup {0} : l \in Nat
      /\ check \in [Checks -> CheckType]
      /\ \A g \in Checks : check[g] \in CheckType
      /\ sent \in [Levels -> Nat] /\ queued \in [Levels -> Nat]
      /\ excuse \subseteq {"lost", "changed", "imported", "silenced"}
      /\ repeated \subseteq Levels
      /\ imports \in Nat /\ patches \in Nat /\ configs \in Nat
    BY TypeFacts DEF BudgetInv
<1>1. ASSUME NEW g \in Checks, NEW n \in Amounts, LogTime(g, n) PROVE BudgetInv'
    <2>1. /\ check' = [check EXCEPT ![g] = Started]
          /\ check[g].pc = "idle" /\ logged' = logged + n /\ n \in Nat
          /\ budget' = budget /\ level' = level /\ sent' = sent /\ queued' = queued
          /\ repeated' = repeated /\ excuse' = excuse \cap {"silenced"}
          /\ imports' = imports /\ patches' = patches /\ configs' = configs
        <3>1. check[g].pc = "idle"
            BY <1>1 DEF LogTime, Idle
        <3> QED BY <1>1, <3>1, AmountsAssumption DEF LogTime, bounds
    <2>2. /\ check' \in [Checks -> CheckType]
          /\ check'[g].pc = "read" /\ \A h \in Checks : h # g => check'[h] = check[h]
        <3>1. Started \in CheckType
            BY <1>t DEF Started, CheckType
        <3> QED BY <2>1, <3>1, <1>t DEF Started
    <2>3. Band(budget, logged)' \in Nat /\ Band(budget, logged) <= Band(budget, logged)'
        BY <2>1, <1>t, MoreHours
    <2>4. TypeOK'
        BY <2>1, <2>2, <1>t DEF TypeOK
    <2>5. DecidedOK'
        BY <2>2, <1>t DEF DecidedOK, Decisive
    <2>6. WithinBand'
        <3> SUFFICES ASSUME NEW h \in Checks, check'[h].pc \in Decisive, check'[h].current
                     PROVE  check'[h].to <= Band(budget, logged)'
            BY DEF WithinBand
        <3>1. check'[h] = check[h]
            BY <2>2 DEF Decisive
        <3>2. check[h].to <= Band(budget, logged) /\ check[h].to \in Nat
            BY <3>1, <1>t DEF WithinBand, CheckType
        <3> QED BY <3>1, <3>2, <2>3, <1>t
    <2>7. BandPending'
        BY <2>2 DEF BandPending
    <2>8. LevelTracks'
        BY <2>1, <2>2, <2>3, <1>t DEF LevelTracks
    <2> QED BY <2>4, <2>5, <2>6, <2>7, <2>8 DEF BudgetInv
<1>2. ASSUME NEW n \in Amounts, ImportTime(n) PROVE BudgetInv'
    <2>1. /\ check' = check /\ logged' = logged + n /\ n \in Nat
          /\ budget' = budget /\ level' = level /\ sent' = sent /\ queued' = queued
          /\ repeated' = repeated /\ excuse' = excuse \cup {"imported"}
          /\ imports' = imports + 1 /\ patches' = patches /\ configs' = configs
        BY <1>2, AmountsAssumption DEF ImportTime
    <2>3. Band(budget, logged)' \in Nat /\ Band(budget, logged) <= Band(budget, logged)'
        BY <2>1, <1>t, MoreHours
    <2>4. TypeOK'
        BY <2>1, <1>t DEF TypeOK
    <2>5. DecidedOK' /\ BandPending'
        BY <2>1, <1>t DEF DecidedOK, BandPending
    <2>6. WithinBand'
        <3> SUFFICES ASSUME NEW h \in Checks, check[h].pc \in Decisive, check[h].current
                     PROVE  check[h].to <= Band(budget, logged)'
            BY <2>1 DEF WithinBand
        <3>2. check[h].to <= Band(budget, logged) /\ check[h].to \in Nat
            BY <1>t DEF WithinBand, CheckType
        <3> QED BY <3>2, <2>3, <1>t
    <2>8. LevelTracks'
        BY <2>1, <2>3, <1>t DEF LevelTracks
    <2> QED BY <2>4, <2>5, <2>6, <2>8 DEF BudgetInv
<1>3. ASSUME NEW g \in Checks, CheckRead(g) PROVE BudgetInv'
    <2>1. /\ UNCHANGED <<budget, level, logged, sent, queued, excuse, repeated>>
          /\ imports' = imports /\ patches' = patches /\ configs' = configs
          /\ check[g].pc = "read"
        BY <1>3 DEF CheckRead, bounds
    <2>2. Band(budget, logged)' = Band(budget, logged)
        BY <2>1 DEF Band
    <2>3. /\ check' \in [Checks -> CheckType]
          /\ \A h \in Checks : h # g => check'[h] = check[h]
          /\ IF Band(budget, logged) > level
             THEN check'[g] = [pc |-> "write", to |-> Band(budget, logged), current |-> TRUE]
             ELSE check'[g] = [pc |-> "idle", to |-> 0, current |-> TRUE]
        <3>1. Decided \in CheckType /\ Idle \in CheckType
            BY <1>t DEF Decided, Idle, CheckType
        <3>2. CASE Band(budget, logged) > level
            <4>1. check' = [check EXCEPT ![g] = Decided]
                BY <1>3, <3>2 DEF CheckRead
            <4> QED BY <4>1, <3>1, <3>2, <1>t DEF Decided
        <3>3. CASE ~(Band(budget, logged) > level)
            <4>1. check' = [check EXCEPT ![g] = Idle]
                BY <1>3, <3>3 DEF CheckRead
            <4> QED BY <4>1, <3>1, <3>3, <1>t DEF Idle
        <3> QED BY <3>2, <3>3
    <2>4. TypeOK'
        BY <2>1, <2>3, <1>t DEF TypeOK
    <2>5. DecidedOK'
        BY <2>3, <1>t DEF DecidedOK, Decisive, Levels
    <2>6. WithinBand'
        BY <2>2, <2>3, <1>t DEF WithinBand, Decisive
    <2>7. BandPending'
        <3>1. CASE Band(budget, logged) > level
            <4>1. check'[g].pc = "write" /\ check'[g].current /\ check'[g].to = Band(budget, logged)
                BY <3>1, <2>3
            <4> QED BY <4>1, <2>2, <1>t DEF BandPending
        <3>2. CASE ~(Band(budget, logged) > level)
            BY <3>2, <2>1, <2>2, <1>t DEF BandPending
        <3> QED BY <3>1, <3>2
    <2>8. LevelTracks'
        <3>1. \A h \in Checks : check[h].pc = "notify" => check'[h] = check[h]
            BY <2>1, <2>3
        <3> QED BY <3>1, <2>1, <2>2, <1>t DEF LevelTracks
    <2> QED BY <2>4, <2>5, <2>6, <2>7, <2>8 DEF BudgetInv
<1>4. ASSUME NEW g \in Checks, CheckWrite(g) PROVE BudgetInv'
    <2>0. /\ check[g].pc = "write" /\ check[g].to \in Levels /\ check[g].to \in Nat
          /\ check[g] \in CheckType /\ check[g].current \in BOOLEAN
          /\ check[g].current => check[g].to <= Band(budget, logged)
        BY <1>4, <1>t DEF CheckWrite, DecidedOK, WithinBand, Decisive, CheckType
    <2>1. /\ UNCHANGED <<budget, logged, sent, queued>>
          /\ imports' = imports /\ patches' = patches /\ configs' = configs
          /\ excuse' = IF level' = level THEN excuse
                       ELSE IF check[g].current
                            THEN excuse \ {"silenced"} ELSE excuse \cup {"silenced"}
          /\ repeated' \subseteq Levels
        BY <1>4, <1>t, <2>0 DEF CheckWrite, bounds
    <2>2. Band(budget, logged)' = Band(budget, logged)
        BY <2>1 DEF Band
    <2>3. /\ check' \in [Checks -> CheckType]
          /\ \A h \in Checks : h # g => check'[h] = check[h]
          /\ check'[g].pc = "notify" /\ check'[g].to = check[g].to
          /\ check'[g].current = check[g].current
        BY <1>4, <1>t, <2>0 DEF CheckWrite, CheckType
    <2>4. /\ level' \in Levels \cup {0} /\ level' \in Nat /\ level' >= level
          /\ level' >= check[g].to
          /\ level' = level \/ level' = check[g].to
        BY <1>4, <1>t, <2>0 DEF CheckWrite, LevelAfter
    <2>5. TypeOK'
        BY <2>1, <2>3, <2>4, <1>t DEF TypeOK
    <2>6. DecidedOK' /\ WithinBand'
        BY <2>0, <2>2, <2>3, <1>t DEF DecidedOK, WithinBand, Decisive
    <2>7. BandPending'
        <3> SUFFICES ASSUME excuse' \subseteq {"silenced"}
                     PROVE  \/ level' >= Band(budget, logged)
                            \/ \E h \in Checks : check'[h].pc = "read"
                            \/ \E h \in Checks : /\ check'[h].pc = "write" /\ check'[h].current
                                                 /\ check'[h].to >= Band(budget, logged)
            BY <2>2 DEF BandPending
        <3>1. excuse \subseteq {"silenced"}
            BY <2>1
        <3>2. CASE level >= Band(budget, logged)
            BY <3>2, <2>4, <1>t
        <3>3. CASE \E h \in Checks : check[h].pc = "read"
            BY <3>3, <2>0, <2>3
        <3>4. ASSUME NEW h \in Checks, check[h].pc = "write", check[h].current,
                     check[h].to >= Band(budget, logged)
              PROVE  \/ level' >= Band(budget, logged)
                     \/ check'[h] = check[h]
            BY <3>4, <2>0, <2>3, <2>4, <1>t
        <3> QED BY <3>1, <3>2, <3>3, <3>4, <1>t DEF BandPending
    <2>8. LevelTracks'
        <3>1. CASE level' = level
            <4>1. \A h \in Checks : check[h].pc = "notify" => check'[h] = check[h]
                BY <2>0, <2>3
            <4> QED BY <3>1, <4>1, <2>1, <2>2, <1>t DEF LevelTracks
        <3>2. CASE level' # level /\ check[g].current
            <4>1. level' = check[g].to
                BY <3>2, <2>4
            <4> QED BY <3>2, <4>1, <2>0, <2>2, <2>3 DEF LevelTracks
        <3>3. CASE level' # level /\ ~check[g].current
            BY <3>3, <2>1 DEF LevelTracks
        <3> QED BY <3>1, <3>2, <3>3
    <2> QED BY <2>5, <2>6, <2>7, <2>8 DEF BudgetInv
<1>5. ASSUME NEW g \in Checks, CheckNotify(g) PROVE BudgetInv'
    <2>0. check[g].pc = "notify" /\ check[g].to \in Levels
        BY <1>5, <1>t DEF CheckNotify, DecidedOK, Decisive
    <2>1. /\ UNCHANGED <<budget, level, logged, excuse, repeated>>
          /\ imports' = imports /\ patches' = patches /\ configs' = configs
          /\ check' = [check EXCEPT ![g] = [pc |-> "idle", to |-> 0, current |-> TRUE]]
        BY <1>5 DEF CheckNotify, bounds, Idle
    <2>a. PICK now \in {0, 1} :
              /\ now = IF check[g].current THEN 1 ELSE 0
              /\ sent' = [sent EXCEPT ![check[g].to] = @ + now]
              /\ \/ queued' = queued
                 \/ queued' = [queued EXCEPT ![check[g].to] = @ + now]
        <3>1. CASE Enabled(EventOf(check[g].to))
            BY <1>5, <3>1 DEF CheckNotify
        <3>2. CASE ~Enabled(EventOf(check[g].to))
            BY <1>5, <3>2 DEF CheckNotify
        <3> QED BY <3>1, <3>2
    <2>2. /\ sent' \in [Levels -> Nat] /\ queued' \in [Levels -> Nat]
          /\ \A l \in Levels : sent[l] > 0 => sent'[l] > 0
          /\ check[g].current => sent'[check[g].to] > 0
        <3>0. /\ now \in Nat /\ sent[check[g].to] \in Nat
              /\ \A l \in Levels : sent[l] \in Nat /\ sent'[l] \in {sent[l], sent[l] + now}
            BY <2>a, <2>0, <1>t
        <3>1. sent' \in [Levels -> Nat] /\ \A l \in Levels : sent[l] > 0 => sent'[l] > 0
            <4>1. sent[check[g].to] + now \in Nat
                BY <3>0
            <4>2. sent' \in [Levels -> Nat]
                BY <2>a, <2>0, <4>1, <1>t
            <4> QED BY <3>0, <4>2
        <3>2. queued' \in [Levels -> Nat]
            BY <2>a, <2>0, <1>t
        <3>3. check[g].current => now = 1
            BY <2>a
        <3>4. sent[check[g].to] \in Nat /\ sent'[check[g].to] = sent[check[g].to] + now
            BY <2>a, <2>0, <1>t
        <3> QED BY <3>1, <3>2, <3>3, <3>4
    <2>3. Band(budget, logged)' = Band(budget, logged)
        BY <2>1 DEF Band
    <2>4. /\ check' \in [Checks -> CheckType]
          /\ check'[g].pc = "idle" /\ \A h \in Checks : h # g => check'[h] = check[h]
        BY <2>1, <1>t DEF CheckType
    <2>5. TypeOK'
        BY <2>1, <2>2, <2>4, <1>t DEF TypeOK
    <2>6. DecidedOK' /\ WithinBand'
        BY <2>3, <2>4, <1>t DEF DecidedOK, WithinBand, Decisive
    <2>7. BandPending'
        BY <2>0, <2>1, <2>3, <2>4, <1>t DEF BandPending
    <2>8. LevelTracks'
        BY <2>1, <2>2, <2>3, <2>4, <1>t DEF LevelTracks
    <2> QED BY <2>5, <2>6, <2>7, <2>8 DEF BudgetInv
<1>6. ASSUME NEW g \in Checks, CheckLost(g) PROVE BudgetInv'
    <2>1. /\ UNCHANGED <<budget, level, logged, sent, queued, repeated>>
          /\ imports' = imports /\ patches' = patches /\ configs' = configs
          /\ check' = [check EXCEPT ![g] = [pc |-> "idle", to |-> 0, current |-> TRUE]]
          /\ excuse' = excuse \cup {IF check[g].pc = "notify" THEN "silenced" ELSE "lost"}
        BY <1>6 DEF CheckLost, bounds, Idle
    <2>3. Band(budget, logged)' = Band(budget, logged)
        BY <2>1 DEF Band
    <2>4. /\ check' \in [Checks -> CheckType]
          /\ check'[g].pc = "idle" /\ \A h \in Checks : h # g => check'[h] = check[h]
        BY <2>1, <1>t DEF CheckType
    <2>5. TypeOK'
        BY <2>1, <2>4, <1>t DEF TypeOK
    <2>6. DecidedOK' /\ WithinBand'
        BY <2>3, <2>4, <1>t DEF DecidedOK, WithinBand, Decisive
    <2>7. BandPending' /\ LevelTracks'
        <3>1. CASE check[g].pc = "notify"
            <4>1. excuse' = excuse \cup {"silenced"}
                BY <2>1, <3>1
            <4>2. LevelTracks'
                BY <4>1 DEF LevelTracks
            <4>3. BandPending'
                BY <4>1, <3>1, <2>1, <2>3, <2>4, <1>t DEF BandPending
            <4> QED BY <4>2, <4>3
        <3>2. CASE check[g].pc # "notify"
            <4>1. excuse' = excuse \cup {"lost"}
                BY <2>1, <3>2
            <4>2. BandPending'
                BY <4>1 DEF BandPending
            <4>3. LevelTracks'
                BY <4>1, <3>2, <2>1, <2>3, <2>4, <1>t DEF LevelTracks
            <4> QED BY <4>2, <4>3
        <3> QED BY <3>1, <3>2
    <2> QED BY <2>5, <2>6, <2>7 DEF BudgetInv
<1>7. ASSUME NEW b \in Budgets, NEW completes \in Completing, PatchBudget(b, completes)
      PROVE BudgetInv'
    <2>1. /\ logged' = logged /\ imports' = imports /\ patches' = patches + 1
          /\ configs' = configs
          /\ level' = IF b # budget THEN 0 ELSE level
          /\ budget' = IF completes THEN budget ELSE b
          /\ NewBudget(IF completes THEN budget ELSE b)
          /\ b = budget => excuse' = excuse /\ repeated' = repeated
          /\ b # budget => /\ excuse' = (excuse \ {"silenced"}) \cup {"changed"}
                           /\ repeated' \subseteq Levels
        BY <1>7 DEF PatchBudget, NewBudget, LevelAfterPatch
    <2>a. PICK c \in Budgets \cup {budget} :
              c = (IF completes THEN budget ELSE b) /\ NewBudget(c) /\ budget' = c
        BY <2>1, CompletingAssumption
    <2>2. /\ sent' \in [Levels -> Nat] /\ queued' \in [Levels -> Nat]
          /\ check' \in [Checks -> CheckType]
          /\ \A g \in Checks : check'[g].pc = check[g].pc /\ check'[g].to = check[g].to
          /\ c # budget => \A g \in Checks : check[g].pc \in Decisive => ~check'[g].current
          /\ c = budget => sent' = sent /\ check' = check
        BY <2>a, <1>t, NewBudgetFacts
    <2>3. TypeOK'
        <3>1. level' \in Levels \cup {0} /\ budget' \in Budgets \cup {0}
            BY <2>1, <2>a, <1>t DEF TypeOK
        <3>2. excuse' \subseteq {"lost", "changed", "imported", "silenced"} /\ repeated' \subseteq Levels
            BY <2>1, <1>t
        <3> QED BY <2>1, <2>2, <3>1, <3>2, <1>t DEF TypeOK
    <2>4. DecidedOK'
        BY <2>2, <1>t DEF DecidedOK, Decisive
    <2>5. WithinBand'
        <3>1. CASE c = budget
            BY <3>1, <2>1, <2>2, <2>a, <1>t DEF WithinBand, Band
        <3>2. CASE c # budget
            BY <3>2, <2>2 DEF WithinBand
        <3> QED BY <3>1, <3>2
    <2>6. BandPending' /\ LevelTracks'
        <3>1. CASE b = budget
            <4>1. c = budget /\ Band(budget, logged)' = Band(budget, logged)
                BY <3>1, <2>1, <2>a DEF Band
            <4> QED BY <3>1, <4>1, <2>1, <2>2, <1>t DEF BandPending, LevelTracks
        <3>2. CASE b # budget
            <4>1. "changed" \in excuse' /\ level' = 0
                BY <3>2, <2>1
            <4>2. Band(budget, logged)' \in Nat
                BY <2>3, BandType, BudgetsAssumption, <2>1, <2>a, <1>t DEF Band
            <4> QED BY <4>1, <4>2 DEF BandPending, LevelTracks
        <3> QED BY <3>1, <3>2
    <2> QED BY <2>3, <2>4, <2>5, <2>6 DEF BudgetInv
<1>8. ASSUME NEW b \in Budgets, ConfigBudget(b) PROVE BudgetInv'
    <2>1. /\ logged' = logged /\ level' = level /\ imports' = imports /\ patches' = patches
          /\ configs' = configs + 1
          /\ NewBudget(b) /\ budget' = b
          /\ b = budget => excuse' = excuse /\ repeated' = repeated
          /\ b # budget =>
                /\ excuse' = excuse \cup (IF level = 0 THEN {"changed"}
                                          ELSE {"changed", "silenced"})
                /\ repeated' \subseteq Levels
        BY <1>8 DEF ConfigBudget, NewBudget
    <2>2. /\ sent' \in [Levels -> Nat] /\ queued' \in [Levels -> Nat]
          /\ check' \in [Checks -> CheckType]
          /\ \A g \in Checks : check'[g].pc = check[g].pc /\ check'[g].to = check[g].to
          /\ b # budget => \A g \in Checks : check[g].pc \in Decisive => ~check'[g].current
          /\ b = budget => sent' = sent /\ check' = check
        BY <2>1, <1>t, NewBudgetFacts
    <2>3. TypeOK'
        <3>1. excuse' \subseteq {"lost", "changed", "imported", "silenced"} /\ repeated' \subseteq Levels
            BY <2>1, <1>t
        <3> QED BY <2>1, <2>2, <3>1, <1>t DEF TypeOK
    <2>4. DecidedOK'
        BY <2>2, <1>t DEF DecidedOK, Decisive
    <2>5. WithinBand'
        <3>1. CASE b = budget
            BY <3>1, <2>1, <2>2, <1>t DEF WithinBand, Band
        <3>2. CASE b # budget
            BY <3>2, <2>2 DEF WithinBand
        <3> QED BY <3>1, <3>2
    <2>6. BandPending' /\ LevelTracks'
        <3>1. CASE b = budget
            <4>1. Band(budget, logged)' = Band(budget, logged)
                BY <3>1, <2>1 DEF Band
            <4> QED BY <3>1, <4>1, <2>1, <2>2, <1>t DEF BandPending, LevelTracks
        <3>2. CASE b # budget
            <4>1. "changed" \in excuse' /\ (level = 0 \/ "silenced" \in excuse')
                BY <3>2, <2>1
            <4>2. Band(budget, logged)' = Band(b, logged) /\ Band(b, logged) \in Levels \cup {0}
                BY BandType, BudgetsAssumption, <2>1, <1>t DEF Band
            <4>3. Band(budget, logged)' \in Nat
                BY <4>2, <1>t
            <4> QED BY <4>1, <4>3, <2>1, <1>t DEF BandPending, LevelTracks
        <3> QED BY <3>1, <3>2
    <2> QED BY <2>3, <2>4, <2>5, <2>6 DEF BudgetInv
<1>9. CASE UNCHANGED vars
    BY <1>9 DEF vars, bounds, BudgetInv, TypeOK, DecidedOK, WithinBand, BandPending, LevelTracks,
       Band
<1> QED BY <1>1, <1>2, <1>3, <1>4, <1>5, <1>6, <1>7, <1>8, <1>9 DEF Next

(* The invariant holds in every behaviour.                                  *)
THEOREM BudgetCorrect == Spec => []BudgetInv
BY BudgetInit, BudgetStep, PTL DEF Spec

(* The level is a band the hours have reached, and is announced or about to *)
(* be, unless it stands for a call not made of this budget.                 *)
THEOREM LevelIsAnnounced == Spec => []LevelTracks
<1>1. BudgetInv => LevelTracks
    BY DEF BudgetInv
<1> QED BY <1>1, BudgetCorrect, PTL

(* When no check runs, notifyEvent has been called about the band reached,  *)
(* but for the excuses named: the level stands at the band or above, and    *)
(* not above, and a level that stands for no call is an excuse itself.      *)
THEOREM BandsAnnounced == Spec => []NoMissedBand
<1>1. BudgetInv => NoMissedBand
    <2> SUFFICES ASSUME BudgetInv, Quiet, excuse = {}, Band(budget, logged) # 0
                 PROVE  sent[Band(budget, logged)] > 0
        BY DEF NoMissedBand
    <2>1. \A g \in Checks : check[g].pc = "idle"
        BY DEF Quiet, Idle
    <2>2. level >= Band(budget, logged)
        BY <2>1 DEF BudgetInv, BandPending
    <2>3. level <= Band(budget, logged)
        BY DEF BudgetInv, LevelTracks
    <2>4. level \in Nat /\ Band(budget, logged) \in Nat
        BY TypeFacts DEF BudgetInv
    <2>5. level = Band(budget, logged)
        BY <2>2, <2>3, <2>4
    <2> QED BY <2>1, <2>5 DEF BudgetInv, LevelTracks
<1> QED BY <1>1, BudgetCorrect, PTL

(* Only patchProject takes an announced level back.                         *)
THEOREM LevelRises == Spec => LevelOnlyRises
<1>1. BudgetInv /\ [Next]_vars => [level' < level => level' = 0 /\ patches' # patches]_vars
    <2> SUFFICES ASSUME BudgetInv, Next, level' < level
                 PROVE  level' = 0 /\ patches' # patches
        BY DEF vars
    <2>1. level \in Nat /\ patches \in Nat
        BY DEF BudgetInv, TypeOK, Levels
    <2>2. ASSUME NEW g \in Checks, CheckWrite(g) PROVE FALSE
        <3>1. check[g].to \in Nat
            BY <2>2 DEF CheckWrite, BudgetInv, DecidedOK, Decisive, Levels
        <3> QED BY <2>1, <2>2, <3>1 DEF CheckWrite, LevelAfter
    <2>3. ASSUME NEW b \in Budgets, NEW completes \in Completing, PatchBudget(b, completes)
          PROVE  level' = 0 /\ patches' # patches
        BY <2>1, <2>3 DEF PatchBudget, LevelAfterPatch
    <2>4. ASSUME level' = level PROVE FALSE
        BY <2>1, <2>4
    <2> QED BY <2>2, <2>3, <2>4
            DEF Next, LogTime, ImportTime, CheckRead, CheckNotify, CheckLost, ConfigBudget
<1> QED BY <1>1, BudgetCorrect, PTL DEF Spec, LevelOnlyRises

-----------------------------------------------------------------------------
(* A check that is about to announce l of the budget as it is. *)
Announcing(g, l) == check[g].pc = "notify" /\ check[g].current /\ check[g].to = l

(* A band that may not be announced again has been announced once at most,  *)
(* or one check is about to, and the level keeps every later check away.    *)
OnceOnly(l) ==
    /\ sent[l] <= 1
    /\ sent[l] > 0 => level >= l
    /\ \A g \in Checks : Announcing(g, l) => level >= l /\ sent[l] = 0
    /\ \A g, h \in Checks : Announcing(g, l) /\ Announcing(h, l) => g = h

TwiceInv == BudgetInv /\ \A l \in Levels : l \notin repeated => OnceOnly(l)

(* What no step about l touches stays as it is.                             *)
LEMMA OnceKept ==
    ASSUME NEW l \in Levels, OnceOnly(l), level \in Nat, level' \in Nat, level' >= level,
           sent' = sent, \A g \in Checks : Announcing(g, l)' => Announcing(g, l)
    PROVE  OnceOnly(l)'
<1>1. l \in Nat
    BY DEF Levels
<1> QED BY <1>1, Z3 DEF OnceOnly

(* With no call counted and no check about to call, nothing is repeated.    *)
LEMMA OnceFresh ==
    ASSUME NEW l \in Levels, sent'[l] = 0, \A g \in Checks : ~Announcing(g, l)'
    PROVE  OnceOnly(l)'
BY DEF OnceOnly

LEMMA TwiceStep == TwiceInv /\ [Next]_vars => TwiceInv'
<1> SUFFICES ASSUME TwiceInv, [Next]_vars PROVE TwiceInv'
    OBVIOUS
<1>0. BudgetInv'
    BY BudgetStep DEF TwiceInv
<1>t. /\ TypeOK /\ DecidedOK
      /\ level \in Nat /\ \A l \in Levels \cup {0} : l \in Nat
      /\ check \in [Checks -> CheckType] /\ sent \in [Levels -> Nat]
      /\ \A g \in Checks : check[g] \in CheckType
      /\ level' \in Nat
    BY <1>0, TypeFacts DEF TwiceInv, BudgetInv, TypeOK, Levels
<1> SUFFICES ASSUME NEW l \in Levels, l \notin repeated' PROVE OnceOnly(l)'
    BY <1>0 DEF TwiceInv
<1>k. l \in Nat
    BY <1>t
<1>1. ASSUME l \notin repeated, level' = level, sent' = sent,
             \A g \in Checks : check'[g].pc = "notify" => check'[g] = check[g]
      PROVE  OnceOnly(l)'
    BY <1>1, <1>t, OnceKept DEF TwiceInv, Announcing
<1>2. ASSUME NEW g \in Checks, NEW n \in Amounts, LogTime(g, n) PROVE OnceOnly(l)'
    BY <1>1, <1>2, <1>t DEF LogTime, Started
<1>3. ASSUME NEW n \in Amounts, ImportTime(n) PROVE OnceOnly(l)'
    BY <1>1, <1>3 DEF ImportTime
<1>4. ASSUME NEW g \in Checks, CheckRead(g) PROVE OnceOnly(l)'
    <2>1. \A h \in Checks : check'[h].pc = "notify" => check'[h] = check[h]
        BY <1>4, <1>t DEF CheckRead, Decided, Idle
    <2> QED BY <1>1, <1>4, <2>1 DEF CheckRead
<1>5. ASSUME NEW g \in Checks, CheckLost(g) PROVE OnceOnly(l)'
    <2>1. \A h \in Checks : check'[h].pc = "notify" => check'[h] = check[h]
        BY <1>5, <1>t DEF CheckLost, Idle
    <2> QED BY <1>1, <1>5, <2>1 DEF CheckLost
<1>6. ASSUME NEW g \in Checks, CheckWrite(g) PROVE OnceOnly(l)'
    <2>0. /\ check[g].pc = "write" /\ check[g].to \in Levels /\ check[g].to \in Nat
          /\ check[g] \in CheckType
        BY <1>6, <1>t DEF CheckWrite, DecidedOK, Decisive
    <2>1. /\ \A h \in Checks : h # g => check'[h] = check[h]
          /\ check'[g].pc = "notify" /\ check'[g].to = check[g].to
        BY <1>6, <1>t, <2>0 DEF CheckWrite, CheckType
    <2>2. /\ level' >= level /\ level' >= check[g].to /\ sent' = sent
          /\ repeated' = IF level < check[g].to THEN repeated ELSE repeated \cup {check[g].to}
        BY <1>6, <1>t, <2>0 DEF CheckWrite, LevelAfter
    <2>3. l \notin repeated
        BY <2>2
    <2>4. OnceOnly(l)
        BY <2>3 DEF TwiceInv
    <2>5. CASE check[g].to # l
        <3>1. \A h \in Checks : Announcing(h, l)' => Announcing(h, l)
            BY <2>1, <2>5 DEF Announcing
        <3> QED BY <3>1, <2>2, <2>4, <1>t, OnceKept
    <2>6. CASE check[g].to = l
        <3>1. level < l
            BY <2>2, <2>6
        <3>2. sent[l] = 0 /\ \A h \in Checks : ~Announcing(h, l)
            BY <3>1, <2>4, <1>t, <1>k DEF OnceOnly
        <3>3. sent'[l] = 0 /\ level' >= l
            BY <2>2, <2>6, <3>2
        <3>4. \A h \in Checks : Announcing(h, l)' => h = g
            BY <2>1, <3>2 DEF Announcing
        <3> QED BY <3>3, <3>4 DEF OnceOnly
    <2> QED BY <2>5, <2>6
<1>7. ASSUME NEW g \in Checks, CheckNotify(g) PROVE OnceOnly(l)'
    <2>0. check[g].pc = "notify" /\ check[g].to \in Levels /\ l \notin repeated /\ OnceOnly(l)
        BY <1>7, <1>t DEF CheckNotify, DecidedOK, Decisive, TwiceInv
    <2>1. /\ level' = level
          /\ check'[g].pc = "idle" /\ \A h \in Checks : h # g => check'[h] = check[h]
          /\ sent' = [sent EXCEPT ![check[g].to] = @ + (IF check[g].current THEN 1 ELSE 0)]
        BY <1>7, <1>t DEF CheckNotify, Idle
    <2>2. CASE ~Announcing(g, l)
        <3>1. sent'[l] = sent[l]
            BY <2>0, <2>1, <2>2, <1>t DEF Announcing
        <3>2. \A h \in Checks : Announcing(h, l)' => Announcing(h, l)
            BY <2>1 DEF Announcing
        <3> QED BY <3>1, <3>2, <2>0, <2>1 DEF OnceOnly
    <2>3. CASE Announcing(g, l)
        <3>1. sent[l] = 0 /\ level >= l /\ \A h \in Checks : Announcing(h, l) => h = g
            BY <2>0, <2>3 DEF OnceOnly
        <3>2. sent'[l] = 1
            BY <2>0, <2>1, <2>3, <3>1, <1>t DEF Announcing
        <3>3. \A h \in Checks : ~Announcing(h, l)'
            BY <2>1, <3>1 DEF Announcing
        <3> QED BY <2>1, <3>1, <3>2, <3>3 DEF OnceOnly
    <2> QED BY <2>2, <2>3
<1>8. ASSUME NEW b \in Budgets, NEW completes \in Completing, PatchBudget(b, completes)
      PROVE  OnceOnly(l)'
    <2>1. CASE b = budget
        <3>1. UNCHANGED <<level, sent, check, repeated>>
            BY <1>8, <2>1 DEF PatchBudget, NewBudget, LevelAfterPatch
        <3> QED BY <3>1, <1>1
    <2>2. CASE b # budget
        <3>1. ~completes /\ NewBudget(b)
            BY <1>8, <2>2, CompletingAssumption DEF PatchBudget
        <3>2. /\ sent'[l] = 0
              /\ \A g \in Checks : check'[g].pc = check[g].pc
              /\ \A g \in Checks : check[g].pc \in Decisive => ~check'[g].current
            BY <2>2, <3>1, <1>t, NewBudgetFacts
        <3> QED BY <3>2, OnceFresh DEF Announcing, Decisive
    <2> QED BY <2>1, <2>2
<1>9. ASSUME NEW b \in Budgets, ConfigBudget(b) PROVE OnceOnly(l)'
    <2>1. CASE b = budget
        <3>1. UNCHANGED <<level, sent, check, repeated>>
            BY <1>9, <2>1 DEF ConfigBudget, NewBudget
        <3> QED BY <3>1, <1>1
    <2>2. CASE b # budget
        <3>1. NewBudget(b)
            BY <1>9 DEF ConfigBudget
        <3>2. /\ sent'[l] = 0
              /\ \A g \in Checks : check'[g].pc = check[g].pc
              /\ \A g \in Checks : check[g].pc \in Decisive => ~check'[g].current
            BY <2>2, <3>1, <1>t, NewBudgetFacts
        <3> QED BY <3>2, OnceFresh DEF Announcing, Decisive
    <2> QED BY <2>1, <2>2
<1>10. CASE UNCHANGED vars
    BY <1>1, <1>10 DEF vars
<1> QED BY <1>2, <1>3, <1>4, <1>5, <1>6, <1>7, <1>8, <1>9, <1>10 DEF Next

(* A band of one budget is announced again only when two checks have raced  *)
(* to it or the patch that completed the project re-armed it.               *)
THEOREM SecondAlertNeedsRace == Spec => []TwiceOnlyByRaces
<1>1. Init => TwiceInv
    BY BudgetInit DEF Init, TwiceInv, OnceOnly, Announcing, Idle
<1>2. TwiceInv => TwiceOnlyByRaces
    <2> SUFFICES ASSUME TwiceInv, NEW l \in Levels, sent[l] > 1 PROVE l \in repeated
        BY DEF TwiceOnlyByRaces
    <2>1. sent[l] \in Nat
        BY DEF TwiceInv, BudgetInv, TypeOK
    <2> QED BY <2>1 DEF TwiceInv, OnceOnly
<1> QED BY <1>1, <1>2, TwiceStep, PTL DEF Spec
=============================================================================
