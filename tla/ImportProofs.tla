------------------------------ MODULE ImportProofs ------------------------------
(***************************************************************************)
(* What comes in from elsewhere: how many projects and customers the deals,*)
(* the templates and the imports make, for any number of them and of       *)
(* mishaps (Provisioning), and what the migration agent makes of any file, *)
(* whatever the model answered (Migration).  The two share no variable.    *)
(***************************************************************************)
EXTENDS Provisioning, Migration, FiniteSetTheorems, FunctionTheorems, SequenceTheorems,
        WellFoundedInduction, TLAPS

IsSequence(s) == \E S : s \in Seq(S)

JobRow ==
    [at : {"none", "available", "running", "committed", "stuck", "lost"} \cup Ended,
     tries : Nat, found : Nat, absent : BOOLEAN, again : Nat]

(* Projects there may be of a deal whose job is j.                          *)
Made(j) == IF j.at \in {"committed", "completed"} THEN j.again + 1 ELSE j.again

(* A job exists only once its delivery is logged; a run that found no       *)
(* customer saw that there was none; and a run that committed made one      *)
(* project, which is counted even if River never learns of it.              *)
JobInv(d) ==
    /\ d \notin logged => job[d] = NoJob
    /\ job[d].at = "running" /\ job[d].found = 0 => job[d].absent = TRUE
    /\ Cardinality(ProjectsOf(d)) <= Made(job[d])

ProvisioningInv ==
    /\ IsSequence(project) /\ IsSequence(customer)
    /\ job \in [Deals -> JobRow]
    /\ \A d \in Deals : JobInv(d)
    /\ OneCustomer

-----------------------------------------------------------------------------
(* Rows.                                                                    *)

LEMMA SequenceRows ==
    ASSUME NEW s, IsSequence(s)
    PROVE  Len(s) \in Nat /\ DOMAIN s = 1..Len(s)
<1>1. PICK S : s \in Seq(S)
    BY DEF IsSequence
<1> QED BY <1>1

LEMMA RowAppended ==
    ASSUME NEW s, IsSequence(s), NEW e
    PROVE  LET t == Append(s, e) IN
           /\ IsSequence(t)
           /\ Len(t) = Len(s) + 1
           /\ \A i \in DOMAIN s : t[i] = s[i]
           /\ t[Len(s) + 1] = e
<1>1. PICK S : s \in Seq(S)
    BY DEF IsSequence
<1> DEFINE T == S \cup {e}
<1>2. s \in Seq(T) /\ e \in T
    BY <1>1, SeqMonotonic
<1> HIDE DEF T
<1>3. Append(s, e) \in Seq(T) /\ Len(Append(s, e)) = Len(s) + 1
      /\ (\A i \in 1..Len(s) : Append(s, e)[i] = s[i]) /\ Append(s, e)[Len(s) + 1] = e
    BY <1>2, AppendProperties
<1> QED BY <1>3, SequenceRows DEF IsSequence

LEMMA RowReplaced ==
    ASSUME NEW s, IsSequence(s), NEW i \in DOMAIN s, NEW e
    PROVE  LET t == [s EXCEPT ![i] = e] IN
           /\ IsSequence(t)
           /\ DOMAIN t = DOMAIN s
           /\ \A j \in DOMAIN s : t[j] = IF j = i THEN e ELSE s[j]
<1>1. PICK S : s \in Seq(S)
    BY DEF IsSequence
<1> DEFINE T == S \cup {e}
<1>2. s \in Seq(T) /\ e \in T
    BY <1>1, SeqMonotonic
<1> HIDE DEF T
<1>3. i \in 1..Len(s)
    BY SequenceRows
<1>4. [s EXCEPT ![i] = e] \in Seq(T)
    BY <1>2, <1>3, ExceptSeq
<1> QED BY <1>4 DEF IsSequence

LEMMA FiniteProjects ==
    ASSUME IsSequence(project), NEW d
    PROVE  IsFiniteSet(ProjectsOf(d)) /\ Cardinality(ProjectsOf(d)) \in Nat
           /\ Len(project) + 1 \notin ProjectsOf(d)
<1>1. Len(project) \in Nat /\ DOMAIN project = 1..Len(project)
    BY SequenceRows
<1>2. ProjectsOf(d) \subseteq 1..Len(project) /\ IsFiniteSet(1..Len(project))
    BY <1>1, FS_Interval DEF ProjectsOf
<1>3. IsFiniteSet(ProjectsOf(d))
    BY <1>2, FS_Subset
<1> QED BY <1>1, <1>2, <1>3, FS_CardinalityType

(* A new project is of one deal, or of none.                                *)
LEMMA ProjectAdded ==
    ASSUME IsSequence(project), NEW e, project' = Append(project, e)
    PROVE  /\ IsSequence(project)'
           /\ \A d : Cardinality(ProjectsOf(d))' =
                  IF e.from = d THEN Cardinality(ProjectsOf(d)) + 1
                  ELSE Cardinality(ProjectsOf(d))
<1> DEFINE n == Len(project) + 1
<1>1. /\ IsSequence(project')
      /\ Len(project') = n
      /\ \A i \in DOMAIN project : project'[i] = project[i]
      /\ project'[n] = e
    BY RowAppended
<1>2. Len(project) \in Nat /\ DOMAIN project = 1..Len(project) /\ DOMAIN project' = 1..n
    BY <1>1, SequenceRows
<1>3. DOMAIN project' = DOMAIN project \cup {n} /\ n \notin DOMAIN project
    BY <1>2
<1>4. ASSUME NEW d PROVE Cardinality(ProjectsOf(d)') =
                  IF e.from = d THEN Cardinality(ProjectsOf(d)) + 1
                  ELSE Cardinality(ProjectsOf(d))
    <2>1. CASE e.from = d
        <3>1. ProjectsOf(d)' = ProjectsOf(d) \cup {n}
            BY <1>1, <1>3, <2>1 DEF ProjectsOf
        <3> QED BY <2>1, <3>1, FiniteProjects, FS_AddElement
    <2>2. CASE e.from # d
        <3>1. ProjectsOf(d)' = ProjectsOf(d)
            BY <1>1, <1>3, <2>2 DEF ProjectsOf
        <3> QED BY <2>2, <3>1
    <2> QED BY <2>1, <2>2
<1> QED BY <1>1, <1>4

-----------------------------------------------------------------------------
(* What a step may do to the job and the projects of a deal.                *)

LEMMA InitInv == Init => ProvisioningInv
<1> SUFFICES ASSUME Init PROVE ProvisioningInv
    OBVIOUS
<1>1. IsSequence(project) /\ project = <<>>
    BY EmptySeq DEF Init, IsSequence
<1>2. customer = <<>> \/ \E a \in Accounts : customer = <<[name |-> a, raced |-> FALSE]>>
    BY DEF Init
<1>3. IsSequence(customer)
    <2>1. \A x : <<x>> \in Seq({x})
        OBVIOUS
    <2> QED BY <2>1, <1>2, EmptySeq DEF IsSequence
<1>4. job \in [Deals -> JobRow] /\ \A d \in Deals : job[d] = NoJob
    <2>1. NoJob \in JobRow
        BY DEF NoJob, JobRow
    <2>2. job = [d \in Deals |-> NoJob]
        BY DEF Init
    <2> QED BY <2>1, <2>2
<1>5. ASSUME NEW d \in Deals PROVE JobInv(d)
    <2>1. ProjectsOf(d) = {}
        BY <1>1 DEF ProjectsOf
    <2> QED BY <2>1, <1>4, FS_EmptySet DEF JobInv, Made, NoJob
<1>6. ASSUME NEW a \in Accounts
      PROVE  Cardinality({c \in CustomersNamed(a) : ~customer[c].raced}) <= 1
    <2> DEFINE C == {c \in CustomersNamed(a) : ~customer[c].raced}
    <2>1. DOMAIN customer \subseteq {1}
        BY <1>2
    <2>2. C = {} \/ C = {1}
        BY <2>1 DEF CustomersNamed
    <2>3. Cardinality(C) = 0 \/ Cardinality(C) = 1
        BY <2>2, FS_EmptySet, FS_Singleton
    <2> QED BY <2>3
<1> QED BY <1>1, <1>3, <1>4, <1>5, <1>6 DEF ProvisioningInv, OneCustomer

-----------------------------------------------------------------------------
(* Steps.                                                                   *)

LEMMA SameRows ==
    /\ project' = project => \A d : ProjectsOf(d)' = ProjectsOf(d)
    /\ customer' = customer /\ OneCustomer => OneCustomer'
<1>1. project' = project => \A d : ProjectsOf(d)' = ProjectsOf(d)
    BY DEF ProjectsOf
<1>2. customer' = customer => \A a : CustomersNamed(a)' = CustomersNamed(a)
    BY DEF CustomersNamed
<1> QED BY <1>1, <1>2 DEF OneCustomer

(* A step of staff makes projects of no deal.                               *)
LEMMA StaffStep ==
    ASSUME ProvisioningInv, UNCHANGED <<job, logged, customer>>, IsSequence(project)',
           \A d \in Deals : Cardinality(ProjectsOf(d))' = Cardinality(ProjectsOf(d))
    PROVE  ProvisioningInv'
<1>1. OneCustomer' /\ IsSequence(customer)'
    BY SameRows DEF ProvisioningInv
<1>2. \A d \in Deals : JobInv(d)'
    BY DEF ProvisioningInv, JobInv, Made
<1>3. (job \in [Deals -> JobRow])'
    BY DEF ProvisioningInv
<1> QED BY <1>1, <1>2, <1>3 DEF ProvisioningInv

(* A step of a job that makes nothing loses no count of what was made.      *)
Moves(d) ==
    /\ job'[d] \in JobRow
    /\ d \in logged'
    /\ Made(job[d]) <= Made(job'[d])
    /\ job'[d].at = "running" /\ job'[d].found = 0 => job'[d].absent = TRUE

LEMMA JobStep ==
    ASSUME ProvisioningInv, customer' = customer, project' = project,
           DOMAIN job' = Deals, job' = [d \in Deals |-> job'[d]],
           \A d \in Deals : Moves(d) \/ (job'[d] = job[d] /\ (d \in logged => d \in logged')
                                            /\ (d \in logged' => d \in logged))
    PROVE  ProvisioningInv'
<1>1. OneCustomer' /\ IsSequence(customer)' /\ IsSequence(project)'
    BY SameRows DEF ProvisioningInv
<1>2. \A d \in Deals : job[d] \in JobRow /\ job'[d] \in JobRow
    BY DEF ProvisioningInv, Moves
<1>3. ASSUME NEW d \in Deals PROVE JobInv(d)'
    <2>1. ProjectsOf(d)' = ProjectsOf(d) /\ JobInv(d)
        BY SameRows DEF ProvisioningInv
    <2>2. CASE Moves(d)
        <3>1. Cardinality(ProjectsOf(d)) \in Nat
            BY FiniteProjects DEF ProvisioningInv
        <3>2. Made(job[d]) \in Nat /\ Made(job'[d]) \in Nat
            BY <1>2 DEF JobRow, Made
        <3>3. Cardinality(ProjectsOf(d)') <= Made(job'[d])
            BY <2>1, <2>2, <3>1, <3>2 DEF JobInv, Moves
        <3>4. Made(job[d])' = Made(job'[d])
            BY DEF Made
        <3> QED BY <2>2, <3>3, <3>4 DEF JobInv, Moves
    <2>3. CASE job'[d] = job[d] /\ (d \in logged' => d \in logged)
                   /\ (d \in logged => d \in logged')
        BY <2>1, <2>3 DEF JobInv, Made
    <2> QED BY <2>2, <2>3
<1>4. (job \in [Deals -> JobRow])'
    BY <1>2
<1> QED BY <1>1, <1>3, <1>4 DEF ProvisioningInv

(* A row a job may be given.                                                *)
Fits(d, j) ==
    /\ j \in JobRow
    /\ Made(job[d]) <= Made(j)
    /\ j.at = "running" /\ j.found = 0 => j.absent = TRUE

LEMMA PutStep ==
    ASSUME ProvisioningInv, customer' = customer, project' = project,
           NEW d \in Deals, NEW j, Put(d, j), Fits(d, j), logged' = logged \cup {d}
    PROVE  ProvisioningInv'
<1>1. job \in [Deals -> JobRow] /\ job' = [job EXCEPT ![d] = j]
    BY DEF ProvisioningInv, Put
<1>2. Moves(d)
    BY <1>1 DEF Moves, Fits
<1>3. \A e \in Deals : e # d => job'[e] = job[e] /\ (e \in logged' => e \in logged)
                                    /\ (e \in logged => e \in logged')
    BY <1>1
<1>4. DOMAIN job' = Deals /\ job' = [e \in Deals |-> job'[e]]
    BY <1>1
<1> QED BY <1>2, <1>3, <1>4, JobStep

(* Whoever has a job was delivered.                                         *)
LEMMA HasJob ==
    ASSUME ProvisioningInv, NEW d \in Deals, job[d].at # "none"
    PROVE  d \in logged /\ logged = logged \cup {d}
BY DEF ProvisioningInv, JobInv, NoJob

LEMMA DeliverStep ==
    ASSUME ProvisioningInv, NEW d \in Deals, NEW sig, Deliver(d, sig)
    PROVE  ProvisioningInv'
<1> DEFINE j == [NoJob EXCEPT !.at = "available"]
<1>1. j \in JobRow /\ Made(j) = 0 /\ j.at = "available"
    BY DEF NoJob, JobRow, Made
<1>2. job[d] = NoJob /\ Made(NoJob) = 0
    BY DEF Deliver, ProvisioningInv, JobInv, NoJob, Made
<1>3. Put(d, j) /\ logged' = logged \cup {d} /\ customer' = customer /\ project' = project
    BY DEF Deliver
<1> HIDE DEF j
<1>4. Fits(d, j)
    BY <1>1, <1>2 DEF Fits
<1> QED BY <1>3, <1>4, PutStep

LEMMA LostRow ==
    ASSUME NEW j \in JobRow
    PROVE  LET r == [j EXCEPT !.at = "lost", !.again = j.again + 1] IN
           r \in JobRow /\ r.at = "lost" /\ r.again = j.again + 1
<1>1. j.again + 1 \in Nat
    BY DEF JobRow
<1> QED BY <1>1 DEF JobRow

LEMMA StartStep ==
    ASSUME ProvisioningInv, NEW d \in Deals, Start(d)
    PROVE  ProvisioningInv'
<1>1. job[d] \in JobRow /\ job[d].at = "available"
    BY DEF ProvisioningInv, Start
<1>2. logged' = logged \cup {d} /\ customer' = customer /\ project' = project
    BY <1>1, HasJob DEF Start
<1>3. Made(job[d]) = job[d].again /\ job[d].again \in Nat
    BY <1>1 DEF Made, JobRow
<1> DEFINE dropped == [job[d] EXCEPT !.at = "dropped"]
           named == CustomersNamed(AccountOf[d])
           began(c) == [job[d] EXCEPT !.at = "running", !.tries = job[d].tries + 1,
                                    !.found = c, !.absent = named = {}]
<1>4. CASE Put(d, dropped)
    <2>1. dropped \in JobRow /\ Made(dropped) = job[d].again /\ dropped.at = "dropped"
        BY <1>1 DEF JobRow, Made, Ended
    <2> HIDE DEF dropped
    <2>2. Fits(d, dropped)
        BY <1>3, <2>1 DEF Fits
    <2> QED BY <1>2, <1>4, <2>2, PutStep
<1>5. ASSUME NEW c \in IF named = {} THEN {0} ELSE named, Put(d, began(c))
      PROVE  ProvisioningInv'
    <2>1. Len(customer) \in Nat /\ DOMAIN customer = 1..Len(customer)
        BY SequenceRows DEF ProvisioningInv
    <2>2. c \in Nat /\ (c = 0 => named = {})
        BY <1>5, <2>1 DEF CustomersNamed
    <2>3. PICK b \in BOOLEAN : b = (named = {})
        OBVIOUS
    <2>4. began(c) = [job[d] EXCEPT !.at = "running", !.tries = job[d].tries + 1,
                                  !.found = c, !.absent = b]
        BY <2>3
    <2>n. c = 0 => b = TRUE
        BY <2>2, <2>3
    <2> HIDE DEF named, began
    <2>5. /\ began(c) \in JobRow
          /\ began(c).at = "running" /\ began(c).found = c /\ began(c).again = job[d].again
          /\ began(c).absent = b
        <3>0. job[d].tries + 1 \in Nat
            BY <1>1 DEF JobRow
        <3>1. LET r == [job[d] EXCEPT !.at = "running", !.tries = job[d].tries + 1,
                                      !.found = c, !.absent = b] IN
              /\ r \in JobRow
              /\ r.at = "running" /\ r.found = c /\ r.again = job[d].again /\ r.absent = b
            BY <1>1, <2>2, <3>0 DEF JobRow
        <3> QED BY <3>1, <2>4
    <2>6. Made(began(c)) = job[d].again
        BY <2>5 DEF Made
    <2>7. Fits(d, began(c))
        BY <1>3, <2>n, <2>5, <2>6 DEF Fits
    <2> QED BY <1>2, <1>5, <2>7, PutStep
<1>6. Put(d, dropped) \/ \E c \in IF named = {} THEN {0} ELSE named : Put(d, began(c))
    BY DEF Start
<1> HIDE DEF dropped, named, began
<1> QED BY <1>4, <1>5, <1>6

(* River notes a success, gives a job up or makes it available again.       *)
LEMMA RiverStep ==
    ASSUME ProvisioningInv, NEW d \in Deals, Complete(d) \/ Fail(d) \/ Rescue(d)
    PROVE  ProvisioningInv'
<1>1. job[d] \in JobRow /\ job[d].at \in {"committed", "running", "stuck", "lost"}
      /\ customer' = customer /\ project' = project /\ logged' = logged
    BY DEF ProvisioningInv, Complete, Fail, Rescue
<1>2. logged' = logged \cup {d}
    BY <1>1, HasJob
<1>3. job[d].again \in Nat
    BY <1>1 DEF JobRow
<1> DEFINE completed == [job[d] EXCEPT !.at = "completed"]
           retried == Retried(job[d])
<1>4. CASE Complete(d)
    <2>1. completed \in JobRow /\ Made(completed) = job[d].again + 1
          /\ Made(job[d]) = job[d].again + 1 /\ completed.at = "completed"
        BY <1>1, <1>4 DEF JobRow, Made, Ended, Complete
    <2>2. Put(d, completed)
        BY <1>4 DEF Complete
    <2> HIDE DEF completed
    <2>3. Fits(d, completed)
        BY <1>3, <2>1 DEF Fits
    <2> QED BY <1>1, <1>2, <2>2, <2>3, PutStep
<1>5. CASE Fail(d) \/ Rescue(d)
    <2>1. retried \in JobRow /\ retried.again = job[d].again
          /\ retried.at \in {"discarded", "available"}
        BY <1>1 DEF JobRow, Retried, Ended
    <2>2. Made(job[d]) = job[d].again
        BY <1>5 DEF Made, Fail, Rescue
    <2>3. Put(d, retried)
        BY <1>5 DEF Fail, Rescue
    <2> HIDE DEF retried
    <2>4. Made(retried) = job[d].again
        BY <2>1 DEF Made
    <2>5. Fits(d, retried)
        BY <1>3, <2>1, <2>2, <2>4 DEF Fits
    <2> QED BY <1>1, <1>2, <2>3, <2>5, PutStep
<1> QED BY <1>4, <1>5

(* Whatever was committed and not completed is counted as one more.         *)
LEMMA CrashStep == ASSUME ProvisioningInv, Crash PROVE ProvisioningInv'
<1> DEFINE crashed(j) ==
           CASE j.at = "running" -> [j EXCEPT !.at = "stuck"]
             [] j.at = "committed" -> [j EXCEPT !.at = "lost", !.again = j.again + 1]
             [] OTHER -> j
<1>1. job' = [d \in Deals |-> crashed(job[d])] /\ customer' = customer
      /\ project' = project /\ logged' = logged
    BY DEF Crash
<1>2. ASSUME NEW d \in Deals PROVE Moves(d) \/ job'[d] = job[d]
    <2>1. job[d] \in JobRow /\ job'[d] = crashed(job[d])
        BY <1>1 DEF ProvisioningInv
    <2>2. CASE job[d].at = "running"
        <3>1. job'[d] \in JobRow /\ Made(job'[d]) = Made(job[d]) /\ job'[d].at = "stuck"
              /\ Made(job[d]) \in Nat
            BY <2>1, <2>2 DEF JobRow, Made
        <3>2. d \in logged'
            BY <1>1, <2>2, HasJob
        <3> QED BY <3>1, <3>2 DEF Moves
    <2>3. CASE job[d].at = "committed"
        <3>0. job'[d] \in JobRow /\ job'[d].at = "lost"
              /\ job'[d].again = job[d].again + 1
            BY <2>1, <2>3, LostRow
        <3>1. Made(job'[d]) = Made(job[d]) /\ Made(job[d]) \in Nat
            BY <3>0, <2>1, <2>3 DEF JobRow, Made
        <3>2. d \in logged'
            BY <1>1, <2>3, HasJob
        <3> QED BY <3>0, <3>1, <3>2 DEF Moves
    <2>4. CASE job[d].at \notin {"running", "committed"}
        BY <2>1, <2>4
    <2> QED BY <2>2, <2>3, <2>4
<1>3. DOMAIN job' = Deals /\ job' = [d \in Deals |-> job'[d]]
    BY <1>1
<1> HIDE DEF crashed
<1> QED BY <1>1, <1>2, <1>3, JobStep

(* A customer is inserted by a run that saw none of the name: if there was  *)
(* none yet it is the first, and if there was it is marked.                 *)
LEMMA CustomerAdded ==
    ASSUME IsSequence(customer), OneCustomer, NEW e,
           e.raced = FALSE => CustomersNamed(e.name) = {},
           e.raced \in BOOLEAN, customer' = Append(customer, e)
    PROVE  OneCustomer' /\ IsSequence(customer)'
<1> DEFINE n == Len(customer) + 1
           One(a) == {c \in CustomersNamed(a) : ~customer[c].raced}
<1>1. /\ IsSequence(customer')
      /\ Len(customer') = n
      /\ \A i \in DOMAIN customer : customer'[i] = customer[i]
      /\ customer'[n] = e
    BY RowAppended
<1>2. Len(customer) \in Nat /\ DOMAIN customer = 1..Len(customer) /\ DOMAIN customer' = 1..n
    BY <1>1, SequenceRows
<1>3. DOMAIN customer' = DOMAIN customer \cup {n} /\ n \notin DOMAIN customer
    BY <1>2
<1>4. ASSUME NEW a \in Accounts PROVE Cardinality(One(a)') <= 1
    <2>1. CASE e.name = a /\ e.raced = FALSE
        <3>1. CustomersNamed(a) = {}
            BY <2>1
        <3>2. One(a)' = {n}
            BY <1>1, <1>3, <2>1, <3>1 DEF CustomersNamed
        <3>3. Cardinality(One(a)') = 1
            BY <3>2, FS_Singleton
        <3> HIDE DEF One
        <3> QED BY <3>3
    <2>2. CASE ~(e.name = a /\ e.raced = FALSE)
        <3>1. One(a)' = One(a)
            BY <1>1, <1>3, <2>2 DEF CustomersNamed
        <3>2. Cardinality(One(a)) <= 1
            BY DEF OneCustomer
        <3> HIDE DEF One
        <3> QED BY <3>1, <3>2
    <2> QED BY <2>1, <2>2
<1> QED BY <1>1, <1>4 DEF OneCustomer

(* Whether or not the answer is heard, a commit makes one project.          *)
LEMMA ProvisionedStep ==
    ASSUME ProvisioningInv, NEW d \in Deals, Provisioned(d),
           NEW j \in JobRow, Put(d, j), Made(j) = job[d].again + 1, j.at # "running"
    PROVE  ProvisioningInv'
<1> DEFINE a == AccountOf[d]
           missed == CustomersNamed(a) # {}
           new == [name |-> a, raced |-> job[d].absent /\ missed]
<1>1. job[d] \in JobRow /\ job[d].at = "running" /\ logged' = logged
    BY DEF ProvisioningInv, Provisioned
<1>2. /\ customer' = customer \/ (job[d].found = 0 /\ customer' = Append(customer, new))
      /\ \E c : project' = Append(project, NewProject(c, d, 0, <<>>))
    BY DEF Provisioned
<1>3. OneCustomer' /\ IsSequence(customer)'
    <2>1. CASE customer' = customer
        BY <2>1, SameRows DEF ProvisioningInv
    <2>2. CASE job[d].found = 0 /\ customer' = Append(customer, new)
        <3>1. job[d].absent = TRUE
            BY <1>1, <2>2 DEF ProvisioningInv, JobInv
        <3>2. new.name = a /\ new.raced \in BOOLEAN /\ (new.raced = FALSE => ~missed)
            BY <3>1
        <3>3. new.raced = FALSE => CustomersNamed(new.name) = {}
            BY <3>2
        <3>4. IsSequence(customer) /\ OneCustomer
            BY DEF ProvisioningInv
        <3> HIDE DEF new
        <3> QED BY <2>2, <3>2, <3>3, <3>4, CustomerAdded
    <2> QED BY <1>2, <2>1, <2>2
<1>4. PICK c : project' = Append(project, NewProject(c, d, 0, <<>>))
    BY <1>2
<1>5. NewProject(c, d, 0, <<>>).from = d
    BY DEF NewProject
<1>6. /\ IsSequence(project)'
      /\ \A e : Cardinality(ProjectsOf(e))' =
             IF d = e THEN Cardinality(ProjectsOf(e)) + 1 ELSE Cardinality(ProjectsOf(e))
    BY <1>4, <1>5, ProjectAdded DEF ProvisioningInv
<1> HIDE DEF new
<1>8. job' \in [Deals -> JobRow] /\ job'[d] = j /\ \A e \in Deals : e # d => job'[e] = job[e]
    BY DEF Put, ProvisioningInv
<1>9. ASSUME NEW e \in Deals PROVE JobInv(e)'
    <2>1. JobInv(e)
        BY DEF ProvisioningInv
    <2>2. CASE e = d
        <3>1. Cardinality(ProjectsOf(d)) <= job[d].again /\ job[d].again \in Nat
            BY <1>1, <2>1, <2>2 DEF JobInv, Made, JobRow
        <3>2. Cardinality(ProjectsOf(d)) \in Nat
            BY FiniteProjects DEF ProvisioningInv
        <3>3. Cardinality(ProjectsOf(d))' = Cardinality(ProjectsOf(d)) + 1
            BY <1>6
        <3>4. Made(job[d])' = job[d].again + 1
            BY <1>8 DEF Made
        <3>5. Cardinality(ProjectsOf(d))' <= Made(job[d])'
            BY <3>1, <3>2, <3>3, <3>4
        <3>6. d \in logged
            BY <1>1, HasJob
        <3>7. (job[d].at # "running")'
            BY <1>8
        <3> QED BY <1>1, <2>2, <3>5, <3>6, <3>7 DEF JobInv
    <2>3. CASE e # d
        <3>1. Cardinality(ProjectsOf(e))' = Cardinality(ProjectsOf(e)) /\ job'[e] = job[e]
            BY <1>6, <1>8, <2>3
        <3> QED BY <1>1, <2>1, <3>1 DEF JobInv, Made
    <2> QED BY <2>2, <2>3
<1> QED BY <1>3, <1>6, <1>8, <1>9 DEF ProvisioningInv

LEMMA CommitStep ==
    ASSUME ProvisioningInv, NEW d \in Deals, Commit(d) \/ CommitUnheard(d)
    PROVE  ProvisioningInv'
<1>1. job[d] \in JobRow /\ job[d].again \in Nat
    BY DEF ProvisioningInv, JobRow
<1>2. CASE Commit(d)
    <2> DEFINE j == [job[d] EXCEPT !.at = "committed"]
    <2>1. Provisioned(d) /\ Put(d, j)
        BY <1>2 DEF Commit
    <2>2. j \in JobRow /\ j.at = "committed" /\ j.again = job[d].again
        BY <1>1 DEF JobRow
    <2> HIDE DEF j
    <2>3. Made(j) = job[d].again + 1
        BY <2>2 DEF Made
    <2> QED BY <2>1, <2>2, <2>3, ProvisionedStep
<1>3. CASE CommitUnheard(d)
    <2> DEFINE r == Retried(job[d])
               j == [r EXCEPT !.again = r.again + 1]
    <2>1. Provisioned(d) /\ Put(d, j)
        BY <1>3 DEF CommitUnheard
    <2>2. r \in JobRow /\ r.again = job[d].again /\ r.at \in {"discarded", "available"}
        BY <1>1 DEF JobRow, Retried, Ended
    <2> HIDE DEF r
    <2>3. j \in JobRow /\ j.again = job[d].again + 1 /\ j.at \in {"discarded", "available"}
        <3>1. r.again + 1 \in Nat
            BY <1>1, <2>2
        <3> QED BY <2>2, <3>1 DEF JobRow
    <2> HIDE DEF j
    <2>4. Made(j) = job[d].again + 1
        BY <2>3 DEF Made
    <2> QED BY <2>1, <2>3, <2>4, ProvisionedStep
<1> QED BY <1>2, <1>3

LEMMA NotNotedStep ==
    ASSUME ProvisioningInv, NEW d \in Deals, NotNoted(d)
    PROVE  ProvisioningInv'
<1> DEFINE j == [job[d] EXCEPT !.at = "lost", !.again = job[d].again + 1]
<1>1. job[d] \in JobRow /\ job[d].at = "committed" /\ job[d].again \in Nat /\ Put(d, j)
      /\ customer' = customer /\ project' = project /\ logged' = logged
    BY DEF ProvisioningInv, NotNoted, JobRow
<1>2. logged' = logged \cup {d}
    BY <1>1, HasJob
<1>3. j \in JobRow /\ j.at = "lost" /\ j.again = job[d].again + 1
    BY <1>1, LostRow
<1> HIDE DEF j
<1>4. Fits(d, j)
    BY <1>1, <1>3 DEF Fits, Made
<1> QED BY <1>1, <1>2, <1>4, PutStep

(* A template is applied and a file imported for no deal.                   *)
LEMMA StaffProject ==
    ASSUME ProvisioningInv, UNCHANGED <<job, logged, customer>>, NEW e,
           project' = Append(project, e), e.from \in {"template", "import"}
    PROVE  ProvisioningInv'
<1>1. \A d \in Deals : e.from # d
    BY DealsAssumption
<1>2. /\ IsSequence(project)'
      /\ \A d : Cardinality(ProjectsOf(d))' =
             IF e.from = d THEN Cardinality(ProjectsOf(d)) + 1 ELSE Cardinality(ProjectsOf(d))
    BY ProjectAdded DEF ProvisioningInv
<1>3. \A d \in Deals : Cardinality(ProjectsOf(d))' = Cardinality(ProjectsOf(d))
    BY <1>1, <1>2
<1> QED BY <1>2, <1>3, StaffStep

LEMMA ImportStep ==
    ASSUME ProvisioningInv, NEW i, NEW c, NEW source, NEW file, Import(i, c, source, file)
    PROVE  ProvisioningInv'
<1> DEFINE new == Imported(NewProject(c, "import", 0, <<>>), Parsed(source, file), Len(file))
           more == Imported(project[i], Parsed(source, file), Len(file))
<1>1. UNCHANGED <<job, logged, customer>>
    BY DEF Import
<1>2. \/ project' = Append(project, new)
      \/ i \in DOMAIN project /\ project' = [project EXCEPT ![i] = more]
    BY DEF Import
<1>3. new.from = "import"
    BY DEF NewProject, Imported
<1>4. more.from = project[i].from
    BY DEF Imported
<1> HIDE DEF new, more
<1>5. CASE project' = Append(project, new)
    BY <1>1, <1>3, <1>5, StaffProject
<1>6. CASE i \in DOMAIN project /\ project' = [project EXCEPT ![i] = more]
    <2>1. /\ IsSequence(project')
          /\ DOMAIN project' = DOMAIN project
          /\ \A k \in DOMAIN project : project'[k] = IF k = i THEN more ELSE project[k]
        BY <1>6, RowReplaced DEF ProvisioningInv
    <2>2. \A d : ProjectsOf(d)' = ProjectsOf(d)
        BY <1>4, <2>1 DEF ProjectsOf
    <2>3. \A d \in Deals : Cardinality(ProjectsOf(d))' = Cardinality(ProjectsOf(d))
        BY <2>2
    <2> QED BY <1>1, <2>1, <2>3, StaffStep
<1> QED BY <1>2, <1>5, <1>6

LEMMA ProvisioningNext == ProvisioningInv /\ [Next]_vars => ProvisioningInv'
<1> SUFFICES ASSUME ProvisioningInv, [Next]_vars PROVE ProvisioningInv'
    OBVIOUS
<1>1. ASSUME UNCHANGED <<job, logged, customer, project>> PROVE ProvisioningInv'
    <2>1. IsSequence(project)' /\ \A d : ProjectsOf(d)' = ProjectsOf(d)
        BY <1>1, SameRows DEF ProvisioningInv
    <2>2. \A d \in Deals : Cardinality(ProjectsOf(d))' = Cardinality(ProjectsOf(d))
        BY <2>1
    <2>3. UNCHANGED <<job, logged, customer>>
        BY <1>1
    <2> QED BY <2>1, <2>2, <2>3, StaffStep
<1>2. CASE UNCHANGED vars
    BY <1>1, <1>2 DEF vars
<1>3. CASE \E s \in Secrets : PutSFSettings(s) \/ PutHSSettings(s)
    BY <1>1, <1>3 DEF PutSFSettings, PutHSSettings, PutSettings
<1>4. CASE \E d \in Deals, sig \in Secrets : SfWebhook(d, sig) \/ HsWebhook(d, sig)
    BY <1>4, DeliverStep DEF SfWebhook, HsWebhook
<1>5. CASE \E d \in Deals : Works(d) \/ Fail(d) \/ CommitUnheard(d) \/ NotNoted(d)
    <2> PICK d \in Deals : \/ Start(d) \/ Commit(d) \/ Complete(d) \/ Rescue(d) \/ Fail(d)
                           \/ CommitUnheard(d) \/ NotNoted(d)
        BY <1>5 DEF Works, SFProjectCreate, HSProjectCreate
    <2>1. CASE Start(d)
        BY <2>1, StartStep
    <2>2. CASE Commit(d) \/ CommitUnheard(d)
        BY <2>2, CommitStep
    <2>3. CASE Complete(d) \/ Fail(d) \/ Rescue(d)
        BY <2>3, RiverStep
    <2>4. CASE NotNoted(d)
        BY <2>4, NotNotedStep
    <2> QED BY <2>1, <2>2, <2>3, <2>4
<1>6. CASE Crash
    BY <1>6, CrashStep
<1>7. CASE \E content \in Contents : CreateTemplate(content)
    BY <1>1, <1>7 DEF CreateTemplate
<1>8. CASE \E t \in TemplateIds : NewTemplateVersion(t)
    BY <1>1, <1>8 DEF NewTemplateVersion
<1>9. CASE \E t \in TemplateIds, c \in DOMAIN customer : CreateFromTemplate(t, c)
    <2> PICK t \in TemplateIds, c \in DOMAIN customer : CreateFromTemplate(t, c)
        BY <1>9
    <2> DEFINE e == NewProject(c, "template", t,
                   [i \in DOMAIN template[t].content |-> TaskOf(template[t].content[i])])
    <2>1. project' = Append(project, e) /\ UNCHANGED <<job, logged, customer>>
        BY DEF CreateFromTemplate
    <2>2. e.from = "template"
        BY DEF NewProject
    <2> HIDE DEF e
    <2> QED BY <2>1, <2>2, StaffProject
<1>10. CASE \E i \in 0..Len(project), c \in DOMAIN customer, source \in Sources, file \in Files :
               Import(i, c, source, file)
    BY <1>10, ImportStep
<1> QED BY <1>2, <1>3, <1>4, <1>5, <1>6, <1>7, <1>8, <1>9, <1>10 DEF Next

-----------------------------------------------------------------------------
(* The theorems.                                                            *)

(* The invariant holds in every behaviour: what a job's state says of its   *)
(* projects, and what a run saw of the customers (main.go:660-760).         *)
THEOREM ProvisioningCorrect == Spec => []ProvisioningInv
<1> QED BY InitInv, ProvisioningNext, PTL DEF Spec

(* Repeated deliveries, failures and retries make no second project of a    *)
(* deal; only a run after one that had committed does (salesforce.go:8-9).  *)
THEOREM OneProjectPerDelivery == Spec => []ProjectPerDeal
<1>1. ASSUME ProvisioningInv PROVE ProjectPerDeal
    <2>1. ASSUME NEW d \in Deals
          PROVE  Cardinality(ProjectsOf(d)) <= (IF d \in logged THEN 1 ELSE 0) + job[d].again
        <3>1. JobInv(d) /\ job[d] \in JobRow /\ Cardinality(ProjectsOf(d)) \in Nat
            BY <1>1, FiniteProjects DEF ProvisioningInv
        <3>2. job[d].again \in Nat
            BY <3>1 DEF JobRow
        <3>3. CASE d \in logged
            BY <3>1, <3>2, <3>3 DEF JobInv, Made
        <3>4. CASE d \notin logged
            BY <3>1, <3>2, <3>4 DEF JobInv, Made, NoJob
        <3> QED BY <3>3, <3>4
    <2> QED BY <2>1 DEF ProjectPerDeal
<1> QED BY <1>1, ProvisioningCorrect, PTL

(* An account has one customer, but for runs that looked before another     *)
(* one's insert was committed (main.go:691-704).                            *)
THEOREM OneCustomerPerAccount == Spec => []OneCustomer
<1>1. ProvisioningInv => OneCustomer
    BY DEF ProvisioningInv
<1> QED BY <1>1, ProvisioningCorrect, PTL

-----------------------------------------------------------------------------
(* What is counted: the uses of a template, and the lines of the imports.   *)

(* A job has a run left while it is available, and a run that committed was *)
(* lost only by a mishap.                                                   *)
TypeInv ==
    /\ TypeOK
    /\ \A d \in Deals :
           /\ job[d].at = "available" => job[d].tries < MaxAttempts
           /\ job[d].again <= mishaps

(* Appended, or replaced, a row is one of its table still.                  *)
LEMMA RowOf ==
    ASSUME NEW S, NEW s \in Seq(S), NEW e \in S
    PROVE  /\ Append(s, e) \in Seq(S)
           /\ \A i \in DOMAIN s : [s EXCEPT ![i] = e] \in Seq(S)
<1>1. Append(s, e) \in Seq(S)
    BY AppendProperties
<1>2. ASSUME NEW i \in DOMAIN s PROVE [s EXCEPT ![i] = e] \in Seq(S)
    <2>1. i \in 1..Len(s)
        BY <1>2
    <2> QED BY <2>1, ExceptSeq
<1> QED BY <1>1, <1>2

(* A row of a job that the step of a deal may give it.                      *)
LEMMA TypedPut ==
    ASSUME TypeInv, NEW d \in Deals, NEW j \in Job, Put(d, j),
           j.at = "available" => j.tries < MaxAttempts, j.again <= mishaps',
           mishaps' = mishaps \/ mishaps' = mishaps + 1
    PROVE  /\ job' \in [Deals -> Job]
           /\ \A e \in Deals :
                  /\ job'[e].at = "available" => job'[e].tries < MaxAttempts
                  /\ job'[e].again <= mishaps'
<1>1. job \in [Deals -> Job] /\ job' = [job EXCEPT ![d] = j]
    BY DEF TypeInv, TypeOK, Put
<1>2. ASSUME NEW e \in Deals
      PROVE  /\ job'[e].at = "available" => job'[e].tries < MaxAttempts
             /\ job'[e].again <= mishaps'
    <2>1. CASE e = d
        BY <1>1, <2>1
    <2>2. CASE e # d
        <3>1. job'[e] = job[e] /\ job[e].again \in Nat /\ mishaps \in Nat
            BY <1>1, <2>2 DEF Job, TypeInv, TypeOK
        <3> QED BY <3>1 DEF TypeInv
    <2> QED BY <2>1, <2>2
<1> QED BY <1>1, <1>2

LEMMA TypedStaff ==
    ASSUME TypeInv, UNCHANGED <<job, mishaps>>
    PROVE  /\ (job \in [Deals -> Job])' /\ (mishaps \in 0..MaxMishaps)'
           /\ \A d \in Deals :
                  /\ (job[d].at = "available")' => (job[d].tries < MaxAttempts)'
                  /\ (job[d].again <= mishaps)'
BY DEF TypeInv, TypeOK

LEMMA TypedJob ==
    ASSUME TypeInv, NEW d \in Deals,
           \/ \E sig : Deliver(d, sig)
           \/ Start(d) \/ Complete(d) \/ Fail(d) \/ Rescue(d)
    PROVE  TypeInv'
<1>1. job[d] \in Job /\ job[d].again <= mishaps /\ job[d].again \in 0..MaxMishaps
      /\ job[d].tries \in 0..MaxAttempts
    BY DEF TypeInv, TypeOK, Job
<1>2. /\ MaxAttempts \in Nat \ {0} /\ MaxMishaps \in Nat /\ mishaps \in 0..MaxMishaps
    BY BoundsAssumption DEF TypeInv, TypeOK
<1>3. UNCHANGED <<secret, customer, project, template, mishaps>> /\ logged' \subseteq Deals
    BY DEF Deliver, Start, Complete, Fail, Rescue, TypeInv, TypeOK
<1> SUFFICES \E j \in Job : /\ Put(d, j)
                            /\ j.at = "available" => j.tries < MaxAttempts
                            /\ j.again <= mishaps'
    BY <1>3, TypedPut DEF TypeInv, TypeOK
<1>4. CASE \E sig : Deliver(d, sig)
    <2> DEFINE j == [NoJob EXCEPT !.at = "available"]
    <2>1. Put(d, j)
        BY <1>4 DEF Deliver
    <2>2. j \in Job /\ j.tries = 0 /\ j.again = 0
        <3>1. 0 \in Nat /\ 0 \in 0..MaxAttempts /\ 0 \in 0..MaxMishaps
            BY <1>2
        <3> QED BY <3>1 DEF NoJob, Job
    <2> HIDE DEF j
    <2> QED BY <1>2, <1>3, <2>1, <2>2
<1>5. CASE Start(d)
    <2>1. job[d].at = "available" /\ job[d].tries < MaxAttempts
        BY <1>5 DEF Start, TypeInv
    <2> DEFINE named == CustomersNamed(AccountOf[d])
               began(c) == [job[d] EXCEPT !.at = "running", !.tries = job[d].tries + 1,
                                          !.found = c, !.absent = named = {}]
               dropped == [job[d] EXCEPT !.at = "dropped"]
    <2>2. Put(d, dropped) \/ \E c \in IF named = {} THEN {0} ELSE named : Put(d, began(c))
        BY <1>5 DEF Start
    <2>3. dropped \in Job /\ dropped.at = "dropped" /\ dropped.again = job[d].again
        BY <1>1 DEF Job, Ended
    <2>4. ASSUME NEW c \in IF named = {} THEN {0} ELSE named
          PROVE  began(c) \in Job /\ began(c).at = "running" /\ began(c).again = job[d].again
        <3>1. c \in Nat
            <4>1. DOMAIN customer \subseteq Nat
                BY DEF TypeInv, TypeOK
            <4> QED BY <2>4, <4>1 DEF CustomersNamed
        <3>2. job[d].tries + 1 \in 0..MaxAttempts
            BY <1>1, <1>2, <2>1
        <3>3. PICK b \in BOOLEAN : b = (named = {})
            OBVIOUS
        <3>4. began(c) = [job[d] EXCEPT !.at = "running", !.tries = job[d].tries + 1,
                                        !.found = c, !.absent = b]
            BY <3>3
        <3> HIDE DEF began, named
        <3> QED BY <1>1, <3>1, <3>2, <3>4 DEF Job
    <2> HIDE DEF dropped, began, named
    <2> QED BY <1>1, <1>3, <2>2, <2>3, <2>4
<1>6. CASE Complete(d)
    <2> DEFINE j == [job[d] EXCEPT !.at = "completed"]
    <2>1. Put(d, j)
        BY <1>6 DEF Complete
    <2>2. j \in Job /\ j.at = "completed" /\ j.again = job[d].again
        BY <1>1 DEF Job, Ended
    <2> HIDE DEF j
    <2> QED BY <1>1, <1>3, <2>1, <2>2
<1>7. CASE Fail(d) \/ Rescue(d)
    <2> DEFINE j == Retried(job[d])
    <2>1. Put(d, j)
        BY <1>7 DEF Fail, Rescue
    <2>2. j \in Job /\ j.again = job[d].again /\ j.tries = job[d].tries
        BY <1>1 DEF Job, Ended, Retried
    <2>3. j.at = "available" => job[d].tries # MaxAttempts
        BY <1>1 DEF Retried, Job
    <2> HIDE DEF j
    <2> QED BY <1>1, <1>2, <1>3, <2>1, <2>2, <2>3
<1> QED BY <1>4, <1>5, <1>6, <1>7

LEMMA TypedProvisioned ==
    ASSUME TypeInv, NEW d \in Deals, Provisioned(d), NEW j \in Job, Put(d, j),
           j.at = "available" => j.tries < MaxAttempts, j.again <= mishaps',
           mishaps' = mishaps \/ mishaps' = mishaps + 1, mishaps' \in 0..MaxMishaps
    PROVE  TypeInv'
<1> DEFINE c == IF job[d].found # 0 THEN job[d].found ELSE Len(customer) + 1
           p == NewProject(c, d, 0, <<>>)
<1>1. job[d] \in Job /\ job[d].again <= mishaps /\ job[d].found \in Nat
      /\ Len(customer) \in Nat /\ job[d].absent \in BOOLEAN
    BY DEF TypeInv, TypeOK, Job
<1>2. project' \in Seq(Project)
    <2>1. c \in Nat
        BY <1>1
    <2>2. p \in Project
        <3>1. <<>> \in Seq(Task) /\ 0 \in TemplateIds
            BY BoundsAssumption DEF TemplateIds
        <3> HIDE DEF c
        <3> QED BY <2>1, <3>1 DEF NewProject, Project
    <2>3. project' = Append(project, p) /\ project \in Seq(Project)
        BY DEF Provisioned, TypeInv, TypeOK
    <2> HIDE DEF p
    <2> QED BY <2>2, <2>3, RowOf
<1>3. customer' \in Seq(Customer)
    <2> DEFINE missed == CustomersNamed(AccountOf[d]) # {}
               e == [name |-> AccountOf[d], raced |-> job[d].absent /\ missed]
    <2>1. missed \in BOOLEAN
        OBVIOUS
    <2>2. e \in Customer
        <3> HIDE DEF missed
        <3>1. PICK b \in BOOLEAN : b = (job[d].absent /\ missed)
            OBVIOUS
        <3>2. e = [name |-> AccountOf[d], raced |-> b]
            BY <3>1
        <3> HIDE DEF e
        <3> QED BY <3>2, DealsAssumption DEF Customer
    <2>3. customer' = customer \/ customer' = Append(customer, e)
        BY DEF Provisioned
    <2>4. customer \in Seq(Customer)
        BY DEF TypeInv, TypeOK
    <2> HIDE DEF e
    <2> QED BY <2>2, <2>3, <2>4, RowOf
<1>4. UNCHANGED <<secret, logged, template>>
    BY DEF Provisioned
<1>5. /\ job' \in [Deals -> Job]
      /\ \A e \in Deals :
             /\ job'[e].at = "available" => job'[e].tries < MaxAttempts
             /\ job'[e].again <= mishaps'
    BY TypedPut
<1> QED BY <1>2, <1>3, <1>4, <1>5 DEF TypeInv, TypeOK

LEMMA TypedCommit ==
    ASSUME TypeInv, NEW d \in Deals, Commit(d) \/ CommitUnheard(d)
    PROVE  TypeInv'
<1>1. job[d] \in Job /\ job[d].again <= mishaps /\ job[d].again \in 0..MaxMishaps
      /\ job[d].tries \in 0..MaxAttempts
    BY DEF TypeInv, TypeOK, Job
<1>2. MaxAttempts \in Nat \ {0} /\ MaxMishaps \in Nat /\ mishaps \in 0..MaxMishaps
    BY BoundsAssumption DEF TypeInv, TypeOK
<1>3. CASE Commit(d)
    <2> DEFINE j == [job[d] EXCEPT !.at = "committed"]
    <2>1. Provisioned(d) /\ Put(d, j) /\ mishaps' = mishaps
        BY <1>3 DEF Commit
    <2>2. j \in Job /\ j.at = "committed" /\ j.again = job[d].again
        BY <1>1 DEF Job
    <2> HIDE DEF j
    <2> QED BY <1>1, <1>2, <2>1, <2>2, TypedProvisioned
<1>4. CASE CommitUnheard(d)
    <2> DEFINE r == Retried(job[d])
               j == [r EXCEPT !.again = r.again + 1]
    <2>1. Provisioned(d) /\ Put(d, j) /\ mishaps' = mishaps + 1 /\ mishaps < MaxMishaps
        BY <1>4 DEF CommitUnheard
    <2>2. r \in Job /\ r.again = job[d].again /\ r.tries = job[d].tries
        BY <1>1 DEF Job, Retried, Ended
    <2>3. r.at = "available" => r.tries # MaxAttempts
        BY <1>1 DEF Retried, Job
    <2> HIDE DEF r
    <2>4. /\ j \in Job /\ j.again = job[d].again + 1 /\ j.tries = job[d].tries
          /\ j.at = "available" => j.tries # MaxAttempts
        <3>1. r.again + 1 \in 0..MaxMishaps
            BY <1>1, <1>2, <2>1, <2>2
        <3> QED BY <2>2, <2>3, <3>1 DEF Job
    <2> HIDE DEF j
    <2>5. mishaps' \in 0..MaxMishaps /\ j.again <= mishaps'
        BY <1>1, <1>2, <2>1, <2>4
    <2>6. j.at = "available" => j.tries < MaxAttempts
        BY <1>1, <1>2, <2>4
    <2> QED BY <2>1, <2>4, <2>5, <2>6, TypedProvisioned
<1> QED BY <1>3, <1>4

LEMMA TypedNotNoted == ASSUME TypeInv, NEW d \in Deals, NotNoted(d) PROVE TypeInv'
<1> DEFINE j == [job[d] EXCEPT !.at = "lost", !.again = job[d].again + 1]
<1>1. job[d] \in Job /\ job[d].again <= mishaps /\ job[d].again \in 0..MaxMishaps
      /\ MaxMishaps \in Nat /\ mishaps \in 0..MaxMishaps
    BY BoundsAssumption DEF TypeInv, TypeOK, Job
<1>2. /\ mishaps < MaxMishaps /\ mishaps' = mishaps + 1 /\ Put(d, j)
      /\ UNCHANGED <<secret, logged, customer, project, template>>
    BY DEF NotNoted
<1>3. job[d].again + 1 \in 0..MaxMishaps /\ job[d].again + 1 <= mishaps'
      /\ mishaps' \in 0..MaxMishaps
    BY <1>1, <1>2
<1>4. j \in Job /\ j.at = "lost" /\ j.again = job[d].again + 1
    BY <1>1, <1>3 DEF Job
<1> HIDE DEF j
<1>5. /\ job' \in [Deals -> Job]
      /\ \A e \in Deals :
             /\ job'[e].at = "available" => job'[e].tries < MaxAttempts
             /\ job'[e].again <= mishaps'
    BY <1>2, <1>3, <1>4, TypedPut
<1> QED BY <1>2, <1>3, <1>5 DEF TypeInv, TypeOK

LEMMA TypedCrash == ASSUME TypeInv, Crash PROVE TypeInv'
<1>1. MaxMishaps \in Nat /\ mishaps \in 0..MaxMishaps /\ mishaps < MaxMishaps
      /\ mishaps' = mishaps + 1
    BY BoundsAssumption DEF TypeInv, TypeOK, Crash
<1>2. ASSUME NEW d \in Deals
      PROVE  /\ job'[d] \in Job /\ job'[d].again <= mishaps'
             /\ job'[d].at = "available" => job'[d].tries < MaxAttempts
    <2>1. /\ job[d] \in Job /\ job[d].again <= mishaps /\ job[d].again \in 0..MaxMishaps
          /\ job[d].at = "available" => job[d].tries < MaxAttempts
        BY DEF TypeInv, TypeOK, Job
    <2>2. CASE job[d].at = "running"
        <3>1. job'[d] = [job[d] EXCEPT !.at = "stuck"]
            BY <2>2 DEF Crash
        <3> QED BY <1>1, <2>1, <3>1 DEF Job
    <2>3. CASE job[d].at = "committed"
        <3>1. job'[d] = [job[d] EXCEPT !.at = "lost", !.again = job[d].again + 1]
            BY <2>3 DEF Crash
        <3>2. job[d].again + 1 \in 0..MaxMishaps /\ job[d].again + 1 <= mishaps'
            BY <1>1, <2>1
        <3> QED BY <2>1, <3>1, <3>2 DEF Job
    <2>4. CASE job[d].at \notin {"running", "committed"}
        <3>1. job'[d] = job[d]
            BY <2>4 DEF Crash
        <3> QED BY <1>1, <2>1, <3>1
    <2> QED BY <2>2, <2>3, <2>4
<1>3. job' \in [Deals -> Job]
    <2>1. job' = [d \in Deals |-> job'[d]]
        BY DEF Crash
    <2> QED BY <1>2, <2>1
<1>4. mishaps' \in 0..MaxMishaps
    BY <1>1
<1> QED BY <1>2, <1>3, <1>4 DEF Crash, TypeInv, TypeOK

(* The lines of an imported file come after those of earlier ones.          *)
ImportsCounted(p) ==
    /\ IsFiniteSet(p.imported)
    /\ \A r \in p.imported : r.line <= p.lines
    /\ p.ok = Cardinality(p.imported)
    /\ p.ok + p.quarantined = p.lines

LEMMA FileParsed ==
    ASSUME NEW source \in Sources, NEW file \in Files
    PROVE  LET A == Accepting(source, file) IN
           /\ A \subseteq 1..Len(file) /\ Len(file) \in Nat
           /\ IsFiniteSet(A) /\ Cardinality(A) \in Nat
           /\ Cardinality(DOMAIN file \ A) \in Nat
           /\ Cardinality(A) + Cardinality(DOMAIN file \ A) = Len(file)
           /\ \A i \in A : Adapted(source, file[i]).status \in Statuses
<1> DEFINE A == Accepting(source, file)
           D == DOMAIN file
<1>1. file \in Seq(Lines) /\ Len(file) \in Nat /\ D = 1..Len(file)
    BY FilesAssumption
<1>2. IsFiniteSet(D) /\ Cardinality(D) = Len(file)
    <2>1. IsFiniteSet(1..Len(file))
          /\ Cardinality(1..Len(file)) = IF 1 > Len(file) THEN 0 ELSE Len(file) - 1 + 1
        BY <1>1, FS_Interval
    <2> HIDE DEF D
    <2> QED BY <1>1, <2>1
<1>3. A \subseteq D /\ D \cap A = A
    BY DEF Accepting
<1>4. IsFiniteSet(A) /\ IsFiniteSet(D \ A)
    BY <1>2, <1>3, FS_Subset
<1>5. Cardinality(D \ A) = Cardinality(D) - Cardinality(D \cap A)
    BY <1>2, FS_Difference
<1>6. Cardinality(A) \in Nat /\ Cardinality(D \ A) \in Nat
    BY <1>4, FS_CardinalityType
<1>7. ASSUME NEW i \in A PROVE Adapted(source, file[i]).status \in Statuses
    <2>1. file[i] \in Lines /\ Accepted(source, file[i])
        BY <1>1, <1>3 DEF Accepting
    <2>2. file[i].status \in Words
        BY <2>1 DEF Lines
    <2>3. source = "generic" => GenericStatus(file[i].status) \in Statuses
        BY <2>1 DEF Accepted
    <2>4. RocketlaneStatus(file[i].status) \in Statuses
        BY DEF RocketlaneStatus, Statuses
    <2>5. source \in {"asana", "rocketlane", "generic"}
        BY DEF Sources
    <2> QED BY <2>3, <2>4, <2>5 DEF Adapted, Statuses
<1>8. Cardinality(A) + Cardinality(D \ A) = Len(file)
    <2>1. Cardinality(D \ A) = Len(file) - Cardinality(A)
        BY <1>2, <1>3, <1>5
    <2> HIDE DEF A, D
    <2> QED BY <1>1, <1>6, <2>1
<1> HIDE DEF A
<1>9. A \subseteq 1..Len(file)
    BY <1>1, <1>3
<1> QED BY <1>1, <1>4, <1>6, <1>7, <1>8, <1>9 DEF A

(* A file's tasks are as many as it reports, each on a line of its own.     *)
LEMMA FileImported ==
    ASSUME NEW p \in Project, ImportsCounted(p), NEW source \in Sources, NEW file \in Files,
           ~Aborts(Parsed(source, file))
    PROVE  LET q == Imported(p, Parsed(source, file), Len(file)) IN
           q \in Project /\ ImportsCounted(q) /\ q.from = p.from /\ q.template = p.template
<1> DEFINE A == Accepting(source, file)
           Row(i) == ImportedRow(p.lines + i, TasksOf(source, file)[i])
           N == {Row(i) : i \in A}
           f == [i \in A |-> Row(i)]
           n == Len(file)
           bad == Cardinality(DOMAIN file \ A)
           q == Imported(p, Parsed(source, file), Len(file))
<1>1. /\ A \subseteq 1..n /\ n \in Nat /\ IsFiniteSet(A) /\ Cardinality(A) \in Nat
      /\ bad \in Nat /\ Cardinality(A) + bad = n
      /\ \A i \in A : Adapted(source, file[i]).status \in Statuses
    BY FileParsed
<1>2. /\ p.lines \in Nat /\ p.ok \in Nat /\ p.quarantined \in Nat
      /\ p.imported \subseteq [line : Nat, task : Task]
    BY DEF Project
<1>3. ASSUME NEW i \in A
      PROVE  Row(i) \in [line : Nat, task : Task] /\ Row(i).line = p.lines + i
    <2>1. i \in 1..n
        BY <1>1
    <2>2. p.lines + i \in Nat
        BY <1>1, <1>2, <2>1
    <2>3. TasksOf(source, file)[i].status \in Statuses
        BY <1>1 DEF TasksOf
    <2> QED BY <2>2, <2>3 DEF ImportedRow, Task
<1> HIDE DEF Row
<1>4. N \subseteq [line : Nat, task : Task]
    BY <1>3
<1>5. \A r \in N : r.line > p.lines /\ r.line <= p.lines + n
    <2> SUFFICES ASSUME NEW i \in A PROVE Row(i).line > p.lines /\ Row(i).line <= p.lines + n
        OBVIOUS
    <2>1. i \in 1..n
        BY <1>1
    <2> QED BY <1>1, <1>2, <1>3, <2>1
<1>6. IsFiniteSet(N) /\ Cardinality(N) = Cardinality(A)
    <2>1. ASSUME NEW i \in A, NEW k \in A, Row(i) = Row(k) PROVE i = k
        <3>1. i \in 1..n /\ k \in 1..n
            BY <1>1
        <3>2. p.lines + i = p.lines + k
            BY <1>3, <2>1
        <3> QED BY <1>1, <1>2, <3>1, <3>2
    <2>2. f \in Bijection(A, N)
        <3>1. f \in [A -> N] /\ \A i \in A : f[i] = Row(i)
            OBVIOUS
        <3>2. \A r \in N : \E i \in A : f[i] = r
            OBVIOUS
        <3>3. \A i, k \in A : f[i] = f[k] => i = k
            BY <2>1, <3>1
        <3> HIDE DEF f, N
        <3> QED BY <3>1, <3>2, <3>3 DEF Bijection, Injection, Surjection, IsInjective
    <2>3. ExistsBijection(A, N)
        BY <2>2 DEF ExistsBijection
    <2> QED BY <1>1, <2>3, FS_Bijection
<1>7. p.imported \cap N = {}
    BY <1>2, <1>5 DEF ImportsCounted
<1> HIDE DEF N
<1>8. /\ IsFiniteSet(p.imported \cup N)
      /\ Cardinality(p.imported \cup N) = p.ok + Cardinality(A)
    <2>1. /\ IsFiniteSet(p.imported \cup N)
          /\ Cardinality(p.imported \cup N)
                 = Cardinality(p.imported) + Cardinality(N) - Cardinality(p.imported \cap N)
        BY <1>6, FS_Union DEF ImportsCounted
    <2>2. Cardinality(p.imported \cap N) = 0
        BY <1>7, FS_EmptySet
    <2> QED BY <1>1, <1>2, <1>6, <2>1, <2>2 DEF ImportsCounted
<1>9. q = [p EXCEPT !.imported = p.imported \cup N, !.ok = p.ok + Cardinality(A),
                    !.quarantined = p.quarantined + bad, !.lines = p.lines + n]
    <2> DEFINE P == Parsed(source, file)
               T == {ImportedRow(p.lines + i, P.tasks[i]) : i \in Taken(P)}
    <2>1. P.tasks = TasksOf(source, file) /\ P.ok = Cardinality(A) /\ P.quarantined = bad
        BY DEF Parsed
    <2>2. DOMAIN TasksOf(source, file) = A
        BY DEF TasksOf
    <2>3. Taken(P) = A
        BY <2>1, <2>2 DEF Aborts
    <2>4. T = N
        BY <2>1, <2>3 DEF N, Row
    <2>5. q = [p EXCEPT !.imported = p.imported \cup T, !.ok = p.ok + P.ok,
                        !.quarantined = p.quarantined + P.quarantined, !.lines = p.lines + n]
        BY DEF Imported
    <2> HIDE DEF T, P, q
    <2> QED BY <2>1, <2>4, <2>5
<1> HIDE DEF A, bad, n
<1>10. /\ q.imported = p.imported \cup N /\ q.ok = p.ok + Cardinality(A)
       /\ q.quarantined = p.quarantined + bad /\ q.lines = p.lines + n
       /\ q.from = p.from /\ q.template = p.template
    BY <1>9 DEF Project
<1>11. q \in Project
    <2>1. /\ p.ok + Cardinality(A) \in Nat /\ p.quarantined + bad \in Nat /\ p.lines + n \in Nat
          /\ p.imported \cup N \in SUBSET [line : Nat, task : Task]
        BY <1>1, <1>2, <1>4
    <2> QED BY <1>9, <2>1 DEF Project
<1>12. ImportsCounted(q)
    <2>1. p.ok + Cardinality(A) + (p.quarantined + bad) = p.lines + n
        BY <1>1, <1>2 DEF ImportsCounted
    <2>2. \A r \in p.imported \cup N : r.line <= p.lines + n
        BY <1>1, <1>2, <1>5 DEF ImportsCounted
    <2> HIDE DEF q
    <2> QED BY <1>8, <1>10, <2>1, <2>2 DEF ImportsCounted
<1> HIDE DEF q
<1> QED BY <1>10, <1>11, <1>12 DEF q, n

UsesOf(t) == {i \in DOMAIN project : project[i].from = "template" /\ project[i].template = t}

(* A use is counted at a version there is.                                  *)
CountsInv ==
    /\ \A i \in DOMAIN project :
           ImportsCounted(project[i]) /\ project[i].template <= Len(template)
    /\ \A t \in DOMAIN template : template[t].usage = Cardinality(UsesOf(t))

LEMMA FiniteUses ==
    ASSUME project \in Seq(Project), NEW t
    PROVE  IsFiniteSet(UsesOf(t)) /\ Cardinality(UsesOf(t)) \in Nat
<1>1. UsesOf(t) \subseteq 1..Len(project) /\ Len(project) \in Nat
    BY DEF UsesOf
<1>2. IsFiniteSet(1..Len(project))
    BY <1>1, FS_Interval
<1> QED BY <1>1, <1>2, FS_Subset, FS_CardinalityType

(* A project more is a use of its template.                                 *)
LEMMA UseCounted ==
    ASSUME TypeInv, CountsInv, NEW e \in Project, project' = Append(project, e),
           ImportsCounted(e), NEW m, m = Len(template), m \in Nat, e.template <= m,
           NEW used, used = (e.from = "template")
    PROVE  /\ project' \in Seq(Project)
           /\ \A i \in DOMAIN project' :
                  ImportsCounted(project'[i]) /\ project'[i].template <= m
           /\ \A t : Cardinality(UsesOf(t))' =
                  IF used /\ e.template = t THEN Cardinality(UsesOf(t)) + 1
                  ELSE Cardinality(UsesOf(t))
<1> DEFINE n == Len(project) + 1
<1>1. project \in Seq(Project) /\ Len(project) \in Nat /\ DOMAIN project = 1..Len(project)
    BY DEF TypeInv, TypeOK
<1>2. /\ project' \in Seq(Project) /\ Len(project') = n
      /\ (\A i \in 1..Len(project) : project'[i] = project[i]) /\ project'[n] = e
    BY <1>1, AppendProperties
<1>3. DOMAIN project' = DOMAIN project \cup {n} /\ n \notin DOMAIN project
    BY <1>1, <1>2
<1>4. \A i \in DOMAIN project : project'[i] = project[i]
    BY <1>1, <1>2
<1> HIDE DEF n
<1>5. ASSUME NEW t
      PROVE  Cardinality(UsesOf(t))' = IF used /\ e.template = t
                                       THEN Cardinality(UsesOf(t)) + 1
                                       ELSE Cardinality(UsesOf(t))
    <2>1. IsFiniteSet(UsesOf(t)) /\ n \notin UsesOf(t)
        BY <1>1, <1>3, FiniteUses DEF UsesOf
    <2>2. CASE used /\ e.template = t
        <3>1. UsesOf(t)' = UsesOf(t) \cup {n}
            BY <1>2, <1>3, <1>4, <2>2 DEF UsesOf
        <3> QED BY <2>1, <2>2, <3>1, FS_AddElement
    <2>3. CASE ~(used /\ e.template = t)
        <3>1. UsesOf(t)' = UsesOf(t)
            BY <1>2, <1>3, <1>4, <2>3 DEF UsesOf
        <3> QED BY <2>3, <3>1
    <2> QED BY <2>2, <2>3
<1>6. ASSUME NEW i \in DOMAIN project'
      PROVE  ImportsCounted(project'[i]) /\ project'[i].template <= m
    BY <1>2, <1>3, <1>4 DEF CountsInv
<1> QED BY <1>2, <1>5, <1>6

Counted(p) == p \in Project /\ ImportsCounted(p)

(* A project, with nothing imported yet.                                    *)
LEMMA NewCounted ==
    ASSUME NEW c \in Nat, NEW from \in Deals \cup {"template", "import"},
           NEW t \in TemplateIds, NEW tasks \in Seq(Task)
    PROVE  Counted(NewProject(c, from, t, tasks))
<1> DEFINE p == NewProject(c, from, t, tasks)
<1>1. p \in Project
    BY DEF NewProject, Project
<1>2. p.imported = {} /\ p.ok = 0 /\ p.quarantined = 0 /\ p.lines = 0
    BY DEF NewProject
<1>3. IsFiniteSet({}) /\ Cardinality({}) = 0
    BY FS_EmptySet
<1> HIDE DEF p
<1>4. ImportsCounted(p)
    BY <1>2, <1>3 DEF ImportsCounted
<1> QED BY <1>1, <1>4 DEF Counted, p

LEMMA SameCounts ==
    ASSUME CountsInv, UNCHANGED <<project, template>>
    PROVE  CountsInv'
<1>1. \A t : UsesOf(t)' = UsesOf(t)
    BY DEF UsesOf
<1> QED BY <1>1 DEF CountsInv

(* A project of no template leaves the uses as they were.                   *)
LEMMA UnusedTemplates ==
    ASSUME TypeInv, CountsInv, NEW e \in Project, ImportsCounted(e), e.template = 0,
           e.from # "template", project' = Append(project, e), template' = template
    PROVE  project' \in Seq(Project) /\ CountsInv'
<1> DEFINE used == e.from = "template"
           m == Len(template)
<1>1. m \in Nat /\ ~used /\ e.template <= m
    BY DEF TypeInv, TypeOK
<1>2. used = (e.from = "template") /\ m = Len(template)
    OBVIOUS
<1> HIDE DEF used, m
<1>3. /\ project' \in Seq(Project)
      /\ \A i \in DOMAIN project' :
             ImportsCounted(project'[i]) /\ project'[i].template <= m
      /\ \A t : Cardinality(UsesOf(t))' =
             IF used /\ e.template = t THEN Cardinality(UsesOf(t)) + 1
             ELSE Cardinality(UsesOf(t))
    BY <1>1, <1>2, UseCounted
<1>4. \A t : Cardinality(UsesOf(t))' = Cardinality(UsesOf(t))
    BY <1>1, <1>3
<1> QED BY <1>2, <1>3, <1>4 DEF CountsInv

LEMMA CountedCommit ==
    ASSUME TypeInv, CountsInv, NEW d \in Deals, Provisioned(d)
    PROVE  CountsInv'
<1> DEFINE c == IF job[d].found # 0 THEN job[d].found ELSE Len(customer) + 1
           e == NewProject(c, d, 0, <<>>)
<1>1. c \in Nat
    BY DEF TypeInv, TypeOK, Job
<1>2. /\ d # "template" /\ d \in Deals \cup {"template", "import"}
      /\ 0 \in TemplateIds /\ <<>> \in Seq(Task)
    BY DealsAssumption, BoundsAssumption DEF TemplateIds
<1>3. project' = Append(project, e) /\ template' = template
    BY DEF Provisioned
<1> HIDE DEF c
<1>4. e \in Project /\ ImportsCounted(e) /\ e.from = d /\ e.template = 0
    <2>1. Counted(e)
        BY <1>1, <1>2, NewCounted
    <2>2. e.from = d /\ e.template = 0
        BY DEF NewProject
    <2> QED BY <2>1, <2>2 DEF Counted
<1> HIDE DEF e
<1> QED BY <1>2, <1>3, <1>4, UnusedTemplates

LEMMA CountedImport ==
    ASSUME TypeInv, CountsInv, NEW i, NEW c, NEW source \in Sources, NEW file \in Files,
           Import(i, c, source, file)
    PROVE  project' \in Seq(Project) /\ CountsInv'
<1> DEFINE empty == NewProject(c, "import", 0, <<>>)
           new == Imported(empty, Parsed(source, file), Len(file))
           more == Imported(project[i], Parsed(source, file), Len(file))
<1>1. /\ template' = template /\ project \in Seq(Project) /\ DOMAIN customer \subseteq Nat
      /\ ~Aborts(Parsed(source, file))
    BY DEF Import, TypeInv, TypeOK
<1>2. \/ c \in DOMAIN customer /\ project' = Append(project, new)
      \/ i \in DOMAIN project /\ project' = [project EXCEPT ![i] = more]
    BY DEF Import
<1>3. CASE c \in DOMAIN customer /\ project' = Append(project, new)
    <2>1. 0 \in TemplateIds /\ <<>> \in Seq(Task) /\ c \in Nat
          /\ "import" \in Deals \cup {"template", "import"}
        BY <1>1, <1>3, BoundsAssumption DEF TemplateIds
    <2>2. empty \in Project /\ ImportsCounted(empty) /\ empty.from = "import"
          /\ empty.template = 0
        <3>1. Counted(empty)
            BY <2>1, NewCounted
        <3>2. empty.from = "import" /\ empty.template = 0
            BY DEF NewProject
        <3> QED BY <3>1, <3>2 DEF Counted
    <2> HIDE DEF empty
    <2>3. new \in Project /\ ImportsCounted(new) /\ new.from = "import" /\ new.template = 0
        BY <1>1, <2>2, FileImported
    <2> HIDE DEF new
    <2> QED BY <1>1, <1>3, <2>3, UnusedTemplates
<1>4. CASE i \in DOMAIN project /\ project' = [project EXCEPT ![i] = more]
    <2>1. project[i] \in Project /\ ImportsCounted(project[i])
        BY <1>1, <1>4 DEF CountsInv
    <2>2. more \in Project /\ ImportsCounted(more) /\ more.from = project[i].from
          /\ more.template = project[i].template
        BY <1>1, <2>1, FileImported
    <2> HIDE DEF more
    <2>3. project' \in Seq(Project)
        BY <1>1, <1>4, <2>2, RowOf
    <2>4. DOMAIN project' = DOMAIN project
          /\ \A k \in DOMAIN project : project'[k] = IF k = i THEN more ELSE project[k]
        BY <1>4
    <2>5. \A t : UsesOf(t)' = UsesOf(t)
        BY <2>2, <2>4 DEF UsesOf
    <2>6. ASSUME NEW k \in DOMAIN project'
          PROVE  ImportsCounted(project'[k]) /\ project'[k].template <= Len(template)
        BY <1>4, <2>2, <2>4 DEF CountsInv
    <2> QED BY <1>1, <2>3, <2>5, <2>6 DEF CountsInv
<1> QED BY <1>2, <1>3, <1>4

(* A row more of templates has no use yet.                                  *)
LEMMA TemplateAdded ==
    ASSUME TypeInv, CountsInv, NEW rows \in Seq(Template), Len(rows) = Len(template),
           \A t \in DOMAIN template : rows[t].usage = template[t].usage,
           NEW e \in Template, e.usage = 0, template' = Append(rows, e), project' = project
    PROVE  template' \in Seq(Template) /\ CountsInv'
<1> DEFINE n == Len(template) + 1
<1>1. /\ project \in Seq(Project) /\ Len(template) \in Nat
      /\ DOMAIN template = 1..Len(template) /\ DOMAIN rows = 1..Len(template)
    BY DEF TypeInv, TypeOK
<1>2. /\ template' \in Seq(Template) /\ Len(template') = n
      /\ (\A t \in 1..Len(template) : template'[t] = rows[t]) /\ template'[n] = e
    BY AppendProperties
<1>3. \A t : UsesOf(t)' = UsesOf(t)
    BY DEF UsesOf
<1>4. \A i \in DOMAIN project : project[i].template \in Nat
    <2>1. \A i \in DOMAIN project : project[i] \in Project
        BY <1>1
    <2> QED BY <2>1, BoundsAssumption DEF Project, TemplateIds
<1>5. UsesOf(n) = {}
    BY <1>1, <1>4 DEF UsesOf, CountsInv
<1>6. ASSUME NEW t \in DOMAIN template'
      PROVE  template'[t].usage = Cardinality(UsesOf(t))
    <2>1. CASE t = n
        BY <1>2, <1>5, <2>1, FS_EmptySet
    <2>2. CASE t \in DOMAIN template
        BY <1>1, <1>2, <2>2 DEF CountsInv
    <2>3. t = n \/ t \in DOMAIN template
        BY <1>1, <1>2
    <2> QED BY <2>1, <2>2, <2>3
<1>7. \A i \in DOMAIN project : project[i].template <= Len(template')
    BY <1>1, <1>2, <1>4 DEF CountsInv
<1> QED BY <1>2, <1>3, <1>6, <1>7 DEF CountsInv

LEMMA CountedTemplate ==
    ASSUME TypeInv, CountsInv,
           \/ \E content \in Contents : CreateTemplate(content)
           \/ \E t : NewTemplateVersion(t)
    PROVE  template' \in Seq(Template) /\ CountsInv'
<1>1. template \in Seq(Template) /\ Len(template) \in Nat /\ MaxTemplates \in Nat
    BY BoundsAssumption DEF TypeInv, TypeOK
<1>2. CASE \E content \in Contents : CreateTemplate(content)
    <2> PICK content \in Contents : CreateTemplate(content)
        BY <1>2
    <2> DEFINE e == [content |-> content, lineage |-> Len(template) + 1, version |-> 0,
                     active |-> TRUE, usage |-> 0]
    <2>1. template' = Append(template, e) /\ project' = project
          /\ Len(template) + 1 \in TemplateIds
        BY <1>1 DEF CreateTemplate, TemplateIds
    <2>2. e \in Template /\ e.usage = 0
        BY <2>1 DEF Template
    <2> HIDE DEF e
    <2> QED BY <1>1, <2>1, <2>2, TemplateAdded
<1>3. CASE \E t : NewTemplateVersion(t)
    <2> PICK t : NewTemplateVersion(t)
        BY <1>3
    <2> DEFINE old == [template[t] EXCEPT !.active = FALSE]
               e == [template[t] EXCEPT !.version = template[t].version + 1,
                                        !.active = TRUE, !.usage = 0]
               rows == [template EXCEPT ![t] = old]
    <2>1. t \in DOMAIN template /\ template[t] \in Template
        <3>1. t \in DOMAIN template
            BY Zenon DEF NewTemplateVersion
        <3> QED BY <1>1, <3>1
    <2>2. template' = Append(rows, e) /\ project' = project
        BY DEF NewTemplateVersion
    <2>3. old \in Template /\ old.usage = template[t].usage
        BY <2>1 DEF Template
    <2>4. e \in Template /\ e.usage = 0
        <3>1. template[t].version + 1 \in Nat
            BY <2>1 DEF Template
        <3> QED BY <2>1, <3>1 DEF Template
    <2> HIDE DEF old, e
    <2>5. rows \in Seq(Template)
        BY <1>1, <2>1, <2>3, RowOf
    <2>6. Len(rows) = Len(template)
        BY <1>1, <2>1, <2>5
    <2>7. \A u \in DOMAIN template : rows[u].usage = template[u].usage
        BY <2>1, <2>3
    <2> HIDE DEF rows
    <2> QED BY <2>2, <2>4, <2>5, <2>6, <2>7, TemplateAdded
<1> QED BY <1>2, <1>3

LEMMA CountedUse ==
    ASSUME TypeInv, CountsInv, NEW t \in TemplateIds, NEW c, CreateFromTemplate(t, c)
    PROVE  project' \in Seq(Project) /\ template' \in Seq(Template) /\ CountsInv'
<1> DEFINE tasks == [i \in DOMAIN template[t].content |-> TaskOf(template[t].content[i])]
           e == NewProject(c, "template", t, tasks)
           counted == [template[t] EXCEPT !.usage = template[t].usage + 1]
           m == Len(template)
           used == e.from = "template"
<1>1. /\ template \in Seq(Template) /\ m \in Nat /\ t \in DOMAIN template
      /\ DOMAIN template = 1..m /\ DOMAIN customer \subseteq Nat /\ c \in DOMAIN customer
    BY DEF TypeInv, TypeOK, CreateFromTemplate
<1>2. template[t] \in Template
    BY <1>1
<1>3. tasks \in Seq(Task)
    <2>1. template[t].content \in Seq([required : BOOLEAN, visible : BOOLEAN])
        BY <1>2, FilesAssumption DEF Template
    <2>2. \A x \in [required : BOOLEAN, visible : BOOLEAN] : TaskOf(x) \in Task
        BY DEF TaskOf, Task, Statuses
    <2>3. tasks \in [1..Len(template[t].content) -> Task] /\ Len(template[t].content) \in Nat
        <3> DEFINE content == template[t].content
               Flags == [required : BOOLEAN, visible : BOOLEAN]
        <3>0. content \in Seq(Flags)
            BY <2>1
        <3> HIDE DEF content, Flags
        <3>1. Len(content) \in Nat /\ DOMAIN content = 1..Len(content)
              /\ \A i \in 1..Len(content) : content[i] \in Flags
            BY <3>0
        <3>2. [i \in DOMAIN content |-> TaskOf(content[i])] \in [1..Len(content) -> Task]
            BY <2>2, <3>1 DEF Flags
        <3> QED BY <3>1, <3>2 DEF content
    <2> HIDE DEF tasks
    <2> QED BY <2>3, SeqDef
<1>4. project' = Append(project, e) /\ template' = [template EXCEPT ![t] = counted]
    BY DEF CreateFromTemplate
<1> HIDE DEF tasks
<1>5. e \in Project /\ ImportsCounted(e) /\ e.from = "template" /\ e.template = t
    <2>1. c \in Nat /\ "template" \in Deals \cup {"template", "import"}
        BY <1>1
    <2>2. Counted(e)
        BY <1>3, <2>1, NewCounted
    <2>3. e.from = "template" /\ e.template = t
        BY DEF NewProject
    <2> QED BY <2>2, <2>3 DEF Counted
<1>6. counted \in Template /\ counted.usage = template[t].usage + 1
    <2>1. template[t].usage + 1 \in Nat
        BY <1>2 DEF Template
    <2> QED BY <1>2, <2>1 DEF Template
<1>7. used /\ used = (e.from = "template") /\ e.template <= m /\ m = Len(template)
    BY <1>1, <1>5
<1> HIDE DEF e, counted, used, m
<1>8. /\ project' \in Seq(Project)
      /\ \A i \in DOMAIN project' : ImportsCounted(project'[i]) /\ project'[i].template <= m
      /\ \A u : Cardinality(UsesOf(u))' =
             IF used /\ e.template = u THEN Cardinality(UsesOf(u)) + 1
             ELSE Cardinality(UsesOf(u))
    BY <1>1, <1>4, <1>5, <1>7, UseCounted
<1>9. /\ template' \in Seq(Template) /\ Len(template') = m
      /\ DOMAIN template' = DOMAIN template
      /\ \A u \in DOMAIN template : template'[u] = IF u = t THEN counted ELSE template[u]
    BY <1>1, <1>4, <1>6, <1>7, RowOf
<1>10. ASSUME NEW u \in DOMAIN template
       PROVE  template'[u].usage = Cardinality(UsesOf(u))'
    <2>1. template[u].usage = Cardinality(UsesOf(u))
        BY DEF CountsInv
    <2>2. CASE u = t
        BY <1>5, <1>6, <1>7, <1>8, <1>9, <2>1, <2>2
    <2>3. CASE u # t
        BY <1>5, <1>8, <1>9, <2>1, <2>3
    <2> QED BY <2>2, <2>3
<1> QED BY <1>8, <1>9, <1>10 DEF CountsInv

LEMMA CountsInit == Init => TypeInv /\ CountsInv
<1> SUFFICES ASSUME Init PROVE TypeInv /\ CountsInv
    OBVIOUS
<1>1. /\ secret = [p \in Providers |-> None] /\ logged = {} /\ project = <<>>
      /\ template = <<>> /\ mishaps = 0 /\ job = [d \in Deals |-> NoJob]
      /\ customer = <<>> \/ \E a \in Accounts : customer = <<[name |-> a, raced |-> FALSE]>>
    BY DEF Init
<1>2. 0 \in Nat /\ 0 \in 0..MaxAttempts /\ 0 \in 0..MaxMishaps
    BY BoundsAssumption
<1>3. NoJob \in Job /\ NoJob.at = "none" /\ NoJob.again = 0
    BY <1>2 DEF NoJob, Job
<1>4. customer \in Seq(Customer)
    <2>1. CASE customer = <<>>
        BY <2>1
    <2>2. CASE \E a \in Accounts : customer = <<[name |-> a, raced |-> FALSE]>>
        <3> PICK a \in Accounts : customer = <<[name |-> a, raced |-> FALSE]>>
            BY <2>2
        <3> DEFINE r == [name |-> a, raced |-> FALSE]
        <3>1. r \in Customer
            BY DEF Customer
        <3> HIDE DEF r
        <3>2. <<r>> \in Seq(Customer)
            BY <3>1
        <3> QED BY <3>2 DEF r
    <2> QED BY <1>1, <2>1, <2>2
<1>5. TypeInv
    <2>1. \A d \in Deals : job[d].at # "available" /\ job[d].again <= mishaps
        BY <1>1, <1>3
    <2>2. TypeOK
        <3>1. project \in Seq(Project) /\ template \in Seq(Template)
            BY <1>1
        <3>2. job \in [Deals -> Job]
            BY <1>1, <1>3
        <3>3. mishaps \in 0..MaxMishaps /\ logged \subseteq Deals
            BY <1>1, <1>2
        <3> QED BY <1>1, <1>4, <3>1, <3>2, <3>3 DEF TypeOK
    <2> QED BY <2>1, <2>2 DEF TypeInv
<1>6. CountsInv
    BY <1>1 DEF CountsInv
<1> QED BY <1>5, <1>6

LEMMA CountsNext == TypeInv /\ CountsInv /\ [Next]_vars => TypeInv' /\ CountsInv'
<1> SUFFICES ASSUME TypeInv, CountsInv, [Next]_vars PROVE TypeInv' /\ CountsInv'
    OBVIOUS
<1>1. CASE UNCHANGED vars
    <2>1. UNCHANGED <<secret, logged, job, customer, project, template, mishaps>>
        BY <1>1 DEF vars
    <2> QED BY <2>1, SameCounts DEF TypeInv, TypeOK
<1>2. CASE \E s \in Secrets : PutSFSettings(s) \/ PutHSSettings(s)
    <2>1. /\ secret' \in [Providers -> Secrets \cup {None}]
          /\ UNCHANGED <<logged, job, customer, project, template, mishaps>>
        BY <1>2 DEF PutSFSettings, PutHSSettings, PutSettings, TypeInv, TypeOK
    <2> QED BY <2>1, SameCounts, TypedStaff DEF TypeInv, TypeOK
<1>3. CASE \E d \in Deals, sig \in Secrets : SfWebhook(d, sig) \/ HsWebhook(d, sig)
    <2>1. PICK d \in Deals : \E sig : Deliver(d, sig)
        BY <1>3 DEF SfWebhook, HsWebhook
    <2>2. UNCHANGED <<project, template>>
        BY <2>1 DEF Deliver
    <2> QED BY <2>1, <2>2, TypedJob, SameCounts
<1>4. CASE \E d \in Deals : Works(d) \/ Fail(d) \/ CommitUnheard(d) \/ NotNoted(d)
    <2>1. PICK d \in Deals : \/ Start(d) \/ Commit(d) \/ Complete(d) \/ Rescue(d) \/ Fail(d)
                             \/ CommitUnheard(d) \/ NotNoted(d)
        BY <1>4 DEF Works, SFProjectCreate, HSProjectCreate
    <2>2. CASE Commit(d) \/ CommitUnheard(d)
        <3>1. Provisioned(d)
            BY <2>2 DEF Commit, CommitUnheard
        <3> QED BY <2>2, <3>1, TypedCommit, CountedCommit
    <2>3. CASE Start(d) \/ Complete(d) \/ Rescue(d) \/ Fail(d)
        <3>1. UNCHANGED <<project, template>>
            BY <2>3 DEF Start, Complete, Rescue, Fail
        <3> QED BY <2>3, <3>1, TypedJob, SameCounts
    <2>4. CASE NotNoted(d)
        <3>1. UNCHANGED <<project, template>>
            BY <2>4 DEF NotNoted
        <3> QED BY <2>4, <3>1, TypedNotNoted, SameCounts
    <2> QED BY <2>1, <2>2, <2>3, <2>4
<1>5. CASE Crash
    <2>1. UNCHANGED <<project, template>>
        BY <1>5 DEF Crash
    <2> QED BY <1>5, <2>1, TypedCrash, SameCounts
<1>6. CASE (\E content \in Contents : CreateTemplate(content))
               \/ \E t \in TemplateIds : NewTemplateVersion(t)
    <2>1. template' \in Seq(Template) /\ CountsInv'
        BY <1>6, CountedTemplate
    <2>2. UNCHANGED <<secret, logged, job, customer, project, mishaps>>
        BY <1>6 DEF CreateTemplate, NewTemplateVersion
    <2> QED BY <2>1, <2>2, TypedStaff DEF TypeInv, TypeOK
<1>7. CASE \E t \in TemplateIds, c \in DOMAIN customer : CreateFromTemplate(t, c)
    <2> PICK t \in TemplateIds, c \in DOMAIN customer : CreateFromTemplate(t, c)
        BY <1>7
    <2>1. project' \in Seq(Project) /\ template' \in Seq(Template) /\ CountsInv'
        BY CountedUse
    <2>2. UNCHANGED <<secret, logged, job, customer, mishaps>>
        BY DEF CreateFromTemplate
    <2> QED BY <2>1, <2>2, TypedStaff DEF TypeInv, TypeOK
<1>8. CASE \E i \in 0..Len(project), c \in DOMAIN customer, source \in Sources, file \in Files :
              Import(i, c, source, file)
    <2> PICK i \in 0..Len(project), c \in DOMAIN customer, source \in Sources,
             file \in Files : Import(i, c, source, file)
        BY <1>8
    <2>1. project' \in Seq(Project) /\ CountsInv'
        BY CountedImport
    <2>2. UNCHANGED <<secret, logged, job, customer, template, mishaps>>
        BY DEF Import
    <2> QED BY <2>1, <2>2, TypedStaff DEF TypeInv, TypeOK
<1> QED BY <1>1, <1>2, <1>3, <1>4, <1>5, <1>6, <1>7, <1>8 DEF Next

(* Rows keep their types, a job is run no more often than River tries it,   *)
(* and a run that committed is lost only by a mishap (main.go:660-760).     *)
THEOREM ProvisioningTyped == Spec => []TypeOK
<1>1. TypeInv => TypeOK
    BY DEF TypeInv
<1> QED BY <1>1, CountsInit, CountsNext, PTL DEF Spec

(* usage_count is the number of projects of this very version, and the audit*)
(* rows of the imports tell of every line once (templates.go:211-219, 322,  *)
(* imports.go:126-131).                                                     *)
THEOREM CountsKept == Spec => []CountsAgree
<1>1. CountsInv => CountsAgree
    BY DEF CountsInv, CountsAgree, UsesOf, ImportsCounted
<1> QED BY <1>1, CountsInit, CountsNext, PTL DEF Spec

-----------------------------------------------------------------------------
(* The migration agent: the mapping, of which fields come in an order, so   *)
(* that a later one takes the column of an earlier.                         *)

LEMMA Least ==
    ASSUME NEW S \in SUBSET Nat, S # {}
    PROVE  \E n \in S : \A m \in S : n <= m
<1>1. PICK n \in S : \A m \in S : ~ (<<m, n>> \in OpToRel(<, Nat))
    BY NatLessThanWellFounded, WFMin
<1>2. \A m \in S : ~(m < n)
    BY <1>1 DEF OpToRel
<1> QED BY <1>2

LEMMA Greatest ==
    ASSUME NEW N \in Nat, NEW S \in SUBSET (1..N), S # {}
    PROVE  Max(S) \in S
<1> DEFINE T == {N - n : n \in S}
<1>1. \A n \in S : N - n \in Nat
    <2> SUFFICES ASSUME NEW n \in S PROVE N - n \in Nat
        OBVIOUS
    <2>1. n \in 1..N
        OBVIOUS
    <2> QED BY <2>1
<1>2. T \in SUBSET Nat /\ T # {}
    BY <1>1
<1>3. PICK t \in T : \A u \in T : t <= u
    BY <1>2, Least
<1>4. PICK n \in S : t = N - n
    BY <1>3
<1>5. ASSUME NEW m \in S PROVE n >= m
    <2>1. t <= N - m
        BY <1>3
    <2>2. m \in 1..N /\ n \in 1..N
        OBVIOUS
    <2> QED BY <1>4, <2>1, <2>2
<1> QED BY <1>5 DEF Max

(* A column goes to the last of the fields that were given it.              *)
LEMMA ColumnsPicked ==
    ASSUME NEW D \in SUBSET Fields, NEW pick \in [D -> Names]
    PROVE  /\ DOMAIN ColumnsOf(pick) = {pick[f] : f \in D}
           /\ \A n \in DOMAIN ColumnsOf(pick) :
                  /\ ColumnsOf(pick)[n] \in D
                  /\ pick[ColumnsOf(pick)[n]] = n
<1>1. DOMAIN ColumnsOf(pick) = {pick[f] : f \in D}
    BY DEF ColumnsOf, Range
<1>2. Len(FieldName) \in Nat /\ Fields = 1..Len(FieldName)
    BY NamesAssumption DEF Fields
<1>3. ASSUME NEW n \in DOMAIN ColumnsOf(pick)
      PROVE  ColumnsOf(pick)[n] \in D /\ pick[ColumnsOf(pick)[n]] = n
    <2> DEFINE S == {f \in D : pick[f] = n}
    <2>1. S \in SUBSET (1..Len(FieldName)) /\ S # {}
        BY <1>1, <1>2
    <2>2. Max(S) \in S
        BY <1>2, <2>1, Greatest
    <2>3. ColumnsOf(pick)[n] = Max(S)
        BY <1>1 DEF ColumnsOf, Range
    <2> QED BY <2>2, <2>3
<1> QED BY <1>1, <1>3

(* A guess and an answer never share a field, whatever was picked.          *)
LEMMA MappingKept ==
    ASSUME NEW file \in Uploads, NEW answer, NEW columns \in Mappings(file, answer)
    PROVE  /\ \A m, n \in DOMAIN columns : columns[m] = columns[n] => m = n
           /\ \A n \in DOMAIN columns : LowerOf[n] \in Known(file)
<1> DEFINE offered == [f \in Fields |-> Offered(file, answer, f)]
           guessed == [f \in Fields |-> Guessed(file, f)]
<1>1. PICK taken \in Picks(offered), guess \in Picks(guessed) :
          columns = WrittenOver(ColumnsOf(guess), ColumnsOf(taken))
    BY DEF Mappings
<1> DEFINE T == {f \in Fields : Offered(file, answer, f) # {}}
           G == {f \in Fields : Guessed(file, f) # {}}
           ct == ColumnsOf(taken)
           cg == ColumnsOf(guess)
<1>2. /\ taken \in [T -> Names]
      /\ \A f \in T : taken[f] \in Offered(file, answer, f)
    BY DEF Picks
<1>3. /\ guess \in [G -> Names]
      /\ \A f \in G : guess[f] \in Guessed(file, f)
    BY DEF Picks
<1>4. T \in SUBSET Fields /\ G \in SUBSET Fields /\ \A f \in T : f \notin G
    BY DEF Offered
<1>5. \A n \in DOMAIN ct : ct[n] \in T /\ taken[ct[n]] = n
    BY <1>2, <1>4, ColumnsPicked
<1>6. \A n \in DOMAIN cg : cg[n] \in G /\ guess[cg[n]] = n
    BY <1>3, <1>4, ColumnsPicked
<1>7. columns = [n \in DOMAIN cg \cup DOMAIN ct |-> IF n \in DOMAIN ct THEN ct[n] ELSE cg[n]]
    BY <1>1 DEF WrittenOver
<1>8. \A n \in Names, f \in Fields : n \in Offered(file, answer, f) => LowerOf[n] \in Known(file)
    BY DEF Offered
<1>9. \A n \in Names, f \in Fields : n \in Guessed(file, f) => LowerOf[n] \in Known(file)
    <2> SUFFICES ASSUME NEW n \in Names, NEW f \in Fields, n \in Guessed(file, f)
                 PROVE  LowerOf[n] \in Known(file)
        OBVIOUS
    <2>1. CASE n \in file.headers
        BY <2>1 DEF Known
    <2>2. CASE n \in Known(file)
        <3>1. PICK h \in file.headers : n = LowerOf[h]
            BY <2>2 DEF Known
        <3>2. h \in Names
            BY UploadsAssumption
        <3>3. LowerOf[n] = n
            BY <3>1, <3>2, NamesAssumption
        <3> QED BY <2>2, <3>3
    <2> QED BY <2>1, <2>2 DEF Guessed
<1> HIDE DEF T, G, ct, cg, offered, guessed
<1>10. \A n \in DOMAIN columns :
           IF n \in DOMAIN ct THEN columns[n] = ct[n] ELSE n \in DOMAIN cg /\ columns[n] = cg[n]
    BY <1>7
<1>11. ASSUME NEW m \in DOMAIN columns, NEW n \in DOMAIN columns, columns[m] = columns[n]
       PROVE  m = n
    BY <1>4, <1>5, <1>6, <1>10, <1>11
<1>12. ASSUME NEW n \in DOMAIN columns PROVE LowerOf[n] \in Known(file)
    <2>1. CASE n \in DOMAIN ct
        BY <1>2, <1>4, <1>5, <1>8, <2>1
    <2>2. CASE n \in DOMAIN cg
        BY <1>3, <1>4, <1>6, <1>9, <2>2
    <2> QED BY <1>10, <2>1, <2>2
<1> QED BY <1>11, <1>12

(* What of a cell may begin with a sigil.                                   *)
LEMMA CellSafe ==
    ASSUME NEW v, NEW kind, NEW transforms, CellOut(v, kind, transforms) \in Sigiled
    PROVE  /\ kind = "phone" /\ "phone_e164" \in transforms
           /\ CellOut(v, kind, transforms) # "formula"
<1>1. ASSUME NEW w PROVE SanitizeFormula(w) \notin Sigiled
    BY DEF SanitizeFormula, Sigiled, Quoted
<1>2. CASE kind = "phone" /\ "phone_e164" \in transforms
    BY <1>2 DEF CellOut, PhoneE164, Sigiled
<1>3. CASE ~(kind = "phone" /\ "phone_e164" \in transforms)
    BY <1>1, <1>3 DEF CellOut
<1> QED BY <1>2, <1>3

-----------------------------------------------------------------------------
(* What becomes of the lines of a file.                                     *)

Outs == [i \in DOMAIN run.file.records |-> RowOut(run.file, run.columns, run.transforms, i)]
Repeated(i) == "dedupe" \in run.transforms /\ Seen(Outs, i)
Bad == {i \in DOMAIN Outs : Outs[i].errors # {} \/ Repeated(i)}

(* A run is what was made of a file and an answer, and only that.           *)
MigrationInv ==
    run # NoRun =>
        /\ run = [st |-> run.st, file |-> run.file, columns |-> run.columns,
                  transforms |-> run.transforms, preview |-> run.preview,
                  result |-> run.result, quarantine |-> run.quarantine]
        /\ run.file \in Uploads
        /\ \E answer \in Answers : run.columns \in Mappings(run.file, answer)
        /\ "sanitize_formula" \in run.transforms
        /\ run.preview = BuildPreview(run.file, run.columns, run.transforms)
        /\ run.st = "done" =>
               /\ run.result = [i \in DOMAIN Outs \ Bad |-> Outs[i].row]
               /\ run.quarantine = [i \in Bad |->
                      [cells |-> Outs[i].errors, duplicate |-> Repeated(i)]]

LEMMA MigrationKept == MigrationInv /\ [MigrationNext]_run => MigrationInv'
<1> SUFFICES ASSUME MigrationInv, [MigrationNext]_run PROVE MigrationInv'
    OBVIOUS
<1>1. CASE UNCHANGED run
    <2>1. run' = run
        BY <1>1
    <2>2. Outs' = Outs
        BY <2>1 DEF Outs
    <2>3. Bad' = Bad /\ \A i : Repeated(i)' = Repeated(i)
        BY <2>1, <2>2 DEF Bad, Repeated
    <2> QED BY <2>1, <2>2, <2>3 DEF MigrationInv
<1>2. CASE DeleteMigration
    BY <1>2 DEF MigrationInv, DeleteMigration
<1>3. CASE \E file \in Uploads, answer \in Answers : MigrationSuggest(file, answer)
    <2> PICK file \in Uploads, answer \in Answers : MigrationSuggest(file, answer)
        BY <1>3
    <2> DEFINE transforms == TransformsOf(answer)
    <2>1. PICK columns \in Mappings(file, answer) :
              run' = [st |-> "draft", file |-> file, columns |-> columns,
                      transforms |-> transforms,
                      preview |-> BuildPreview(file, columns, transforms),
                      result |-> <<>>, quarantine |-> <<>>]
        BY DEF MigrationSuggest
    <2>2. "sanitize_formula" \in transforms
        BY DEF TransformsOf
    <2> HIDE DEF transforms
    <2> QED BY <2>1, <2>2 DEF MigrationInv
<1>4. CASE MigrationApprove
    <2>1. run # NoRun /\ run.st = "draft"
        BY <1>4 DEF MigrationApprove, NoRun
    <2>2. run' = [run EXCEPT !.st = "done",
                     !.result = [i \in DOMAIN Outs \ Bad |-> Outs[i].row],
                     !.quarantine = [i \in Bad |->
                         [cells |-> Outs[i].errors, duplicate |-> Repeated(i)]]]
        BY <1>4 DEF MigrationApprove, Outs, Repeated, Bad
    <2>3. /\ run'.file = run.file /\ run'.columns = run.columns
          /\ run'.transforms = run.transforms /\ run'.preview = run.preview
          /\ run'.result = [i \in DOMAIN Outs \ Bad |-> Outs[i].row]
          /\ run'.quarantine = [i \in Bad |->
                 [cells |-> Outs[i].errors, duplicate |-> Repeated(i)]]
          /\ run' = [st |-> run'.st, file |-> run'.file, columns |-> run'.columns,
                     transforms |-> run'.transforms, preview |-> run'.preview,
                     result |-> run'.result, quarantine |-> run'.quarantine]
        BY <2>1, <2>2 DEF MigrationInv
    <2>4. Outs' = Outs
        BY <2>3 DEF Outs
    <2>5. Bad' = Bad /\ \A i : Repeated(i)' = Repeated(i)
        BY <2>3, <2>4 DEF Bad, Repeated
    <2> QED BY <2>1, <2>3, <2>4, <2>5 DEF MigrationInv
<1> QED BY <1>1, <1>2, <1>3, <1>4 DEF MigrationNext

(* The first of the rows that are the same is in the result.                *)
LEMMA FirstKept ==
    ASSUME MigrationInv, run # NoRun, NEW i \in DOMAIN Outs, Repeated(i)
    PROVE  \E j \in DOMAIN Outs \ Bad : j < i /\ Outs[j].row = Outs[i].row
<1> DEFINE T == {j \in 1..(i - 1) : Outs[j].row = Outs[i].row /\ Outs[j].errors = {}}
<1>1. Len(run.file.records) \in Nat /\ DOMAIN Outs = 1..Len(run.file.records)
    BY UploadsAssumption DEF MigrationInv, Outs
<1>2. T # {}
    BY DEF Repeated, Seen
<1>3. T \in SUBSET Nat /\ \A j \in T : j < i /\ j \in DOMAIN Outs
    BY <1>1
<1>4. PICK j \in T : \A k \in T : j <= k
    BY <1>2, <1>3, Least
<1>5. ASSUME Seen(Outs, j) PROVE FALSE
    <2>1. PICK k \in 1..(j - 1) : Outs[k].row = Outs[j].row /\ Outs[k].errors = {}
        BY <1>5 DEF Seen
    <2>2. k \in T
        BY <1>1, <1>3, <1>4, <2>1
    <2>3. j <= k
        BY <1>4, <2>2
    <2> QED BY <1>1, <1>3, <1>4, <2>1, <2>3
<1>6. j \notin Bad
    BY <1>5 DEF Bad, Repeated
<1> QED BY <1>3, <1>6

LEMMA PreviewOuts ==
    ASSUME MigrationInv, run # NoRun, NEW i \in DOMAIN run.preview
    PROVE  i \in DOMAIN Outs /\ run.preview[i] = Outs[i]
<1>1. Len(run.file.records) \in Nat /\ DOMAIN Outs = 1..Len(run.file.records)
    BY UploadsAssumption DEF MigrationInv, Outs
<1>2. run.preview = BuildPreview(run.file, run.columns, run.transforms)
    BY DEF MigrationInv
<1>3. i \in DOMAIN Outs
    BY <1>1, <1>2, NamesAssumption DEF BuildPreview
<1> QED BY <1>2, <1>3 DEF BuildPreview, Outs

LEMMA MigrationSound ==
    ASSUME MigrationInv
    PROVE  MappingSound /\ EveryRowOnce /\ PreviewTells /\ CellsSafe
<1>1. MappingSound
    <2> SUFFICES ASSUME run # NoRun
                 PROVE  /\ \A m, n \in DOMAIN run.columns :
                               run.columns[m] = run.columns[n] => m = n
                        /\ \A n \in DOMAIN run.columns : LowerOf[n] \in Known(run.file)
                        /\ "sanitize_formula" \in run.transforms
        BY DEF MappingSound
    <2> QED BY MappingKept DEF MigrationInv
<1>2. CASE run.st # "done"
    BY <1>1, <1>2 DEF EveryRowOnce, PreviewTells, CellsSafe
<1>3. CASE run.st = "done"
    <2>1. run # NoRun
        BY <1>3 DEF NoRun
    <2>2. /\ run.result = [i \in DOMAIN Outs \ Bad |-> Outs[i].row]
          /\ run.quarantine = [i \in Bad |->
                 [cells |-> Outs[i].errors, duplicate |-> Repeated(i)]]
        BY <1>3, <2>1 DEF MigrationInv
    <2>3. Len(run.file.records) \in Nat /\ DOMAIN Outs = 1..Len(run.file.records)
          /\ DOMAIN Outs = DOMAIN run.file.records
        BY <2>1, UploadsAssumption DEF MigrationInv, Outs
    <2>4. Bad \subseteq DOMAIN Outs
        BY DEF Bad
    <2>5. EveryRowOnce
        <3>1. ASSUME "dedupe" \in run.transforms,
                     NEW a \in DOMAIN run.result, NEW b \in DOMAIN run.result,
                     run.result[a] = run.result[b], a < b
              PROVE  FALSE
            <4>1. a \in DOMAIN Outs /\ b \in DOMAIN Outs /\ a \notin Bad /\ b \notin Bad
                  /\ Outs[a].row = Outs[b].row
                BY <2>2, <3>1
            <4>2. Outs[a].errors = {}
                BY <4>1 DEF Bad
            <4>3. a \in 1..(b - 1)
                BY <2>3, <3>1, <4>1
            <4>4. Seen(Outs, b)
                BY <4>1, <4>2, <4>3 DEF Seen
            <4> QED BY <3>1, <4>1, <4>4 DEF Bad, Repeated
        <3>2. "dedupe" \in run.transforms => IsInjective(run.result)
            <4> SUFFICES ASSUME "dedupe" \in run.transforms,
                                NEW a \in DOMAIN run.result, NEW b \in DOMAIN run.result,
                                run.result[a] = run.result[b]
                         PROVE  a = b
                BY DEF IsInjective
            <4>1. a \in 1..Len(run.file.records) /\ b \in 1..Len(run.file.records)
                BY <2>2, <2>3
            <4>2. ~(a < b) /\ ~(b < a)
                BY <3>1
            <4> QED BY <2>3, <4>1, <4>2
        <3>3. ASSUME NEW i \in DOMAIN run.quarantine
              PROVE  LET q == run.quarantine[i] IN
                     /\ q.cells # {} \/ q.duplicate
                     /\ q.duplicate => "dedupe" \in run.transforms
                            /\ \E j \in DOMAIN run.result : j < i /\ run.result[j] =
                                   RowOut(run.file, run.columns, run.transforms, i).row
            <4>1. i \in Bad /\ i \in DOMAIN Outs
                  /\ run.quarantine[i] = [cells |-> Outs[i].errors, duplicate |-> Repeated(i)]
                BY <2>2, <2>4
            <4>2. Outs[i].errors # {} \/ Repeated(i)
                BY <4>1 DEF Bad
            <4>3. ASSUME Repeated(i)
                  PROVE  "dedupe" \in run.transforms
                         /\ \E j \in DOMAIN run.result : j < i /\ run.result[j] =
                                RowOut(run.file, run.columns, run.transforms, i).row
                <5>1. PICK j \in DOMAIN Outs \ Bad : j < i /\ Outs[j].row = Outs[i].row
                    BY <2>1, <4>1, <4>3, FirstKept
                <5>2. run.result[j] = Outs[i].row /\ j \in DOMAIN run.result
                    BY <2>2, <5>1
                <5>3. Outs[i] = RowOut(run.file, run.columns, run.transforms, i)
                    BY <4>1 DEF Outs
                <5> QED BY <4>3, <5>1, <5>2, <5>3 DEF Repeated
            <4> QED BY <4>1, <4>2, <4>3
        <3> QED BY <2>2, <2>3, <2>4, <3>2, <3>3 DEF EveryRowOnce
    <2>6. PreviewTells
        <3> SUFFICES ASSUME NEW i \in DOMAIN run.preview
                     PROVE  IF run.preview[i].errors # {} THEN i \in DOMAIN run.quarantine
                            ELSE \E j \in DOMAIN run.result :
                                     /\ run.result[j] = run.preview[i].row
                                     /\ j = i \/ ("dedupe" \in run.transforms /\ j < i)
            BY DEF PreviewTells
        <3>1. i \in DOMAIN Outs /\ run.preview[i] = Outs[i]
            BY <2>1, PreviewOuts
        <3>2. CASE Outs[i].errors # {}
            BY <2>2, <3>1, <3>2 DEF Bad
        <3>3. CASE Repeated(i)
            <4>1. PICK j \in DOMAIN Outs \ Bad : j < i /\ Outs[j].row = Outs[i].row
                BY <2>1, <3>1, <3>3, FirstKept
            <4>2. run.result[j] = Outs[i].row /\ j \in DOMAIN run.result
                BY <2>2, <4>1
            <4>3. Outs[i].errors # {} => i \in DOMAIN run.quarantine
                BY <2>2, <3>1 DEF Bad
            <4> QED BY <3>1, <3>3, <4>1, <4>2, <4>3 DEF Repeated
        <3>4. CASE Outs[i].errors = {} /\ ~Repeated(i)
            BY <2>2, <3>1, <3>4 DEF Bad
        <3> QED BY <3>2, <3>3, <3>4
    <2>7. CellsSafe
        <3> SUFFICES ASSUME NEW i \in DOMAIN Outs \ Bad, NEW f \in DOMAIN Outs[i].row,
                            Outs[i].row[f] \in Sigiled
                     PROVE  Kind[f] = "phone" /\ Outs[i].row[f] # "formula"
                                /\ "phone_e164" \in run.transforms
            BY <2>2 DEF CellsSafe, Range
        <3>1. Outs[i] = RowOut(run.file, run.columns, run.transforms, i)
            BY DEF Outs
        <3>2. \E v : Outs[i].row[f] = CellOut(v, Kind[f], run.transforms)
            BY <3>1 DEF RowOut
        <3> QED BY <3>2, CellSafe
    <2> QED BY <1>1, <2>5, <2>6, <2>7
<1> QED BY <1>2, <1>3

-----------------------------------------------------------------------------
(* The theorems.                                                            *)

LEMMA MigrationInvariant == MigrationSpec => []MigrationInv
<1>1. InitMigration => MigrationInv
    BY DEF InitMigration, MigrationInv
<1> QED BY <1>1, MigrationKept, PTL DEF MigrationSpec

(* For any headers, any fields and any answer, a field is fed by one column,*)
(* one that the file has up to its case (migrationSuggest).                 *)
THEOREM MappingsSound == MigrationSpec => []MappingSound
<1>1. MigrationInv => MappingSound
    BY MigrationSound
<1> QED BY <1>1, MigrationInvariant, PTL

(* No row of a file is lost or taken twice, and what is quarantined as a    *)
(* duplicate has its like in the result (migrationApprove).                 *)
THEOREM EveryRowAccounted == MigrationSpec => []EveryRowOnce
<1>1. MigrationInv => EveryRowOnce
    BY MigrationSound
<1> QED BY <1>1, MigrationInvariant, PTL

(* The preview, which another function makes, is what the run does to these *)
(* rows (buildPreview, migrationApprove).                                   *)
THEOREM PreviewKept == MigrationSpec => []PreviewTells
<1>1. MigrationInv => PreviewTells
    BY MigrationSound
<1> QED BY <1>1, MigrationInvariant, PTL

(* Whatever is in the cells, none of the result runs as a formula           *)
(* (sanitizeFormula, phoneE164).                                            *)
THEOREM ResultsSafe == MigrationSpec => []CellsSafe
<1>1. MigrationInv => CellsSafe
    BY MigrationSound
<1> QED BY <1>1, MigrationInvariant, PTL
=============================================================================
