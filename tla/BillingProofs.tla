----------------------------- MODULE BillingProofs -----------------------------
(***************************************************************************)
(* Timesheet and Billing, for any entries, users, rate cards, invoices and *)
(* number of concurrent requests: the invariants of time entries, that     *)
(* Billing implements Timesheet, and the invariants of invoices.           *)
(* TimesheetInv is inductive: beside what it is to show it says what a     *)
(* request still in flight may write.                                      *)
(***************************************************************************)
EXTENDS Billing, TLAPS

-----------------------------------------------------------------------------
(* Time entries alone.                                                      *)


(* The initial tables satisfy the invariant. *)
LEMMA TimesheetInitInv == TimesheetInit => TimesheetInv
  <1> SUFFICES ASSUME TimesheetInit PROVE TimesheetInv
    OBVIOUS
  <1>1. TimesheetTypeOK
    BY AuthorAssumption DEF TimesheetInit, TimesheetTypeOK, Status
  <1>2. ReasonIffRejected
    BY DEF TimesheetInit, ReasonIffRejected
  <1>3. DecisionsAuthorized
    BY DEF TimesheetInit, DecisionsAuthorized, Decision
  <1>4. InFlightAuthorized
    BY DEF TimesheetInit, InFlightAuthorized
  <1> QED
    BY <1>1, <1>2, <1>3, <1>4 DEF TimesheetInv

(* Logging an entry keeps the invariant. *)
LEMMA LogTimeInv ==
  ASSUME TimesheetInv, NEW e \in Entries, LogTime(e)
  PROVE  TimesheetInv'
  <1> USE DEF TimesheetInv
  <1>1. TimesheetTypeOK'
    BY AuthorAssumption DEF TimesheetTypeOK, LogTime, Status
  <1>2. ReasonIffRejected'
    BY DEF TimesheetTypeOK, ReasonIffRejected, LogTime
  <1>3. DecisionsAuthorized'
    BY DEF TimesheetTypeOK, DecisionsAuthorized, Decisions, LogTime, Decision
  <1>4. InFlightAuthorized'
    BY DEF TimesheetTypeOK, InFlightAuthorized, Authorized, Decisions, LogTime, TimeRequest
  <1> QED
    BY <1>1, <1>2, <1>3, <1>4

(* Reading an entry and deciding about it keeps the invariant. *)
LEMMA DecideReadInv ==
  ASSUME TimesheetInv, NEW h \in Handlers, NEW e \in Entries, NEW to \in Decision,
         NEW by \in Actor, DecideRead(h, e, to, by)
  PROVE  TimesheetInv'
  <1> USE DEF TimesheetInv
  <1> DEFINE r == [entry |-> e, cur |-> status[e], to |-> to, by |-> by]
  <1>0. r \in TimeRequest
    BY DEF TimeRequest, TimesheetTypeOK
  <1>1. TimesheetTypeOK'
    BY <1>0 DEF TimesheetTypeOK, DecideRead
  <1>2. ReasonIffRejected' /\ DecisionsAuthorized'
    BY DEF ReasonIffRejected, DecisionsAuthorized, Decisions, DecideRead
  <1>3. InFlightAuthorized'
    <2> SUFFICES ASSUME NEW k \in Handlers, treq'[k] # Idle
                 PROVE  Authorized(treq[k])'
      BY DEF InFlightAuthorized
    <2>1. CASE k = h
      <3>1. treq'[k] = r
        BY <2>1, <1>0 DEF TimesheetTypeOK, DecideRead
      <3>2. to # "submitted" => "submitted" \in Decisions(e)
        BY DEF DecideRead, MayDecide, DecisionsAuthorized, Decision
      <3>3. Authorized(r)
        BY <3>2 DEF DecideRead, MayDecide, Authorized, Decision
      <3> HIDE DEF r
      <3> QED
        BY <3>1, <3>3 DEF DecideRead, Authorized, Decisions
    <2>2. CASE k # h
      BY <2>2 DEF TimesheetTypeOK, DecideRead, InFlightAuthorized, Authorized, Decisions
    <2> QED
      BY <2>1, <2>2
  <1> QED
    BY <1>1, <1>2, <1>3

(* Writing a decision keeps the invariant, whatever the entry has become. *)
LEMMA DecideWriteInv ==
  ASSUME TimesheetInv, NEW h \in Handlers, DecideWrite(h)
  PROVE  TimesheetInv'
  <1> USE DEF TimesheetInv
  <1> DEFINE r == treq[h]
  <1>0. r \in TimeRequest /\ r.entry \in Entries /\ r.to \in Decision /\ r.by \in Actor
    BY DEF TimesheetTypeOK, DecideWrite, TimeRequest
  <1>1. TimesheetTypeOK'
    BY <1>0 DEF TimesheetTypeOK, DecideWrite, ReasonAfter, Decision, Status
  <1>2. ReasonIffRejected'
    BY <1>0 DEF TimesheetTypeOK, ReasonIffRejected, DecideWrite, ReasonAfter
  <1>3. audit' = [audit EXCEPT ![r.entry] = @ \cup {[action |-> r.to, by |-> r.by]}]
    BY DEF DecideWrite
  <1>4. \A e \in Entries : Decisions(e)' = IF e = r.entry THEN Decisions(e) \cup {r.to} ELSE Decisions(e)
    <2> SUFFICES ASSUME NEW e \in Entries
                 PROVE  Decisions(e)' = IF e = r.entry THEN Decisions(e) \cup {r.to} ELSE Decisions(e)
      OBVIOUS
    <2> DEFINE a == [action |-> r.to, by |-> r.by]
    <2>1. audit'[e] = IF e = r.entry THEN audit[e] \cup {a} ELSE audit[e]
      BY <1>3 DEF TimesheetTypeOK
    <2>2. a.action = r.to
      OBVIOUS
    <2> HIDE DEF a, r
    <2> QED
      BY <2>1, <2>2 DEF Decisions
  <1>5. Authorized(r)
    BY DEF DecideWrite, InFlightAuthorized
  <1>6. DecisionsAuthorized'
    <2> SUFFICES ASSUME NEW e \in Entries
                 PROVE  (/\ \A a \in audit[e] : IF a.action = "submitted" THEN a.by = Author[e]
                                                 ELSE a.by \in Deciders \ {Author[e]}
                         /\ status[e] \in Decision => {"submitted", status[e]} \subseteq Decisions(e)
                         /\ status[e] = "invoiced" => {"submitted", "approved"} \subseteq Decisions(e))'
      BY DEF DecisionsAuthorized
    <2>1. \A a \in audit'[e] : IF a.action = "submitted" THEN a.by = Author[e]
                                ELSE a.by \in Deciders \ {Author[e]}
      BY <1>0, <1>3, <1>5 DEF TimesheetTypeOK, DecisionsAuthorized, Authorized
    <2>2. CASE e = r.entry
      <3>1. status'[e] = r.to
        BY <1>0, <2>2 DEF DecideWrite, TimesheetTypeOK
      <3>2. r.to # "submitted" => "submitted" \in Decisions(e)
        BY <1>5, <2>2 DEF Authorized
      <3> HIDE DEF r
      <3> QED
        BY <1>0, <1>4, <2>1, <2>2, <3>1, <3>2 DEF Decision
    <2>3. CASE e # r.entry
      <3>1. status'[e] = status[e] /\ Decisions(e)' = Decisions(e)
        BY <1>0, <1>4, <2>3 DEF DecideWrite, TimesheetTypeOK
      <3> QED
        BY <2>1, <3>1 DEF DecisionsAuthorized
    <2> QED
      BY <2>2, <2>3
  <1>7. InFlightAuthorized'
    <2> SUFFICES ASSUME NEW k \in Handlers, treq'[k] # Idle
                 PROVE  Authorized(treq[k])'
      BY DEF InFlightAuthorized
    <2>1. k # h /\ treq'[k] = treq[k] /\ Authorized(treq[k])
      BY DEF DecideWrite, TimesheetTypeOK, InFlightAuthorized
    <2>2. treq[k].entry \in Entries
      BY <2>1 DEF TimesheetTypeOK, TimeRequest
    <2>3. status'[treq[k].entry] \in {status[treq[k].entry], r.to}
      BY <1>0, <2>2 DEF DecideWrite, TimesheetTypeOK
    <2>4. Decisions(treq[k].entry) \subseteq Decisions(treq[k].entry)'
      <3>1. \A e \in Entries : Decisions(e) \subseteq Decisions(e)'
        BY <1>4
      <3> QED
        BY <2>1, <2>2, <3>1 DEF Decisions
    <2> HIDE DEF r
    <2> QED
      BY <1>0, <2>1, <2>2, <2>3, <2>4 DEF Authorized, Decision, Decisions
  <1> QED
    BY <1>1, <1>2, <1>6, <1>7

(* A rolled back decision keeps the invariant. *)
LEMMA DecideAbortInv ==
  ASSUME TimesheetInv, NEW h \in Handlers, DecideAbort(h)
  PROVE  TimesheetInv'
  BY DEF TimesheetInv, TimesheetTypeOK, ReasonIffRejected, DecisionsAuthorized,
         Decisions, InFlightAuthorized, Authorized, DecideAbort

(* Marking entries invoiced keeps the invariant: only approved ones are. *)
LEMMA MarkInvoicedInv ==
  ASSUME TimesheetInv, NEW S \in SUBSET Entries, MarkInvoiced(S), UNCHANGED treq
  PROVE  TimesheetInv'
  <1> USE DEF TimesheetInv, MarkInvoiced, Marked
  <1>1. TimesheetTypeOK'
    BY DEF TimesheetTypeOK, Status
  <1>2. ReasonIffRejected'
    BY DEF ReasonIffRejected
  <1>3. DecisionsAuthorized'
    BY DEF DecisionsAuthorized, Decisions, Decision
  <1>4. InFlightAuthorized'
    BY DEF InFlightAuthorized, Authorized, Decisions, TimesheetTypeOK, TimeRequest
  <1> QED
    BY <1>1, <1>2, <1>3, <1>4

(* Every step of a timesheet keeps the invariant. *)
LEMMA TimesheetNextInv == TimesheetInv /\ [TimesheetNext]_tvars => TimesheetInv'
  <1> SUFFICES ASSUME TimesheetInv, [TimesheetNext]_tvars PROVE TimesheetInv'
    OBVIOUS
  <1>1. CASE UNCHANGED tvars
    BY <1>1 DEF tvars, TimesheetInv, TimesheetTypeOK, ReasonIffRejected,
                DecisionsAuthorized, Decisions, InFlightAuthorized, Authorized
  <1>2. CASE TimesheetNext
    BY <1>2, LogTimeInv, DecideReadInv, DecideWriteInv, DecideAbortInv, MarkInvoicedInv
       DEF TimesheetNext
  <1> QED
    BY <1>1, <1>2

(* Type correctness, and what the reason and the audit trail of every entry *)
(* say of its status, for any number of concurrent requests.                *)
THEOREM TimesheetCorrect == TimesheetSpec => []TimesheetInv
  BY TimesheetInitInv, TimesheetNextInv, PTL DEF TimesheetSpec

(* The latest audit row of every entry explains and entitles its status. *)
THEOREM TimesheetAuthorized == TimesheetSpec => []DecisionsAuthorized
  <1>1. TimesheetInv => DecisionsAuthorized
    BY DEF TimesheetInv
  <1> QED
    BY <1>1, TimesheetCorrect, PTL

(* A reject reason is stored exactly while an entry is rejected. *)
THEOREM TimesheetReason == TimesheetSpec => []ReasonIffRejected
  <1>1. TimesheetInv => ReasonIffRejected
    BY DEF TimesheetInv
  <1> QED
    BY <1>1, TimesheetCorrect, PTL

(* An entry leaves draft only by its author's submission, and for good. *)
THEOREM DraftLeftBySubmission == TimesheetSpec => OnlySubmissionLeavesDraft
  <1> DEFINE A == \A e \in Entries :
          /\ status[e] = "draft" => status'[e] \in {"draft", "submitted"}
          /\ status[e] # "none" => status'[e] # "none"
          /\ status[e] \notin {"none", "draft"} => status'[e] # "draft"
  <1>1. TimesheetInv /\ [TimesheetNext]_tvars => [A]_tvars
    <2> SUFFICES ASSUME TimesheetInv, TimesheetNext PROVE A
      OBVIOUS
    <2> USE DEF TimesheetInv, TimesheetTypeOK
    <2>1. CASE \E e \in Entries : LogTime(e)
      BY <2>1 DEF LogTime
    <2>2. CASE \E h \in Handlers, e \in Entries, to \in Decision, by \in Actor :
                   DecideRead(h, e, to, by)
      BY <2>2 DEF DecideRead
    <2>3. CASE \E h \in Handlers : DecideWrite(h)
      BY <2>3 DEF DecideWrite, InFlightAuthorized, Authorized, TimeRequest, Decision
    <2>4. CASE \E h \in Handlers : DecideAbort(h)
      BY <2>4 DEF DecideAbort
    <2>5. CASE \E S \in SUBSET Entries : MarkInvoiced(S) /\ UNCHANGED treq
      BY <2>5 DEF MarkInvoiced, Marked
    <2> QED
      BY <2>1, <2>2, <2>3, <2>4, <2>5 DEF TimesheetNext
  <1> QED
    BY <1>1, TimesheetCorrect, PTL DEF TimesheetSpec, OnlySubmissionLeavesDraft

-----------------------------------------------------------------------------
(* Time entries and invoices.                                               *)

(* Seen from time entries, a step of the whole system is a step of          *)
(* Timesheet or none.                                                       *)
LEMMA StepIsTimesheetStep == BillingTypeOK /\ [Next]_vars => [TimesheetNext]_tvars
  <1> SUFFICES ASSUME BillingTypeOK, [Next]_vars PROVE [TimesheetNext]_tvars
    OBVIOUS
  <1>1. CASE UNCHANGED vars
    BY <1>1 DEF vars
  <1>2. CASE TimesheetStep
    BY <1>2 DEF TimesheetStep, TimesheetNext
  <1>3. CASE CardStep
    BY <1>3 DEF CardStep, CreateRateCard, PatchRateCard, DeleteRateCard, SetCard
  <1>4. CASE InvoiceStep
    <2> PICK h \in Handlers :
          \/ \E win \in Window, n \in Note : GenCount(h, win, n)
          \/ GenGap(h)
          \/ GenSnapshot(h)
          \/ \E i \in Invoices : GenCommit(h, i)
          \/ \E i \in Invoices, to \in Target \cup {None}, n \in Note : PatchRead(h, i, to, n)
          \/ PatchWrite(h)
          \/ BillAbort(h)
      BY <1>4 DEF InvoiceStep
    <2>1. CASE \E i \in Invoices : GenCommit(h, i)
      <3>1. breq[h].lines \in Lines
        BY <2>1 DEF BillingTypeOK, BillRequest, GenCommit
      <3>2. DOMAIN breq[h].lines \in SUBSET Entries
        BY <3>1 DEF Lines
      <3> QED
        BY <2>1, <3>2 DEF GenCommit, TimesheetNext
    <2>2. CASE UNCHANGED tvars
      BY <2>2
    <2> QED
      BY <2>1, <2>2 DEF GenCount, GenGap, GenSnapshot, PatchRead, PatchWrite, BillAbort
  <1> QED
    BY <1>1, <1>2, <1>3, <1>4 DEF Next

-----------------------------------------------------------------------------
(* The initial tables satisfy the invariant. *)
LEMMA BillingInitInv == Init => BillingInv
  <1> SUFFICES ASSUME Init PROVE BillingInv
    OBVIOUS
  <1>1. TimesheetInv
    BY TimesheetInitInv DEF Init
  <1>2. [e \in {} |-> None] \in Lines
    <2>1. [e \in {} |-> None] \in [{} -> Cards \cup {None}]
      OBVIOUS
    <2> QED
      BY <2>1 DEF Lines
  <1>3. BillingTypeOK
    BY <1>1, <1>2 DEF Init, BillingTypeOK, TimesheetInv, CardState, InvoiceStatus, Note
  <1>4. \A i \in Invoices : istatus[i] = "none" => DOMAIN lines[i] = {}
    BY DEF Init
  <1>5. InvoicedIsOnInvoice
    BY DEF Init, TimesheetInit, InvoicedIsOnInvoice
  <1>6. NoEmptyInvoice /\ InvoiceTrailExplains /\ InFlightBillable
    BY DEF Init, NoEmptyInvoice, InvoiceTrailExplains, InFlightBillable, Target
  <1>7. BilledStaysInvoiced /\ BilledTwiceOnlyByRaces
    BY DEF Init, BilledStaysInvoiced, BilledTwiceOnlyByRaces
  <1> QED
    BY <1>1, <1>3, <1>4, <1>5, <1>6, <1>7 DEF BillingInv

(* What an invoice bills are entries. *)
LEMMA LinesOfEntries ==
  ASSUME NEW L \in Lines
  PROVE  DOMAIN L \in SUBSET Entries
  BY DEF Lines

(* The part of the invariant that is about invoices alone. *)
InvoiceInv ==
    /\ BillingTypeOK
    /\ \A i \in Invoices : istatus[i] = "none" => DOMAIN lines[i] = {}
    /\ InvoicedIsOnInvoice
    /\ NoEmptyInvoice
    /\ InvoiceTrailExplains
    /\ InFlightBillable
    /\ BilledStaysInvoiced
    /\ BilledTwiceOnlyByRaces

(* A decision leaves invoices alone and marks no entry invoiced.  One that  *)
(* takes an entry out of invoiced was made before the entry was invoiced.   *)
LEMMA TimesheetStepInv ==
  ASSUME BillingInv, TimesheetStep, TimesheetTypeOK'
  PROVE  InvoiceInv'
  <1> USE DEF BillingInv
  <1>0. UNCHANGED <<card, istatus, lines, notes, itrail, breq>>
    BY DEF TimesheetStep
  <1>1. \A h \in Handlers : treq[h] # Idle =>
          /\ treq[h] \in TimeRequest
          /\ treq[h].entry \in Entries
          /\ treq[h].to # "invoiced"
          /\ treq[h].cur # "invoiced"
    <2> SUFFICES ASSUME NEW h \in Handlers, treq[h] # Idle
                 PROVE  /\ treq[h] \in TimeRequest
                        /\ treq[h].entry \in Entries
                        /\ treq[h].to # "invoiced"
                        /\ treq[h].cur # "invoiced"
      OBVIOUS
    <2>1. treq[h] \in TimeRequest
      BY DEF TimesheetInv, TimesheetTypeOK
    <2> QED
      BY <2>1 DEF TimeRequest, Decision, TimesheetInv, InFlightAuthorized, Authorized
  <1>2. /\ raced \subseteq raced' /\ raced' \subseteq Entries \cup Invoices
        /\ \A e \in Entries : status'[e] = "invoiced" => status[e] = "invoiced"
        /\ \A e \in Entries : status[e] = "invoiced" /\ e \notin raced' => status'[e] = "invoiced"
    <2>1. CASE \E h \in Handlers :
                   /\ DecideWrite(h)
                   /\ raced' = raced \cup Stale({treq[h].entry}, status[treq[h].entry], treq[h].cur)
      <3> PICK h \in Handlers :
              /\ DecideWrite(h)
              /\ raced' = raced \cup Stale({treq[h].entry}, status[treq[h].entry], treq[h].cur)
        BY <2>1
      <3> QED
        BY <1>1 DEF DecideWrite, Stale, BillingTypeOK, TimesheetInv, TimesheetTypeOK
    <2>2. CASE (\E e \in Entries : LogTime(e)) /\ raced' = raced
      BY <2>2 DEF LogTime, BillingTypeOK, TimesheetInv, TimesheetTypeOK
    <2>3. CASE UNCHANGED <<status, raced>>
      BY <2>3 DEF BillingTypeOK
    <2> QED
      BY <2>1, <2>2, <2>3 DEF TimesheetStep, DecideRead, DecideAbort
  <1>3. BillingTypeOK'
    BY <1>0, <1>2 DEF BillingTypeOK
  <1>4. InvoicedIsOnInvoice'
    BY <1>0, <1>2 DEF InvoicedIsOnInvoice
  <1>5. \A i \in Invoices : DOMAIN lines[i] \subseteq Entries
    BY LinesOfEntries DEF BillingTypeOK
  <1>6. BilledStaysInvoiced' /\ BilledTwiceOnlyByRaces'
    BY <1>0, <1>2, <1>5 DEF BilledStaysInvoiced, BilledTwiceOnlyByRaces
  <1> QED
    BY <1>0, <1>3, <1>4, <1>6 DEF InvoiceInv, NoEmptyInvoice, InvoiceTrailExplains,
                                  InFlightBillable, Billable, Insertable

(* Rate cards change nothing on an invoice. *)
LEMMA CardStepInv ==
  ASSUME BillingInv, CardStep
  PROVE  InvoiceInv'
  <1> USE DEF BillingInv
  <1> PICK c \in Cards, from \in SUBSET CardState, to \in CardState : SetCard(c, from, to)
    BY DEF CardStep, CreateRateCard, PatchRateCard, DeleteRateCard, CardState
  <1>1. BillingTypeOK'
    BY DEF BillingTypeOK, SetCard, TimesheetTypeOK, tvars
  <1> QED
    BY <1>1 DEF InvoiceInv, InvoicedIsOnInvoice, NoEmptyInvoice, InvoiceTrailExplains,
                InFlightBillable, Billable, Insertable, BilledStaysInvoiced,
                BilledTwiceOnlyByRaces, SetCard, tvars

(* The steps of a request that change nothing but the request. *)
LEMMA ReadStepInv ==
  ASSUME BillingInv, NEW h \in Handlers, NEW q \in BillRequest \cup {Idle},
         breq' = [breq EXCEPT ![h] = q],
         q # Idle => Billable(q),
         UNCHANGED <<tvars, card, istatus, lines, notes, itrail, raced>>
  PROVE  InvoiceInv'
  <1> USE DEF BillingInv
  <1>1. BillingTypeOK'
    BY DEF BillingTypeOK, TimesheetTypeOK, tvars
  <1>2. InFlightBillable'
    <2> SUFFICES ASSUME NEW k \in Handlers, breq'[k] # Idle
                 PROVE  Billable(breq[k])'
      BY DEF InFlightBillable
    <2>1. CASE k = h
      BY <2>1 DEF BillingTypeOK, Billable, Insertable
    <2>2. CASE k # h
      BY <2>2 DEF BillingTypeOK, Billable, Insertable, InFlightBillable
    <2> QED
      BY <2>1, <2>2
  <1> QED
    BY <1>1, <1>2 DEF InvoiceInv, InvoicedIsOnInvoice, NoEmptyInvoice, InvoiceTrailExplains,
                      BilledStaysInvoiced, BilledTwiceOnlyByRaces, tvars

(* A new invoice bills what it marks. *)
LEMMA GenCommitInv ==
  ASSUME BillingInv, NEW h \in Handlers, NEW i \in Invoices, GenCommit(h, i), TimesheetTypeOK'
  PROVE  InvoiceInv'
  <1> USE DEF BillingInv
  <1> DEFINE L == breq[h].lines
  <1>1. /\ L \in Lines /\ Insertable(L) /\ breq[h].notes \in Note
        /\ \A e \in DOMAIN L : breq[h].found[e] = "approved"
    BY DEF GenCommit, BillingTypeOK, BillRequest, InFlightBillable, Billable
  <1>1a. /\ DOMAIN L \in SUBSET Entries
        /\ \A j \in Invoices : DOMAIN lines[j] \in SUBSET Entries
    BY <1>1, LinesOfEntries DEF BillingTypeOK
  <1>2. BillingTypeOK'
    BY <1>1a, <1>1 DEF GenCommit, BillingTypeOK, InvoiceStatus
  <1>3. (\A j \in Invoices : istatus[j] = "none" => DOMAIN lines[j] = {})'
    BY DEF GenCommit, BillingTypeOK
  <1>4. InvoicedIsOnInvoice'
    <2> SUFFICES ASSUME NEW e \in Entries, status'[e] = "invoiced"
                 PROVE  \E j \in Invoices : e \in DOMAIN lines'[j]
      BY DEF InvoicedIsOnInvoice
    <2>1. CASE e \in DOMAIN L
      BY <2>1 DEF GenCommit, BillingTypeOK
    <2>2. CASE e \notin DOMAIN L
      <3>1. status[e] = "invoiced"
        BY <2>2 DEF GenCommit, MarkInvoiced, Marked
      <3>2. PICK j \in Invoices : e \in DOMAIN lines[j]
        BY <3>1 DEF InvoicedIsOnInvoice
      <3>3. j # i
        BY <3>2 DEF GenCommit
      <3> QED
        BY <3>2, <3>3 DEF GenCommit, BillingTypeOK
    <2> QED
      BY <2>1, <2>2
  <1>5. NoEmptyInvoice'
    BY <1>1 DEF GenCommit, BillingTypeOK, NoEmptyInvoice, Insertable
  <1>6. InvoiceTrailExplains'
    BY DEF GenCommit, BillingTypeOK, InvoiceTrailExplains, Target
  <1>7. InFlightBillable'
    <2> SUFFICES ASSUME NEW k \in Handlers, breq'[k] # Idle
                 PROVE  Billable(breq[k])'
      BY DEF InFlightBillable
    <2>1. k # h /\ breq'[k] = breq[k]
      BY DEF GenCommit, BillingTypeOK
    <2>2. breq[k].op = "patch" => breq[k].inv \in Invoices /\ breq[k].inv # i
      BY <2>1 DEF GenCommit, BillingTypeOK, BillRequest, InFlightBillable, Billable
    <2> QED
      BY <2>1, <2>2 DEF GenCommit, BillingTypeOK, InFlightBillable, Billable, Insertable
  <1>8. /\ lines' = [lines EXCEPT ![i] = L] /\ lines \in [Invoices -> Lines]
        /\ raced' = raced \cup {e \in DOMAIN L : status[e] # "approved"}
        /\ \A e \in Entries : status'[e] = IF e \in DOMAIN L /\ status[e] = "approved"
                                           THEN "invoiced" ELSE status[e]
    BY <1>1, <1>1a DEF GenCommit, BillingTypeOK, MarkInvoiced, Marked
  <1> HIDE DEF L
  <1>9. BilledStaysInvoiced'
    BY <1>1a, <1>8 DEF BilledStaysInvoiced
  <1>10. BilledTwiceOnlyByRaces'
    <2> SUFFICES ASSUME NEW j \in Invoices, NEW k \in Invoices, j # k,
                        NEW e \in DOMAIN lines'[j] \cap DOMAIN lines'[k]
                 PROVE  e \in raced'
      BY DEF BilledTwiceOnlyByRaces
    <2>1. CASE j # i /\ k # i
      BY <1>8, <2>1 DEF BilledTwiceOnlyByRaces
    <2>2. CASE j = i
      BY <1>1a, <1>8, <2>2 DEF BilledStaysInvoiced
    <2>3. CASE k = i
      BY <1>1a, <1>8, <2>3 DEF BilledStaysInvoiced
    <2> QED
      BY <2>1, <2>2, <2>3
  <1> QED
    BY <1>2, <1>3, <1>4, <1>5, <1>6, <1>7, <1>9, <1>10 DEF InvoiceInv

(* A patch writes a status its request was entitled to when it was read. *)
LEMMA PatchWriteInv ==
  ASSUME BillingInv, NEW h \in Handlers, PatchWrite(h)
  PROVE  InvoiceInv'
  <1> USE DEF BillingInv
  <1> DEFINE r == breq[h]
  <1>1. /\ r.inv \in Invoices /\ r.to \in Target \cup {None} /\ r.notes \in Note
        /\ istatus[r.inv] # "none"
        /\ r.to = "paid" => "sent" \in itrail[r.inv]
    BY DEF PatchWrite, BillingTypeOK, BillRequest, InFlightBillable, Billable
  <1>2. BillingTypeOK'
    BY <1>1 DEF PatchWrite, BillingTypeOK, TimesheetTypeOK, tvars, Coalesce, Target, Note,
                InvoiceStatus, Stale
  <1>3. \A j \in Invoices : istatus'[j] = "none" => istatus[j] = "none"
    BY <1>1, NoneAssumption DEF PatchWrite, BillingTypeOK, Coalesce, Target
  <1>4. NoEmptyInvoice' /\ InvoicedIsOnInvoice'
    BY <1>1, NoneAssumption
       DEF PatchWrite, BillingTypeOK, NoEmptyInvoice, InvoicedIsOnInvoice, Coalesce, Target, tvars
  <1>5. InvoiceTrailExplains'
    BY <1>1, NoneAssumption
       DEF PatchWrite, BillingTypeOK, InvoiceTrailExplains, Coalesce, Target
  <1>6. InFlightBillable'
    <2> SUFFICES ASSUME NEW k \in Handlers, breq'[k] # Idle
                 PROVE  Billable(breq[k])'
      BY DEF InFlightBillable
    <2>1. k # h /\ breq'[k] = breq[k]
      BY DEF PatchWrite, BillingTypeOK
    <2>2. breq[k].op = "patch" => breq[k].inv \in Invoices
      BY <2>1 DEF BillingTypeOK, BillRequest
    <2>3. \A j \in Invoices : /\ istatus[j] # "none" => istatus'[j] # "none"
                              /\ itrail[j] \subseteq itrail'[j]
      BY <1>1, NoneAssumption DEF PatchWrite, BillingTypeOK, Coalesce, Target
    <2> QED
      BY <2>1, <2>2, <2>3 DEF InFlightBillable, Billable, Insertable
  <1>7. BilledStaysInvoiced' /\ BilledTwiceOnlyByRaces'
    BY DEF PatchWrite, Stale, BilledStaysInvoiced, BilledTwiceOnlyByRaces, tvars
  <1> QED
    BY <1>2, <1>3, <1>4, <1>5, <1>6, <1>7 DEF InvoiceInv, PatchWrite

(* Every step of a billing request keeps the invariant. *)
LEMMA InvoiceStepInv ==
  ASSUME BillingInv, InvoiceStep, TimesheetTypeOK'
  PROVE  InvoiceInv'
  <1> PICK h \in Handlers :
        \/ \E win \in Window, n \in Note : GenCount(h, win, n)
        \/ GenGap(h)
        \/ GenSnapshot(h)
        \/ \E i \in Invoices : GenCommit(h, i)
        \/ \E i \in Invoices, to \in Target \cup {None}, n \in Note : PatchRead(h, i, to, n)
        \/ PatchWrite(h)
        \/ BillAbort(h)
    BY DEF InvoiceStep
  <1>1. CASE \E win \in Window, n \in Note : GenCount(h, win, n)
    <2> PICK win \in Window, n \in Note : GenCount(h, win, n)
      BY <1>1
    <2> DEFINE q == [op |-> "gap", win |-> win, notes |-> n]
    <2>1. q \in BillRequest
      BY DEF BillRequest
    <2> QED
      BY <2>1, ReadStepInv DEF GenCount, Billable
  <1>2. CASE GenGap(h)
    <2> DEFINE q == [op |-> "bill", win |-> breq[h].win, notes |-> breq[h].notes]
    <2>1. q \in BillRequest
      BY <1>2 DEF GenGap, BillRequest, BillingInv, BillingTypeOK
    <2>2. breq' = [breq EXCEPT ![h] = q]
      BY <1>2 DEF GenGap, BillingInv, BillingTypeOK
    <2> HIDE DEF q
    <2>3. q.op = "bill"
      BY DEF q
    <2> QED
      BY <1>2, <2>1, <2>2, <2>3, ReadStepInv DEF GenGap, Billable
  <1>3. CASE GenSnapshot(h)
    <2> PICK L \in [Approved(breq[h].win) -> Cards \cup {None}] :
          /\ Insertable(L)
          /\ breq' = [breq EXCEPT ![h] = [op |-> "commit", found |-> [e \in DOMAIN L |-> status[e]],
                                          lines |-> L, notes |-> @.notes]]
      BY <1>3 DEF GenSnapshot
    <2> DEFINE F == [e \in DOMAIN L |-> status[e]]
    <2> DEFINE q == [op |-> "commit", found |-> F, lines |-> L, notes |-> breq[h].notes]
    <2>1. L \in Lines /\ DOMAIN L \in SUBSET Entries /\ \A e \in DOMAIN L : status[e] = "approved"
      BY DEF Approved, Lines
    <2>2. F \in [DOMAIN L -> Status]
      BY <2>1 DEF BillingInv, TimesheetInv, TimesheetTypeOK
    <2>3. F \in Found
      BY <2>1, <2>2 DEF Found
    <2>4. q \in BillRequest
      <3> HIDE DEF F
      <3> QED
        BY <1>3, <2>1, <2>3 DEF GenSnapshot, BillRequest, BillingInv, BillingTypeOK
    <2>5. breq' = [breq EXCEPT ![h] = q]
      BY DEF BillingInv, BillingTypeOK
    <2>6. \A e \in DOMAIN L : F[e] = "approved"
      BY <2>1
    <2>7. q.op = "commit" /\ q.lines = L /\ q.found = F
      OBVIOUS
    <2> HIDE DEF q, F
    <2> QED
      BY <1>3, <2>4, <2>5, <2>6, <2>7, ReadStepInv DEF GenSnapshot, Billable
  <1>4. CASE \E i \in Invoices : GenCommit(h, i)
    BY <1>4, GenCommitInv
  <1>5. CASE \E i \in Invoices, to \in Target \cup {None}, n \in Note : PatchRead(h, i, to, n)
    <2> PICK i \in Invoices, to \in Target \cup {None}, n \in Note : PatchRead(h, i, to, n)
      BY <1>5
    <2> DEFINE q == [op |-> "patch", inv |-> i, cur |-> istatus[i], to |-> to, notes |-> n]
    <2>1. q \in BillRequest
      BY DEF BillRequest, BillingInv, BillingTypeOK
    <2>2. to = "paid" => "sent" \in itrail[i]
      BY NoneAssumption
         DEF PatchRead, MayPatch, Allowed, BillingInv, InvoiceTrailExplains, Target
    <2>3. breq' = [breq EXCEPT ![h] = q] /\ istatus[i] # "none"
      BY DEF PatchRead
    <2> HIDE DEF q
    <2>4. q.op = "patch" /\ q.inv = i /\ q.cur = istatus[i] /\ q.to = to /\ q.notes = n
      BY DEF q
    <2> QED
      BY <2>1, <2>2, <2>3, <2>4, ReadStepInv DEF PatchRead, Billable
  <1>6. CASE PatchWrite(h)
    BY <1>6, PatchWriteInv
  <1>7. CASE BillAbort(h)
    BY <1>7, ReadStepInv DEF BillAbort
  <1> QED
    BY <1>1, <1>2, <1>3, <1>4, <1>5, <1>6, <1>7

(* Every step of the whole system keeps the invariant. *)
LEMMA BillingNextInv == BillingInv /\ [Next]_vars => BillingInv'
  <1> SUFFICES ASSUME BillingInv, [Next]_vars PROVE BillingInv'
    OBVIOUS
  <1>1. TimesheetInv'
    BY StepIsTimesheetStep, TimesheetNextInv DEF BillingInv
  <1>2. TimesheetTypeOK'
    BY <1>1 DEF TimesheetInv
  <1>3. InvoiceInv'
    <2>1. CASE UNCHANGED vars
      BY <2>1, <1>2 DEF vars, bvars, tvars, BillingInv, InvoiceInv, BillingTypeOK,
                 InvoicedIsOnInvoice, NoEmptyInvoice, InvoiceTrailExplains,
                 InFlightBillable, Billable, Insertable, BilledStaysInvoiced,
                 BilledTwiceOnlyByRaces
    <2> QED
      BY <1>2, <2>1, TimesheetStepInv, CardStepInv, InvoiceStepInv DEF Next
  <1> QED
    BY <1>1, <1>3 DEF BillingInv, InvoiceInv

(* Type correctness and the invariants of invoices, for any number of       *)
(* concurrent requests.                                                     *)
THEOREM BillingCorrect == Spec => []BillingInv
  BY BillingInitInv, BillingNextInv, PTL DEF Spec

(* An entry marked invoiced is on an invoice. *)
THEOREM NoHourLost == Spec => []InvoicedIsOnInvoice
  <1>1. BillingInv => InvoicedIsOnInvoice
    BY DEF BillingInv
  <1> QED
    BY <1>1, BillingCorrect, PTL

(* No invoice is empty or worth nothing. *)
THEOREM InvoicesBillSomething == Spec => []NoEmptyInvoice
  <1>1. BillingInv => NoEmptyInvoice
    BY DEF BillingInv
  <1> QED
    BY <1>1, BillingCorrect, PTL

(* No invoice is paid that was never sent, and its audit trail explains it. *)
THEOREM TrailExplains == Spec => []InvoiceTrailExplains
  <1>1. BillingInv => InvoiceTrailExplains
    BY DEF BillingInv
  <1> QED
    BY <1>1, BillingCorrect, PTL

(* An entry is on two invoices only if requests overlapped on it. *)
THEOREM DoubleBillingNeedsRace == Spec => []BilledTwiceOnlyByRaces
  <1>1. BillingInv => BilledTwiceOnlyByRaces
    BY DEF BillingInv
  <1> QED
    BY <1>1, BillingCorrect, PTL

(* The whole system implements the timesheet, whose theorems it inherits. *)
THEOREM BillingImplementsTimesheet == Spec => ImplementsTimesheet
  <1>1. Init => TimesheetInit
    BY DEF Init
  <1>2. BillingInv => BillingTypeOK
    BY DEF BillingInv
  <1> QED
    BY <1>1, <1>2, StepIsTimesheetStep, BillingCorrect, PTL
       DEF Spec, ImplementsTimesheet, TimesheetSpec

-----------------------------------------------------------------------------
(* The promise of BillingPromise: every request takes effect at one         *)
(* instant, but for what an overtaken request touches, which raced names.   *)

(* The step of the promise that each step of a timesheet takes. *)
LEMMA TimesheetKeepsPromise ==
  ASSUME BillingInv, TimesheetStep
  PROVE  [Promise!Next]_(Promise!pvars)
  <1> USE DEF BillingInv, TimesheetInv, TimesheetTypeOK
  <1>0. lines' = lines /\ istatus' = istatus
    BY DEF TimesheetStep
  <1>1. CASE (\E e \in Entries : LogTime(e)) /\ raced' = raced
    <2> PICK e \in Entries : LogTime(e)
      BY <1>1
    <2>1. Promise!MoveEntry(e, {"none"}, "draft")
      BY <1>0, <1>1 DEF LogTime, Promise!MoveEntry
    <2> QED
      BY <2>1 DEF Promise!Next
  <1>2. CASE \E h \in Handlers :
               /\ DecideWrite(h)
               /\ raced' = raced \cup Stale({treq[h].entry}, status[treq[h].entry], treq[h].cur)
    <2> PICK h \in Handlers :
          /\ DecideWrite(h)
          /\ raced' = raced \cup Stale({treq[h].entry}, status[treq[h].entry], treq[h].cur)
      BY <1>2
    <2> DEFINE e == treq[h].entry
    <2> DEFINE to == treq[h].to
    <2> DEFINE cur == treq[h].cur
    <2>1. e \in Entries /\ to \in Decision
      BY DEF DecideWrite, TimeRequest
    <2>2. /\ status[e] # "none"
          /\ to = "submitted" => cur \in {"draft", "rejected"}
          /\ to # "submitted" => cur = "submitted"
      BY DEF DecideWrite, InFlightAuthorized, Authorized
    <2>3. /\ status' = [status EXCEPT ![e] = to]
          /\ raced' = raced \cup Stale({e}, status[e], cur)
      BY DEF DecideWrite
    <2> HIDE DEF e, to, cur
    <2>4. CASE status[e] # cur
      <3>1. Promise!OverwriteEntry(e, to)
        BY <1>0, <2>2, <2>3, <2>4 DEF Stale, Promise!OverwriteEntry
      <3> QED
        BY <2>1, <3>1 DEF Decision, Promise!Next
    <2>5. CASE status[e] = cur
      <3>1. raced' = raced
        BY <2>3, <2>5 DEF Stale
      <3>2. to = "submitted" => Promise!MoveEntry(e, {"draft", "rejected"}, "submitted")
        BY <1>0, <2>2, <2>3, <2>5, <3>1 DEF Promise!MoveEntry
      <3>3. to = "approved" => Promise!MoveEntry(e, {"submitted"}, "approved")
        BY <1>0, <2>2, <2>3, <2>5, <3>1 DEF Promise!MoveEntry
      <3>4. to = "rejected" => Promise!MoveEntry(e, {"submitted"}, "rejected")
        BY <1>0, <2>2, <2>3, <2>5, <3>1 DEF Promise!MoveEntry
      <3> QED
        BY <2>1, <3>2, <3>3, <3>4 DEF Decision, Promise!Next
    <2> QED
      BY <2>4, <2>5
  <1>3. CASE UNCHANGED <<status, raced>>
    BY <1>0, <1>3 DEF Promise!pvars
  <1> QED
    BY <1>1, <1>2, <1>3 DEF TimesheetStep, DecideRead, DecideAbort

(* The step of the promise that each step of a billing request takes. *)
LEMMA InvoiceKeepsPromise ==
  ASSUME BillingInv, InvoiceStep
  PROVE  [Promise!Next]_(Promise!pvars)
  <1> USE DEF BillingInv, BillingTypeOK
  <1>1. CASE \E h \in Handlers, i \in Invoices : GenCommit(h, i)
    <2> PICK h \in Handlers, i \in Invoices : GenCommit(h, i)
      BY <1>1
    <2>0. PICK S : S = DOMAIN breq[h].lines
      OBVIOUS
    <2>1. /\ S \in SUBSET Entries
          /\ S # {}
          /\ \A e \in S : breq[h].found[e] = "approved"
      <3>1. /\ breq[h].lines \in Lines /\ Insertable(breq[h].lines)
            /\ \A e \in DOMAIN breq[h].lines : breq[h].found[e] = "approved"
        BY DEF GenCommit, BillRequest, InFlightBillable, Billable
      <3> QED
        BY <2>0, <3>1, LinesOfEntries DEF Insertable
    <2>2. status' = [e \in Entries |-> IF e \in S /\ status[e] = "approved"
                                       THEN "invoiced" ELSE status[e]]
      BY <2>0 DEF GenCommit, MarkInvoiced, Marked
    <2>3. raced' = raced \cup {e \in S : status[e] # "approved"}
      BY <2>0, <2>1 DEF GenCommit
    <2>4. [j \in Invoices |-> DOMAIN lines'[j]]
            = [[j \in Invoices |-> DOMAIN lines[j]] EXCEPT ![i] = S]
      BY <2>0 DEF GenCommit
    <2>5. Promise!Generate(i, S)
      BY <2>1, <2>2, <2>3, <2>4 DEF GenCommit, Promise!Generate
    <2> QED
      BY <2>1, <2>5 DEF Promise!Next
  <1>2. CASE \E h \in Handlers : PatchWrite(h)
    <2> PICK h \in Handlers : PatchWrite(h)
      BY <1>2
    <2> DEFINE i == breq[h].inv
    <2> DEFINE to == breq[h].to
    <2> DEFINE cur == breq[h].cur
    <2>1. /\ i \in Invoices /\ to \in Target \cup {None} /\ istatus[i] # "none"
          /\ to # None => Allowed(cur, to)
      BY DEF PatchWrite, BillRequest, InFlightBillable, Billable, MayPatch
    <2>2. /\ status' = status /\ lines' = lines
          /\ istatus' = [istatus EXCEPT ![i] = IF to = None THEN istatus[i] ELSE to]
          /\ raced' = raced \cup Stale({i}, istatus[i], cur)
      BY DEF PatchWrite, Coalesce, tvars
    <2> HIDE DEF i, to, cur
    <2>3. CASE istatus[i] # cur
      <3>1. Promise!OverwriteInvoice(i, IF to = None THEN istatus[i] ELSE to)
        BY <2>1, <2>2, <2>3 DEF Stale, Promise!OverwriteInvoice
      <3> QED
        BY <2>1, <3>1 DEF Target, Promise!Next
    <2>4. CASE istatus[i] = cur /\ to = None
      <3>1. istatus' = istatus /\ raced' = raced
        BY <2>2, <2>4 DEF Stale
      <3> QED
        BY <2>2, <3>1 DEF Promise!pvars
    <2>5. CASE istatus[i] = cur /\ to # None
      <3>1. raced' = raced /\ istatus' = [istatus EXCEPT ![i] = to] /\ Allowed(istatus[i], to)
        BY <2>1, <2>2, <2>5 DEF Stale
      <3>2. \/ Promise!MoveInvoice(i, {"draft"}, "sent")
            \/ Promise!MoveInvoice(i, {"sent"}, "paid")
            \/ Promise!MoveInvoice(i, {"draft", "sent", "paid"}, "void")
        BY <2>2, <3>1 DEF Allowed, Promise!MoveInvoice
      <3> QED
        BY <2>1, <3>2 DEF Promise!Next
    <2> QED
      BY <2>3, <2>4, <2>5
  <1>3. CASE UNCHANGED <<status, istatus, lines, raced>>
    BY <1>3 DEF Promise!pvars
  <1> QED
    BY <1>1, <1>2, <1>3
       DEF InvoiceStep, GenCount, GenGap, GenSnapshot, PatchRead, BillAbort, tvars

(* Billing implements its promise, for any number of concurrent requests.   *)
THEOREM BillingKeepsPromise == Spec => ImplementsPromise
  <1>1. Init => Promise!Init
    <2> SUFFICES ASSUME Init PROVE Promise!Init
      OBVIOUS
    <2>1. [i \in Invoices |-> DOMAIN lines[i]] = [i \in Invoices |-> {}]
      BY DEF Init
    <2> QED
      BY <2>1 DEF Init, TimesheetInit, Promise!Init
  <1>2. BillingInv /\ [Next]_vars => [Promise!Next]_(Promise!pvars)
    <2> SUFFICES ASSUME BillingInv, [Next]_vars PROVE [Promise!Next]_(Promise!pvars)
      OBVIOUS
    <2>1. CASE UNCHANGED vars
      BY <2>1 DEF vars, tvars, bvars, Promise!pvars
    <2>2. CASE CardStep
      BY <2>2 DEF CardStep, CreateRateCard, PatchRateCard, DeleteRateCard, SetCard, tvars,
                  Promise!pvars
    <2> QED
      BY <2>1, <2>2, TimesheetKeepsPromise, InvoiceKeepsPromise DEF Next
  <1> QED
    BY <1>1, <1>2, BillingCorrect, PTL DEF Spec, ImplementsPromise, Promise!Spec
=============================================================================
