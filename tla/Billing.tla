-------------------------------- MODULE Billing --------------------------------
(***************************************************************************)
(* Rate cards (ratecards.go) and invoices (invoices.go) over the time      *)
(* entries of Timesheet.                                                   *)
(*                                                                         *)
(* generateInvoice is one READ COMMITTED transaction of three statements,  *)
(* each with a snapshot of its own: a count of the approved entries, a     *)
(* search for a role without a rate, and one WITH statement that inserts   *)
(* the invoice from the entries its snapshot finds approved and marks      *)
(* those of them that still are.  patchInvoice reads the invoice's status, *)
(* decides in Go and then updates the row by id.  Each statement is a      *)
(* step; what a transaction writes, it writes in its last one.             *)
(***************************************************************************)
EXTENDS Timesheet

CONSTANTS
    Customers,
    CustomerOf,     \* the customer of each entry's project
    Days,           \* calendar days, a finite set of numbers
    DayOf,          \* the day each entry started on
    RoleOf,         \* the membership role of each entry's author
    Cards,          \* rate cards that may be created
    CardCustomer,   \* a card's customer, None for a workspace default card
    CardRoles,      \* the roles a card has a rate for; rates are immutable
    EffectiveFrom,  \* the day a card takes effect
    Invoices,       \* invoices that may be created
    Notes           \* note texts; None is also a field absent from a request

ASSUME CustomerOfAssumption == CustomerOf \in [Entries -> Customers]
ASSUME DaysAssumption == Days \subseteq Nat /\ DayOf \in [Entries -> Days]
ASSUME CardsAssumption ==
    /\ CardCustomer \in [Cards -> Customers \cup {None}]
    /\ EffectiveFrom \in [Cards -> Days]
ASSUME NoneAssumption ==
    /\ None \notin Customers \cup Cards \cup Notes
    /\ None \notin {"sent", "paid", "void"}

VARIABLES
    card,       \* each rate card: absent, active, inactive or deleted
    istatus,    \* invoices.status, "none" before the row exists
    lines,      \* invoices.line_items: a function from the entries billed to
                \* the card each is priced by, None for a NULL rate
    notes,      \* invoices.notes
    itrail,     \* the actions of the invoice's audit_logs rows
    breq,       \* per handler, a generate or patch request between statements
    raced       \* history, kept for the properties: the entries and invoices that
                \* a request has written, or billed, on a status that another one
                \* had replaced since it was read

bvars == <<card, istatus, lines, notes, itrail, breq, raced>>
vars == <<tvars, bvars>>

CardState == {"absent", "active", "inactive", "deleted"}
InvoiceStatus == {"none", "draft", "sent", "paid", "void"}
Target == {"sent", "paid", "void"}
Note == Notes \cup {None}
Lines == UNION {[S -> Cards \cup {None}] : S \in SUBSET Entries}
Found == UNION {[S -> Status] : S \in SUBSET Entries}
Window == [customer : Customers, from : Days, to : Days]

BillRequest ==
    [op : {"gap", "bill"}, win : Window, notes : Note]
        \cup [op : {"commit"}, found : Found, lines : Lines, notes : Note]
        \cup [op : {"patch"}, inv : Invoices, cur : InvoiceStatus, to : Target \cup {None},
              notes : Note]

ASSUME BillIdleAssumption == Idle \notin BillRequest

BillingTypeOK ==
    /\ TimesheetTypeOK
    /\ card \in [Cards -> CardState]
    /\ istatus \in [Invoices -> InvoiceStatus]
    /\ lines \in [Invoices -> Lines]
    /\ notes \in [Invoices -> Note]
    /\ itrail \in [Invoices -> SUBSET ({"created", "updated"} \cup Target)]
    /\ breq \in [Handlers -> BillRequest \cup {Idle}]
    /\ raced \subseteq Entries \cup Invoices

Init ==
    /\ TimesheetInit
    /\ card = [c \in Cards |-> "absent"]
    /\ istatus = [i \in Invoices |-> "none"]
    /\ lines = [i \in Invoices |-> [e \in {} |-> None]]
    /\ notes = [i \in Invoices |-> None]
    /\ itrail = [i \in Invoices |-> {}]
    /\ breq = [h \in Handlers |-> Idle]
    /\ raced = {}

Free(h) == treq[h] = Idle /\ breq[h] = Idle

-----------------------------------------------------------------------------
(* Rate cards: each handler's write is one guarded statement.               *)

SetCard(c, from, to) ==
    /\ card[c] \in from
    /\ card' = [card EXCEPT ![c] = to]
    /\ UNCHANGED <<tvars, istatus, lines, notes, itrail, breq, raced>>

CreateRateCard(c) == SetCard(c, {"absent"}, "active")

PatchRateCard(c, isActive) ==
    SetCard(c, {"active", "inactive"}, IF isActive THEN "active" ELSE "inactive")

DeleteRateCard(c) == SetCard(c, {"active", "inactive"}, "deleted")

(* The active cards of owner (a customer, or None for the workspace) with a *)
(* rate for the role of entry e.                                            *)
RatesOf(owner, e) ==
    {c \in Cards : card[c] = "active" /\ CardCustomer[c] = owner /\ RoleOf[e] \in CardRoles[c]}

(* COALESCE of two scalar subqueries: the customer's card, else the default *)
(* one, else NULL.                                                          *)
PricedBy(e) ==
    IF RatesOf(CustomerOf[e], e) # {} THEN RatesOf(CustomerOf[e], e) ELSE RatesOf(None, e)

-----------------------------------------------------------------------------
(* generateInvoice.                                                         *)

(* Mutant: invoiced time is found again. *)
ApprovedOrInvoiced(win) ==
    {e \in Entries :
        /\ status[e] \in {"approved", "invoiced"}
        /\ CustomerOf[e] = win.customer
        /\ DayOf[e] \in win.from .. win.to}

(* The entries the statements of generateInvoice select.                    *)
Approved(win) ==
    {e \in Entries :
        /\ status[e] = "approved"
        /\ CustomerOf[e] = win.customer
        /\ DayOf[e] \in win.from .. win.to}

(* The first statement: 404 unless some approved time is in the period.     *)
GenCount(h, win, n) ==
    /\ Free(h)
    /\ win.from <= win.to
    /\ Approved(win) # {}
    /\ breq' = [breq EXCEPT ![h] = [op |-> "gap", win |-> win, notes |-> n]]
    /\ UNCHANGED <<tvars, card, istatus, lines, notes, itrail, raced>>

(* The second: 400 if the role of some entry has no rate.                   *)
GenGap(h) ==
    /\ breq[h] # Idle /\ breq[h].op = "gap"
    /\ \A e \in Approved(breq[h].win) : PricedBy(e) # {}
    /\ breq' = [breq EXCEPT ![h] = [op |-> "bill", win |-> @.win, notes |-> @.notes]]
    /\ UNCHANGED <<tvars, card, istatus, lines, notes, itrail, raced>>

(* Mutant: line_items and subtotal may be NULL. *)
InsertableNull(L) == TRUE

(* line_items and subtotal are NOT NULL: jsonb_agg of no rows is NULL, and  *)
(* so is a sum of NULLs.                                                    *)
Insertable(L) == \E e \in DOMAIN L : L[e] # None

(* The WITH statement takes its snapshot: the `billed` rows with a price    *)
(* each.  Two active cards for one role make a scalar subquery fail.        *)
GenSnapshot(h) ==
    /\ breq[h] # Idle /\ breq[h].op = "bill"
    /\ \E L \in [Approved(breq[h].win) -> Cards \cup {None}] :
          /\ \A e \in DOMAIN L : PricedBy(e) = {L[e]} \ {None}
          /\ Insertable(L)
          /\ breq' = [breq EXCEPT ![h] = [op |-> "commit", found |-> [e \in DOMAIN L |-> status[e]],
                                          lines |-> L, notes |-> @.notes]]
    /\ UNCHANGED <<tvars, card, istatus, lines, notes, itrail, raced>>

(* It writes, the audit row follows, and the transaction commits: the       *)
(* invoice bills what the snapshot held, and what is still approved of it   *)
(* becomes invoiced.                                                        *)
GenCommit(h, i) ==
    /\ breq[h] # Idle /\ breq[h].op = "commit"
    /\ istatus[i] = "none"
    /\ istatus' = [istatus EXCEPT ![i] = "draft"]
    /\ lines' = [lines EXCEPT ![i] = breq[h].lines]
    /\ notes' = [notes EXCEPT ![i] = breq[h].notes]
    /\ itrail' = [itrail EXCEPT ![i] = {"created"}]
    /\ MarkInvoiced(DOMAIN breq[h].lines)
    /\ raced' = raced \cup {e \in DOMAIN breq[h].lines : status[e] # breq[h].found[e]}
    /\ breq' = [breq EXCEPT ![h] = Idle]
    /\ UNCHANGED <<treq, card>>

-----------------------------------------------------------------------------
(* patchInvoice.                                                            *)

(* Mutant: a draft can be paid directly. *)
AllowedPayDraft(cur, to) ==
    \/ cur = "draft" /\ to \in {"sent", "paid", "void"}
    \/ cur = "sent" /\ to \in {"paid", "void"}
    \/ cur = "paid" /\ to = "void"

(* The transitions the table of patchInvoice lists.                         *)
Allowed(cur, to) ==
    \/ cur = "draft" /\ to \in {"sent", "void"}
    \/ cur = "sent" /\ to \in {"paid", "void"}
    \/ cur = "paid" /\ to = "void"

(* The checks made on the status just read.                                 *)
MayPatch(cur, to, n) ==
    /\ to # None => Allowed(cur, to)
    /\ n # None => cur = "draft"

PatchRead(h, i, to, n) ==
    /\ Free(h)
    /\ istatus[i] # "none"
    /\ ~(to = None /\ n = None)
    /\ MayPatch(istatus[i], to, n)
    /\ breq' = [breq EXCEPT ![h] = [op |-> "patch", inv |-> i, cur |-> istatus[i], to |-> to,
                                    notes |-> n]]
    /\ UNCHANGED <<tvars, card, istatus, lines, notes, itrail, raced>>

(* SQL's COALESCE of a request field and the column. *)
Coalesce(x, y) == IF x # None THEN x ELSE y

(* What is written on the status now, S, when cur was read. *)
Stale(S, now, cur) == IF now = cur THEN {} ELSE S

(* Mutant: a voided invoice's entries are released. *)
PatchWriteReleases(h) ==
    /\ breq[h] # Idle /\ breq[h].op = "patch"
    /\ LET r == breq[h] IN
       /\ istatus' = [istatus EXCEPT ![r.inv] = Coalesce(r.to, @)]
       /\ notes' = [notes EXCEPT ![r.inv] = Coalesce(r.notes, @)]
       /\ itrail' = [itrail EXCEPT ![r.inv] = @ \cup {Coalesce(r.to, "updated")}]
       /\ raced' = raced \cup Stale({r.inv}, istatus[r.inv], r.cur)
       /\ status' = [e \in Entries |-> IF r.to = "void" /\ e \in DOMAIN lines[r.inv]
                                       THEN "approved" ELSE status[e]]
    /\ breq' = [breq EXCEPT ![h] = Idle]
    /\ UNCHANGED <<reason, audit, treq, card, lines>>

(* The UPDATE names the invoice by id alone. *)
PatchWrite(h) ==
    /\ breq[h] # Idle /\ breq[h].op = "patch"
    /\ LET r == breq[h] IN
       /\ istatus' = [istatus EXCEPT ![r.inv] = Coalesce(r.to, @)]
       /\ notes' = [notes EXCEPT ![r.inv] = Coalesce(r.notes, @)]
       /\ itrail' = [itrail EXCEPT ![r.inv] = @ \cup {Coalesce(r.to, "updated")}]
       /\ raced' = raced \cup Stale({r.inv}, istatus[r.inv], r.cur)
    /\ breq' = [breq EXCEPT ![h] = Idle]
    /\ UNCHANGED <<tvars, card, lines>>

(* A request of either kind is refused by one of its later statements, its  *)
(* client goes away or the database fails: the transaction rolls back.      *)
BillAbort(h) ==
    /\ breq[h] # Idle
    /\ breq' = [breq EXCEPT ![h] = Idle]
    /\ UNCHANGED <<tvars, card, istatus, lines, notes, itrail, raced>>

-----------------------------------------------------------------------------
(* The steps of Timesheet, in the composition.                              *)
TimesheetStep ==
    /\ \/ /\ \/ \E e \in Entries : LogTime(e)
             \/ \E h \in Handlers, e \in Entries, to \in Decision, by \in Actor :
                    Free(h) /\ DecideRead(h, e, to, by)
             \/ \E h \in Handlers : DecideAbort(h)
          /\ UNCHANGED raced
       \/ \E h \in Handlers :
             /\ DecideWrite(h)
             /\ LET r == treq[h]
                IN  raced' = raced \cup Stale({r.entry}, status[r.entry], r.cur)
    /\ UNCHANGED <<card, istatus, lines, notes, itrail, breq>>

CardStep ==
    \E c \in Cards :
        \/ CreateRateCard(c)
        \/ \E isActive \in BOOLEAN : PatchRateCard(c, isActive)
        \/ DeleteRateCard(c)

InvoiceStep ==
    \E h \in Handlers :
        \/ \E win \in Window, n \in Note : GenCount(h, win, n)
        \/ GenGap(h)
        \/ GenSnapshot(h)
        \/ \E i \in Invoices : GenCommit(h, i)
        \/ \E i \in Invoices, to \in Target \cup {None}, n \in Note : PatchRead(h, i, to, n)
        \/ PatchWrite(h)
        \/ BillAbort(h)

Next == TimesheetStep \/ CardStep \/ InvoiceStep

Spec == Init /\ [][Next]_vars

-----------------------------------------------------------------------------
(* Properties that hold however requests interleave.                        *)

(* No hour is lost: an entry marked invoiced is on some invoice, although   *)
(* the rows `billed` reads and the rows `mark` updates are found at         *)
(* different instants (invoices.go, generateInvoice).                       *)
InvoicedIsOnInvoice ==
    \A e \in Entries :
        status[e] = "invoiced" => \E i \in Invoices : e \in DOMAIN lines[i]

(* No invoice is empty or worth nothing, although the entries counted and   *)
(* the rates checked may be gone when the WITH statement runs: the NOT NULL *)
(* constraints of migration 00023 stop it (invoices.go, generateInvoice).   *)
NoEmptyInvoice ==
    \A i \in Invoices : istatus[i] # "none" => \E e \in DOMAIN lines[i] : lines[i][e] # None

(* The audit trail explains an invoice's status, and no invoice is paid     *)
(* that was never sent, nor draft once it was sent, paid or voided, though  *)
(* patchInvoice writes on a status it read earlier.                         *)
InvoiceTrailExplains ==
    \A i \in Invoices :
        /\ istatus[i] \in Target => istatus[i] \in itrail[i]
        /\ istatus[i] = "paid" => "sent" \in itrail[i]
        /\ istatus[i] = "draft" => itrail[i] \cap Target = {}

(* What a billing request between two statements may rely on: a snapshot    *)
(* has a price to bill and held approved time, and an invoice to be paid    *)
(* has been sent.                                                           *)
Billable(r) ==
    /\ r.op = "commit" =>
           /\ Insertable(r.lines)
           /\ \A e \in DOMAIN r.lines : r.found[e] = "approved"
    /\ r.op = "patch" =>
           /\ istatus[r.inv] # "none"
           /\ MayPatch(r.cur, r.to, r.notes)
           /\ r.to = "paid" => "sent" \in itrail[r.inv]

InFlightBillable == \A h \in Handlers : breq[h] # Idle => Billable(breq[h])

(* What no race has touched is billed once, and stays invoiced. *)
BilledStaysInvoiced ==
    \A i \in Invoices : \A e \in DOMAIN lines[i] : e \notin raced => status[e] = "invoiced"

(* To time entries, invoicing is nothing but Timesheet's MarkInvoiced, so   *)
(* what Timesheet guarantees of approvals holds in the whole system.        *)
ImplementsTimesheet == TimesheetSpec

Promise == INSTANCE BillingPromise WITH
    st <- status, ist <- istatus, bill <- [i \in Invoices |-> DOMAIN lines[i]]

(* Approvals and invoicing take effect as if each request were one instant, *)
(* but for what a request wrote, or billed, on a status that another had    *)
(* replaced since it read it (timeapprovals.go, decideTime; invoices.go,    *)
(* generateInvoice and patchInvoice).                                       *)
ImplementsPromise == Promise!Spec

(* An entry is on two invoices, voided ones included, only if requests      *)
(* overlapped on it: the second invoice was written of a snapshot the first *)
(* had outdated, or a decision on an older status took the entry out of     *)
(* invoiced (invoices.go, generateInvoice, which says that "double-billing  *)
(* is structurally impossible").                                            *)
BilledTwiceOnlyByRaces ==
    \A i, j \in Invoices : i # j => DOMAIN lines[i] \cap DOMAIN lines[j] \subseteq raced

(* The inductive invariant of billing. *)
BillingInv ==
    /\ TimesheetInv
    /\ BillingTypeOK
    /\ \A i \in Invoices : istatus[i] = "none" => DOMAIN lines[i] = {}
    /\ InvoicedIsOnInvoice
    /\ NoEmptyInvoice
    /\ InvoiceTrailExplains
    /\ InFlightBillable
    /\ BilledStaysInvoiced
    /\ BilledTwiceOnlyByRaces

-----------------------------------------------------------------------------
(* What is said of the code and does not hold of it.                        *)

(* "double-billing is structurally impossible" (invoices.go): no entry is   *)
(* on two invoices that have not been voided.                               *)
BilledOnce ==
    \A i, j \in Invoices :
        i # j /\ istatus[i] # "void" /\ istatus[j] # "void"
            => DOMAIN lines[i] \cap DOMAIN lines[j] = {}

(* generateInvoice "marks the consumed entries invoiced in the same tx":    *)
(* every entry a new invoice bills is invoiced from that step on.           *)
ConsumedAreMarked ==
    [][\A i \in Invoices :
          istatus[i] = "none" /\ istatus'[i] # "none"
              => \A e \in DOMAIN lines'[i] : status'[e] = "invoiced"]_vars

(* "notes locked once sent" (invoices.go, patchInvoice).                    *)
NotesLockedOnceSent ==
    [][\A i \in Invoices : notes'[i] # notes[i] => istatus[i] \in {"none", "draft"}]_vars

(* Void has no way out (invoices.go, the table of patchInvoice).            *)
VoidIsFinal ==
    [][\A i \in Invoices : istatus[i] = "void" => istatus'[i] = "void"]_vars

-----------------------------------------------------------------------------
(* Properties of prices.                                                    *)

(* "ensure every billed role has a rate" (invoices.go, generateInvoice).    *)
EveryLinePriced ==
    \A i \in Invoices : \A e \in DOMAIN lines[i] : lines[i][e] # None

(* "past hours stay locked to the card they were logged against; only       *)
(* future hours resolve to the new one" (migration 00020): no hour is       *)
(* billed by a card that took effect after it was worked.                   *)
PricedByCardInForce ==
    \A i \in Invoices : \A e \in DOMAIN lines[i] :
        lines[i][e] # None => EffectiveFrom[lines[i][e]] <= DayOf[e]
=============================================================================
