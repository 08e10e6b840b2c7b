------------------------------- MODULE Timesheet -------------------------------
(***************************************************************************)
(* Time entries and their approval: time.go (logTime) and timeapprovals.go *)
(* (submit, approve, reject), over the time_entries and audit_logs tables. *)
(*                                                                         *)
(* Every handler is one READ COMMITTED transaction.  decideTime first      *)
(* SELECTs the entry's status, decides in Go, and only then UPDATEs the    *)
(* row `WHERE id = $1`, so its read and its write are two steps and any    *)
(* other request may commit between them.  UPDATE, audit INSERT and COMMIT *)
(* are one step: the row lock taken by the UPDATE is held until COMMIT, so *)
(* nobody sees, or writes the row, in between.                             *)
(***************************************************************************)
EXTENDS Naturals, FiniteSets

CONSTANTS
    Entries,    \* time entries that may be logged
    Users,      \* members of the workspace
    Managers,   \* the users whose role is owner, admin or manager
    Author,     \* Author[e] is the user_id an entry is logged for
    Handlers,   \* requests the API server can have in flight at once
    Idle,       \* a handler with no request
    None        \* NULL: as an actor, the static token, whose role is admin and
                \* which is no user

ASSUME AuthorAssumption == Author \in [Entries -> Users]
ASSUME ManagersAssumption == Managers \subseteq Users
ASSUME NoUserAssumption == None \notin Users

Actor == Users \cup {None}

(* Whose role lets them approve and reject. *)
Deciders == Managers \cup {None}

VARIABLES
    status,     \* time_entries.status, "none" before the row exists
    reason,     \* reject_reason IS NOT NULL
    audit,      \* the entry's audit_logs rows of decisions: action and actor
    treq        \* per handler, the decideTime request between SELECT and UPDATE

tvars == <<status, reason, audit, treq>>

Status == {"none", "draft", "submitted", "approved", "rejected", "invoiced"}

Decision == {"submitted", "approved", "rejected"}

TimeRequest == [entry : Entries, cur : Status, to : Decision, by : Actor]

ASSUME IdleAssumption == Idle \notin TimeRequest

TimesheetTypeOK ==
    /\ status \in [Entries -> Status]
    /\ reason \in [Entries -> BOOLEAN]
    /\ audit \in [Entries -> SUBSET [action : Decision, by : Actor]]
    /\ treq \in [Handlers -> TimeRequest \cup {Idle}]

TimesheetInit ==
    /\ status = [e \in Entries |-> "none"]
    /\ reason = [e \in Entries |-> FALSE]
    /\ audit = [e \in Entries |-> {}]
    /\ treq = [h \in Handlers |-> Idle]

-----------------------------------------------------------------------------
(* logTime and the other inserts of time_entries (an approved agent         *)
(* proposal, an imported calendar event): one INSERT, status 'draft'.       *)
LogTime(e) ==
    /\ status[e] = "none"
    /\ status' = [status EXCEPT ![e] = "draft"]
    /\ UNCHANGED <<reason, audit, treq>>

(* Mutant: the own-time test is missing. *)
MayDecideOwnTime(e, to, by) ==
    \/ /\ to = "submitted"
       /\ by = Author[e]
       /\ status[e] \in {"draft", "rejected"}
    \/ /\ to \in {"approved", "rejected"}
       /\ status[e] = "submitted"
       /\ by \in Deciders

(* The checks decideTime makes on the row it has just read: only the author *)
(* submits, from draft or rejected; only a manager other than the author    *)
(* approves or rejects, from submitted.  The static token has a manager's   *)
(* role and no user, so it is nobody's author.                              *)
MayDecide(e, to, by) ==
    \/ /\ to = "submitted"
       /\ by = Author[e]
       /\ status[e] \in {"draft", "rejected"}
    \/ /\ to \in {"approved", "rejected"}
       /\ status[e] = "submitted"
       /\ by \in Deciders \ {Author[e]}

DecideRead(h, e, to, by) ==
    /\ treq[h] = Idle
    /\ MayDecide(e, to, by)
    /\ treq' = [treq EXCEPT ![h] = [entry |-> e, cur |-> status[e], to |-> to, by |-> by]]
    /\ UNCHANGED <<status, reason, audit>>

(* reject_reason = CASE WHEN $2 = 'rejected' THEN $3 ELSE NULL END *)
ReasonAfter(old, to) == to = "rejected"

(* The UPDATE names the entry by id alone: whatever its status has become   *)
(* since the SELECT, the decision replaces it.                              *)
DecideWrite(h) ==
    /\ treq[h] # Idle
    /\ LET r == treq[h] IN
       /\ status' = [status EXCEPT ![r.entry] = r.to]
       /\ reason' = [reason EXCEPT ![r.entry] = ReasonAfter(reason[r.entry], r.to)]
       /\ audit' = [audit EXCEPT ![r.entry] = @ \cup {[action |-> r.to, by |-> r.by]}]
    /\ treq' = [treq EXCEPT ![h] = Idle]

(* The client goes away or the database fails: the transaction rolls back. *)
DecideAbort(h) ==
    /\ treq[h] # Idle
    /\ treq' = [treq EXCEPT ![h] = Idle]
    /\ UNCHANGED <<status, reason, audit>>

(* Mutant: the UPDATE is not joined with what the statement billed. *)
MarkedApproved(S) == {e \in Entries : status[e] = "approved"}

(* The rows of S that are still approved: the `mark` UPDATE of              *)
(* generateInvoice re-evaluates its WHERE clause on the row it has locked.  *)
Marked(S) == {e \in S : status[e] = "approved"}

(* What generateInvoice does to time entries, S being those its statement   *)
(* found approved.  No audit row is written per entry.                      *)
MarkInvoiced(S) ==
    /\ status' = [e \in Entries |-> IF e \in Marked(S) THEN "invoiced" ELSE status[e]]
    /\ UNCHANGED <<reason, audit>>

-----------------------------------------------------------------------------
TimesheetNext ==
    \/ \E e \in Entries : LogTime(e)
    \/ \E h \in Handlers, e \in Entries, to \in Decision, by \in Actor :
           DecideRead(h, e, to, by)
    \/ \E h \in Handlers : DecideWrite(h)
    \/ \E h \in Handlers : DecideAbort(h)
    \/ \E S \in SUBSET Entries : MarkInvoiced(S) /\ UNCHANGED treq

TimesheetSpec == TimesheetInit /\ [][TimesheetNext]_tvars

-----------------------------------------------------------------------------
(* A reject reason is stored exactly while the entry is rejected, however   *)
(* decisions and invoice generation interleave: the WHERE clause of `mark`  *)
(* is what keeps a rejected entry from being invoiced with its reason.      *)
ReasonIffRejected == \A e \in Entries : reason[e] <=> status[e] = "rejected"

(* The decisions an entry's audit rows tell of. *)
Decisions(e) == {r.action : r \in audit[e]}

(* Whatever decisions overwrite each other, the audit rows of an entry      *)
(* explain its status by somebody entitled to it: it was submitted by its   *)
(* author, and what is approved, rejected or invoiced was first submitted   *)
(* and then decided by a manager, or the static token, who is not its       *)
(* author.  The rows are a set: created_at is the beginning of a            *)
(* transaction, so it does not order decisions that overlap                 *)
(* (timeapprovals.go, decideTime; generateInvoice writes no row per entry). *)
DecisionsAuthorized ==
    \A e \in Entries :
        /\ \A r \in audit[e] :
               IF r.action = "submitted" THEN r.by = Author[e]
                                         ELSE r.by \in Deciders \ {Author[e]}
        /\ status[e] \in Decision => {"submitted", status[e]} \subseteq Decisions(e)
        /\ status[e] = "invoiced" => {"submitted", "approved"} \subseteq Decisions(e)

(* A decision waiting to be written was made on a status that allows it, by *)
(* someone entitled to it, and one of a manager is about time that its      *)
(* author has submitted (timeapprovals.go, decideTime).                     *)
Authorized(r) ==
    /\ status[r.entry] # "none"
    /\ r.to = "submitted" => r.by = Author[r.entry] /\ r.cur \in {"draft", "rejected"}
    /\ r.to # "submitted" =>
           /\ r.by \in Deciders \ {Author[r.entry]}
           /\ r.cur = "submitted"
           /\ "submitted" \in Decisions(r.entry)
           /\ status[r.entry] # "draft"

InFlightAuthorized == \A h \in Handlers : treq[h] # Idle => Authorized(treq[h])

(* The inductive invariant of a timesheet. *)
TimesheetInv ==
    /\ TimesheetTypeOK
    /\ ReasonIffRejected
    /\ DecisionsAuthorized
    /\ InFlightAuthorized

(* Time reaches a manager's decision, and an invoice, only through its      *)
(* author: an entry leaves draft only by being submitted, and never returns *)
(* to draft, whatever requests are in flight (timeapprovals.go, decideTime).*)
OnlySubmissionLeavesDraft ==
    [][\A e \in Entries :
          /\ status[e] = "draft" => status'[e] \in {"draft", "submitted"}
          /\ status[e] # "none" => status'[e] # "none"
          /\ status[e] \notin {"none", "draft"} => status'[e] # "draft"]_tvars

(* What the package comment says of the status machine, draft -> submitted  *)
(* -> approved/rejected: an approval or a rejection is of a submitted entry.*)
DecidesSubmittedOnly ==
    [][\A e \in Entries :
          status'[e] # status[e] /\ status'[e] \in {"approved", "rejected"}
              => status[e] = "submitted"]_tvars

(* Time that has been invoiced stays invoiced, as the migration that adds   *)
(* the status says: "entries move there on generation so the same window    *)
(* can never be billed twice".                                              *)
InvoicedIsFinal ==
    [][\A e \in Entries : status[e] = "invoiced" => status'[e] = "invoiced"]_tvars
=============================================================================
