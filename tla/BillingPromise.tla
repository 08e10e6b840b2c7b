----------------------------- MODULE BillingPromise -----------------------------
(***************************************************************************)
(* What approvals and invoicing promise.  A request takes effect at one    *)
(* instant: an entry follows draft -> submitted -> approved/rejected, a    *)
(* rejected one may be submitted again, an approved one is invoiced once,  *)
(* and an invoice moves draft -> sent -> paid, to void from each.  The     *)
(* exception is a request that has been overtaken between its reading and  *)
(* its writing: what it then writes or bills is in raced from there on.    *)
(***************************************************************************)
EXTENDS Naturals

CONSTANTS Entries, Invoices

VARIABLES
    st,     \* the state of each entry
    ist,    \* the state of each invoice
    bill,   \* the entries each invoice bills
    raced   \* the entries and invoices an overtaken request has touched

pvars == <<st, ist, bill, raced>>

Init ==
    /\ st = [e \in Entries |-> "none"]
    /\ ist = [i \in Invoices |-> "none"]
    /\ bill = [i \in Invoices |-> {}]
    /\ raced = {}

MoveEntry(e, from, to) ==
    /\ st[e] \in from
    /\ st' = [st EXCEPT ![e] = to]
    /\ UNCHANGED <<ist, bill, raced>>

(* An overtaken decision replaces whatever has become of the entry. *)
OverwriteEntry(e, to) ==
    /\ st[e] # "none"
    /\ st' = [st EXCEPT ![e] = to]
    /\ raced' = raced \cup {e}
    /\ UNCHANGED <<ist, bill>>

(* One invoice takes a nonempty set of entries; those that are approved are *)
(* invoiced in the same step, and the others an overtaken invoice bills.    *)
Generate(i, S) ==
    /\ ist[i] = "none"
    /\ S # {}
    /\ st' = [e \in Entries |-> IF e \in S /\ st[e] = "approved" THEN "invoiced" ELSE st[e]]
    /\ ist' = [ist EXCEPT ![i] = "draft"]
    /\ bill' = [bill EXCEPT ![i] = S]
    /\ raced' = raced \cup {e \in S : st[e] # "approved"}

MoveInvoice(i, from, to) ==
    /\ ist[i] \in from
    /\ ist' = [ist EXCEPT ![i] = to]
    /\ UNCHANGED <<st, bill, raced>>

(* An overtaken patch replaces the invoice's status, or sets its notes.     *)
OverwriteInvoice(i, to) ==
    /\ ist[i] # "none"
    /\ ist' = [ist EXCEPT ![i] = to]
    /\ raced' = raced \cup {i}
    /\ UNCHANGED <<st, bill>>

Next ==
    \/ \E e \in Entries :
           \/ MoveEntry(e, {"none"}, "draft")
           \/ MoveEntry(e, {"draft", "rejected"}, "submitted")
           \/ MoveEntry(e, {"submitted"}, "approved")
           \/ MoveEntry(e, {"submitted"}, "rejected")
           \/ \E to \in {"submitted", "approved", "rejected"} : OverwriteEntry(e, to)
    \/ \E i \in Invoices, S \in SUBSET Entries : Generate(i, S)
    \/ \E i \in Invoices :
           \/ MoveInvoice(i, {"draft"}, "sent")
           \/ MoveInvoice(i, {"sent"}, "paid")
           \/ MoveInvoice(i, {"draft", "sent", "paid"}, "void")
           \/ \E to \in {ist[i], "sent", "paid", "void"} : OverwriteInvoice(i, to)

Spec == Init /\ [][Next]_pvars
=============================================================================
