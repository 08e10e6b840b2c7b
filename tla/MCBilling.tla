------------------------------- MODULE MCBilling -------------------------------
(***************************************************************************)
(* Instances of Billing for TLC: one customer, two entries of one          *)
(* developer on two days, a manager, and rate cards of either kind.        *)
(***************************************************************************)
EXTENDS Billing, TLC

CONSTANTS acme, dev, boss, lead, clientCard, defaultCard

(* Time of a developer, or of a manager whom another manager must approve. *)
BossAuthor == [e \in Entries |-> boss]
MCAuthor == [e \in Entries |-> dev]

(* Two entries of two authors, whose roles differ. *)
TwoAuthors ==
    LET first == CHOOSE e \in Entries : TRUE
    IN  [e \in Entries |-> IF e = first THEN dev ELSE boss]
TwoRoles == [e \in Entries |-> IF TwoAuthors[e] = dev THEN "member" ELSE "manager"]
MCCustomerOf == [e \in Entries |-> acme]

(* All work on one day, or one entry a day. *)
OneDay == {1}
TwoDays == {1, 2}
MCRoleOf == [e \in Entries |-> "member"]

SameDay == [e \in Entries |-> 1]
FirstThenNext ==
    LET first == CHOOSE e \in Entries : TRUE
    IN  [e \in Entries |-> IF e = first THEN 1 ELSE 2]

MCCardCustomer == [c \in Cards |-> IF c = clientCard THEN acme ELSE None]
MCCardRoles == [c \in Cards |-> {"member"}]
FromDayOne == [c \in Cards |-> 1]
ClientCardFromDayTwo == [c \in Cards |-> IF c = clientCard THEN 2 ELSE 1]

Symmetry == Permutations(Handlers) \cup Permutations(Invoices)

(* Two entries of one author, customer and day are alike.                   *)
EntrySymmetry == Symmetry \cup Permutations(Entries)

(* Bound: at most one entry or invoice is caught in a race. *)
OneRaced == Cardinality(raced) <= 1
=============================================================================
