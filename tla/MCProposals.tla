------------------------------ MODULE MCProposals ------------------------------
(***************************************************************************)
(* Instances of Proposals for TLC.                                         *)
(***************************************************************************)
EXTENDS Proposals, TLC

(* A bound: approvals and drafts share no row, only the handlers and the    *)
(* switches, so a state has the one or the other.                           *)
Approving == \E a \in Approvals : approval[a].status # "none"
Drafting ==
    \/ \E d \in Drafts : draft[d] # "none"
    \/ \E h \in Handlers : op[h].at = "drafts"
OneKind == ~(Approving /\ Drafting)

(* A bound: not every approval is reopened.                                 *)
OneReopened == \E a \in Approvals : opened[a] < MaxOpenings

Symmetry == Permutations(Handlers) \cup Permutations(Approvals)
=============================================================================
