-------------------------------- MODULE Members --------------------------------
(***************************************************************************)
(* Who belongs to a workspace: the SCIM endpoints its identity provider    *)
(* calls (scim.go), the settings of its admins (putSCIMConfig, putSSOConfig)*)
(* and how an SSO login finds, links or creates its user (sso.go).  A user *)
(* stands for an email address, users for the rows there are; the domains  *)
(* an SSO configuration allows are the users who have one.                 *)
(***************************************************************************)
EXTENDS Naturals, FiniteSets

CONSTANTS
    Users,          \* email addresses
    Admins,         \* those whose membership has the role owner or admin
    Settings,       \* SSO settings an admin may enter
    Subjects,       \* names the identity provider knows people by
    Provisioners,   \* POST /scim/v2/Users served at once
    None

ASSUME AdminsAssumption == Admins \subseteq Users
ASSUME SettingsAssumption == Settings \subseteq [enforce : BOOLEAN, domains : SUBSET Users]
ASSUME MembersNone == None \notin Subjects \cup Users

VARIABLES
    users,      \* emails that have a row in users
    member,     \* membership of each in the workspace
    subject,    \* users.sso_subject, which is unique
    sso,        \* the workspace's sso_configs row
    scim,       \* the workspace has a SCIM token
    prov        \* who each POST is to provision, once it found no user

memberVars == <<users, member, subject, sso, scim, prov>>

NoSso == [on |-> FALSE, enforce |-> FALSE, domains |-> {}]

MembersTypeOK ==
    /\ users \subseteq Users
    /\ member \in [Users -> {"none", "active", "deactivated"}]
    /\ subject \in [Users -> Subjects \cup {None}]
    /\ sso \in [on : BOOLEAN, enforce : BOOLEAN, domains : SUBSET Users]
    /\ scim \in BOOLEAN
    /\ prov \in [Provisioners -> Users \cup {None}]

(* The other rows of users, and their subjects, are of other workspaces.    *)
MembersInit ==
    /\ users \in {x \in SUBSET Users : Admins \subseteq x}
    /\ member = [u \in Users |-> IF u \in Admins THEN "active" ELSE "none"]
    /\ subject \in {f \in [Users -> Subjects \cup {None}] :
           \A u \in Users : f[u] # None =>
               /\ u \in users \ Admins
               /\ \A v \in Users : f[v] = f[u] => v = u}
    /\ sso = NoSso
    /\ scim = FALSE
    /\ prov = [p \in Provisioners |-> None]

IsMember(u) == member[u] # "none"
IsActive(u) == member[u] = "active"

(* No domains listed allows every address.                                  *)
DomainAllowed(u) == sso.domains = {} \/ u \in sso.domains

-----------------------------------------------------------------------------
(* Settings.  isAdminRole reads the role and not whether it is deactivated. *)

IsAdminRole(u) == u \in Admins /\ IsMember(u)

PutSSOConfig(a, settings) ==
    /\ IsAdminRole(a)
    /\ sso' = [on |-> TRUE, enforce |-> settings.enforce, domains |-> settings.domains]
    /\ UNCHANGED <<users, member, subject, scim, prov>>

PutSCIMConfig(a, clear) ==
    /\ IsAdminRole(a)
    /\ scim' = ~clear
    /\ UNCHANGED <<users, member, subject, sso, prov>>

-----------------------------------------------------------------------------
(* SCIM.  Every call presents the token; users are never deleted.           *)

(* Makes u a member: a viewer if it was none, else only reactivated.        *)
Joined(u) == member' = [member EXCEPT ![u] = "active"]

(* The address has a user: its membership is ensured, and the answer is 409.*)
ScimCreateExisting(p, u) ==
    /\ scim /\ prov[p] = None
    /\ u \in users
    /\ Joined(u)
    /\ UNCHANGED <<users, subject, sso, scim, prov>>

ScimCreateRead(p, u) ==
    /\ scim /\ prov[p] = None
    /\ u \notin users
    /\ prov' = [prov EXCEPT ![p] = u]
    /\ UNCHANGED <<users, member, subject, sso, scim>>

(* users.email is unique: who comes second rolls back with a 500.           *)
ScimCreateInsert(p) ==
    /\ prov[p] # None
    /\ prov' = [prov EXCEPT ![p] = None]
    /\ IF prov[p] \in users
       THEN UNCHANGED <<users, member>>
       ELSE users' = users \cup {prov[p]} /\ Joined(prov[p])
    /\ UNCHANGED <<subject, sso, scim>>

(* PATCH active: it stamps or clears deactivated_at of a member.            *)
ScimPatch(u, active) ==
    /\ scim /\ IsMember(u)
    /\ member' = [member EXCEPT ![u] = IF active THEN "active" ELSE "deactivated"]
    /\ UNCHANGED <<users, subject, sso, scim, prov>>

ScimDelete(u) ==
    /\ scim /\ IsMember(u)
    /\ member' = [member EXCEPT ![u] = "deactivated"]
    /\ UNCHANGED <<users, subject, sso, scim, prov>>

MembersNext ==
    \/ \E a \in Users, settings \in Settings : PutSSOConfig(a, settings)
    \/ \E a \in Users, clear \in BOOLEAN : PutSCIMConfig(a, clear)
    \/ \E p \in Provisioners, u \in Users :
           ScimCreateExisting(p, u) \/ ScimCreateRead(p, u)
    \/ \E p \in Provisioners : ScimCreateInsert(p)
    \/ \E u \in Users, active \in BOOLEAN : ScimPatch(u, active)
    \/ \E u \in Users : ScimDelete(u)

-----------------------------------------------------------------------------
(* The transaction of ssoCallback: the provider vouches for address u of    *)
(* the person it calls s, and who signs in is v.  The member linked to s,   *)
(* else the member with the address, who is then linked to s, else a new    *)
(* viewer.  s linked to somebody else who is no member here is an error.    *)

Linked(s) == {v \in Users : subject[v] = s}

(* Mutant: the upsert of the membership clears deactivated_at.              *)
LinkAndReactivate(u, s, v) ==
    \/ /\ v \in Linked(s) /\ IsMember(v)
       /\ UNCHANGED <<users, member, subject>>
    \/ /\ \A w \in Linked(s) : w = u /\ ~IsMember(w)
       /\ v = u
       /\ users' = users \cup {u}
       /\ subject' = [subject EXCEPT ![u] = s]
       /\ Joined(u)

LinkIdentity(u, s, v) ==
    \/ /\ v \in Linked(s) /\ IsMember(v)
       /\ UNCHANGED <<users, member, subject>>
    \/ /\ \A w \in Linked(s) : w = u /\ ~IsMember(w)
       /\ v = u
       /\ users' = users \cup {u}
       /\ subject' = [subject EXCEPT ![u] = s]
       /\ member' = [member EXCEPT ![u] = IF IsMember(u) THEN @ ELSE "active"]

=============================================================================
