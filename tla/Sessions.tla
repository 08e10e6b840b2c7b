------------------------------- MODULE Sessions -------------------------------
(***************************************************************************)
(* Signing in and staying signed in: login links and the rotation of       *)
(* refresh tokens (auth.go), and the login by the workspace's identity     *)
(* provider (sso.go).  A link stands for a row of login_tokens and its     *)
(* token, a Sid for a row of sessions and its refresh token.               *)
(*                                                                         *)
(* A handler's statements are steps of their own where another handler's   *)
(* may fall between them and matter; a handler stops at any of them when   *)
(* its client goes away, and its transaction is rolled back.  Age counts   *)
(* the limits a row has passed.  The access token is a signed statement    *)
(* that parseAccess and auth verify without state: it is not here.         *)
(***************************************************************************)
EXTENDS Members

CONSTANTS
    Links,      \* bound on the login links ever minted
    Sids,       \* bound on the sessions ever begun
    Handlers,   \* requests of these endpoints served at once
    IPs,        \* addresses the requests come from
    Spellings,  \* ways to type one mailbox's address that differ in case
    PerEmail,   \* login links per email and hour, 5 in the code
    PerIP       \* login links per IP and hour, 10 in the code

ASSUME ThrottleAssumption == PerEmail \in Nat /\ PerIP \in Nat
(* What a session is from is a row of one table, or a name of the provider. *)
ASSUME SidsAreSids == Sids \cap (Links \cup Subjects) = {} /\ Links \cap Subjects = {}

VARIABLES
    link,       \* rows of login_tokens
    sess,       \* rows of sessions, and refresh tokens that have none
    req,        \* what each handler is doing
    ended       \* families a logout or a repeated token has ended

vars == <<memberVars, link, sess, req, ended>>
rows == <<link, sess, ended>>

Unborn == [st |-> "free"]
Idle == [at |-> "idle"]

(* Limits: 15 minutes of validity and the hour of the throttle; 30 days of  *)
(* a session.  Which expired rows are old enough to be swept is left open.  *)
LinkAges == 0..2
SessionAges == 0..1

Link == [st : {"sent", "used"}, user : Users, as : Spellings, ip : IPs, age : LinkAges, raced : BOOLEAN]
Session == [st : {"live", "revoked", "gone", "unstored"}, user : Users,
            from : Links \cup Sids \cup Subjects, family : Sids, age : SessionAges,
            raced : {"no", "fork", "late"}, active : BOOLEAN]

Request ==
    {Idle} \cup [at : {"mint"}, user : Users, as : Spellings, ip : IPs, under : BOOLEAN]
        \cup [at : {"sweepLinks", "sweepSessions"}]
        \cup [at : {"consume"}, link : Links, unused : BOOLEAN]
        \cup [at : {"role", "rotate"}, sid : Sids, live : BOOLEAN, active : BOOLEAN]
        \cup [at : {"family"}, sid : Sids]
        \cup [at : {"sso"}, user : Users, subject : Subjects]

TypeOK ==
    /\ MembersTypeOK
    /\ link \in [Links -> Link \cup {Unborn, [st |-> "gone"]}]
    /\ sess \in [Sids -> Session \cup {Unborn}]
    /\ req \in [Handlers -> Request]
    /\ ended \subseteq Sids

Init ==
    /\ MembersInit
    /\ link = [l \in Links |-> Unborn]
    /\ sess = [s \in Sids |-> Unborn]
    /\ req = [h \in Handlers |-> Idle]
    /\ ended = {}

Born(s) == sess[s] # Unborn
Stored(s) == Born(s) /\ sess[s].st \in {"live", "revoked"}
IsLive(s) == Born(s) /\ sess[s].st = "live"
Of(f) == {s \in Sids : Born(s) /\ sess[s].family = f}
LiveOf(f) == {s \in Of(f) : IsLive(s)}

Does(h, r) == req' = [req EXCEPT ![h] = r]

(* History of a new session: whether what it was made from, still good when *)
(* its request read it, was used or revoked meanwhile, or its family ended; *)
(* and, in `active`, whether its request saw its user an active member.     *)
Raced(wasGood, good, isEnded) ==
    IF ~wasGood \/ good THEN "no" ELSE IF isEnded THEN "late" ELSE "fork"

NewSession(u, from, family, raced, active) ==
    [st |-> "live", user |-> u, from |-> from, family |-> family, age |-> 0,
     raced |-> raced, active |-> active]

(* UPDATE sessions SET revoked_at = now() of the live rows among S.         *)
Revoke(S) ==
    [s \in Sids |-> IF s \in S /\ IsLive(s) THEN [sess[s] EXCEPT !.st = "revoked"]
                    ELSE sess[s]]

-----------------------------------------------------------------------------
(* Login links.                                                             *)

(* Rows of the last hour; those of an address are those that spell it so,   *)
(* though every other statement matches addresses without their case.       *)
Recent == {l \in Links : link[l].st \in {"sent", "used"} /\ link[l].age < 2}
RecentOf(u, a) == {l \in Recent : link[l].user = u /\ link[l].as = a}
RecentFrom(i) == {l \in Recent : link[l].ip = i}

(* Mutant: the limit itself still passes.                                   *)
UnderOrAtLimits(u, a, i) ==
    Cardinality(RecentFrom(i)) <= PerIP /\ Cardinality(RecentOf(u, a)) <= PerEmail

UnderLimits(u, a, i) ==
    Cardinality(RecentFrom(i)) < PerIP /\ Cardinality(RecentOf(u, a)) < PerEmail

(* An address that must sign in by SSO is refused; one that is no member's  *)
(* gets a link that nothing will consume.                                   *)
RequestMagicLink(h, u, a, i) ==
    /\ req[h] = Idle
    /\ UnderLimits(u, a, i)
    /\ ~(sso.on /\ sso.enforce /\ DomainAllowed(u))
    /\ Does(h, [at |-> "mint", user |-> u, as |-> a, ip |-> i,
                under |-> UnderLimits(u, a, i)])
    /\ UNCHANGED <<memberVars, rows>>

(* Whoever names no workspace is counted, gets nothing, and may have to     *)
(* sweep.                                                                   *)
RequestNoLink(h, u, a, i) ==
    /\ req[h] = Idle
    /\ UnderLimits(u, a, i)
    /\ Does(h, [at |-> "sweepLinks"])
    /\ UNCHANGED <<memberVars, rows>>

(* Its history: the limits were reached between the count and the insert.   *)
NewLink(u, a, i, under) ==
    [st |-> "sent", user |-> u, as |-> a, ip |-> i, age |-> 0,
     raced |-> under /\ ~UnderLimits(u, a, i)]

(* Nobody looks whether the insert and the commit succeed.  One request in  *)
(* a hundred goes on to sweep.                                              *)
MintLink(h) ==
    /\ req[h].at = "mint"
    /\ \/ \E l \in Links :
              /\ link[l] = Unborn
              /\ link' = [link EXCEPT ![l] =
                     NewLink(req[h].user, req[h].as, req[h].ip, req[h].under)]
       \/ UNCHANGED link
    /\ \E next \in {Idle, [at |-> "sweepLinks"]} : Does(h, next)
    /\ UNCHANGED <<memberVars, sess, ended>>

(* What is long expired is deleted after the commit, by two statements.     *)
SweepLinks(h, L) ==
    /\ req[h].at = "sweepLinks"
    /\ \A l \in L : link[l].st \in {"sent", "used"} /\ link[l].age = 2
    /\ link' = [l \in Links |-> IF l \in L THEN [st |-> "gone"] ELSE link[l]]
    /\ Does(h, [at |-> "sweepSessions"])
    /\ UNCHANGED <<memberVars, sess, ended>>

SweepSessions(h, S) ==
    /\ req[h].at = "sweepSessions"
    /\ \A s \in S : Stored(s) /\ sess[s].age = 1
    /\ sess' = [s \in Sids |-> IF s \in S THEN [sess[s] EXCEPT !.st = "gone"] ELSE sess[s]]
    /\ Does(h, Idle)
    /\ UNCHANGED <<memberVars, link, ended>>

(* Mutant: a used link is read like any other.                              *)
ConsumeReadAny(h, l) ==
    /\ req[h] = Idle
    /\ link[l].st \in {"sent", "used"} /\ link[l].age = 0
    /\ Does(h, [at |-> "consume", link |-> l, unused |-> link[l].st = "sent"])
    /\ UNCHANGED <<memberVars, rows>>

ConsumeRead(h, l) ==
    /\ req[h] = Idle
    /\ link[l].st = "sent" /\ link[l].age = 0
    /\ Does(h, [at |-> "consume", link |-> l, unused |-> link[l].st = "sent"])
    /\ UNCHANGED <<memberVars, rows>>

(* The UPDATE that marks the link used joins the membership, and does not   *)
(* ask again whether the link is unused.                                    *)
Consume(h) ==
    /\ req[h].at = "consume"
    /\ LET l == req[h].link IN
       IF link[l].st \in {"sent", "used"} /\ IsActive(link[l].user)
       THEN \E s \in Sids :
                /\ ~Born(s)
                /\ link' = [link EXCEPT ![l] = [@ EXCEPT !.st = "used"]]
                /\ sess' = [sess EXCEPT ![s] =
                       NewSession(link[l].user, l, s,
                           Raced(req[h].unused, link[l].st = "sent", FALSE), IsActive(link[l].user))]
       ELSE UNCHANGED <<link, sess>>
    /\ Does(h, Idle)
    /\ UNCHANGED <<memberVars, ended>>

-----------------------------------------------------------------------------
(* Rotation.                                                                *)

(* Mutant: a repeated token revokes no more than its own row.               *)
RefreshReadOwnRow(h, s) ==
    /\ req[h] = Idle
    /\ Stored(s)
    /\ IF IsLive(s)
       THEN /\ sess[s].age = 0
            /\ Does(h, [at |-> "role", sid |-> s, live |-> IsLive(s), active |-> FALSE])
            /\ UNCHANGED rows
       ELSE /\ sess' = Revoke({s})
            /\ ended' = ended \cup {sess[s].family}
            /\ UNCHANGED <<link, req>>
    /\ UNCHANGED memberVars

(* A live token is to be rotated; a revoked one was stolen or is repeated,  *)
(* and ends its family.  Any other is refused.                              *)
RefreshRead(h, s) ==
    /\ req[h] = Idle
    /\ Stored(s)
    /\ IF IsLive(s)
       THEN /\ sess[s].age = 0
            /\ Does(h, [at |-> "role", sid |-> s, live |-> IsLive(s), active |-> FALSE])
            /\ UNCHANGED rows
       ELSE /\ sess' = Revoke(Of(sess[s].family))
            /\ ended' = ended \cup {sess[s].family}
            /\ UNCHANGED <<link, req>>
    /\ UNCHANGED memberVars

(* Mutant: the role is read of a deactivated membership too.                *)
RefreshRoleOfAny(h) ==
    /\ req[h].at = "role"
    /\ Does(h, [at |-> "rotate", sid |-> req[h].sid, live |-> req[h].live,
                active |-> IsActive(sess[req[h].sid].user)])
    /\ UNCHANGED <<memberVars, rows>>

RefreshRole(h) ==
    /\ req[h].at = "role"
    /\ LET active == IsActive(sess[req[h].sid].user) IN
           Does(h, IF active
                   THEN [at |-> "rotate", sid |-> req[h].sid, live |-> req[h].live,
                         active |-> active]
                   ELSE Idle)
    /\ UNCHANGED <<memberVars, rows>>

(* Mutant: the old row is left as it is.                                    *)
RotateKeepsOld(h) ==
    /\ req[h].at = "rotate"
    /\ LET s == req[h].sid IN
       \E n \in Sids :
           /\ ~Born(n)
           /\ sess' = [sess EXCEPT ![n] =
                  NewSession(sess[s].user, s, sess[s].family,
                      Raced(req[h].live, IsLive(s), sess[s].family \in ended), req[h].active)]
    /\ Does(h, Idle)
    /\ UNCHANGED <<memberVars, link, ended>>

(* The old row is revoked, whatever became of it since it was read, and its *)
(* successor inserted.                                                      *)
Rotate(h) ==
    /\ req[h].at = "rotate"
    /\ LET s == req[h].sid
           revoked == Revoke({s}) IN
       \E n \in Sids :
           /\ ~Born(n)
           /\ sess' = [revoked EXCEPT ![n] =
                  NewSession(sess[s].user, s, sess[s].family,
                      Raced(req[h].live, IsLive(s), sess[s].family \in ended), req[h].active)]
    /\ Does(h, Idle)
    /\ UNCHANGED <<memberVars, link, ended>>

-----------------------------------------------------------------------------
(* Signing out: the row and then its family, each a statement that commits. *)

Logout(h, s) ==
    /\ req[h] = Idle
    /\ IsLive(s)
    /\ sess' = Revoke({s})
    /\ Does(h, [at |-> "family", sid |-> s])
    /\ UNCHANGED <<memberVars, link, ended>>

LogoutFamily(h) ==
    /\ req[h].at = "family"
    /\ LET f == sess[req[h].sid].family IN
           IF Stored(req[h].sid)
           THEN sess' = Revoke(Of(f)) /\ ended' = ended \cup {f}
           ELSE UNCHANGED <<sess, ended>>
    /\ Does(h, Idle)
    /\ UNCHANGED <<memberVars, link>>

(* DELETE of one of the user's own sessions, from the list of devices.      *)
RevokeSession(s) ==
    /\ IsLive(s)
    /\ sess' = Revoke({s})
    /\ UNCHANGED <<memberVars, link, req, ended>>

-----------------------------------------------------------------------------
(* Single sign-on.                                                          *)

(* The state is valid and the provider answers with an ID token of u, whom  *)
(* it calls s.  It is signed with a key the cached ones may lack for an     *)
(* hour, and then the login fails, like one the provider does not answer.   *)
SsoExchange(h, u, s) ==
    /\ req[h] = Idle
    /\ sso.on
    /\ DomainAllowed(u)
    /\ Does(h, [at |-> "sso", user |-> u, subject |-> s])
    /\ UNCHANGED <<memberVars, rows>>

(* The tokens handed out are those issueTokens makes: no row is inserted.   *)
SsoCommit(h) ==
    /\ req[h].at = "sso"
    /\ \E v \in Users, n \in Sids :
           /\ LinkIdentity(req[h].user, req[h].subject, v)
           /\ ~Born(n)
           /\ sess' = [sess EXCEPT ![n] = [st |-> "unstored", user |-> v,
                  from |-> req[h].subject, family |-> n, age |-> 0,
                  raced |-> "no", active |-> IsActive(v)]]
    /\ Does(h, Idle)
    /\ UNCHANGED <<sso, scim, prov, link, ended>>

-----------------------------------------------------------------------------
(* What happens around the handlers.                                        *)

(* The client goes away, or a statement fails.                              *)
Abandon(h) ==
    /\ req[h] # Idle
    /\ Does(h, Idle)
    /\ UNCHANGED <<memberVars, rows>>

AgeLink(l) ==
    /\ link[l].st \in {"sent", "used"} /\ link[l].age < 2
    /\ link' = [link EXCEPT ![l] = [@ EXCEPT !.age = link[l].age + 1]]
    /\ UNCHANGED <<memberVars, sess, req, ended>>

AgeSession(s) ==
    /\ Stored(s) /\ sess[s].age < 1
    /\ sess' = [sess EXCEPT ![s] = [@ EXCEPT !.age = sess[s].age + 1]]
    /\ UNCHANGED <<memberVars, link, req, ended>>

Next ==
    \/ MembersNext /\ UNCHANGED <<rows, req>>
    \/ \E h \in Handlers :
           \/ \E u \in Users, a \in Spellings, i \in IPs :
                  RequestMagicLink(h, u, a, i) \/ RequestNoLink(h, u, a, i)
           \/ MintLink(h)
           \/ \E L \in SUBSET Links : SweepLinks(h, L)
           \/ \E S \in SUBSET Sids : SweepSessions(h, S)
           \/ \E l \in Links : ConsumeRead(h, l)
           \/ Consume(h)
           \/ \E s \in Sids : RefreshRead(h, s) \/ Logout(h, s)
           \/ RefreshRole(h)
           \/ Rotate(h)
           \/ LogoutFamily(h)
           \/ \E u \in Users, s \in Subjects : SsoExchange(h, u, s)
           \/ SsoCommit(h)
           \/ Abandon(h)
    \/ \E l \in Links : AgeLink(l)
    \/ \E s \in Sids : RevokeSession(s) \/ AgeSession(s)

Spec == Init /\ [][Next]_vars

-----------------------------------------------------------------------------
(* Properties.                                                              *)

(* A rotated session is live no more when its successor exists, and the two *)
(* are one user's and one family's, however refreshes, sign-outs and the    *)
(* sweep interleave (auth.go:347-356).                                      *)
Succession ==
    \A s \in Sids : Born(s) /\ sess[s].from \in Sids =>
        LET old == sess[sess[s].from] IN
        /\ Born(sess[s].from) /\ old.st # "live"
        /\ old.user = sess[s].user
        /\ old.family = sess[s].family

(* Two sessions of a family are live at once only for a refresh that lost a *)
(* race with another, and two logins came of one link only for two requests *)
(* that both read it unused: the statements that revoke and mark do not ask *)
(* again (auth.go:240-248, auth.go:347).                                    *)
ForkedOnlyByRaces ==
    /\ \A f \in Sids :
           Cardinality(LiveOf(f)) <= 1 + Cardinality({s \in Of(f) : sess[s].raced # "no"})
    /\ \A l \in Links :
           Cardinality({s \in Sids : Born(s) /\ sess[s].from = l /\ sess[s].raced = "no"}) <= 1

(* Once a logout or a repeated token has ended a family nothing of it is    *)
(* live, but for a refresh that had read its session before (auth.go:316-   *)
(* 319, auth.go:393-394).                                                   *)
EndedStaysEnded ==
    \A f \in ended : LiveOf(f) # {} => \E s \in Of(f) : sess[s].raced = "late"

(* The links of an hour are within the limits of their address, as it was   *)
(* typed, and of their IP, but for those whose requests counted while       *)
(* another had yet to insert (auth.go:131-143, 174-177).                    *)
ThrottleHolds ==
    /\ \A u \in Users, a \in Spellings :
           Cardinality({l \in RecentOf(u, a) : ~link[l].raced}) <= PerEmail
    /\ \A i \in IPs : Cardinality({l \in RecentFrom(i) : ~link[l].raced}) <= PerIP

(* A session with a row begins, or goes on, only for somebody its request    *)
(* saw an active member, though the link was mailed and the token handed out*)
(* before: "magic-link, refresh, /me all reject deactivated members"        *)
(* (openapi.yaml:2902; auth.go:241-247, auth.go:336).                       *)
BegunByMember == \A s \in Sids : Stored(s) => sess[s].active

(* Only a SCIM call that asks for it brings a deactivated member back: no   *)
(* login does, and no insert of a POST that found no user when it looked    *)
(* (sso.go:552-556, scim.go:231-235, scim.go:252-263).                      *)
OnlyScimReactivates ==
    [][\A u \in Users : member[u] = "deactivated" /\ member'[u] = "active" =>
           UNCHANGED <<sess, req, prov>>]_vars

-----------------------------------------------------------------------------
(* Claims that the code does not keep, each run by hand.                    *)

(* Every refresh token a login hands out is one refreshSession can find:    *)
(* "link or JIT (viewer per 424), issue session - all in one tx"            *)
(* (sso.go:506).  The tokens of an SSO login are not.                       *)
TokensAreStored == \A s \in Sids : sess[s].st # "unstored"

(* "Token is single-use" (openapi.yaml:1357).                               *)
SingleUse ==
    \A l \in Links : Cardinality({s \in Sids : Born(s) /\ sess[s].from = l}) <= 1

(* "reuse of a rotated token kills the family" (auth.go:278).               *)
FamilyKilled == \A f \in ended : LiveOf(f) = {}

(* "5/email/hr" (auth.go:126), of requests that count together.             *)
ThrottleExact ==
    \A u \in Users, a \in Spellings : Cardinality(RecentOf(u, a)) <= PerEmail

(* The same without any race: "5/email/hr" (auth.go:126).  One mailbox has  *)
(* as many counts as its address has spellings.                             *)
MailboxLimited ==
    \A u \in Users :
        Cardinality({l \in Recent : link[l].user = u /\ ~link[l].raced}) <= PerEmail
=============================================================================
