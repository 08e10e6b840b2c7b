----------------------------- MODULE SessionProofs -----------------------------
(***************************************************************************)
(* Sessions for any number of members, requests, links and sessions.  The  *)
(* inductive invariant adds to the properties that whoever is a member has *)
(* a row in users, that a request between its reads and its write carries  *)
(* what it saw, that a family is named after its first session, and, where *)
(* rows are counted, that there are finitely many of them.                 *)
(***************************************************************************)
EXTENDS Sessions, FiniteSetTheorems, TLAPS

MembersAreUsers == \A u \in Users : IsMember(u) => u \in users

Carries(r) ==
    r.at \in {"role", "rotate"} =>
        /\ r.sid \in Sids /\ Born(r.sid)
        /\ r.live = TRUE
        /\ r.at = "rotate" => r.active = TRUE

FamiliesNamed ==
    /\ \A s \in Sids : Born(s) => Born(sess[s].family)
    /\ \A f \in ended : Born(f)

RowsInv == FamiliesNamed /\ Succession /\ EndedStaysEnded /\ BegunByMember

SessionInv ==
    /\ TypeOK
    /\ MembersAreUsers
    /\ \A h \in Handlers : Carries(req[h])
    /\ RowsInv

-----------------------------------------------------------------------------
(* Rows.                                                                    *)

LEMMA BornIsSession ==
    ASSUME sess \in [Sids -> Session \cup {Unborn}], NEW s \in Sids
    PROVE  /\ Born(s) <=> sess[s] \in Session
           /\ Born(s) => sess[s].family \in Sids /\ sess[s].user \in Users
           /\ ~Born(s) => sess[s] = Unborn
BY DEF Session, Born, Unborn

(* A row that is revoked, ages or is swept is otherwise the same.           *)
LEMMA SessionUpdates ==
    ASSUME NEW r \in Session
    PROVE  /\ \A st \in {"live", "revoked", "gone", "unstored"} :
                  LET q == [r EXCEPT !.st = st] IN
                  /\ q \in Session /\ q.st = st /\ q.user = r.user /\ q.from = r.from
                  /\ q.family = r.family /\ q.raced = r.raced /\ q.active = r.active
           /\ \A a \in SessionAges :
                  LET q == [r EXCEPT !.age = a] IN
                  /\ q \in Session /\ q.st = r.st /\ q.user = r.user /\ q.from = r.from
                  /\ q.family = r.family /\ q.raced = r.raced /\ q.active = r.active
BY DEF Session

LEMMA RacedKinds ==
    ASSUME NEW a \in BOOLEAN, NEW b \in BOOLEAN, NEW c \in BOOLEAN
    PROVE  Raced(a, b, c) \in {"no", "fork", "late"}
BY DEF Raced

LEMMA RequestKinds ==
    ASSUME NEW r \in Request
    PROVE  /\ r.at = "mint" => /\ r.user \in Users /\ r.as \in Spellings /\ r.ip \in IPs
                             /\ r.under \in BOOLEAN
           /\ r.at = "consume" => r.link \in Links /\ r.unused \in BOOLEAN
           /\ r.at \in {"role", "rotate"} =>
                  r.sid \in Sids /\ r.live \in BOOLEAN /\ r.active \in BOOLEAN
           /\ r.at = "family" => r.sid \in Sids
           /\ r.at = "sso" => r.user \in Users /\ r.subject \in Subjects
BY DEF Request, Idle

-----------------------------------------------------------------------------
(* What every step does to the rows of sessions.                            *)

Keeps(s) ==
    /\ sess'[s] \in Session
    /\ sess'[s].user = sess[s].user /\ sess'[s].from = sess[s].from
    /\ sess'[s].family = sess[s].family /\ sess'[s].raced = sess[s].raced
    /\ sess'[s].active = sess[s].active
    /\ sess'[s].st = "live" => sess[s].st = "live"
    /\ sess'[s].st \in {"live", "revoked"} => sess[s].st \in {"live", "revoked"}

(* A new session begins a family, or is the successor of one that is        *)
(* revoked; if its family has ended, one of the family was late.            *)
Begins(n) ==
    LET new == sess'[n] IN
    /\ new \in Session
    /\ new.family = n \/ \E s \in Sids : Born(s) /\ sess[s].family = new.family
    /\ new.from \in Sids =>
           /\ Born(new.from) /\ sess'[new.from].st # "live"
           /\ new.user = sess[new.from].user /\ new.family = sess[new.from].family
    /\ new.st = "live" /\ new.family \in ended =>
           \/ new.raced = "late"
           \/ \E s \in Sids : Born(s) /\ sess[s].family = new.family /\ sess[s].raced = "late"
    /\ new.st \in {"live", "revoked"} => new.active = TRUE

(* A family ends when none of it is live.                                   *)
Ends(f) ==
    /\ \E s \in Sids : Born(s) /\ sess[s].family = f
    /\ \A s \in Sids : Born(s) /\ sess[s].family = f => sess'[s].st # "live"
    /\ \A s \in Sids : sess'[s] # Unborn => Born(s)

LEMMA SessionStep ==
    ASSUME SessionInv,
           sess' \in [Sids -> Session \cup {Unborn}],
           \A s \in Sids : Born(s) => Keeps(s),
           \A n \in Sids : ~Born(n) /\ sess'[n] # Unborn => Begins(n),
           ended \subseteq ended',
           \A f \in ended' : f \notin ended => f \in Sids /\ Ends(f)
    PROVE  RowsInv'
<1> USE DEF Keeps
<1>t. sess \in [Sids -> Session \cup {Unborn}] /\ ended \subseteq Sids
    BY DEF SessionInv, RowsInv, TypeOK
<1>u. Unborn \notin Session
    BY DEF Unborn, Session
<1>k. \A s \in Sids : Born(s) => Born(s)'
    BY <1>u DEF Born
<1>1. FamiliesNamed'
    <2>1. ASSUME NEW s \in Sids, Born(s)' PROVE Born(sess[s].family)'
        <3>1. CASE Born(s)
            BY <3>1, <1>k, <1>t, BornIsSession DEF SessionInv, RowsInv, FamiliesNamed
        <3>2. CASE ~Born(s)
            <4>1. Begins(s)
                BY <2>1, <3>2 DEF Born
            <4> QED BY <4>1, <2>1, <1>k, <1>t, BornIsSession DEF SessionInv, RowsInv, FamiliesNamed, Begins
        <3> QED BY <3>1, <3>2
    <2>2. ASSUME NEW f \in ended' PROVE Born(f)'
        <3>1. CASE f \in ended
            BY <3>1, <1>k, <1>t DEF SessionInv, RowsInv, FamiliesNamed
        <3>2. CASE f \notin ended
            BY <3>2, <2>2, <1>k, <1>t DEF SessionInv, RowsInv, FamiliesNamed, Ends
        <3> QED BY <3>1, <3>2
    <2> QED BY <2>1, <2>2 DEF FamiliesNamed
<1>2. Succession'
    <2> SUFFICES ASSUME NEW s \in Sids, Born(s)', sess'[s].from \in Sids
                 PROVE  LET old == sess'[sess'[s].from] IN
                        /\ Born(sess[s].from)' /\ old.st # "live"
                        /\ old.user = sess'[s].user /\ old.family = sess'[s].family
        BY DEF Succession
    <2>1. CASE Born(s)
        <3>1. /\ Born(sess[s].from) /\ sess[sess[s].from].st # "live"
              /\ sess[sess[s].from].user = sess[s].user
              /\ sess[sess[s].from].family = sess[s].family
              /\ sess[s].from \in Sids /\ sess'[s].from = sess[s].from
            BY <2>1 DEF SessionInv, RowsInv, Succession
        <3> QED BY <3>1, <2>1, <1>k
    <2>2. CASE ~Born(s)
        <3>1. Begins(s)
            BY <2>2 DEF Born
        <3>2. /\ Born(sess'[s].from) /\ sess'[sess'[s].from].st # "live"
              /\ sess'[s].user = sess[sess'[s].from].user
              /\ sess'[s].family = sess[sess'[s].from].family
            BY <3>1 DEF Begins
        <3> QED BY <3>2, <1>k
    <2> QED BY <2>1, <2>2
<1>3. EndedStaysEnded'
    <2> SUFFICES ASSUME NEW f \in ended', NEW x \in Sids, sess'[x] # Unborn,
                        sess'[x].family = f, sess'[x].st = "live"
                 PROVE  \E s \in Sids : /\ sess'[s] # Unborn /\ sess'[s].family = f
                                        /\ sess'[s].raced = "late"
        BY DEF EndedStaysEnded, LiveOf, Of, IsLive, Born
    <2>1. CASE f \notin ended
        BY <2>1 DEF Ends
    <2>2. CASE f \in ended /\ Born(x)
        <3>1. x \in LiveOf(f)
            BY <2>2 DEF LiveOf, Of, IsLive
        <3>2. PICK s \in Of(f) : sess[s].raced = "late"
            BY <3>1, <2>2 DEF SessionInv, RowsInv, EndedStaysEnded
        <3> QED BY <3>2, <1>u DEF Of
    <2>3. CASE f \in ended /\ ~Born(x)
        <3>1. Begins(x)
            BY <2>3
        <3> QED BY <3>1, <2>3, <1>u DEF Begins
    <2> QED BY <2>1, <2>2, <2>3
<1>4. BegunByMember'
    <2> SUFFICES ASSUME NEW s \in Sids, sess'[s] # Unborn, sess'[s].st \in {"live", "revoked"}
                 PROVE  sess'[s].active
        BY DEF BegunByMember, Stored, Born
    <2>1. CASE Born(s)
        BY <2>1 DEF SessionInv, RowsInv, BegunByMember, Stored
    <2>2. CASE ~Born(s)
        BY <2>2 DEF Begins
    <2> QED BY <2>1, <2>2
<1> QED BY <1>1, <1>2, <1>3, <1>4 DEF RowsInv

-----------------------------------------------------------------------------
(* Members and requests.                                                    *)

LEMMA LinkIdentityKeeps ==
    ASSUME MembersTypeOK, MembersAreUsers,
           NEW u \in Users, NEW s \in Subjects, NEW v \in Users, LinkIdentity(u, s, v)
    PROVE  /\ users' \subseteq Users /\ member' \in [Users -> {"none", "active", "deactivated"}]
           /\ subject' \in [Users -> Subjects \cup {None}]
           /\ MembersAreUsers'
           /\ \A w \in Users : member[w] = "deactivated" => member'[w] = "deactivated"
BY DEF LinkIdentity, MembersTypeOK, MembersAreUsers, IsMember, Joined

LEMMA MembersStep ==
    ASSUME MembersTypeOK, MembersAreUsers, MembersNext
    PROVE  MembersTypeOK' /\ MembersAreUsers'
<1> USE DEF MembersTypeOK, MembersAreUsers, IsMember
<1>1. ASSUME NEW a \in Users, NEW settings \in Settings, PutSSOConfig(a, settings)
      PROVE  MembersTypeOK' /\ MembersAreUsers'
    BY <1>1, SettingsAssumption DEF PutSSOConfig
<1>2. ASSUME NEW a \in Users, NEW clear \in BOOLEAN, PutSCIMConfig(a, clear)
      PROVE  MembersTypeOK' /\ MembersAreUsers'
    BY <1>2 DEF PutSCIMConfig
<1>3. ASSUME NEW p \in Provisioners, NEW u \in Users,
             ScimCreateExisting(p, u) \/ ScimCreateRead(p, u)
      PROVE  MembersTypeOK' /\ MembersAreUsers'
    BY <1>3 DEF ScimCreateExisting, ScimCreateRead, Joined
<1>4. ASSUME NEW p \in Provisioners, ScimCreateInsert(p)
      PROVE  MembersTypeOK' /\ MembersAreUsers'
    BY <1>4 DEF ScimCreateInsert, Joined
<1>5. ASSUME NEW u \in Users, NEW active \in BOOLEAN, ScimPatch(u, active)
      PROVE  MembersTypeOK' /\ MembersAreUsers'
    BY <1>5 DEF ScimPatch
<1>6. ASSUME NEW u \in Users, ScimDelete(u)
      PROVE  MembersTypeOK' /\ MembersAreUsers'
    BY <1>6 DEF ScimDelete
<1> QED BY <1>1, <1>2, <1>3, <1>4, <1>5, <1>6 DEF MembersNext

(* No insert of a POST reactivates: its user was not there, so no member.   *)
LEMMA InsertReactivatesNobody ==
    ASSUME MembersTypeOK, MembersAreUsers, NEW p \in Provisioners, ScimCreateInsert(p),
           NEW u \in Users, member[u] = "deactivated"
    PROVE  member'[u] # "active"
BY DEF ScimCreateInsert, Joined, MembersTypeOK, MembersAreUsers, IsMember

LEMMA DoesOne ==
    ASSUME req \in [Handlers -> Request], NEW h \in Handlers, NEW r \in Request, Does(h, r)
    PROVE  /\ req' \in [Handlers -> Request] /\ req'[h] = r
           /\ \A g \in Handlers : g # h => req'[g] = req[g]
BY DEF Does

(* A request that has begun nothing, or lets go, carries nothing.           *)
LEMMA CarriesStep ==
    ASSUME SessionInv, \A s \in Sids : Born(s) => Born(s)',
           req' \in [Handlers -> Request],
           \A h \in Handlers : req'[h] = req[h] \/ req'[h].at \notin {"role", "rotate"}
    PROVE  \A h \in Handlers : Carries(req[h])'
BY DEF SessionInv, RowsInv, Carries, TypeOK

LEMMA RevokeRows ==
    ASSUME sess \in [Sids -> Session \cup {Unborn}], NEW S
    PROVE  /\ Revoke(S) \in [Sids -> Session \cup {Unborn}]
           /\ \A s \in Sids : Born(s) =>
                  LET q == Revoke(S)[s] IN
                  /\ q \in Session /\ q.user = sess[s].user /\ q.from = sess[s].from
                  /\ q.family = sess[s].family /\ q.raced = sess[s].raced
                  /\ q.active = sess[s].active
                  /\ q.st = "live" => sess[s].st = "live" /\ s \notin S
                  /\ q.st \in {"live", "revoked"} => sess[s].st \in {"live", "revoked"}
           /\ \A s \in Sids : ~Born(s) => Revoke(S)[s] = Unborn
<1>1. ASSUME NEW s \in Sids, Born(s)
      PROVE  LET q == [sess[s] EXCEPT !.st = "revoked"] IN
             /\ q \in Session /\ q.st = "revoked" /\ q.user = sess[s].user
             /\ q.from = sess[s].from /\ q.family = sess[s].family
             /\ q.raced = sess[s].raced /\ q.active = sess[s].active
    BY <1>1, BornIsSession, SessionUpdates
<1> DEFINE dead(s) == [sess[s] EXCEPT !.st = "revoked"]
<1>2. Revoke(S) = [s \in Sids |-> IF s \in S /\ IsLive(s) THEN dead(s) ELSE sess[s]]
    BY DEF Revoke
<1>3. \A s \in Sids : Born(s) => 
             /\ dead(s) \in Session /\ dead(s).st = "revoked" /\ dead(s).user = sess[s].user
             /\ dead(s).from = sess[s].from /\ dead(s).family = sess[s].family
             /\ dead(s).raced = sess[s].raced /\ dead(s).active = sess[s].active
    BY <1>1
<1> HIDE DEF dead
<1> QED BY <1>2, <1>3, BornIsSession DEF IsLive

-----------------------------------------------------------------------------
(* The rows of sessions are left alone, revoked, or revoked with the whole  *)
(* of a family that ends.                                                   *)

LEMMA SameRows ==
    ASSUME SessionInv, UNCHANGED <<sess, ended>>
    PROVE  RowsInv'
BY DEF SessionInv, RowsInv, FamiliesNamed, Succession, EndedStaysEnded, BegunByMember,
       Born, LiveOf, Of, IsLive, Stored

LEMMA RevokedRows ==
    ASSUME SessionInv, NEW S, sess' = Revoke(S), ended' = ended
    PROVE  RowsInv' /\ sess' \in [Sids -> Session \cup {Unborn}] /\ \A s \in Sids : Born(s) => Born(s)'
<1>t. sess \in [Sids -> Session \cup {Unborn}]
    BY DEF SessionInv, TypeOK
<1>1. sess' \in [Sids -> Session \cup {Unborn}]
    BY <1>t, RevokeRows
<1>2. \A s \in Sids : Born(s) => Keeps(s)
    BY <1>t, RevokeRows DEF Keeps
<1>3. \A s \in Sids : ~Born(s) => sess'[s] = Unborn
    BY <1>t, RevokeRows
<1>4. Unborn \notin Session
    BY DEF Unborn, Session
<1> QED BY <1>1, <1>2, <1>3, <1>4, SessionStep DEF Keeps, Born

LEMMA EndedRows ==
    ASSUME SessionInv, NEW x \in Sids, Born(x),
           sess' = Revoke(Of(sess[x].family)), ended' = ended \cup {sess[x].family}
    PROVE  /\ RowsInv' /\ sess' \in [Sids -> Session \cup {Unborn}] /\ ended' \subseteq Sids
           /\ \A s \in Sids : Born(s) => Born(s)'
<1>t. sess \in [Sids -> Session \cup {Unborn}] /\ ended \subseteq Sids
    BY DEF SessionInv, TypeOK
<1>1. sess' \in [Sids -> Session \cup {Unborn}]
    BY <1>t, RevokeRows
<1>2. \A s \in Sids : Born(s) => Keeps(s)
    BY <1>t, RevokeRows DEF Keeps
<1>3. \A s \in Sids : ~Born(s) => sess'[s] = Unborn
    BY <1>t, RevokeRows
<1>4. Unborn \notin Session
    BY DEF Unborn, Session
<1>5. sess[x].family \in Sids
    BY <1>t, BornIsSession
<1>6. Ends(sess[x].family)
    <2>1. ASSUME NEW s \in Sids, Born(s), sess[s].family = sess[x].family
          PROVE  sess'[s].st # "live"
        <3>1. s \in Of(sess[x].family)
            BY <2>1 DEF Of
        <3> QED BY <3>1, <2>1, <1>t, RevokeRows
    <2> QED BY <2>1, <1>3 DEF Ends
<1>7. RowsInv'
    BY <1>1, <1>2, <1>3, <1>5, <1>6, SessionStep
<1> QED BY <1>1, <1>2, <1>4, <1>5, <1>7, <1>t DEF Keeps, Born

(* A session is added to rows that are otherwise kept.                      *)
LEMMA AddedRow ==
    ASSUME SessionInv, NEW n \in Sids, ~Born(n),
           sess' \in [Sids -> Session \cup {Unborn}],
           \A s \in Sids : Born(s) => Keeps(s),
           \A s \in Sids : ~Born(s) /\ s # n => sess'[s] = Unborn,
           Begins(n), ended' = ended
    PROVE  RowsInv'
BY SessionStep

LEMMA LinkUpdates ==
    ASSUME NEW r \in Link
    PROVE  /\ [r EXCEPT !.st = "used"] \in Link
           /\ \A a \in LinkAges : [r EXCEPT !.age = a] \in Link
BY DEF Link

LEMMA BornKept ==
    ASSUME \A s \in Sids : Born(s) => Keeps(s)
    PROVE  \A s \in Sids : Born(s) => Born(s)'
<1>1. Unborn \notin Session
    BY DEF Unborn, Session
<1> QED BY <1>1 DEF Keeps, Born

-----------------------------------------------------------------------------
(* The actions.                                                             *)

LEMMA SessionInit == Init => SessionInv
<1> SUFFICES ASSUME Init PROVE SessionInv
    OBVIOUS
<1>1. MembersTypeOK /\ MembersAreUsers
    BY AdminsAssumption DEF Init, MembersInit, MembersTypeOK, MembersAreUsers, IsMember, NoSso
<1>2. TypeOK
    BY <1>1 DEF Init, TypeOK, Request
<1>3. \A h \in Handlers : Carries(req[h])
    BY DEF Init, Carries, Idle
<1>4. RowsInv
    BY DEF Init, RowsInv, FamiliesNamed, Succession, EndedStaysEnded, BegunByMember, Born, Stored
<1> QED BY <1>1, <1>2, <1>3, <1>4 DEF SessionInv

LEMMA IdleIsRequest == Idle \in Request /\ Idle.at = "idle"
BY DEF Idle, Request

LEMMA SweepIsRequest ==
    \A at \in {"sweepLinks", "sweepSessions"} : [at |-> at] \in Request
BY DEF Request

LEMMA LinkSteps ==
    ASSUME SessionInv, NEW h \in Handlers,
           \/ \E u \in Users, a \in Spellings, i \in IPs :
                  RequestMagicLink(h, u, a, i) \/ RequestNoLink(h, u, a, i)
           \/ \E l \in Links : ConsumeRead(h, l)
    PROVE  SessionInv'
<1>t. TypeOK /\ MembersAreUsers /\ RowsInv
    BY DEF SessionInv
<1>1. UNCHANGED <<memberVars, rows>>
    BY DEF RequestMagicLink, RequestNoLink, ConsumeRead
<1>2. PICK r \in Request : Does(h, r) /\ r.at \notin {"role", "rotate"}
    <2>1. ASSUME NEW u \in Users, NEW a \in Spellings, NEW i \in IPs, RequestMagicLink(h, u, a, i)
          PROVE  \E r \in Request : Does(h, r) /\ r.at \notin {"role", "rotate"}
        <3> DEFINE b == UnderLimits(u, a, i)
                   r == [at |-> "mint", user |-> u, as |-> a, ip |-> i, under |-> b]
        <3>1. b \in BOOLEAN
            BY <2>1, Zenon DEF RequestMagicLink
        <3>2. Does(h, r)
            BY <2>1 DEF RequestMagicLink
        <3> HIDE DEF b
        <3>3. r \in Request /\ r.at = "mint"
            BY <3>1 DEF Request
        <3> QED BY <3>2, <3>3
    <2>2. ASSUME NEW l \in Links, ConsumeRead(h, l)
          PROVE  \E r \in Request : Does(h, r) /\ r.at \notin {"role", "rotate"}
        <3> DEFINE b == (link[l].st = "sent")
                   r == [at |-> "consume", link |-> l, unused |-> b]
        <3>1. b \in BOOLEAN
            BY Zenon
        <3>2. Does(h, r)
            BY <2>2 DEF ConsumeRead
        <3> HIDE DEF b
        <3>3. r \in Request /\ r.at = "consume"
            BY <3>1 DEF Request
        <3> QED BY <3>2, <3>3
    <2>3. ASSUME NEW u \in Users, NEW a \in Spellings, NEW i \in IPs, RequestNoLink(h, u, a, i)
          PROVE  \E r \in Request : Does(h, r) /\ r.at \notin {"role", "rotate"}
        BY <2>3, SweepIsRequest DEF RequestNoLink
    <2> QED BY <2>1, <2>2, <2>3
<1>3. /\ req' \in [Handlers -> Request]
      /\ \A g \in Handlers : req'[g] = req[g] \/ req'[g].at \notin {"role", "rotate"}
    BY <1>2, <1>t, DoesOne DEF TypeOK
<1>4. \A g \in Handlers : Carries(req[g])'
    BY <1>1, <1>3, CarriesStep DEF rows, Born
<1>5. RowsInv'
    BY <1>1, SameRows DEF rows
<1>6. TypeOK' /\ MembersAreUsers'
    BY <1>1, <1>3, <1>t DEF rows, memberVars, TypeOK, MembersTypeOK, MembersAreUsers, IsMember
<1> QED BY <1>4, <1>5, <1>6 DEF SessionInv

(* What is left of a step once the rows of sessions are known to be sound.  *)
LEMMA OtherParts ==
    ASSUME SessionInv, RowsInv', \A s \in Sids : Born(s) => Born(s)',
           sess' \in [Sids -> Session \cup {Unborn}], ended' \subseteq Sids,
           link' \in [Links -> Link \cup {Unborn, [st |-> "gone"]}],
           UNCHANGED memberVars,
           NEW h \in Handlers, NEW r \in Request, Does(h, r),
           r.at \notin {"role", "rotate"}
    PROVE  SessionInv'
<1>1. /\ req' \in [Handlers -> Request]
      /\ \A g \in Handlers : req'[g] = req[g] \/ req'[g].at \notin {"role", "rotate"}
    BY DoesOne DEF SessionInv, TypeOK
<1>2. \A g \in Handlers : Carries(req[g])'
    BY <1>1, CarriesStep
<1>3. TypeOK' /\ MembersAreUsers'
    BY <1>1 DEF SessionInv, memberVars, TypeOK, MembersTypeOK, MembersAreUsers, IsMember
<1> QED BY <1>2, <1>3 DEF SessionInv

LEMMA MintStep ==
    ASSUME SessionInv, NEW h \in Handlers, MintLink(h)
    PROVE  SessionInv'
<1>t. /\ sess \in [Sids -> Session \cup {Unborn}] /\ ended \subseteq Sids
      /\ link \in [Links -> Link \cup {Unborn, [st |-> "gone"]}]
      /\ req[h] \in Request
    BY DEF SessionInv, TypeOK
<1>1. /\ req[h].user \in Users /\ req[h].as \in Spellings /\ req[h].ip \in IPs
      /\ req[h].under \in BOOLEAN
    BY <1>t, RequestKinds DEF MintLink
<1>2. /\ UNCHANGED <<sess, ended>> /\ UNCHANGED memberVars
      /\ \E next \in {Idle, [at |-> "sweepLinks"]} : Does(h, next)
    BY DEF MintLink
<1> DEFINE new == NewLink(req[h].user, req[h].as, req[h].ip, req[h].under)
<1>3. \/ \E l \in Links : link' = [link EXCEPT ![l] = new]
      \/ UNCHANGED link
    BY DEF MintLink
<1>4. new \in Link
    <2> DEFINE b == req[h].under /\ ~UnderLimits(req[h].user, req[h].as, req[h].ip)
    <2>1. b \in BOOLEAN
        BY Zenon
    <2>2. new = [st |-> "sent", user |-> req[h].user, as |-> req[h].as, ip |-> req[h].ip,
                 age |-> 0, raced |-> b]
        BY DEF NewLink
    <2> HIDE DEF b, new
    <2> QED BY <2>1, <2>2, <1>1 DEF Link, LinkAges
<1> HIDE DEF new
<1>5. link' \in [Links -> Link \cup {Unborn, [st |-> "gone"]}]
    BY <1>3, <1>4, <1>t
<1>6. PICK r \in Request : Does(h, r) /\ r.at \notin {"role", "rotate"}
    BY <1>2, IdleIsRequest, SweepIsRequest
<1> QED BY <1>2, <1>5, <1>6, <1>t, SameRows, OtherParts DEF Born

LEMMA SweepLinksStep ==
    ASSUME SessionInv, NEW h \in Handlers, NEW old \in SUBSET Links, SweepLinks(h, old)
    PROVE  SessionInv'
<1>t. /\ sess \in [Sids -> Session \cup {Unborn}] /\ ended \subseteq Sids
      /\ link \in [Links -> Link \cup {Unborn, [st |-> "gone"]}]
    BY DEF SessionInv, TypeOK
<1>1. /\ UNCHANGED <<sess, ended>> /\ UNCHANGED memberVars
      /\ Does(h, [at |-> "sweepSessions"])
      /\ link' = [l \in Links |-> IF l \in old THEN [st |-> "gone"] ELSE link[l]]
    BY DEF SweepLinks
<1>2. link' \in [Links -> Link \cup {Unborn, [st |-> "gone"]}]
    BY <1>1, <1>t
<1>3. PICK r \in Request : Does(h, r) /\ r.at \notin {"role", "rotate"}
    BY <1>1, SweepIsRequest
<1> QED BY <1>1, <1>2, <1>3, <1>t, SameRows, OtherParts DEF Born

LEMMA SweepSessionsStep ==
    ASSUME SessionInv, NEW h \in Handlers, NEW swept \in SUBSET Sids, SweepSessions(h, swept)
    PROVE  SessionInv'
<1>t. /\ sess \in [Sids -> Session \cup {Unborn}] /\ ended \subseteq Sids
      /\ link \in [Links -> Link \cup {Unborn, [st |-> "gone"]}]
    BY DEF SessionInv, TypeOK
<1> DEFINE gone(s) == [sess[s] EXCEPT !.st = "gone"]
<1>1. /\ sess' = [s \in Sids |-> IF s \in swept THEN gone(s) ELSE sess[s]]
      /\ \A s \in swept : Stored(s)
      /\ ended' = ended /\ UNCHANGED <<memberVars, link>> /\ Does(h, Idle)
    BY DEF SweepSessions
<1>2. \A s \in Sids : Born(s) =>
          /\ gone(s) \in Session /\ gone(s).st = "gone" /\ gone(s).user = sess[s].user
          /\ gone(s).from = sess[s].from /\ gone(s).family = sess[s].family
          /\ gone(s).raced = sess[s].raced /\ gone(s).active = sess[s].active
    BY <1>t, BornIsSession, SessionUpdates
<1> HIDE DEF gone
<1>3. \A s \in Sids : /\ s \in swept => Born(s)
                      /\ Born(s) => sess[s] \in Session
                      /\ ~Born(s) => sess[s] = Unborn
    BY <1>1, <1>t, BornIsSession DEF Stored
<1>4. sess' \in [Sids -> Session \cup {Unborn}]
    BY <1>1, <1>2, <1>3
<1>5. \A s \in Sids : Born(s) => Keeps(s)
    BY <1>1, <1>2, <1>3 DEF Keeps
<1>6. \A s \in Sids : ~Born(s) => sess'[s] = Unborn
    BY <1>1, <1>3
<1>7. RowsInv'
    BY <1>1, <1>4, <1>5, <1>6, SessionStep
<1> QED BY <1>1, <1>4, <1>5, <1>7, <1>t, BornKept, IdleIsRequest, OtherParts

LEMMA ConsumeStep ==
    ASSUME SessionInv, NEW h \in Handlers, Consume(h)
    PROVE  SessionInv'
<1>t. /\ sess \in [Sids -> Session \cup {Unborn}] /\ ended \subseteq Sids
      /\ link \in [Links -> Link \cup {Unborn, [st |-> "gone"]}]
      /\ req[h] \in Request
    BY DEF SessionInv, TypeOK
<1>1. Does(h, Idle) /\ UNCHANGED <<memberVars, ended>>
    BY DEF Consume
<1> DEFINE l == req[h].link
<1>2. l \in Links /\ req[h].unused \in BOOLEAN
    BY <1>t, RequestKinds DEF Consume
<1>3. CASE link[l].st \in {"sent", "used"} /\ IsActive(link[l].user)
    <2> DEFINE good == (link[l].st = "sent")
               raced == Raced(req[h].unused, good, FALSE)
               active == IsActive(link[l].user)
               used == [link[l] EXCEPT !.st = "used"]
               new(s) == NewSession(link[l].user, l, s, raced, active)
    <2>1. PICK s \in Sids : /\ ~Born(s)
                            /\ link' = [link EXCEPT ![l] = used]
                            /\ sess' = [sess EXCEPT ![s] = new(s)]
        BY <1>3 DEF Consume
    <2>2. active = TRUE
        BY <1>3, Zenon
    <2>3. link[l] \in Link /\ link[l].user \in Users
        BY <1>3, <1>2, <1>t DEF Link, Unborn
    <2>4. used \in Link
        BY <2>3, LinkUpdates
    <2>5. raced \in {"no", "fork", "late"}
        <3>1. good \in BOOLEAN
            BY Zenon
        <3> HIDE DEF good
        <3> QED BY <3>1, <1>2, RacedKinds
    <2>6. /\ new(s) \in Session /\ new(s).family = s /\ new(s).from = l
          /\ new(s).active = TRUE
        <3> HIDE DEF raced, active, l
        <3> QED BY <2>2, <2>3, <2>5, <1>2 DEF NewSession, Session, SessionAges
    <2> HIDE DEF new, used, active, raced, l
    <2>7. sess' \in [Sids -> Session \cup {Unborn}]
        BY <2>1, <2>6, <1>t
    <2>8. \A x \in Sids : Born(x) => Keeps(x)
        BY <2>1, <1>t, BornIsSession DEF Keeps
    <2>9. \A x \in Sids : ~Born(x) /\ x # s => sess'[x] = Unborn
        BY <2>1, <1>t, BornIsSession
    <2>10. Begins(s)
        <3>1. s \notin ended
            BY <2>1 DEF SessionInv, RowsInv, FamiliesNamed
        <3>2. l \notin Sids
            BY <1>2, SidsAreSids
        <3>3. sess'[s] = new(s)
            BY <2>1, <1>t
        <3> QED BY <3>1, <3>2, <3>3, <2>2, <2>6 DEF Begins
    <2>11. RowsInv'
        BY <2>1, <2>7, <2>8, <2>9, <2>10, <1>1, AddedRow
    <2>12. link' \in [Links -> Link \cup {Unborn, [st |-> "gone"]}]
        BY <2>1, <2>4, <1>t
    <2> QED BY <2>7, <2>8, <2>11, <2>12, <1>1, <1>t, BornKept, IdleIsRequest, OtherParts
<1>4. CASE ~(link[l].st \in {"sent", "used"} /\ IsActive(link[l].user))
    <2>1. UNCHANGED <<link, sess>>
        BY <1>4 DEF Consume
    <2> QED BY <2>1, <1>1, <1>t, SameRows, IdleIsRequest, OtherParts DEF Born
<1> QED BY <1>3, <1>4

LEMMA LogoutSteps ==
    ASSUME SessionInv, NEW h \in Handlers,
           LogoutFamily(h) \/ \E s \in Sids : Logout(h, s)
    PROVE  SessionInv'
<1>t. /\ sess \in [Sids -> Session \cup {Unborn}] /\ ended \subseteq Sids
      /\ link \in [Links -> Link \cup {Unborn, [st |-> "gone"]}]
      /\ req[h] \in Request
    BY DEF SessionInv, TypeOK
<1>1. CASE LogoutFamily(h)
    <2> DEFINE x == req[h].sid
    <2>1. x \in Sids /\ Does(h, Idle) /\ UNCHANGED <<memberVars, link>>
        BY <1>1, <1>t, RequestKinds DEF LogoutFamily
    <2>2. CASE Stored(x)
        <3>1. /\ sess' = Revoke(Of(sess[x].family)) /\ ended' = ended \cup {sess[x].family}
            BY <1>1, <2>2 DEF LogoutFamily
        <3>2. Born(x)
            BY <2>2 DEF Stored
        <3> HIDE DEF x
        <3> QED BY <3>1, <3>2, <2>1, <1>t, EndedRows, IdleIsRequest, OtherParts
    <2>3. CASE ~Stored(x)
        <3>1. UNCHANGED <<sess, ended>>
            BY <1>1, <2>3 DEF LogoutFamily
        <3> QED BY <3>1, <2>1, <1>t, SameRows, IdleIsRequest, OtherParts DEF Born
    <2> QED BY <2>2, <2>3
<1>2. ASSUME NEW s \in Sids, Logout(h, s)
      PROVE  SessionInv'
    <2> DEFINE r == [at |-> "family", sid |-> s]
    <2>1. r \in Request /\ r.at = "family"
        BY DEF Request
    <2>2. sess' = Revoke({s}) /\ Does(h, r) /\ UNCHANGED <<memberVars, link, ended>>
        BY <1>2 DEF Logout
    <2> HIDE DEF r
    <2> QED BY <2>1, <2>2, <1>t, RevokedRows, OtherParts
<1> QED BY <1>1, <1>2

(* A request that carries a session it saw live.                            *)
LEMMA CarriesOn ==
    ASSUME SessionInv, UNCHANGED <<memberVars, rows>>,
           NEW h \in Handlers, NEW r \in Request, Does(h, r), Carries(r)
    PROVE  SessionInv'
<1>1. /\ req' \in [Handlers -> Request] /\ req'[h] = r
      /\ \A g \in Handlers : g # h => req'[g] = req[g]
    BY DoesOne DEF SessionInv, TypeOK
<1>2. \A g \in Handlers : Carries(req[g])'
    BY <1>1 DEF SessionInv, Carries, rows, Born
<1>3. TypeOK' /\ MembersAreUsers'
    BY <1>1 DEF SessionInv, rows, memberVars, TypeOK, MembersTypeOK, MembersAreUsers, IsMember
<1>4. RowsInv'
    BY SameRows DEF rows
<1> QED BY <1>2, <1>3, <1>4 DEF SessionInv

LEMMA RefreshReadStep ==
    ASSUME SessionInv, NEW h \in Handlers, NEW s \in Sids, RefreshRead(h, s)
    PROVE  SessionInv'
<1>t. /\ sess \in [Sids -> Session \cup {Unborn}] /\ ended \subseteq Sids
      /\ link \in [Links -> Link \cup {Unborn, [st |-> "gone"]}]
      /\ req \in [Handlers -> Request]
    BY DEF SessionInv, TypeOK
<1>1. Born(s)
    BY DEF RefreshRead, Stored
<1>2. CASE IsLive(s)
    <2> DEFINE b == IsLive(s)
               r == [at |-> "role", sid |-> s, live |-> b, active |-> FALSE]
    <2>1. b = TRUE
        BY <1>2, Zenon
    <2>2. Does(h, r) /\ UNCHANGED <<memberVars, rows>>
        BY <1>2 DEF RefreshRead
    <2> HIDE DEF b
    <2>3. r \in Request /\ Carries(r)
        BY <2>1, <1>1 DEF Request, Carries
    <2> HIDE DEF r
    <2> QED BY <2>2, <2>3, CarriesOn
<1>3. CASE ~IsLive(s)
    <2>1. /\ sess' = Revoke(Of(sess[s].family)) /\ ended' = ended \cup {sess[s].family}
          /\ UNCHANGED <<memberVars, link, req>>
        BY <1>3 DEF RefreshRead
    <2>2. /\ RowsInv' /\ sess' \in [Sids -> Session \cup {Unborn}] /\ ended' \subseteq Sids
          /\ \A x \in Sids : Born(x) => Born(x)'
        BY <2>1, <1>1, EndedRows
    <2>3. \A g \in Handlers : Carries(req[g])'
        BY <2>1, <2>2, <1>t, CarriesStep
    <2>4. TypeOK' /\ MembersAreUsers'
        BY <2>1, <2>2 DEF SessionInv, memberVars, TypeOK, MembersTypeOK, MembersAreUsers, IsMember
    <2> QED BY <2>2, <2>3, <2>4 DEF SessionInv
<1> QED BY <1>2, <1>3

LEMMA RefreshRoleStep ==
    ASSUME SessionInv, NEW h \in Handlers, RefreshRole(h)
    PROVE  SessionInv'
<1>1. /\ req[h] \in Request /\ req[h].at = "role" /\ Carries(req[h])
      /\ UNCHANGED <<memberVars, rows>>
    BY DEF SessionInv, TypeOK, RefreshRole
<1> DEFINE b == IsActive(sess[req[h].sid].user)
           r == [at |-> "rotate", sid |-> req[h].sid, live |-> req[h].live, active |-> b]
<1>2. CASE b
    <2>1. b = TRUE
        BY <1>2, Zenon
    <2>2. Does(h, r)
        BY <1>2 DEF RefreshRole
    <2> HIDE DEF b
    <2>3. r \in Request /\ Carries(r)
        BY <2>1, <1>1 DEF Request, Carries
    <2> HIDE DEF r
    <2> QED BY <2>2, <2>3, <1>1, CarriesOn
<1>3. CASE ~b
    <2>1. Does(h, Idle)
        BY <1>3 DEF RefreshRole
    <2>2. Carries(Idle)
        BY DEF Carries, Idle
    <2> QED BY <2>1, <2>2, <1>1, IdleIsRequest, CarriesOn
<1> QED BY <1>2, <1>3

LEMMA RotateStep ==
    ASSUME SessionInv, NEW h \in Handlers, Rotate(h)
    PROVE  SessionInv'
<1>t. /\ sess \in [Sids -> Session \cup {Unborn}] /\ ended \subseteq Sids
      /\ link \in [Links -> Link \cup {Unborn, [st |-> "gone"]}]
    BY DEF SessionInv, TypeOK
<1> DEFINE s == req[h].sid
           good == IsLive(s)
           over == sess[s].family \in ended
           raced == Raced(req[h].live, good, over)
           new == NewSession(sess[s].user, s, sess[s].family, raced, req[h].active)
           revoked == Revoke({s})
<1>1. /\ s \in Sids /\ Born(s) /\ req[h].live = TRUE /\ req[h].active = TRUE
      /\ Does(h, Idle) /\ UNCHANGED <<memberVars, link, ended>>
    BY DEF SessionInv, Carries, Rotate
<1>2. PICK n \in Sids : ~Born(n) /\ sess' = [revoked EXCEPT ![n] = new]
    BY DEF Rotate
<1>3. sess[s] \in Session /\ sess[s].user \in Users /\ sess[s].family \in Sids
    BY <1>1, <1>t, BornIsSession
<1>4. good \in BOOLEAN /\ over \in BOOLEAN
    <2>1. good \in BOOLEAN
        BY DEF IsLive
    <2>2. over \in BOOLEAN
        OBVIOUS
    <2> QED BY <2>1, <2>2
<1>5. raced \in {"no", "fork", "late"} /\ (over => raced = "late" \/ good)
    <2>1. over => raced = "late" \/ good
        BY <1>1 DEF Raced
    <2>2. raced \in {"no", "fork", "late"}
        <3> HIDE DEF good, over
        <3> QED BY <1>1, <1>4, RacedKinds
    <2> QED BY <2>1, <2>2
<1>6. /\ new \in Session /\ new.st = "live" /\ new.user = sess[s].user /\ new.from = s
      /\ new.family = sess[s].family /\ new.raced = raced /\ new.active = TRUE
    <2> DEFINE u == sess[s].user
               f == sess[s].family
               a == req[h].active
    <2>1. /\ u \in Users /\ f \in Sids /\ s \in Sids /\ a = TRUE
          /\ raced \in {"no", "fork", "late"}
        BY <1>1, <1>3, <1>5
    <2>2. new = [st |-> "live", user |-> u, from |-> s, family |-> f, age |-> 0,
                 raced |-> raced, active |-> a]
        BY DEF NewSession
    <2> HIDE DEF raced, s, u, f, a, new
    <2>3. /\ new \in Session /\ new.st = "live" /\ new.user = u /\ new.from = s
          /\ new.family = f /\ new.raced = raced /\ new.active = TRUE
        BY <2>1, <2>2 DEF Session, SessionAges
    <2> QED BY <2>3 DEF u, f
<1>7. /\ revoked \in [Sids -> Session \cup {Unborn}] /\ revoked[s].st # "live"
      /\ \A x \in Sids : Born(x) =>
             /\ revoked[x] \in Session /\ revoked[x].user = sess[x].user
             /\ revoked[x].from = sess[x].from /\ revoked[x].family = sess[x].family
             /\ revoked[x].raced = sess[x].raced /\ revoked[x].active = sess[x].active
             /\ revoked[x].st = "live" => sess[x].st = "live"
             /\ revoked[x].st \in {"live", "revoked"} => sess[x].st \in {"live", "revoked"}
      /\ \A x \in Sids : ~Born(x) => revoked[x] = Unborn
    <2> HIDE DEF s
    <2> QED BY <1>t, <1>1, RevokeRows
<1> HIDE DEF new, revoked
<1>8. sess' \in [Sids -> Session \cup {Unborn}]
    BY <1>2, <1>6, <1>7
<1>9. \A x \in Sids : Born(x) => Keeps(x)
    BY <1>2, <1>7 DEF Keeps
<1>10. \A x \in Sids : ~Born(x) /\ x # n => sess'[x] = Unborn
    BY <1>2, <1>7
<1>11. Begins(n)
    <2>1. sess'[n] = new /\ sess'[s] = revoked[s]
        BY <1>1, <1>2, <1>7
    <2>2. over /\ raced # "late" =>
              \E x \in Sids : Born(x) /\ sess[x].family = sess[s].family /\ sess[x].raced = "late"
        <3> SUFFICES ASSUME over, good
                     PROVE  \E x \in Sids : /\ Born(x) /\ sess[x].family = sess[s].family
                                            /\ sess[x].raced = "late"
            BY <1>5
        <3>1. s \in LiveOf(sess[s].family)
            BY <1>1 DEF LiveOf, Of
        <3>2. \E x \in Of(sess[s].family) : sess[x].raced = "late"
            BY <3>1 DEF SessionInv, RowsInv, EndedStaysEnded
        <3> QED BY <3>2 DEF Of
    <2> HIDE DEF raced, good
    <2> QED BY <2>1, <2>2, <1>1, <1>6, <1>7 DEF Begins
<1>12. RowsInv'
    BY <1>1, <1>2, <1>8, <1>9, <1>10, <1>11, AddedRow
<1> QED BY <1>1, <1>8, <1>9, <1>12, <1>t, BornKept, IdleIsRequest, OtherParts

(* The token an SSO login hands out is of a session without a row.          *)
LEMMA SsoStep ==
    ASSUME SessionInv, NEW h \in Handlers, SsoCommit(h)
    PROVE  SessionInv'
<1>t. /\ sess \in [Sids -> Session \cup {Unborn}] /\ ended \subseteq Sids
      /\ link \in [Links -> Link \cup {Unborn, [st |-> "gone"]}]
      /\ req \in [Handlers -> Request] /\ MembersTypeOK /\ MembersAreUsers
    BY DEF SessionInv, TypeOK
<1> DEFINE u == req[h].user
           p == req[h].subject
<1>1. u \in Users /\ p \in Subjects /\ Does(h, Idle) /\ UNCHANGED <<sso, scim, prov, link, ended>>
    BY <1>t, RequestKinds DEF SsoCommit
<1> DEFINE active(v) == IsActive(v)
           new(v, n) == [st |-> "unstored", user |-> v, from |-> p, family |-> n, age |-> 0,
                         raced |-> "no", active |-> active(v)]
<1>2. PICK v \in Users, n \in Sids :
          /\ LinkIdentity(u, p, v) /\ ~Born(n)
          /\ sess' = [sess EXCEPT ![n] = new(v, n)]
    BY DEF SsoCommit
<1>3. active(v) \in BOOLEAN
    BY Zenon DEF IsActive
<1> HIDE DEF u, p, active
<1>4. /\ new(v, n) \in Session /\ new(v, n).family = n /\ new(v, n).from = p
      /\ new(v, n).st = "unstored"
    BY <1>1, <1>3 DEF Session, SessionAges
<1> HIDE DEF new
<1>5. sess' \in [Sids -> Session \cup {Unborn}]
    BY <1>2, <1>4, <1>t
<1>6. \A x \in Sids : Born(x) => Keeps(x)
    BY <1>2, <1>t, BornIsSession DEF Keeps
<1>7. \A x \in Sids : ~Born(x) /\ x # n => sess'[x] = Unborn
    BY <1>2, <1>t, BornIsSession
<1>8. Begins(n)
    <2>1. p \notin Sids
        BY <1>1, SidsAreSids
    <2>2. sess'[n] = new(v, n)
        BY <1>2, <1>t
    <2> QED BY <2>1, <2>2, <1>4 DEF Begins
<1>9. RowsInv'
    BY <1>1, <1>2, <1>5, <1>6, <1>7, <1>8, AddedRow
<1>10. MembersTypeOK' /\ MembersAreUsers'
    BY <1>1, <1>2, <1>t, LinkIdentityKeeps DEF MembersTypeOK
<1>11. /\ req' \in [Handlers -> Request]
       /\ \A g \in Handlers : req'[g] = req[g] \/ req'[g].at \notin {"role", "rotate"}
    BY <1>1, <1>t, IdleIsRequest, DoesOne
<1>12. \A g \in Handlers : Carries(req[g])'
    BY <1>6, <1>11, BornKept, CarriesStep
<1>13. TypeOK'
    BY <1>1, <1>5, <1>10, <1>11, <1>t DEF TypeOK
<1> QED BY <1>9, <1>10, <1>12, <1>13 DEF SessionInv

LEMMA SsoExchangeStep ==
    ASSUME SessionInv, NEW h \in Handlers, NEW u \in Users, NEW p \in Subjects,
           SsoExchange(h, u, p)
    PROVE  SessionInv'
<1> DEFINE r == [at |-> "sso", user |-> u, subject |-> p]
<1>1. r \in Request /\ Carries(r)
    BY DEF Request, Carries
<1>2. Does(h, r) /\ UNCHANGED <<memberVars, rows>>
    BY DEF SsoExchange
<1> HIDE DEF r
<1> QED BY <1>1, <1>2, CarriesOn

LEMMA OneRowSteps ==
    ASSUME SessionInv,
           \/ \E l \in Links : AgeLink(l)
           \/ \E s \in Sids : RevokeSession(s) \/ AgeSession(s)
    PROVE  SessionInv'
<1>t. /\ sess \in [Sids -> Session \cup {Unborn}] /\ ended \subseteq Sids
      /\ link \in [Links -> Link \cup {Unborn, [st |-> "gone"]}]
      /\ req \in [Handlers -> Request]
    BY DEF SessionInv, TypeOK
<1>0. UNCHANGED <<memberVars, req, ended>>
    BY DEF AgeLink, RevokeSession, AgeSession
<1>1. /\ RowsInv' /\ sess' \in [Sids -> Session \cup {Unborn}]
      /\ \A s \in Sids : Born(s) => Born(s)'
      /\ link' \in [Links -> Link \cup {Unborn, [st |-> "gone"]}]
    <2>1. ASSUME NEW l \in Links, AgeLink(l)
          PROVE  <1>1!:
        <3> DEFINE older == [link[l] EXCEPT !.age = link[l].age + 1]
        <3>1. link' = [link EXCEPT ![l] = older] /\ sess' = sess
            BY <2>1 DEF AgeLink
        <3>2. link[l] \in Link
            BY <2>1, <1>t DEF AgeLink, Unborn
        <3>3. link[l].age + 1 \in LinkAges
            BY <2>1, <3>2 DEF AgeLink, Link, LinkAges
        <3>4. older \in Link
            BY <3>2, <3>3, LinkUpdates
        <3> HIDE DEF older
        <3> QED BY <3>1, <3>4, <1>0, <1>t, SameRows DEF Born
    <2>2. ASSUME NEW s \in Sids, RevokeSession(s)
          PROVE  <1>1!:
        BY <2>2, <1>0, <1>t, RevokedRows DEF RevokeSession
    <2>3. ASSUME NEW s \in Sids, AgeSession(s)
          PROVE  <1>1!:
        <3> DEFINE older == [sess[s] EXCEPT !.age = sess[s].age + 1]
        <3>1. sess' = [sess EXCEPT ![s] = older] /\ link' = link /\ Born(s)
            BY <2>3 DEF AgeSession, Stored
        <3>2. sess[s] \in Session
            BY <3>1, <1>t, BornIsSession
        <3>3. sess[s].age + 1 \in SessionAges
            BY <2>3, <3>2 DEF AgeSession, Session, SessionAges
        <3>4. /\ older \in Session /\ older.st = sess[s].st /\ older.user = sess[s].user
              /\ older.from = sess[s].from /\ older.family = sess[s].family
              /\ older.raced = sess[s].raced /\ older.active = sess[s].active
            BY ONLY <3>2, <3>3, SessionUpdates
        <3> HIDE DEF older
        <3>5. \A x \in Sids : Born(x) => Keeps(x)
            BY <3>1, <3>4, <1>t, BornIsSession DEF Keeps
        <3>6. sess' \in [Sids -> Session \cup {Unborn}] /\ \A x \in Sids : ~Born(x) => sess'[x] = Unborn
            BY <3>1, <3>4, <1>t, BornIsSession
        <3>7. RowsInv'
            BY <3>5, <3>6, <1>0, SessionStep
        <3> QED BY <3>1, <3>5, <3>6, <3>7, <1>t, BornKept
    <2> QED BY <2>1, <2>2, <2>3
<1>2. \A g \in Handlers : Carries(req[g])'
    BY <1>0, <1>1, <1>t, CarriesStep
<1>3. TypeOK' /\ MembersAreUsers'
    BY <1>0, <1>1 DEF SessionInv, memberVars, TypeOK, MembersTypeOK, MembersAreUsers, IsMember
<1> QED BY <1>1, <1>2, <1>3 DEF SessionInv

LEMMA SessionNext == SessionInv /\ [Next]_vars => SessionInv'
<1> SUFFICES ASSUME SessionInv, [Next]_vars PROVE SessionInv'
    OBVIOUS
<1>1. CASE MembersNext /\ UNCHANGED <<rows, req>>
    <2>1. TypeOK' /\ MembersAreUsers'
        BY <1>1, MembersStep DEF SessionInv, TypeOK, rows
    <2>2. RowsInv' /\ \A g \in Handlers : Carries(req[g])'
        BY <1>1, SameRows DEF SessionInv, Carries, Born, rows
    <2> QED BY <2>1, <2>2 DEF SessionInv
<1>2. ASSUME NEW h \in Handlers,
             \/ \E u \in Users, a \in Spellings, i \in IPs :
                    RequestMagicLink(h, u, a, i) \/ RequestNoLink(h, u, a, i)
             \/ \E l \in Links : ConsumeRead(h, l)
      PROVE  SessionInv'
    BY <1>2, LinkSteps
<1>3. ASSUME NEW h \in Handlers,
             \/ MintLink(h)
             \/ \E L \in SUBSET Links : SweepLinks(h, L)
             \/ \E S \in SUBSET Sids : SweepSessions(h, S)
      PROVE  SessionInv'
    BY <1>3, MintStep, SweepLinksStep, SweepSessionsStep
<1>4. ASSUME NEW h \in Handlers, Consume(h)
      PROVE  SessionInv'
    BY <1>4, ConsumeStep
<1>5. ASSUME NEW h \in Handlers, NEW s \in Sids, RefreshRead(h, s)
      PROVE  SessionInv'
    BY <1>5, RefreshReadStep
<1>6. ASSUME NEW h \in Handlers, LogoutFamily(h) \/ \E s \in Sids : Logout(h, s)
      PROVE  SessionInv'
    BY <1>6, LogoutSteps
<1>7. ASSUME NEW h \in Handlers, RefreshRole(h) \/ Rotate(h)
      PROVE  SessionInv'
    BY <1>7, RefreshRoleStep, RotateStep
<1>8. ASSUME NEW h \in Handlers,
             SsoCommit(h) \/ \E u \in Users, s \in Subjects : SsoExchange(h, u, s)
      PROVE  SessionInv'
    BY <1>8, SsoStep, SsoExchangeStep
<1>9. ASSUME NEW h \in Handlers, Abandon(h)
      PROVE  SessionInv'
    <2>1. Carries(Idle)
        BY DEF Carries, Idle
    <2> QED BY <1>9, <2>1, IdleIsRequest, CarriesOn DEF Abandon
<1>10. CASE \/ \E l \in Links : AgeLink(l)
            \/ \E s \in Sids : RevokeSession(s) \/ AgeSession(s)
    BY <1>10, OneRowSteps
<1>11. CASE UNCHANGED vars
    <2>1. UNCHANGED <<memberVars, rows, req>>
        BY <1>11 DEF vars, rows
    <2>2. TypeOK' /\ MembersAreUsers'
        BY <2>1 DEF SessionInv, rows, memberVars, TypeOK, MembersTypeOK, MembersAreUsers, IsMember
    <2>3. RowsInv' /\ \A g \in Handlers : Carries(req[g])'
        BY <2>1, SameRows DEF SessionInv, Carries, Born, rows
    <2> QED BY <2>2, <2>3 DEF SessionInv
<1> QED BY <1>1, <1>2, <1>3, <1>4, <1>5, <1>6, <1>7, <1>8, <1>9, <1>10, <1>11 DEF Next

-----------------------------------------------------------------------------
(* Forks and throttles.  What a request saw is still told when it writes:   *)
(* a link it is to insert was under the limits, one it consumes was unused. *)
(* A link that a session is of has been consumed, whatever it became since. *)

Saw(r) ==
    /\ r.at = "mint" => r.under = TRUE
    /\ r.at = "consume" => r.unused = TRUE

CountInv ==
    /\ IsFiniteSet({s \in Sids : Born(s)})
    /\ IsFiniteSet({l \in Links : link[l] # Unborn})
    /\ \A h \in Handlers : Saw(req[h])
    /\ \A s \in Sids : Born(s) /\ sess[s].from \in Links =>
           link[sess[s].from].st \in {"used", "gone"}
    /\ ForkedOnlyByRaces
    /\ ThrottleHolds

RacedOf(f) == {s \in Of(f) : sess[s].raced # "no"}
LoginsOf(l) == {s \in Sids : Born(s) /\ sess[s].from = l /\ sess[s].raced = "no"}
CountedOf(u, a) == {l \in RecentOf(u, a) : ~link[l].raced}
CountedFrom(i) == {l \in RecentFrom(i) : ~link[l].raced}

SteadyRows ==
    \A s \in Sids : (Born(s) => Keeps(s)) /\ (~Born(s) => sess'[s] = Unborn)

(* A link stays consumed, and counts no more for what it did not count for. *)
KeepsLink(l) ==
    /\ link[l] = Unborn <=> link'[l] = Unborn
    /\ link[l].st \in {"used", "gone"} => link'[l].st \in {"used", "gone"}
    /\ link'[l].st \in {"sent", "used"} /\ link'[l].age < 2 =>
           /\ link[l].st \in {"sent", "used"} /\ link[l].age < 2
           /\ link'[l].user = link[l].user /\ link'[l].as = link[l].as
           /\ link'[l].ip = link[l].ip
           /\ link'[l].raced = link[l].raced

SteadyLinks == \A l \in Links : KeepsLink(l)

LEMMA AtMostOne ==
    ASSUME NEW S, \A x, y \in S : x = y
    PROVE  IsFiniteSet(S) /\ Cardinality(S) <= 1
<1>1. CASE S = {}
    BY <1>1, FS_EmptySet
<1>2. CASE S # {}
    <2>1. PICK x \in S : TRUE
        BY <1>2
    <2>2. S = {x}
        BY <2>1
    <2>3. IsFiniteSet({x}) /\ Cardinality({x}) = 1
        BY FS_Singleton
    <2> QED BY <2>2, <2>3
<1> QED BY <1>1, <1>2

LEMMA SameRowsSteady ==
    ASSUME SessionInv, sess' = sess
    PROVE  SteadyRows
BY BornIsSession DEF SteadyRows, Keeps, SessionInv, TypeOK

LEMMA RevokedSteady ==
    ASSUME SessionInv, NEW S, sess' = Revoke(S)
    PROVE  SteadyRows
BY RevokeRows DEF SteadyRows, Keeps, SessionInv, TypeOK

LEMMA SweptSteady ==
    ASSUME SessionInv, NEW h \in Handlers, NEW swept \in SUBSET Sids, SweepSessions(h, swept)
    PROVE  SteadyRows
<1>t. sess \in [Sids -> Session \cup {Unborn}]
    BY DEF SessionInv, TypeOK
<1> DEFINE gone(s) == [sess[s] EXCEPT !.st = "gone"]
<1>1. /\ sess' = [s \in Sids |-> IF s \in swept THEN gone(s) ELSE sess[s]]
      /\ \A s \in swept : Born(s)
    BY DEF SweepSessions, Stored
<1>2. \A s \in Sids : Born(s) =>
          /\ gone(s) \in Session /\ gone(s).st = "gone" /\ gone(s).user = sess[s].user
          /\ gone(s).from = sess[s].from /\ gone(s).family = sess[s].family
          /\ gone(s).raced = sess[s].raced /\ gone(s).active = sess[s].active
    BY <1>t, BornIsSession, SessionUpdates
<1> HIDE DEF gone
<1> QED BY <1>1, <1>2, <1>t, BornIsSession DEF SteadyRows, Keeps

LEMMA AgedSteady ==
    ASSUME SessionInv, NEW s \in Sids, AgeSession(s)
    PROVE  SteadyRows
<1>t. sess \in [Sids -> Session \cup {Unborn}]
    BY DEF SessionInv, TypeOK
<1> DEFINE older == [sess[s] EXCEPT !.age = sess[s].age + 1]
<1>1. sess' = [sess EXCEPT ![s] = older] /\ Born(s)
    BY DEF AgeSession, Stored
<1>2. sess[s] \in Session
    BY <1>1, <1>t, BornIsSession
<1>3. sess[s].age + 1 \in SessionAges
    BY <1>2 DEF AgeSession, Session, SessionAges
<1>4. /\ older \in Session /\ older.st = sess[s].st /\ older.user = sess[s].user
      /\ older.from = sess[s].from /\ older.family = sess[s].family
      /\ older.raced = sess[s].raced /\ older.active = sess[s].active
    BY <1>2, <1>3, SessionUpdates
<1> HIDE DEF older
<1> QED BY <1>1, <1>4, <1>t, BornIsSession DEF SteadyRows, Keeps

(* Only what signs in or rotates adds a session.                            *)
LEMMA SteadySteps ==
    ASSUME SessionInv, [Next]_vars,
           \A h \in Handlers : ~Consume(h) /\ ~Rotate(h) /\ ~SsoCommit(h)
    PROVE  SteadyRows
<1>1. \/ sess' = sess
      \/ \E S : sess' = Revoke(S)
      \/ \E h \in Handlers, S \in SUBSET Sids : SweepSessions(h, S)
      \/ \E s \in Sids : AgeSession(s)
    BY DEF Next, vars, rows, RequestMagicLink, RequestNoLink, MintLink, SweepLinks, ConsumeRead,
           RefreshRead, Logout, RefreshRole, LogoutFamily, SsoExchange, Abandon, AgeLink,
           RevokeSession
<1> QED BY <1>1, SameRowsSteady, RevokedSteady, SweptSteady, AgedSteady

LEMMA LinkShapes ==
    ASSUME link \in [Links -> Link \cup {Unborn, [st |-> "gone"]}], NEW l \in Links
    PROVE  /\ link[l].st \in {"sent", "used"} => link[l] \in Link
           /\ link[l] = Unborn <=> link[l].st = "free"
           /\ link[l] \in Link => /\ link[l].user \in Users /\ link[l].as \in Spellings
                                  /\ link[l].ip \in IPs
                                  /\ link[l].age \in LinkAges /\ link[l].raced \in BOOLEAN
BY DEF Link, Unborn

LEMMA LinkKept ==
    ASSUME NEW r \in Link
    PROVE  /\ LET q == [r EXCEPT !.st = "used"] IN
              /\ q \in Link /\ q.st = "used" /\ q.age = r.age /\ q.user = r.user
              /\ q.as = r.as /\ q.ip = r.ip /\ q.raced = r.raced
           /\ \A a \in LinkAges :
                  LET q == [r EXCEPT !.age = a] IN
                  /\ q \in Link /\ q.st = r.st /\ q.age = a /\ q.user = r.user
                  /\ q.as = r.as /\ q.ip = r.ip /\ q.raced = r.raced
BY DEF Link

LEMMA SteadyLinkSteps ==
    ASSUME SessionInv, [Next]_vars,
           \A h \in Handlers : ~MintLink(h) \/ link' = link
    PROVE  SteadyLinks
<1>t. link \in [Links -> Link \cup {Unborn, [st |-> "gone"]}]
    BY DEF SessionInv, TypeOK
<1>u. Unborn \notin Link /\ Unborn.st = "free"
    BY DEF Unborn, Link
<1>1. CASE link' = link
    BY <1>1 DEF SteadyLinks, KeepsLink
<1>2. ASSUME NEW h \in Handlers, Consume(h), link' # link
      PROVE  SteadyLinks
    <2> DEFINE l == req[h].link
               used == [link[l] EXCEPT !.st = "used"]
    <2>1. l \in Links
        BY <1>2, RequestKinds DEF Consume, SessionInv, TypeOK
    <2>2. link[l].st \in {"sent", "used"} /\ link' = [link EXCEPT ![l] = used]
        BY <1>2 DEF Consume
    <2>3. link[l] \in Link
        BY <2>1, <2>2, <1>t, LinkShapes
    <2>4. /\ used \in Link /\ used.st = "used" /\ used.age = link[l].age
          /\ used.user = link[l].user /\ used.as = link[l].as /\ used.ip = link[l].ip
          /\ used.raced = link[l].raced
        BY <2>3, LinkKept
    <2> HIDE DEF used, l
    <2> QED BY <2>1, <2>2, <2>3, <2>4, <1>t, <1>u DEF SteadyLinks, KeepsLink
<1>3. ASSUME NEW l \in Links, AgeLink(l)
      PROVE  SteadyLinks
    <2> DEFINE older == [link[l] EXCEPT !.age = link[l].age + 1]
    <2>1. link[l].st \in {"sent", "used"} /\ link[l].age < 2 /\ link' = [link EXCEPT ![l] = older]
        BY <1>3 DEF AgeLink
    <2>2. link[l] \in Link
        BY <2>1, <1>t, LinkShapes
    <2>3. link[l].age + 1 \in LinkAges
        BY <2>1, <2>2 DEF Link, LinkAges
    <2>4. /\ older \in Link /\ older.st = link[l].st /\ older.user = link[l].user
          /\ older.as = link[l].as /\ older.ip = link[l].ip /\ older.raced = link[l].raced
        BY <2>2, <2>3, LinkKept
    <2> HIDE DEF older
    <2> QED BY <2>1, <2>2, <2>4, <1>t, <1>u DEF SteadyLinks, KeepsLink
<1>4. ASSUME NEW h \in Handlers, NEW old \in SUBSET Links, SweepLinks(h, old)
      PROVE  SteadyLinks
    <2>1. /\ link' = [l \in Links |-> IF l \in old THEN [st |-> "gone"] ELSE link[l]]
          /\ \A l \in old : link[l].st \in {"sent", "used"} /\ link[l] # Unborn
          /\ [st |-> "gone"] # Unborn
        BY <1>4, <1>u DEF SweepLinks, Unborn
    <2> QED BY <2>1 DEF SteadyLinks, KeepsLink
<1>5. \/ link' = link
      \/ \E h \in Handlers : Consume(h) \/ \E L \in SUBSET Links : SweepLinks(h, L)
      \/ \E l \in Links : AgeLink(l)
    BY DEF Next, vars, rows, RequestMagicLink, RequestNoLink, ConsumeRead, RefreshRead, Logout,
           RefreshRole, Rotate, LogoutFamily, SsoExchange, SsoCommit, Abandon, RevokeSession,
           AgeSession, SweepSessions
<1> QED BY <1>1, <1>2, <1>3, <1>4, <1>5

(* A request is given a link to insert, or one to consume, only for what it *)
(* just saw.                                                                *)
LEMMA SawSteps ==
    ASSUME SessionInv, [Next]_vars, \A h \in Handlers : Saw(req[h])
    PROVE  \A h \in Handlers : Saw(req'[h])
<1>t. req \in [Handlers -> Request]
    BY DEF SessionInv, TypeOK
<1>1. Saw(Idle)
    BY DEF Saw, Idle
<1>2. ASSUME NEW h \in Handlers, NEW r, Saw(r), Does(h, r)
      PROVE  \A g \in Handlers : Saw(req'[g])
    BY <1>2, <1>t DEF Does
<1>3. ASSUME NEW h \in Handlers, NEW u \in Users, NEW a \in Spellings, NEW i \in IPs,
             RequestMagicLink(h, u, a, i)
      PROVE  \A g \in Handlers : Saw(req'[g])
    <2> DEFINE b == UnderLimits(u, a, i)
               r == [at |-> "mint", user |-> u, as |-> a, ip |-> i, under |-> b]
    <2>1. b = TRUE
        BY <1>3, Zenon DEF RequestMagicLink
    <2>2. Does(h, r)
        BY <1>3 DEF RequestMagicLink
    <2> HIDE DEF b
    <2>3. Saw(r)
        BY <2>1 DEF Saw
    <2> QED BY <2>2, <2>3, <1>2
<1>4. ASSUME NEW h \in Handlers, NEW l \in Links, ConsumeRead(h, l)
      PROVE  \A g \in Handlers : Saw(req'[g])
    <2> DEFINE b == (link[l].st = "sent")
               r == [at |-> "consume", link |-> l, unused |-> b]
    <2>1. b = TRUE
        BY <1>4, Zenon DEF ConsumeRead
    <2>2. Does(h, r)
        BY <1>4 DEF ConsumeRead
    <2> HIDE DEF b
    <2>3. Saw(r)
        BY <2>1 DEF Saw
    <2> QED BY <2>2, <2>3, <1>2
<1>5. ASSUME NEW h \in Handlers, NEW r, Does(h, r), r.at \notin {"mint", "consume"}
      PROVE  \A g \in Handlers : Saw(req'[g])
    BY <1>5, <1>2 DEF Saw
<1>6. ASSUME NEW h \in Handlers,
             \/ \E s \in Sids : RefreshRead(h, s) \/ Logout(h, s)
             \/ RefreshRole(h)
      PROVE  \A g \in Handlers : Saw(req'[g])
    <2>1. Idle.at \notin {"mint", "consume"}
        BY DEF Idle
    <2>2. ASSUME NEW s \in Sids, RefreshRead(h, s)
          PROVE  \A g \in Handlers : Saw(req'[g])
        <3> DEFINE r == [at |-> "role", sid |-> s, live |-> IsLive(s), active |-> FALSE]
        <3>1. r.at = "role"
            OBVIOUS
        <3>2. req' = req \/ Does(h, r)
            BY <2>2 DEF RefreshRead
        <3> HIDE DEF r
        <3> QED BY <3>1, <3>2, <1>5
    <2>3. ASSUME NEW s \in Sids, Logout(h, s)
          PROVE  \A g \in Handlers : Saw(req'[g])
        <3> DEFINE r == [at |-> "family", sid |-> s]
        <3>1. r.at = "family" /\ Does(h, r)
            BY <2>3 DEF Logout
        <3> HIDE DEF r
        <3> QED BY <3>1, <1>5
    <2>4. ASSUME RefreshRole(h)
          PROVE  \A g \in Handlers : Saw(req'[g])
        <3> DEFINE active == IsActive(sess[req[h].sid].user)
                   r == [at |-> "rotate", sid |-> req[h].sid, live |-> req[h].live,
                         active |-> active]
        <3>1. r.at = "rotate"
            OBVIOUS
        <3>2. Does(h, Idle) \/ Does(h, r)
            BY <2>4 DEF RefreshRole
        <3> HIDE DEF r
        <3> QED BY <2>1, <3>1, <3>2, <1>5
    <2> QED BY <1>6, <2>2, <2>3, <2>4
<1>7. ASSUME NEW h \in Handlers, NEW u \in Users, NEW p \in Subjects, SsoExchange(h, u, p)
      PROVE  \A g \in Handlers : Saw(req'[g])
    BY <1>7, <1>5 DEF SsoExchange
<1>8. \/ req' = req
      \/ \E h \in Handlers :
             \/ Does(h, Idle) \/ Does(h, [at |-> "sweepLinks"])
             \/ Does(h, [at |-> "sweepSessions"])
             \/ \E u \in Users, a \in Spellings, i \in IPs : RequestMagicLink(h, u, a, i)
             \/ \E l \in Links : ConsumeRead(h, l)
             \/ \E s \in Sids : RefreshRead(h, s) \/ Logout(h, s)
             \/ RefreshRole(h)
             \/ \E u \in Users, p \in Subjects : SsoExchange(h, u, p)
    BY DEF Next, vars, RequestNoLink, MintLink, SweepLinks, SweepSessions, Consume, Rotate,
           LogoutFamily, SsoCommit, Abandon, AgeLink, RevokeSession, AgeSession
<1>9. Saw([at |-> "sweepLinks"]) /\ Saw([at |-> "sweepSessions"])
    BY DEF Saw
<1> QED BY <1>1, <1>2, <1>3, <1>4, <1>6, <1>7, <1>8, <1>9

(* A session keeps what it is from; a new one is of a link that is consumed,*)
(* or of none.                                                              *)
Origins ==
    \A s \in Sids :
        /\ Born(s) => sess'[s].from = sess[s].from
        /\ ~Born(s) /\ Born(s)' /\ sess'[s].from \in Links => link'[sess'[s].from].st = "used"

(* How the live and the raced sessions of a family change.                  *)
LEMMA SteadyCounts ==
    ASSUME SessionInv, CountInv, SteadyRows
    PROVE  IsFiniteSet({s \in Sids : Born(s)})' /\ ForkedOnlyByRaces'
<1> DEFINE B == {s \in Sids : Born(s)}
<1>u. Unborn \notin Session
    BY DEF Unborn, Session
<1>k. \A s \in Sids : /\ Born(s)' <=> Born(s)
                      /\ Born(s) => Keeps(s)
    BY <1>u DEF SteadyRows, Keeps, Born
<1>b. IsFiniteSet(B) /\ {s \in Sids : Born(s)}' = B
    BY <1>k DEF CountInv
<1>1. ASSUME NEW f \in Sids
      PROVE  Cardinality(LiveOf(f)') <= 1 + Cardinality(RacedOf(f)')
    <2>1. LiveOf(f)' \subseteq LiveOf(f) /\ RacedOf(f)' = RacedOf(f)
        BY <1>k DEF LiveOf, Of, IsLive, RacedOf, Keeps
    <2>2. LiveOf(f) \subseteq B /\ RacedOf(f) \subseteq B
        BY DEF LiveOf, Of, RacedOf
    <2>3. Cardinality(LiveOf(f)) <= 1 + Cardinality(RacedOf(f))
        BY DEF CountInv, ForkedOnlyByRaces, RacedOf
    <2> HIDE DEF B
    <2> QED BY <1>b, <2>1, <2>2, <2>3, FS_Subset, FS_CardinalityType
<1>2. ASSUME NEW l \in Links
      PROVE  Cardinality(LoginsOf(l)') <= 1
    <2>1. LoginsOf(l)' = LoginsOf(l)
        BY <1>k DEF LoginsOf, Keeps
    <2> QED BY <2>1 DEF CountInv, ForkedOnlyByRaces, LoginsOf
<1> QED BY <1>1, <1>2, <1>b DEF ForkedOnlyByRaces, RacedOf, LoginsOf

(* A live session more is raced, or its family has one live less, or had    *)
(* none; a login more that is not raced is the first of its link.           *)
LEMMA AddedCounts ==
    ASSUME SessionInv, CountInv, NEW n \in Sids, ~Born(n), sess'[n] \in Session,
           \A s \in Sids : Born(s) => Keeps(s),
           \A s \in Sids : ~Born(s) /\ s # n => sess'[s] = Unborn,
           \/ sess'[n].raced # "no"
           \/ sess'[n].st # "live"
           \/ LiveOf(sess'[n].family) = {}
           \/ \E s \in LiveOf(sess'[n].family) : sess'[s].st # "live",
           \/ sess'[n].raced # "no"
           \/ sess'[n].from \notin Links
           \/ LoginsOf(sess'[n].from) = {}
    PROVE  IsFiniteSet({s \in Sids : Born(s)})' /\ ForkedOnlyByRaces'
<1> DEFINE B == {s \in Sids : Born(s)}
<1>u. Unborn \notin Session
    BY DEF Unborn, Session
<1>k. \A s \in Sids : /\ Born(s)' <=> Born(s) \/ s = n
                      /\ Born(s) => Keeps(s)
    BY <1>u DEF Keeps, Born
<1>b. /\ IsFiniteSet(B) /\ n \notin B /\ {s \in Sids : Born(s)}' = B \cup {n}
      /\ \A f : LiveOf(f) \subseteq B /\ RacedOf(f) \subseteq B
    BY <1>k DEF CountInv, LiveOf, Of, RacedOf
<1>c. \A f \in Sids : Cardinality(LiveOf(f)) <= 1 + Cardinality(RacedOf(f))
    BY DEF CountInv, ForkedOnlyByRaces, RacedOf
<1>f. IsFiniteSet(B \cup {n})
    BY <1>b, FS_AddElement
<1>1. ASSUME NEW f \in Sids
      PROVE  Cardinality(LiveOf(f)') <= 1 + Cardinality(RacedOf(f)')
    <2>1. /\ LiveOf(f)' \subseteq LiveOf(f) \cup {n}
          /\ RacedOf(f) \subseteq RacedOf(f)'
          /\ LiveOf(f)' \subseteq B \cup {n} /\ RacedOf(f)' \subseteq B \cup {n}
          /\ n \notin RacedOf(f)
        BY <1>k DEF LiveOf, Of, IsLive, RacedOf, Keeps
    <2>2. /\ IsFiniteSet(LiveOf(f)) /\ IsFiniteSet(RacedOf(f))
          /\ IsFiniteSet(LiveOf(f)') /\ IsFiniteSet(RacedOf(f)')
          /\ Cardinality(RacedOf(f)) <= Cardinality(RacedOf(f)')
        <3>1. IsFiniteSet(LiveOf(f)) /\ IsFiniteSet(RacedOf(f))
            BY <1>b, FS_Subset
        <3>2. IsFiniteSet(LiveOf(f)') /\ IsFiniteSet(RacedOf(f)')
            BY <2>1, <1>f, FS_Subset
        <3>3. Cardinality(RacedOf(f)) <= Cardinality(RacedOf(f)')
            BY <2>1, <3>2, FS_Subset
        <3> QED BY <3>1, <3>2, <3>3
    <2>n. /\ Cardinality(LiveOf(f)) \in Nat /\ Cardinality(RacedOf(f)) \in Nat
          /\ Cardinality(LiveOf(f)') \in Nat /\ Cardinality(RacedOf(f)') \in Nat
        BY <2>2, FS_CardinalityType
    <2>3. CASE sess'[n].family # f \/ sess'[n].st # "live"
        <3>1. LiveOf(f)' \subseteq LiveOf(f)
            BY <2>1, <2>3 DEF LiveOf, Of, IsLive
        <3>2. Cardinality(LiveOf(f)') <= Cardinality(LiveOf(f))
            BY <3>1, <2>2, FS_Subset
        <3> QED BY <3>2, <2>2, <2>n, <1>c
    <2>4. CASE sess'[n].family = f /\ sess'[n].raced # "no"
        <3>1. RacedOf(f) \cup {n} \subseteq RacedOf(f)'
            BY <2>1, <2>4, <1>k DEF RacedOf, Of
        <3>2. Cardinality(RacedOf(f)) + 1 <= Cardinality(RacedOf(f)')
            <4>1. Cardinality(RacedOf(f) \cup {n}) = Cardinality(RacedOf(f)) + 1
                BY <2>1, <2>2, FS_AddElement
            <4>2. Cardinality(RacedOf(f) \cup {n}) <= Cardinality(RacedOf(f)')
                BY <3>1, <2>2, FS_Subset
            <4> QED BY <4>1, <4>2
        <3>3. Cardinality(LiveOf(f)') <= Cardinality(LiveOf(f)) + 1
            <4>1. /\ IsFiniteSet(LiveOf(f) \cup {n})
                  /\ Cardinality(LiveOf(f) \cup {n}) <= Cardinality(LiveOf(f)) + 1
                BY <2>2, <2>n, FS_AddElement
            <4>2. Cardinality(LiveOf(f)') <= Cardinality(LiveOf(f) \cup {n})
                BY <2>1, <4>1, FS_Subset
            <4>3. Cardinality(LiveOf(f) \cup {n}) \in Nat
                BY <4>1, FS_CardinalityType
            <4> QED BY <4>1, <4>2, <4>3, <2>n
        <3> QED BY <3>2, <3>3, <2>n, <1>c
    <2>5. CASE sess'[n].family = f /\ LiveOf(f) = {}
        <3>1. LiveOf(f)' \subseteq {n}
            BY <2>1, <2>5
        <3>2. Cardinality(LiveOf(f)') <= 1
            BY <3>1, AtMostOne
        <3> QED BY <3>2, <2>n
    <2>6. ASSUME sess'[n].family = f, NEW s \in LiveOf(f), sess'[s].st # "live"
          PROVE  Cardinality(LiveOf(f)') <= 1 + Cardinality(RacedOf(f)')
        <3> DEFINE L == LiveOf(f) \ {s}
        <3>1. LiveOf(f)' \subseteq L \cup {n}
            BY <2>1, <2>6 DEF LiveOf, Of, IsLive
        <3>2. IsFiniteSet(L) /\ Cardinality(L) = Cardinality(LiveOf(f)) - 1
            BY <2>2, <2>6, FS_RemoveElement
        <3>3. Cardinality(LiveOf(f)') <= Cardinality(LiveOf(f))
            <4> HIDE DEF L
            <4>0. IsFiniteSet(L) /\ Cardinality(L) \in Nat
                BY <3>2, FS_CardinalityType
            <4>a. /\ IsFiniteSet(L \cup {n})
                  /\ Cardinality(L \cup {n}) = IF n \in L THEN Cardinality(L)
                                               ELSE Cardinality(L) + 1
                BY <4>0, FS_AddElement
            <4>1. IsFiniteSet(L \cup {n}) /\ Cardinality(L \cup {n}) <= Cardinality(L) + 1
                BY <4>0, <4>a
            <4>2. Cardinality(LiveOf(f)') <= Cardinality(L \cup {n})
                BY <3>1, <4>1, FS_Subset
            <4>3. Cardinality(L \cup {n}) \in Nat
                BY <4>1, FS_CardinalityType
            <4> QED BY <4>0, <4>1, <4>2, <4>3, <3>2, <2>n
        <3> QED BY <3>3, <2>2, <2>n, <1>c
    <2> QED BY <2>3, <2>4, <2>5, <2>6
<1>2. ASSUME NEW l \in Links
      PROVE  Cardinality(LoginsOf(l)') <= 1
    <2>1. CASE sess'[n].from = l /\ sess'[n].raced = "no"
        <3>1. LoginsOf(l) = {}
            BY <2>1
        <3>2. LoginsOf(l)' \subseteq {n}
            BY <3>1, <1>k DEF LoginsOf, Keeps
        <3> QED BY <3>2, AtMostOne
    <2>2. CASE sess'[n].from # l \/ sess'[n].raced # "no"
        <3>1. LoginsOf(l)' = LoginsOf(l)
            BY <2>2, <1>k DEF LoginsOf, Keeps
        <3> QED BY <3>1 DEF CountInv, ForkedOnlyByRaces, LoginsOf
    <2> QED BY <2>1, <2>2
<1>3. IsFiniteSet({s \in Sids : Born(s)})'
    BY <1>b, <1>f
<1> QED BY <1>1, <1>2, <1>3 DEF ForkedOnlyByRaces, RacedOf, LoginsOf

LEMMA RotateCounts ==
    ASSUME SessionInv, CountInv, NEW h \in Handlers, Rotate(h)
    PROVE  IsFiniteSet({s \in Sids : Born(s)})' /\ ForkedOnlyByRaces' /\ Origins
<1>t. sess \in [Sids -> Session \cup {Unborn}]
    BY DEF SessionInv, TypeOK
<1> DEFINE s == req[h].sid
           good == IsLive(s)
           raced == Raced(req[h].live, good, sess[s].family \in ended)
           new == NewSession(sess[s].user, s, sess[s].family, raced, req[h].active)
           revoked == Revoke({s})
<1>1. /\ s \in Sids /\ Born(s) /\ req[h].live = TRUE /\ req[h].active = TRUE
    BY DEF SessionInv, Carries, Rotate
<1>2. PICK n \in Sids : ~Born(n) /\ sess' = [revoked EXCEPT ![n] = new]
    BY DEF Rotate
<1>3. sess[s] \in Session /\ sess[s].user \in Users /\ sess[s].family \in Sids
    BY <1>1, <1>t, BornIsSession
<1>4. raced \in {"no", "fork", "late"} /\ (~good => raced # "no")
    BY <1>1 DEF Raced
<1>5. new \in Session /\ new.from = s /\ new.family = sess[s].family /\ new.raced = raced
    <2> DEFINE u == sess[s].user
               f == sess[s].family
               a == req[h].active
    <2>1. /\ u \in Users /\ f \in Sids /\ s \in Sids /\ a = TRUE
          /\ raced \in {"no", "fork", "late"}
        BY <1>1, <1>3, <1>4
    <2>2. new = [st |-> "live", user |-> u, from |-> s, family |-> f, age |-> 0,
                 raced |-> raced, active |-> a]
        BY DEF NewSession
    <2> HIDE DEF raced, s, u, f, a, new
    <2>3. new \in Session /\ new.from = s /\ new.family = f /\ new.raced = raced
        BY <2>1, <2>2 DEF Session, SessionAges
    <2> QED BY <2>3 DEF f
<1>6. /\ revoked \in [Sids -> Session \cup {Unborn}] /\ revoked[s].st # "live"
      /\ \A x \in Sids : Born(x) =>
             /\ revoked[x] \in Session /\ revoked[x].user = sess[x].user
             /\ revoked[x].from = sess[x].from /\ revoked[x].family = sess[x].family
             /\ revoked[x].raced = sess[x].raced /\ revoked[x].active = sess[x].active
             /\ revoked[x].st = "live" => sess[x].st = "live"
             /\ revoked[x].st \in {"live", "revoked"} => sess[x].st \in {"live", "revoked"}
      /\ \A x \in Sids : ~Born(x) => revoked[x] = Unborn
    <2> HIDE DEF s
    <2> QED BY <1>t, <1>1, RevokeRows
<1> HIDE DEF new, revoked, raced
<1>7. sess'[n] = new /\ sess'[s] = revoked[s] /\ s # n
    BY <1>1, <1>2, <1>6
<1>8. \A x \in Sids : (Born(x) => Keeps(x)) /\ (~Born(x) /\ x # n => sess'[x] = Unborn)
    BY <1>2, <1>6 DEF Keeps
<1>9. good => s \in LiveOf(sess'[n].family)
    BY <1>1, <1>3, <1>5, <1>7 DEF LiveOf, Of
<1>10. sess'[n].from \notin Links
    BY <1>1, <1>5, <1>7, SidsAreSids
<1>11. \/ sess'[n].raced # "no"
       \/ \E x \in LiveOf(sess'[n].family) : sess'[x].st # "live"
    BY <1>4, <1>5, <1>6, <1>7, <1>9
<1>12. Origins
    BY <1>2, <1>6, <1>8, <1>10 DEF Origins, Keeps, Born
<1> QED BY <1>2, <1>5, <1>7, <1>8, <1>10, <1>11, <1>12, AddedCounts

(* The first session of a family has it to itself: it is named after it.    *)
LEMMA NewFamilyEmpty ==
    ASSUME SessionInv, NEW n \in Sids, ~Born(n)
    PROVE  LiveOf(n) = {}
BY DEF SessionInv, RowsInv, FamiliesNamed, LiveOf, Of

LEMMA ConsumeCounts ==
    ASSUME SessionInv, CountInv, NEW h \in Handlers, Consume(h)
    PROVE  IsFiniteSet({s \in Sids : Born(s)})' /\ ForkedOnlyByRaces' /\ Origins
<1>t. /\ sess \in [Sids -> Session \cup {Unborn}]
      /\ link \in [Links -> Link \cup {Unborn, [st |-> "gone"]}]
      /\ req[h] \in Request
    BY DEF SessionInv, TypeOK
<1> DEFINE l == req[h].link
           good == (link[l].st = "sent")
           raced == Raced(req[h].unused, good, FALSE)
           active == IsActive(link[l].user)
           new(s) == NewSession(link[l].user, l, s, raced, active)
<1>1. l \in Links /\ req[h].unused = TRUE
    BY <1>t, RequestKinds DEF Consume, CountInv, Saw
<1>2. CASE sess' = sess
    BY <1>2, SameRowsSteady, SteadyCounts DEF Origins, Born
<1>3. CASE sess' # sess
    <2>1. link[l].st \in {"sent", "used"} /\ active
        BY <1>3 DEF Consume
    <2>2. PICK s \in Sids : ~Born(s) /\ sess' = [sess EXCEPT ![s] = new(s)]
        BY <1>3 DEF Consume
    <2>3. active = TRUE
        BY <2>1, Zenon
    <2>4. link[l].user \in Users
        BY <2>1, <1>1, <1>t, LinkShapes
    <2>5. raced \in {"no", "fork", "late"} /\ (~good => raced # "no")
        BY <1>1 DEF Raced
    <2>6. new(s) \in Session /\ new(s).family = s /\ new(s).from = l /\ new(s).raced = raced
        <3> HIDE DEF raced, active, l
        <3> QED BY <2>3, <2>4, <2>5, <1>1 DEF NewSession, Session, SessionAges
    <2>7. good => LoginsOf(l) = {}
        BY <1>1 DEF CountInv, LoginsOf
    <2> HIDE DEF new, raced, active, l
    <2>8. sess'[s] = new(s)
        BY <2>2, <1>t
    <2>9. \A x \in Sids : (Born(x) => Keeps(x)) /\ (~Born(x) /\ x # s => sess'[x] = Unborn)
        BY <2>2, <1>t, BornIsSession DEF Keeps
    <2>10. LiveOf(sess'[s].family) = {}
        BY <2>2, <2>6, <2>8, NewFamilyEmpty
    <2>11. link'[l].st = "used"
        <3> DEFINE used == [link[l] EXCEPT !.st = "used"]
        <3>1. link' = [link EXCEPT ![l] = used]
            BY <1>3 DEF Consume, l
        <3>2. used.st = "used"
            BY <2>1, <1>1, <1>t, LinkShapes, LinkKept
        <3> HIDE DEF used
        <3> QED BY <3>1, <3>2, <1>1, <1>t
    <2>12. Origins
        BY <2>2, <2>6, <2>8, <2>9, <2>11 DEF Origins, Keeps, Born
    <2> QED BY <2>2, <2>5, <2>6, <2>7, <2>8, <2>9, <2>10, <2>12, AddedCounts
<1> QED BY <1>2, <1>3

LEMMA SsoCounts ==
    ASSUME SessionInv, CountInv, NEW h \in Handlers, SsoCommit(h)
    PROVE  IsFiniteSet({s \in Sids : Born(s)})' /\ ForkedOnlyByRaces' /\ Origins
<1>t. sess \in [Sids -> Session \cup {Unborn}] /\ req[h] \in Request
    BY DEF SessionInv, TypeOK
<1> DEFINE p == req[h].subject
           active(v) == IsActive(v)
           new(v, n) == [st |-> "unstored", user |-> v, from |-> p, family |-> n, age |-> 0,
                         raced |-> "no", active |-> active(v)]
<1>1. p \in Subjects
    BY <1>t, RequestKinds DEF SsoCommit
<1>2. PICK v \in Users, n \in Sids : ~Born(n) /\ sess' = [sess EXCEPT ![n] = new(v, n)]
    BY DEF SsoCommit
<1>3. active(v) \in BOOLEAN
    BY Zenon DEF IsActive
<1> HIDE DEF p, active
<1>4. new(v, n) \in Session /\ new(v, n).from = p /\ new(v, n).st = "unstored"
    BY <1>1, <1>3 DEF Session, SessionAges
<1> HIDE DEF new
<1>5. sess'[n] = new(v, n)
    BY <1>2, <1>t
<1>6. \A x \in Sids : (Born(x) => Keeps(x)) /\ (~Born(x) /\ x # n => sess'[x] = Unborn)
    BY <1>2, <1>t, BornIsSession DEF Keeps
<1>7. sess'[n].from \notin Links
    BY <1>1, <1>4, <1>5, SidsAreSids
<1>8. Origins
    BY <1>2, <1>6, <1>7 DEF Origins, Keeps, Born
<1> QED BY <1>2, <1>4, <1>5, <1>6, <1>7, <1>8, AddedCounts

(* How the links of an hour change.                                         *)
LEMMA SteadyThrottle ==
    ASSUME SessionInv, CountInv, SteadyLinks
    PROVE  IsFiniteSet({l \in Links : link[l] # Unborn})' /\ ThrottleHolds'
<1> DEFINE M == {l \in Links : link[l] # Unborn}
<1>1. IsFiniteSet(M) /\ {l \in Links : link[l] # Unborn}' = M
    BY DEF CountInv, SteadyLinks, KeepsLink
<1>t. link \in [Links -> Link \cup {Unborn, [st |-> "gone"]}]
    BY DEF SessionInv, TypeOK
<1>2. Recent \subseteq M
    BY <1>t, LinkShapes DEF Recent
<1>3. ASSUME NEW u \in Users, NEW a \in Spellings
      PROVE  Cardinality(CountedOf(u, a)') <= PerEmail
    <2>1. CountedOf(u, a)' \subseteq CountedOf(u, a) /\ CountedOf(u, a) \subseteq M
        BY <1>2 DEF SteadyLinks, KeepsLink, CountedOf, RecentOf, Recent
    <2>2. Cardinality(CountedOf(u, a)) <= PerEmail
        BY DEF CountInv, ThrottleHolds, CountedOf
    <2> HIDE DEF M
    <2>3. IsFiniteSet(CountedOf(u, a)) /\ IsFiniteSet(CountedOf(u, a)')
        BY <2>1, <1>1, FS_Subset
    <2> QED BY <2>1, <2>2, <2>3, FS_Subset, FS_CardinalityType, ThrottleAssumption
<1>4. ASSUME NEW i \in IPs
      PROVE  Cardinality(CountedFrom(i)') <= PerIP
    <2>1. CountedFrom(i)' \subseteq CountedFrom(i) /\ CountedFrom(i) \subseteq M
        BY <1>2 DEF SteadyLinks, KeepsLink, CountedFrom, RecentFrom, Recent
    <2>2. Cardinality(CountedFrom(i)) <= PerIP
        BY DEF CountInv, ThrottleHolds, CountedFrom
    <2> HIDE DEF M
    <2>3. IsFiniteSet(CountedFrom(i)) /\ IsFiniteSet(CountedFrom(i)')
        BY <2>1, <1>1, FS_Subset
    <2> QED BY <2>1, <2>2, <2>3, FS_Subset, FS_CardinalityType, ThrottleAssumption
<1> QED BY <1>1, <1>3, <1>4 DEF ThrottleHolds, CountedOf, CountedFrom

(* One link more, and one that counts only where the limits still allow it. *)
LEMMA OneMore ==
    ASSUME NEW S, IsFiniteSet(S), NEW l, NEW T, NEW n \in Nat, T \subseteq S \cup {l},
           Cardinality(S) < n
    PROVE  Cardinality(T) <= n
<1>1. IsFiniteSet(S \cup {l}) /\ Cardinality(S) \in Nat
    BY FS_AddElement, FS_CardinalityType
<1>2. Cardinality(S \cup {l}) <= Cardinality(S) + 1
    BY <1>1, FS_AddElement
<1>3. IsFiniteSet(T) /\ Cardinality(T) <= Cardinality(S \cup {l})
    BY <1>1, FS_Subset
<1>4. Cardinality(T) \in Nat /\ Cardinality(S \cup {l}) \in Nat
    BY <1>1, <1>3, FS_CardinalityType
<1> QED BY <1>1, <1>2, <1>3, <1>4

LEMMA NoMore ==
    ASSUME NEW S, IsFiniteSet(S), NEW T, NEW n \in Nat, T \subseteq S, Cardinality(S) <= n
    PROVE  Cardinality(T) <= n
<1>1. IsFiniteSet(T) /\ Cardinality(T) <= Cardinality(S)
    BY FS_Subset
<1> QED BY <1>1, FS_CardinalityType

LEMMA MintThrottle ==
    ASSUME SessionInv, CountInv, NEW h \in Handlers, MintLink(h), link' # link
    PROVE  /\ IsFiniteSet({l \in Links : link[l] # Unborn})' /\ ThrottleHolds'
           /\ \A l \in Links : link[l].st \in {"used", "gone"} => link'[l].st \in {"used", "gone"}
<1>t. link \in [Links -> Link \cup {Unborn, [st |-> "gone"]}] /\ req[h] \in Request
    BY DEF SessionInv, TypeOK
<1> DEFINE M == {l \in Links : link[l] # Unborn}
           u == req[h].user
           a == req[h].as
           i == req[h].ip
           raced == req[h].under /\ ~UnderLimits(u, a, i)
           new == NewLink(u, a, i, req[h].under)
<1>1. u \in Users /\ a \in Spellings /\ i \in IPs /\ req[h].under = TRUE
    BY <1>t, RequestKinds DEF MintLink, CountInv, Saw
<1>2. PICK l \in Links : link[l] = Unborn /\ link' = [link EXCEPT ![l] = new]
    BY DEF MintLink
<1>3. raced = ~UnderLimits(u, a, i)
    BY <1>1, Zenon DEF UnderLimits
<1>4. /\ new.st = "sent" /\ new.user = u /\ new.as = a /\ new.ip = i /\ new.raced = raced
      /\ new # Unborn /\ new \notin {[st |-> "gone"]}
    BY DEF NewLink, Unborn
<1>5. Unborn.st = "free"
    BY DEF Unborn
<1> HIDE DEF new, raced, u, a, i
<1>6. \A m \in Links : m # l => link'[m] = link[m]
    BY <1>2, <1>t
<1>7. link'[l] = new
    BY <1>2, <1>t
<1>8. IsFiniteSet(M) /\ {m \in Links : link[m] # Unborn}' = M \cup {l}
    BY <1>2, <1>4, <1>6, <1>7 DEF CountInv
<1>9. Recent \subseteq M
    BY <1>t, LinkShapes DEF Recent
<1>10. /\ Recent' \subseteq Recent \cup {l}
       /\ \A m \in Recent' : m # l => link'[m] = link[m]
    BY <1>2, <1>6 DEF Recent
<1> HIDE DEF M
<1>11. ASSUME NEW v \in Users, NEW b \in Spellings
       PROVE  Cardinality(CountedOf(v, b)') <= PerEmail
    <2>1. RecentOf(v, b) \subseteq M /\ CountedOf(v, b) \subseteq M
        BY <1>9 DEF RecentOf, CountedOf
    <2>2. IsFiniteSet(RecentOf(v, b)) /\ IsFiniteSet(CountedOf(v, b))
        BY <2>1, <1>8, FS_Subset
    <2>3. CASE v = u /\ b = a /\ ~raced
        <3>1. CountedOf(v, b)' \subseteq RecentOf(v, b) \cup {l}
            BY <1>10 DEF CountedOf, RecentOf
        <3>2. Cardinality(RecentOf(v, b)) < PerEmail
            BY <2>3, <1>3 DEF UnderLimits
        <3> QED BY <3>1, <3>2, <2>2, ThrottleAssumption, OneMore
    <2>4. CASE v # u \/ b # a \/ raced
        <3>1. CountedOf(v, b)' \subseteq CountedOf(v, b)
            BY <2>4, <1>4, <1>7, <1>10 DEF CountedOf, RecentOf
        <3>2. Cardinality(CountedOf(v, b)) <= PerEmail
            BY DEF CountInv, ThrottleHolds, CountedOf
        <3> QED BY <3>1, <3>2, <2>2, ThrottleAssumption, NoMore
    <2> QED BY <2>3, <2>4
<1>12. ASSUME NEW j \in IPs
       PROVE  Cardinality(CountedFrom(j)') <= PerIP
    <2>1. RecentFrom(j) \subseteq M /\ CountedFrom(j) \subseteq M
        BY <1>9 DEF RecentFrom, CountedFrom
    <2>2. IsFiniteSet(RecentFrom(j)) /\ IsFiniteSet(CountedFrom(j))
        BY <2>1, <1>8, FS_Subset
    <2>3. CASE j = i /\ ~raced
        <3>1. CountedFrom(j)' \subseteq RecentFrom(j) \cup {l}
            BY <1>10 DEF CountedFrom, RecentFrom
        <3>2. Cardinality(RecentFrom(j)) < PerIP
            BY <2>3, <1>3 DEF UnderLimits
        <3> QED BY <3>1, <3>2, <2>2, ThrottleAssumption, OneMore
    <2>4. CASE j # i \/ raced
        <3>1. CountedFrom(j)' \subseteq CountedFrom(j)
            BY <2>4, <1>4, <1>7, <1>10 DEF CountedFrom, RecentFrom
        <3>2. Cardinality(CountedFrom(j)) <= PerIP
            BY DEF CountInv, ThrottleHolds, CountedFrom
        <3> QED BY <3>1, <3>2, <2>2, ThrottleAssumption, NoMore
    <2> QED BY <2>3, <2>4
<1>13. IsFiniteSet({m \in Links : link[m] # Unborn})'
    BY <1>8, FS_AddElement
<1>14. \A m \in Links : link[m].st \in {"used", "gone"} => link'[m].st \in {"used", "gone"}
    BY <1>2, <1>5, <1>6
<1> QED BY <1>11, <1>12, <1>13, <1>14 DEF ThrottleHolds, CountedOf, CountedFrom

LEMMA CountInit == Init => CountInv
<1> SUFFICES ASSUME Init PROVE CountInv
    OBVIOUS
<1>1. {s \in Sids : Born(s)} = {} /\ {l \in Links : link[l] # Unborn} = {}
    BY DEF Init, Born
<1>2. Saw(Idle)
    BY DEF Saw, Idle
<1>3. ASSUME NEW f \in Sids
      PROVE  Cardinality(LiveOf(f)) <= 1 + Cardinality(RacedOf(f))
    <2>1. LiveOf(f) = {} /\ RacedOf(f) = {}
        BY <1>1 DEF LiveOf, Of, RacedOf
    <2> QED BY <2>1, FS_EmptySet
<1>4. \A l \in Links : LoginsOf(l) = {}
    BY <1>1 DEF LoginsOf
<1>5. /\ \A u \in Users, a \in Spellings : CountedOf(u, a) = {}
      /\ \A i \in IPs : CountedFrom(i) = {}
    BY DEF Init, CountedOf, CountedFrom, RecentOf, RecentFrom, Recent, Unborn
<1>e. Cardinality({}) = 0
    BY FS_EmptySet
<1>6. ForkedOnlyByRaces
    BY <1>3, <1>4, <1>e DEF ForkedOnlyByRaces, RacedOf, LoginsOf
<1>z. 0 <= PerEmail /\ 0 <= PerIP
    BY ThrottleAssumption
<1>7. ThrottleHolds
    BY <1>5, <1>e, <1>z DEF ThrottleHolds, CountedOf, CountedFrom
<1> QED BY <1>1, <1>2, <1>6, <1>7, FS_EmptySet DEF CountInv, Init

LEMMA CountNext == SessionInv /\ CountInv /\ [Next]_vars => CountInv'
<1> SUFFICES ASSUME SessionInv, CountInv, [Next]_vars PROVE CountInv'
    OBVIOUS
<1>t. /\ sess \in [Sids -> Session \cup {Unborn}]
      /\ link \in [Links -> Link \cup {Unborn, [st |-> "gone"]}]
    BY DEF SessionInv, TypeOK
<1>1. IsFiniteSet({s \in Sids : Born(s)})' /\ ForkedOnlyByRaces' /\ Origins
    <2>1. CASE SteadyRows
        <3>1. Origins
            BY <2>1 DEF SteadyRows, Origins, Keeps, Born
        <3> QED BY <2>1, <3>1, SteadyCounts
    <2> QED BY <2>1, SteadySteps, RotateCounts, ConsumeCounts, SsoCounts
<1>2. IsFiniteSet({l \in Links : link[l] # Unborn})' /\ ThrottleHolds'
    BY SteadyLinkSteps, SteadyThrottle, MintThrottle
<1>3. \A h \in Handlers : Saw(req'[h])
    BY SawSteps DEF CountInv
<1>4. \A l \in Links : link[l].st \in {"used", "gone"} => link'[l].st \in {"used", "gone"}
    BY SteadyLinkSteps, MintThrottle DEF SteadyLinks, KeepsLink
<1>5. \A s \in Sids : Born(s)' /\ sess'[s].from \in Links =>
          link'[sess'[s].from].st \in {"used", "gone"}
    BY <1>1, <1>4 DEF Origins, CountInv
<1> QED BY <1>1, <1>2, <1>3, <1>5 DEF CountInv

-----------------------------------------------------------------------------
(* The theorems.                                                            *)

(* The invariant holds in every behaviour: types, members, what requests    *)
(* carry and the rows of sessions (auth.go, sso.go, scim.go).               *)
THEOREM SessionsCorrect == Spec => []SessionInv
<1> QED BY SessionInit, SessionNext, PTL DEF Spec

(* The stored rows have the types of their columns (00005_auth_core.sql).   *)
THEOREM SessionsTyped == Spec => []TypeOK
<1>1. SessionInv => TypeOK
    BY DEF SessionInv
<1> QED BY <1>1, SessionsCorrect, PTL

(* A rotated session is revoked and its successor is its user's, whatever   *)
(* interleaves (auth.go:347-356).                                           *)
THEOREM OneSuccession == Spec => []Succession
<1>1. SessionInv => Succession
    BY DEF SessionInv, RowsInv
<1> QED BY <1>1, SessionsCorrect, PTL

(* Nothing of an ended family is live but for a refresh that had read its   *)
(* session before (auth.go:316-319, auth.go:393-394).                       *)
THEOREM EndedFamiliesDead == Spec => []EndedStaysEnded
<1>1. SessionInv => EndedStaysEnded
    BY DEF SessionInv, RowsInv
<1> QED BY <1>1, SessionsCorrect, PTL

(* No session begins for whom its request did not see active (auth.go:241-  *)
(* 247, auth.go:336).                                                       *)
THEOREM OnlyMembersBegin == Spec => []BegunByMember
<1>1. SessionInv => BegunByMember
    BY DEF SessionInv, RowsInv
<1> QED BY <1>1, SessionsCorrect, PTL

LEMMA ReactivationStep ==
    ASSUME SessionInv, [Next]_vars,
           NEW u \in Users, member[u] = "deactivated", member'[u] = "active"
    PROVE  UNCHANGED <<sess, req, prov>>
<1>t. MembersTypeOK /\ MembersAreUsers
    BY DEF SessionInv, TypeOK
<1>1. CASE MembersNext /\ UNCHANGED <<rows, req>>
    <2>1. \A p \in Provisioners : ~ScimCreateInsert(p)
        BY <1>t, InsertReactivatesNobody
    <2> QED BY <1>1, <2>1
            DEF MembersNext, rows, PutSSOConfig, PutSCIMConfig, ScimCreateExisting,
                ScimCreateRead, ScimPatch, ScimDelete
<1>2. ASSUME NEW h \in Handlers, SsoCommit(h) PROVE FALSE
    <2>1. req[h].user \in Users /\ req[h].subject \in Subjects
        BY <1>2, RequestKinds DEF SsoCommit, SessionInv, TypeOK
    <2>2. PICK v \in Users : LinkIdentity(req[h].user, req[h].subject, v)
        BY <1>2 DEF SsoCommit
    <2> QED BY <2>1, <2>2, <1>t, LinkIdentityKeeps
<1>3. CASE member' = member
    BY <1>3
<1>4. ASSUME NEW h \in Handlers,
             \/ MintLink(h) \/ Consume(h) \/ RefreshRole(h) \/ Rotate(h) \/ LogoutFamily(h)
             \/ Abandon(h)
             \/ \E w \in Users, a \in Spellings, i \in IPs :
                    RequestMagicLink(h, w, a, i) \/ RequestNoLink(h, w, a, i)
             \/ \E L \in SUBSET Links : SweepLinks(h, L)
             \/ \E S \in SUBSET Sids : SweepSessions(h, S)
             \/ \E l \in Links : ConsumeRead(h, l)
             \/ \E s \in Sids : RefreshRead(h, s) \/ Logout(h, s)
             \/ \E w \in Users, s \in Subjects : SsoExchange(h, w, s)
      PROVE  UNCHANGED memberVars
    BY <1>4 DEF RequestMagicLink, RequestNoLink, MintLink, SweepLinks, SweepSessions, ConsumeRead,
                Consume, RefreshRead, Logout, RefreshRole, Rotate, LogoutFamily, SsoExchange, Abandon
<1>5. \/ UNCHANGED memberVars
      \/ MembersNext /\ UNCHANGED <<rows, req>>
      \/ \E h \in Handlers : SsoCommit(h)
    BY <1>4 DEF Next, vars, AgeLink, RevokeSession, AgeSession
<1> QED BY <1>1, <1>2, <1>3, <1>5 DEF memberVars

(* No login and no insert of a new user brings a deactivated member back    *)
(* (sso.go:552-556, scim.go:252-263).                                       *)
THEOREM ScimAloneReactivates == Spec => OnlyScimReactivates
<1>1. SessionInv /\ [Next]_vars =>
          [\A u \in Users : member[u] = "deactivated" /\ member'[u] = "active" =>
               UNCHANGED <<sess, req, prov>>]_vars
    BY ReactivationStep
<1> QED BY <1>1, SessionsCorrect, PTL DEF Spec, OnlyScimReactivates

LEMMA CountsCorrect == Spec => []CountInv
<1>1. Init => SessionInv /\ CountInv
    BY SessionInit, CountInit
<1>2. SessionInv /\ CountInv /\ [Next]_vars => SessionInv' /\ CountInv'
    BY SessionNext, CountNext
<1> QED BY <1>1, <1>2, PTL DEF Spec

(* Two sessions of a family are live at once, and two logins came of one    *)
(* link, only for requests that raced, however many race: each session too  *)
(* many is a raced one (auth.go:240-248, auth.go:347).                      *)
THEOREM ForksAreRaces == Spec => []ForkedOnlyByRaces
<1>1. CountInv => ForkedOnlyByRaces
    BY DEF CountInv
<1> QED BY <1>1, CountsCorrect, PTL

(* The links of an hour stay within the limits of an address as it is typed *)
(* and of an IP, but for those minted while another request was between its *)
(* count and its insert (auth.go:131-143).                                  *)
THEOREM ThrottleKept == Spec => []ThrottleHolds
<1>1. CountInv => ThrottleHolds
    BY DEF CountInv
<1> QED BY <1>1, CountsCorrect, PTL
=============================================================================
