------------------------------ MODULE Sessions ------------------------------
(***************************************************************************)
(* Who is a member of a workspace and who is signed in to it: package auth *)
(* at READ COMMITTED.                                                      *)
(*                                                                         *)
(* A request that reads and later writes is in flight between the two.     *)
(* Ending sessions is one UPDATE: it chooses its rows in the snapshot it   *)
(* begins with, waits for rows that others are changing, and ends those    *)
(* that are still live; a session whose transaction commits in between it  *)
(* does not see.  A request that locks the memberships of a workspace, or  *)
(* spends a link, holds those rows until its transaction ends.             *)
(*                                                                         *)
(* Tokens, digests and passwords are abstract: who presents a token has    *)
(* it, and a login that reads credentials knew the password of that        *)
(* moment.  Nobody's membership is suspended: nothing in the program does  *)
(* it.                                                                     *)
(***************************************************************************)
EXTENDS Integers, FiniteSets, Sequences

CONSTANTS
    People,       \* users
    Tenants,      \* workspaces
    Links,        \* ids of password_reset rows of user_tokens
    Invitations,  \* ids of rows of invitations
    Visits,       \* requests in flight at one moment
    Hands,        \* workers of the queue
    MaxSessions,  \* the bound on rows of sessions
    MaxJobs,      \* the bound on a user's revocation jobs waiting when a password is set
    RevokeAttempts   \* how often a revocation job is tried: 10 in the program

ASSUME SessionsAssumption ==
    /\ IsFiniteSet(People)
    /\ Visits \cap Hands = {} /\ Links \cap Invitations = {}
    /\ MaxSessions \in Nat /\ MaxJobs \in [People -> Nat]
    /\ RevokeAttempts \in Nat \ {0}

VARIABLES
    users,       \* who has an account
    member,      \* the role each user has in each workspace
    badge,       \* who ever held an access token that says owner
    session,     \* the rows of sessions, in the order they were written
    link,        \* the rows of user_tokens
    invitation,  \* the rows of invitations
    queued,      \* the auth.revoke_sessions jobs waiting for each user, by how
                 \* often they have failed
    request,     \* what is in flight
    honoured,    \* how often each link and invitation was honoured
    doomed,      \* the sessions in use that were there when their user's password
                 \* was last set, but for those a job has failed to end for the
                 \* last time since
    kept         \* the sessions a change of password was to spare

peopleVars   == <<users, member>>
tokenVars    == <<session, badge>>
letterVars   == <<link, invitation, honoured>>
jobVars      == <<queued, doomed>>
sessionsVars == <<peopleVars, tokenVars, letterVars, jobVars, request, kept>>

Roles    == {"owner", "staff"}
SessionStatuses == {"live", "rotated", "revoked", "expired"}
Nobody   == [status |-> "none"]
Nothing  == [at |-> "idle"]
Everywhere == "everywhere"

SessionRows == [person: People, tenant: Tenants, family: Nat, status: SessionStatuses]
LinkRows    == {Nobody} \cup
    [status: {"live", "spent"}, person: People, tenant: Tenants]
InvitationRows == {Nobody} \cup
    [status: {"pending", "accepted", "revoked"},
     person: People, tenant: Tenants, role: Roles]

(* An UPDATE of sessions under way: the sessions it is meant to end, those it
   chose, and what commits with it.                                         *)
Sweeps == [at: {"sweep"}, why: {"reuse", "reset", "change", "remove", "role", "job"},
           person: People, tenant: Tenants \cup {Everywhere},
           family: Nat, keep: Nat, link: Links \cup {Nobody}, role: Roles \cup {"none"},
           tries: Nat, targets: SUBSET Nat]

RequestStates == {Nothing}
    \cup [at: {"claim"}, person: People, tenant: Tenants]
    \cup [at: {"login"}, person: People, tenant: Tenants, role: Roles]
    \cup [at: {"check"}, session: Nat]
    \cup [at: {"rotate"}, session: Nat, role: Roles]
    \cup [at: {"mail"}, link: Links, person: People, tenant: Tenants, older: SUBSET Links]
    \cup [at: {"spend"}, link: Links]
    \cup [at: {"join"}, invitation: Invitations, known: BOOLEAN]
    \cup Sweeps

(* How often a job that waits has failed. *)
Tries == 0 .. RevokeAttempts - 1

SessionsTypeOK ==
    /\ users \subseteq People
    /\ member \in [Tenants -> [People -> Roles \cup {"none"}]]
    /\ badge \subseteq Tenants \X People
    /\ session \in Seq(SessionRows)
    /\ \A i \in 1 .. Len(session) : session[i].family \in 1 .. i
    /\ link \in [Links -> LinkRows]
    /\ invitation \in [Invitations -> InvitationRows]
    /\ queued \in [People -> [Tries -> Nat]]
    /\ request \in [Visits \cup Hands -> RequestStates]
    /\ honoured \in [Links \cup Invitations -> Nat]
    /\ doomed \subseteq 1 .. Len(session)
    /\ kept \subseteq 1 .. Len(session)

Owners(t)  == {p \in People : member[t][p] = "owner"}
Claimed(t) == \E p \in People : member[t][p] # "none"

(* A workspace in use: sessions were ended, links superseded and invitations
   withdrawn.                                                               *)
SessionsInit ==
    /\ member \in [Tenants -> [People -> Roles \cup {"none"}]]
    /\ \A t \in Tenants : Claimed(t) => Owners(t) # {}
    /\ users = {p \in People : \E t \in Tenants : member[t][p] # "none"}
    /\ badge = {x \in Tenants \X People : member[x[1]][x[2]] = "owner"}
    /\ \E n \in 0 .. MaxSessions, p \in People, t \in Tenants :
          /\ n > 0 => member[t][p] # "none"
          /\ session = [i \in 1 .. n |->
                [person |-> p, tenant |-> t, family |-> i, status |-> "revoked"]]
    /\ link \in [Links -> {x \in LinkRows : x.status \in {"none", "spent"}}]
    /\ invitation \in [Invitations -> {x \in InvitationRows : x.status \in {"none", "revoked"}}]
    /\ queued = [p \in People |-> [n \in Tries |-> 0]]
    /\ request = [r \in Visits \cup Hands |-> Nothing]
    /\ honoured = [x \in Links \cup Invitations |-> 0]
    /\ doomed = {} /\ kept = {}

Begin(r, what) == request[r] = Nothing /\ request' = [request EXCEPT ![r] = what]
End(r)         == request' = [request EXCEPT ![r] = Nothing]

-----------------------------------------------------------------------------
(* Sessions begin. *)

Open(i) == i \in 1 .. Len(session) /\ session[i].status \in {"live", "expired"}
InUse(i) == Open(i) /\ session[i].status = "live"

(* A new row of sessions, and an access token with the role that was read. *)
StartSession(p, t, role, family) ==
    /\ Len(session) < MaxSessions
    /\ session' = Append(session,
         [person |-> p, tenant |-> t, family |-> family, status |-> "live"])
    /\ badge' = IF role = "owner" THEN badge \cup {<<t, p>>} ELSE badge

(* LockMemberships finds no row to lock in a workspace that has no member. *)
Claim(r, p, t) ==
    /\ ~Claimed(t)
    /\ Begin(r, [at |-> "claim", person |-> p, tenant |-> t])
    /\ UNCHANGED <<peopleVars, tokenVars, letterVars, jobVars, kept>>

(* An address has one account. *)
Register(r) ==
    LET p == request[r].person  t == request[r].tenant IN
    /\ request[r].at = "claim"
    /\ p \notin users
    /\ users' = users \cup {p}
    /\ member' = [member EXCEPT ![t][p] = "owner"]
    /\ StartSession(p, t, "owner", Len(session) + 1)
    /\ End(r)
    /\ UNCHANGED <<letterVars, jobVars, kept>>

(* The password is compared between reading it and starting the session. *)
Login(r, p, t) ==
    /\ member[t][p] # "none"
    /\ Begin(r, [at |-> "login", person |-> p, tenant |-> t, role |-> member[t][p]])
    /\ UNCHANGED <<peopleVars, tokenVars, letterVars, jobVars, kept>>

FinishLogin(r) ==
    /\ request[r].at = "login"
    /\ StartSession(request[r].person, request[r].tenant, request[r].role, Len(session) + 1)
    /\ End(r)
    /\ UNCHANGED <<peopleVars, letterVars, jobVars, kept>>

-----------------------------------------------------------------------------
(* Sessions end. *)

(* The sessions an UPDATE is meant to end. *)
Scope(s) == {i \in 1 .. Len(session) :
    CASE s.why = "reuse"  -> session[i].family = s.family
      [] s.why = "job"    -> session[i].person = s.person
      [] OTHER -> session[i].person = s.person /\ session[i].tenant = s.tenant /\ i # s.keep}

Sweep0(why, p, t) ==
    [at |-> "sweep", why |-> why, person |-> p, tenant |-> t, family |-> 0, keep |-> 0,
     link |-> Nobody, role |-> "none", tries |-> 0, targets |-> {}]

(* Its snapshot. *)
Snapshot(s) == [s EXCEPT !.targets = {i \in Scope(s) : Open(i)}]

Sweeping(r, why) == request[r].at = "sweep" /\ request[r].why = why

(* Whatever it chose that nobody has ended meanwhile ends now. *)
Revoke(targets) ==
    session' = [i \in 1 .. Len(session) |->
        IF i \in targets /\ Open(i) THEN [session[i] EXCEPT !.status = "revoked"]
        ELSE session[i]]

Logout(i) ==
    /\ Open(i)
    /\ Revoke({i})
    /\ kept' = kept \ {i} /\ doomed' = doomed \ {i}
    /\ UNCHANGED <<peopleVars, badge, letterVars, queued, request>>

Expire(i) ==
    /\ InUse(i)
    /\ session' = [session EXCEPT ![i].status = "expired"]
    /\ kept' = kept \ {i} /\ doomed' = doomed \ {i}
    /\ UNCHANGED <<peopleVars, badge, letterVars, queued, request>>

-----------------------------------------------------------------------------
(* Refreshing a session. *)

(* A token that was exchanged before is evidence of theft. *)
Refresh(r, i) ==
    /\ i \in 1 .. Len(session)
    /\ \/ /\ session[i].status = "rotated"
          /\ Begin(r, Snapshot([Sweep0("reuse", session[i].person, session[i].tenant)
                                EXCEPT !.family = session[i].family]))
       \/ InUse(i) /\ Begin(r, [at |-> "check", session |-> i])
    /\ UNCHANGED <<peopleVars, tokenVars, letterVars, jobVars, kept>>

RoleOf(i) == member[session[i].tenant][session[i].person]

CheckMember(r) ==
    LET i == request[r].session IN
    /\ request[r].at = "check"
    /\ RoleOf(i) # "none"
    /\ request' = [request EXCEPT ![r] = [at |-> "rotate", session |-> i, role |-> RoleOf(i)]]
    /\ UNCHANGED <<peopleVars, tokenVars, letterVars, jobVars, kept>>

(* The predecessor is pointed at its successor if nobody ended it meanwhile;
   whether anything was updated is not asked.                               *)
Rotate(r) ==
    LET i == request[r].session IN
    /\ request[r].at = "rotate"
    /\ Len(session) < MaxSessions
    /\ session' = Append(IF Open(i) THEN [session EXCEPT ![i].status = "rotated"] ELSE session,
                         [session[i] EXCEPT !.status = "live"])
    /\ badge' = IF request[r].role = "owner"
                THEN badge \cup {<<session[i].tenant, session[i].person>>} ELSE badge
    /\ kept' = kept \ {i} /\ doomed' = doomed \ {i}
    /\ End(r)
    /\ UNCHANGED <<peopleVars, letterVars, queued>>

(* The refusal is answered after the transaction has committed. *)
HandleReuse(r) ==
    /\ Sweeping(r, "reuse")
    /\ Revoke(request[r].targets)
    /\ kept' = kept \ request[r].targets /\ doomed' = doomed \ request[r].targets
    /\ End(r)
    /\ UNCHANGED <<peopleVars, badge, letterVars, queued>>

-----------------------------------------------------------------------------
(* Passwords.  Setting one locks the user's row, spending a link the link's. *)

SettingPassword(p) == \E r \in Visits :
    (Sweeping(r, "reset") \/ Sweeping(r, "change")) /\ request[r].person = p
Spending(l) == \E r \in Visits : Sweeping(r, "reset") /\ request[r].link = l

LinksOf(p, t) ==
    {l \in Links : link[l].status = "live" /\ link[l].person = p /\ link[l].tenant = t}

RequestPasswordReset(r, l, p, t) ==
    /\ link[l] = Nobody /\ ~\E q \in Visits : request[q].at = "mail" /\ request[q].link = l
    /\ member[t][p] # "none"
    /\ Begin(r, [at |-> "mail", link |-> l, person |-> p, tenant |-> t, older |-> LinksOf(p, t)])
    /\ UNCHANGED <<peopleVars, tokenVars, letterVars, jobVars, kept>>

SendPasswordReset(r) ==
    LET new == [status |-> "live", person |-> request[r].person, tenant |-> request[r].tenant] IN
    /\ request[r].at = "mail"
    /\ ~\E l \in request[r].older : Spending(l)
    /\ link' = [l \in Links |-> IF l = request[r].link THEN new
                                ELSE IF l \in request[r].older
                                THEN [link[l] EXCEPT !.status = "spent"] ELSE link[l]]
    /\ End(r)
    /\ UNCHANGED <<peopleVars, tokenVars, invitation, honoured, jobVars, kept>>

OpenLink(r, l) ==
    /\ link[l].status = "live"
    /\ Begin(r, [at |-> "spend", link |-> l])
    /\ UNCHANGED <<peopleVars, tokenVars, letterVars, jobVars, kept>>

SetPassword(r, l, p, t) ==
    /\ ~SettingPassword(p) /\ member[t][p] # "none"
    /\ request' = [request EXCEPT ![r] = Snapshot([Sweep0("reset", p, t) EXCEPT !.link = l])]
    /\ UNCHANGED <<peopleVars, tokenVars, letterVars, jobVars, kept>>

(* Mutant: the link is spent without asking whether it still can be. *)
SpendAnyLink(r) ==
    LET l == request[r].link IN
    /\ request[r].at = "spend"
    /\ ~Spending(l)
    /\ SetPassword(r, l, link[l].person, link[l].tenant)

(* ConsumeToken and SetPasswordHash each find their row as it is by now. *)
SpendLink(r) ==
    LET l == request[r].link IN
    /\ request[r].at = "spend"
    /\ ~Spending(l) /\ link[l].status = "live"
    /\ SetPassword(r, l, link[l].person, link[l].tenant)

JobsOf(p) == UNION {{n} \X (1 .. queued[p][n]) : n \in Tries}

(* The job is queued with the password, and is to end what is still in use. *)
SetsPassword(r, p, jobs) ==
    /\ Cardinality(JobsOf(p)) < MaxJobs[p]
    /\ queued' = [queued EXCEPT ![p][0] = @ + jobs]
    /\ doomed' = {i \in 1 .. Len(session) \ request[r].targets :
                    IF session[i].person = p THEN InUse(i) ELSE i \in doomed}

(* Mutant: the job is forgotten. *)
ResetHereOnly(r) ==
    LET l == request[r].link  p == request[r].person IN
    /\ Sweeping(r, "reset")
    /\ Revoke(request[r].targets)
    /\ link' = [link EXCEPT ![l].status = "spent"]
    /\ honoured' = [honoured EXCEPT ![l] = @ + 1]
    /\ SetsPassword(r, p, 0)
    /\ kept' = {i \in kept : session[i].person # p}
    /\ End(r)
    /\ UNCHANGED <<peopleVars, badge, invitation>>

ResetPassword(r) ==
    LET l == request[r].link  p == request[r].person IN
    /\ Sweeping(r, "reset")
    /\ Revoke(request[r].targets)
    /\ link' = [link EXCEPT ![l].status = "spent"]
    /\ honoured' = [honoured EXCEPT ![l] = @ + 1]
    /\ SetsPassword(r, p, 1)
    /\ kept' = {i \in kept : session[i].person # p}
    /\ End(r)
    /\ UNCHANGED <<peopleVars, badge, invitation>>

(* A signed-in user who knows the password changes it. *)
EnterPassword(r, i) ==
    LET p == session[i].person  t == session[i].tenant IN
    /\ i \in 1 .. Len(session)
    /\ RoleOf(i) # "none" /\ ~SettingPassword(p)
    /\ Begin(r, Snapshot([Sweep0("change", p, t) EXCEPT !.keep = i]))
    /\ UNCHANGED <<peopleVars, tokenVars, letterVars, jobVars, kept>>

ChangePassword(r) ==
    LET p == request[r].person IN
    /\ Sweeping(r, "change")
    /\ Revoke(request[r].targets)
    /\ SetsPassword(r, p, 1)
    /\ kept' = {i \in {request[r].keep} : InUse(i)} \cup {i \in kept : session[i].person # p}
    /\ End(r)
    /\ UNCHANGED <<peopleVars, badge, letterVars>>

(* The job that ends a user's sessions in every workspace. *)
WorkRevocation(w, p, n) ==
    /\ queued[p][n] > 0
    /\ Begin(w, Snapshot([Sweep0("job", p, Everywhere) EXCEPT !.tries = n]))
    /\ queued' = [queued EXCEPT ![p][n] = @ - 1]
    /\ UNCHANGED <<peopleVars, tokenVars, letterVars, doomed, kept>>

(* A run fails and is rolled back.  The queue tries the job again, until it has
   been tried RevokeAttempts times and is discarded.                        *)
FailRevocation(w) ==
    LET job == request[w]  again == request[w].tries + 1 IN
    /\ Sweeping(w, "job")
    /\ IF again \in Tries
       THEN queued' = [queued EXCEPT ![job.person][again] = @ + 1] /\ doomed' = doomed
       ELSE queued' = queued /\ doomed' = doomed \ job.targets
    /\ End(w)
    /\ UNCHANGED <<peopleVars, tokenVars, letterVars, kept>>

RevokeEverywhere(w) ==
    /\ Sweeping(w, "job")
    /\ Revoke(request[w].targets)
    /\ doomed' = doomed \ request[w].targets
    /\ End(w)
    /\ UNCHANGED <<peopleVars, badge, letterVars, queued, kept>>

-----------------------------------------------------------------------------
(* Invitations. *)

Holds(a, t) == <<t, a>> \in badge \/ \E i \in 1 .. Len(session) :
    session[i].person = a /\ session[i].tenant = t

(* One outstanding invitation for an address in a workspace; an owner is
   invited by an owner.                                                     *)
Invite(v, a, p, t, role) ==
    /\ invitation[v] = Nobody
    /\ Holds(a, t) /\ (role = "owner" => <<t, a>> \in badge)
    /\ ~\E w \in Invitations : /\ invitation[w].status = "pending"
                               /\ invitation[w].person = p /\ invitation[w].tenant = t
    /\ invitation' = [invitation EXCEPT ![v] =
         [status |-> "pending", person |-> p, tenant |-> t, role |-> role]]
    /\ UNCHANGED <<peopleVars, tokenVars, link, honoured, jobVars, request, kept>>

RevokeInvitation(v) ==
    /\ invitation[v].status = "pending"
    /\ invitation' = [invitation EXCEPT ![v].status = "revoked"]
    /\ UNCHANGED <<peopleVars, tokenVars, link, honoured, jobVars, request, kept>>

(* The invitation, the account of its address, and whether it is a member's. *)
OpenInvitation(r, v) ==
    LET p == invitation[v].person IN
    /\ invitation[v].status = "pending"
    /\ member[invitation[v].tenant][p] = "none"
    /\ Begin(r, [at |-> "join", invitation |-> v, known |-> p \in users])
    /\ UNCHANGED <<peopleVars, tokenVars, letterVars, jobVars, kept>>

AcceptInvitation(r) ==
    LET v == request[r].invitation
        p == invitation[v].person  t == invitation[v].tenant  role == invitation[v].role IN
    /\ request[r].at = "join"
    /\ invitation[v].status = "pending"
    /\ request[r].known <=> p \in users
    /\ member[t][p] = "none"
    /\ users' = users \cup {p}
    /\ member' = [member EXCEPT ![t][p] = role]
    /\ invitation' = [invitation EXCEPT ![v].status = "accepted"]
    /\ honoured' = [honoured EXCEPT ![v] = @ + 1]
    /\ StartSession(p, t, role, Len(session) + 1)
    /\ End(r)
    /\ UNCHANGED <<link, jobVars, kept>>

-----------------------------------------------------------------------------
(* Members are promoted, demoted and removed. *)

Managing(t) == \E r \in Visits :
    (Sweeping(r, "role") \/ Sweeping(r, "remove")) /\ request[r].tenant = t

(* Nobody manages himself, an owner is managed by an owner, and the last is
   not taken away.                                                          *)
MayManage(a, p, t) ==
    /\ a # p /\ Holds(a, t)
    /\ member[t][p] # "none"
    /\ member[t][p] = "owner" => <<t, a>> \in badge /\ Cardinality(Owners(t)) > 1

(* Mutant: the memberships are not locked while the owners are counted. *)
ManageUnlocked(r, a, p, t, why, role) ==
    /\ MayManage(a, p, t)
    /\ why = "role" => member[t][p] # role /\ (role = "owner" => <<t, a>> \in badge)
    /\ Begin(r, Snapshot([Sweep0(why, p, t) EXCEPT !.role = role]))
    /\ UNCHANGED <<peopleVars, tokenVars, letterVars, jobVars, kept>>

(* The locks are held to the end of the transaction. *)
ManageMember(r, a, p, t, why, role) ==
    /\ ~Managing(t)
    /\ MayManage(a, p, t)
    /\ why = "role" => member[t][p] # role /\ (role = "owner" => <<t, a>> \in badge)
    /\ Begin(r, Snapshot([Sweep0(why, p, t) EXCEPT !.role = role]))
    /\ UNCHANGED <<peopleVars, tokenVars, letterVars, jobVars, kept>>

Manage(r, why) ==
    /\ Sweeping(r, why)
    /\ member' = [member EXCEPT ![request[r].tenant][request[r].person] = request[r].role]
    /\ Revoke(request[r].targets)
    /\ kept' = kept \ request[r].targets /\ doomed' = doomed \ request[r].targets
    /\ End(r)
    /\ UNCHANGED <<users, badge, letterVars, queued>>

ChangeMemberRole(r) == Manage(r, "role")
RemoveMember(r)     == Manage(r, "remove")

(* The client goes, the process dies or a statement fails: the transaction is
   rolled back.  A job's is FailRevocation.                                 *)
CutOff(r) ==
    /\ request[r] # Nothing
    /\ End(r)
    /\ UNCHANGED <<peopleVars, tokenVars, letterVars, jobVars, kept>>

-----------------------------------------------------------------------------
SessionsNext ==
    \/ \E r \in Visits, p \in People, t \in Tenants : Claim(r, p, t) \/ Login(r, p, t)
    \/ \E r \in Visits : Register(r) \/ FinishLogin(r)
    \/ \E i \in 1 .. Len(session) : Logout(i) \/ Expire(i)
    \/ \E r \in Visits, i \in 1 .. Len(session) : Refresh(r, i) \/ EnterPassword(r, i)
    \/ \E r \in Visits : CheckMember(r) \/ Rotate(r) \/ HandleReuse(r)
    \/ \E r \in Visits, l \in Links, p \in People, t \in Tenants : RequestPasswordReset(r, l, p, t)
    \/ \E r \in Visits, l \in Links : OpenLink(r, l)
    \/ \E r \in Visits : SendPasswordReset(r) \/ SpendLink(r) \/ ResetPassword(r) \/ ChangePassword(r)
    \/ \E w \in Hands, p \in People, n \in Tries : WorkRevocation(w, p, n)
    \/ \E w \in Hands : RevokeEverywhere(w) \/ FailRevocation(w)
    \/ \E v \in Invitations, t \in Tenants, a \in People, p \in People, role \in Roles :
          Invite(v, a, p, t, role)
    \/ \E v \in Invitations : RevokeInvitation(v)
    \/ \E r \in Visits, v \in Invitations : OpenInvitation(r, v)
    \/ \E r \in Visits : AcceptInvitation(r)
    \/ \E r \in Visits, a \in People, p \in People, t \in Tenants, role \in Roles :
          ManageMember(r, a, p, t, "role", role)
    \/ \E r \in Visits, a \in People, p \in People, t \in Tenants :
          ManageMember(r, a, p, t, "remove", "none")
    \/ \E r \in Visits : ChangeMemberRole(r) \/ RemoveMember(r)
    \/ \E r \in Visits : CutOff(r)

SessionsSpec == SessionsInit /\ [][SessionsNext]_sessionsVars

-----------------------------------------------------------------------------
(* A workspace that has members has an owner among them, though two owners
   may demote or remove each other at the same moment.
   auth/members_service.go, ChangeMemberRole and RemoveMember.              *)
OwnerRemains == \A t \in Tenants : Claimed(t) => Owners(t) # {}

(* A reset link sets one password and an invitation makes one membership,
   however often and at whatever moments they are followed.
   auth/postgres_credentials.go, ConsumeToken; auth/postgres_members.go,
   MarkInvitationAccepted.                                                  *)
SpentOnce == \A x \in Links \cup Invitations : honoured[x] <= 1

(* A session that was there when a password was reset or changed and has not
   ended yet, in whatever workspace, has a job waiting or at work that will end
   it, unless a job that was to end it failed for the last time since - however
   sessions end and begin meanwhile.  A session that begins later is not meant:
   a refresh or a login under way leaves one that no job knows of.
   auth/credentials.go, ResetPassword; auth/account.go, ChangePassword;
   auth/jobs.go, InsertOpts.                                                *)
Waiting(p) == \E n \in Tries : queued[p][n] > 0

RevocationIsChased ==
    \A i \in doomed : InUse(i) =>
        \/ Waiting(session[i].person)
        \/ \E w \in Hands : Sweeping(w, "job") /\ i \in request[w].targets

(* Changing a password leaves signed in the browser it is changed from:
   "The browser in front of us keeps its session".  auth/account.go.        *)
KeepsItsBrowser == \A i \in kept : session[i].status # "revoked"
=============================================================================
