--------------------------- MODULE SessionsProofs ---------------------------
(***************************************************************************)
(* Proofs about Sessions, for any number of users, workspaces, links,      *)
(* invitations, requests in flight and workers, and whatever the bounds.   *)
(*                                                                         *)
(* A request that has read carries what it read, and the invariant says    *)
(* what of that is still so when it writes: the rows it locked are as it   *)
(* found them, because no other request holds the same lock, and the rows  *)
(* of sessions only ever get further from being live.                      *)
(***************************************************************************)
EXTENDS Sessions, FiniteSetTheorems, TLAPS

Slots == Visits \cup Hands

Manages(q) == q.at = "sweep" /\ q.why \in {"role", "remove"}
Spends(q)  == q.at = "sweep" /\ q.why = "reset"
Jobs(q)    == q.at = "sweep" /\ q.why = "job"

(* What a request has read and still counts on. *)
RequestOK(q) ==
    /\ q.at \in {"check", "rotate"} => q.session \in 1 .. Len(session)
    /\ q.at = "login" => Owners(q.tenant) # {}
    /\ q.at = "mail" => link[q.link] = Nobody /\ \A l \in q.older : link[l] # Nobody
    /\ q.at = "sweep" => q.targets \subseteq 1 .. Len(session) /\ (q.why # "job" => q.tenant \in Tenants)
    /\ Manages(q) => Owners(q.tenant) \ {q.person} # {}
    /\ Spends(q) => /\ q.link \in Links /\ link[q.link].status = "live"
                    /\ link[q.link].person = q.person
    /\ Jobs(q) => \A i \in q.targets : session[i].person = q.person

(* Two requests do not hold one lock. *)
Compatible(x, y) ==
    /\ ~(x.at = "mail" /\ y.at = "mail" /\ x.link = y.link)
    /\ ~(Spends(x) /\ Spends(y) /\ x.link = y.link)
    /\ ~(Manages(x) /\ Manages(y) /\ x.tenant = y.tenant)

InFlight ==
    /\ \A r \in Slots : RequestOK(request[r])
    /\ \A w \in Hands : request[w] = Nothing \/ Jobs(request[w])
    /\ \A r, q \in Visits : r # q => Compatible(request[r], request[q])

(* Whatever leads to a membership belongs to a workspace that has an owner. *)
Owned ==
    /\ OwnerRemains
    /\ \A t \in Tenants, a \in People : <<t, a>> \in badge => Owners(t) # {}
    /\ \A i \in 1 .. Len(session) : Owners(session[i].tenant) # {}
    /\ \A v \in Invitations :
          invitation[v].status = "pending" => Owners(invitation[v].tenant) # {}

Honoured ==
    /\ \A l \in Links : honoured[l] = 0 \/ (honoured[l] = 1 /\ link[l].status = "spent")
    /\ \A v \in Invitations : honoured[v] = 0 \/ (honoured[v] = 1 /\ invitation[v].status = "accepted")

SessionsInv == SessionsTypeOK /\ InFlight /\ Owned /\ Honoured /\ RevocationIsChased

(* What every step does to the rows of sessions. *)
Onward ==
    /\ session' \in Seq(SessionRows) /\ Len(session') >= Len(session)
    /\ \A i \in 1 .. Len(session') : session'[i].family \in 1 .. i
    /\ \A i \in 1 .. Len(session) :
          /\ session'[i].person = session[i].person /\ session'[i].tenant = session[i].tenant
          /\ session'[i].status = "live" => session[i].status = "live"

(* What every step but a worker's does to the jobs and what they are to end. *)
JobsKept ==
    /\ queued' \in [People -> [Tries -> Nat]]
    /\ \A p \in People, n \in Tries :
          queued[p][n] > 0 => \E m \in Tries : queued'[p][m] > 0
    /\ doomed' \subseteq 1 .. Len(session)
    /\ \A i \in doomed' :
          i \in doomed \/ \E m \in Tries : queued'[session[i].person][m] > 0

-----------------------------------------------------------------------------
LEMMA Shapes ==
    ASSUME NEW q \in RequestStates
    PROVE  /\ q.at = "claim" => q.person \in People /\ q.tenant \in Tenants
           /\ q.at = "login" => q.person \in People /\ q.tenant \in Tenants /\ q.role \in Roles
           /\ q.at = "check" => q.session \in Nat
           /\ q.at = "rotate" => q.session \in Nat /\ q.role \in Roles
           /\ q.at = "mail" => /\ q.link \in Links /\ q.person \in People /\ q.tenant \in Tenants
                               /\ q.older \subseteq Links
           /\ q.at = "spend" => q.link \in Links
           /\ q.at = "join" => q.invitation \in Invitations
           /\ q.at = "sweep" => q \in Sweeps
<1>1. CASE q = Nothing
  BY <1>1 DEF Nothing
<1>2. CASE q \in [at: {"claim"}, person: People, tenant: Tenants]
  BY <1>2
<1>3. CASE q \in [at: {"login"}, person: People, tenant: Tenants, role: Roles]
  BY <1>3
<1>4. CASE q \in [at: {"check"}, session: Nat]
  BY <1>4
<1>5. CASE q \in [at: {"rotate"}, session: Nat, role: Roles]
  BY <1>5
<1>6. CASE q \in [at: {"mail"}, link: Links, person: People, tenant: Tenants, older: SUBSET Links]
  BY <1>6
<1>7. CASE q \in [at: {"spend"}, link: Links]
  BY <1>7
<1>8. CASE q \in [at: {"join"}, invitation: Invitations, known: BOOLEAN]
  BY <1>8
<1>9. CASE q \in Sweeps
  <2>1. q.at = "sweep"
    BY <1>9 DEF Sweeps
  <2> QED BY <1>9, <2>1
<1> QED BY <1>1, <1>2, <1>3, <1>4, <1>5, <1>6, <1>7, <1>8, <1>9 DEF RequestStates

LEMMA SweepShape ==
    ASSUME NEW s \in Sweeps
    PROVE  /\ s.person \in People /\ s.tenant \in Tenants \cup {Everywhere}
           /\ s.role \in Roles \cup {"none"} /\ s.targets \subseteq Nat
           /\ s.keep \in Nat /\ s.link \in Links \cup {Nobody}
           /\ s \in RequestStates /\ s.at = "sweep"
BY DEF Sweeps, RequestStates

LEMMA SnapshotShape ==
    ASSUME NEW s \in Sweeps, SessionsTypeOK
    PROVE  /\ Snapshot(s) \in Sweeps
           /\ Snapshot(s).why = s.why /\ Snapshot(s).person = s.person
           /\ Snapshot(s).tenant = s.tenant /\ Snapshot(s).link = s.link
           /\ Snapshot(s).role = s.role /\ Snapshot(s).keep = s.keep
           /\ Snapshot(s).targets = {i \in Scope(s) : Open(i)}
           /\ Snapshot(s).targets \subseteq 1 .. Len(session)
<1>1. {i \in Scope(s) : Open(i)} \subseteq 1 .. Len(session)
  BY DEF Open
<1>2. Len(session) \in Nat
  BY DEF SessionsTypeOK
<1>3. {i \in Scope(s) : Open(i)} \in SUBSET Nat
  BY <1>1, <1>2

<1> DEFINE T == {i \in Scope(s) : Open(i)}
<1>4. T \in SUBSET Nat /\ T \subseteq 1 .. Len(session)
  BY <1>1, <1>3
<1>5. Snapshot(s) = [s EXCEPT !.targets = T]
  BY DEF Snapshot
<1> HIDE DEF T
<1>6. [s EXCEPT !.targets = T] \in Sweeps
  BY <1>4 DEF Sweeps
<1>7. /\ [s EXCEPT !.targets = T].targets = T /\ [s EXCEPT !.targets = T].why = s.why
      /\ [s EXCEPT !.targets = T].person = s.person /\ [s EXCEPT !.targets = T].tenant = s.tenant
      /\ [s EXCEPT !.targets = T].link = s.link /\ [s EXCEPT !.targets = T].role = s.role
      /\ [s EXCEPT !.targets = T].keep = s.keep
  BY DEF Sweeps
<1> QED BY <1>4, <1>5, <1>6, <1>7 DEF T

-----------------------------------------------------------------------------
(* The rows of sessions. *)

LEMMA SessionTyped ==
    ASSUME SessionsTypeOK, NEW i \in 1 .. Len(session)
    PROVE  /\ session[i] \in SessionRows /\ session[i].person \in People
           /\ session[i].tenant \in Tenants /\ session[i].family \in 1 .. i
<1>1. session[i] \in SessionRows /\ session[i].family \in 1 .. i
  BY DEF SessionsTypeOK
<1> QED BY <1>1 DEF SessionRows

LEMMA RevokeOnward ==
    ASSUME SessionsTypeOK, NEW T, Revoke(T)
    PROVE  /\ Onward /\ Len(session') = Len(session)
           /\ \A i \in 1 .. Len(session) : i \in T => session'[i].status # "live"
<1> DEFINE f == [i \in 1 .. Len(session) |->
        IF i \in T /\ Open(i) THEN [session[i] EXCEPT !.status = "revoked"] ELSE session[i]]
<1>1. Len(session) \in Nat /\ session' = f
  BY DEF SessionsTypeOK, Revoke
<1>2. \A i \in 1 .. Len(session) :
        /\ f[i] \in SessionRows /\ f[i].person = session[i].person
        /\ f[i].tenant = session[i].tenant /\ f[i].family = session[i].family
        /\ f[i].status = "live" => session[i].status = "live"
        /\ i \in T => f[i].status # "live"
  <2> TAKE i \in 1 .. Len(session)
  <2>1. session[i] \in SessionRows
    BY SessionTyped
  <2>2. CASE i \in T /\ Open(i)
    <3>1. f[i] = [session[i] EXCEPT !.status = "revoked"]
      BY <2>2
    <3> QED BY <2>1, <3>1 DEF SessionRows, SessionStatuses
  <2>3. CASE ~(i \in T /\ Open(i))
    <3>1. f[i] = session[i]
      BY <2>3
    <3> QED BY <2>1, <2>3, <3>1 DEF Open
  <2> QED BY <2>2, <2>3
<1>3. f \in [1 .. Len(session) -> SessionRows]
  BY <1>2
<1> HIDE DEF f
<1>4. f \in Seq(SessionRows) /\ Len(f) = Len(session)
  BY <1>1, <1>3
<1>5. \A i \in 1 .. Len(session) : f[i].family \in 1 .. i
  BY <1>2, SessionTyped
<1> QED BY <1>1, <1>2, <1>4, <1>5 DEF Onward

LEMMA AppendOnward ==
    ASSUME SessionsTypeOK, NEW row \in SessionRows, row.family \in 1 .. Len(session) + 1,
           session' = Append(session, row)
    PROVE  /\ Onward /\ Len(session') = Len(session) + 1
           /\ session'[Len(session) + 1] = row
<1>1. session \in Seq(SessionRows) /\ Len(session) \in Nat
  BY DEF SessionsTypeOK
<1>2. /\ session' \in Seq(SessionRows) /\ Len(session') = Len(session) + 1
      /\ session'[Len(session) + 1] = row
      /\ \A i \in 1 .. Len(session) : session'[i] = session[i]
  BY <1>1
<1>3. \A i \in 1 .. Len(session') : i \in 1 .. Len(session) \/ i = Len(session) + 1
  BY <1>1, <1>2
<1>4. \A i \in 1 .. Len(session') : session'[i].family \in 1 .. i
  BY <1>2, <1>3 DEF SessionsTypeOK
<1> QED BY <1>1, <1>2, <1>4 DEF Onward

LEMMA StillOnward ==
    ASSUME SessionsTypeOK, session' = session
    PROVE  Onward
BY DEF SessionsTypeOK, Onward

-----------------------------------------------------------------------------
(* The invariant, part by part. *)

(* No workspace loses its last owner. *)
OwnersStay == \A t \in Tenants : Owners(t) # {} => Owners(t)' # {}

(* What a request counts on stays so while others write. *)
LEMMA OtherKept ==
    ASSUME SessionsInv, Onward, OwnersStay, NEW q \in RequestStates, RequestOK(q),
           Manages(q) => Owners(q.tenant) \subseteq Owners(q.tenant)',
           q.at = "mail" => link'[q.link] = Nobody /\ \A l \in q.older : link'[l] # Nobody,
           Spends(q) => link'[q.link] = link[q.link]
    PROVE  RequestOK(q)'
<1>1. Len(session) \in Nat /\ Len(session') \in Nat /\ Len(session') >= Len(session)
  BY DEF SessionsInv, SessionsTypeOK, Onward
<1>2. q.at \in {"check", "rotate"} => q.session \in 1 .. Len(session')
  BY <1>1 DEF RequestOK
<1>3. q.at = "login" => Owners(q.tenant)' # {}
  BY Shapes DEF RequestOK, OwnersStay
<1>4. q.at = "sweep" => q.targets \subseteq 1 .. Len(session') /\ (q.why # "job" => q.tenant \in Tenants)
  BY <1>1 DEF RequestOK
<1>5. Manages(q) => Owners(q.tenant)' \ {q.person} # {}
  BY DEF RequestOK
<1>6. Jobs(q) => \A i \in q.targets : session'[i].person = q.person
  BY DEF RequestOK, Jobs, Onward
<1> QED BY <1>2, <1>3, <1>4, <1>5, <1>6 DEF RequestOK, Manages, Spends, Jobs

LEMMA BeginInFlight ==
    ASSUME SessionsInv, NEW r \in Slots, NEW what \in RequestStates,
           request' = [request EXCEPT ![r] = what], RequestOK(what)',
           \A x \in Slots \ {r} : RequestOK(request[x])',
           r \in Hands => what = Nothing \/ Jobs(what),
           \A x \in Visits \ {r} : r \in Visits => Compatible(what, request[x])
    PROVE  InFlight' /\ request' \in [Slots -> RequestStates]
<1>1. request \in [Slots -> RequestStates]
  BY DEF SessionsInv, SessionsTypeOK, Slots
<1>2. request' \in [Slots -> RequestStates] /\ request'[r] = what
      /\ \A x \in Slots \ {r} : request'[x] = request[x]
  BY <1>1
<1>3. ASSUME NEW x \in Slots PROVE RequestOK(request[x])'
  <2>1. CASE x = r
    BY <1>2, <2>1 DEF RequestOK, Manages, Spends, Jobs, Owners
  <2>2. CASE x # r
    BY <2>2
  <2> QED BY <2>1, <2>2
<1>4. ASSUME NEW w \in Hands PROVE (request[w] = Nothing \/ Jobs(request[w]))'
  BY <1>2 DEF SessionsInv, InFlight, Slots, Jobs
<1>5. ASSUME NEW x \in Visits, NEW y \in Visits, x # y
      PROVE  Compatible(request[x], request[y])'
  <2>1. Compatible(request'[x], request'[y])
    <3>1. CASE x = r
      BY <1>2, <1>5, <3>1 DEF Slots
    <3>2. CASE y = r
      BY <1>2, <1>5, <3>2 DEF Slots, Compatible
    <3>3. CASE x # r /\ y # r
      BY <1>2, <1>5, <3>3 DEF Slots, SessionsInv, InFlight
    <3> QED BY <3>1, <3>2, <3>3
  <2> QED BY <2>1 DEF Compatible, Manages, Spends
<1> QED BY <1>2, <1>3, <1>4, <1>5 DEF InFlight

LEMMA EndInFlight ==
    ASSUME SessionsInv, NEW D \in SUBSET Slots,
           request' = [x \in Slots |-> IF x \in D THEN Nothing ELSE request[x]],
           \A x \in Slots \ D : RequestOK(request[x])'
    PROVE  InFlight' /\ request' \in [Slots -> RequestStates]
<1>1. request \in [Slots -> RequestStates]
  BY DEF SessionsInv, SessionsTypeOK, Slots
<1>2. request' \in [Slots -> RequestStates]
  BY <1>1 DEF RequestStates
<1>3. /\ \A x \in D : request'[x] = Nothing
      /\ \A x \in Slots \ D : request'[x] = request[x]
  OBVIOUS
<1>4. ASSUME NEW x \in Slots PROVE RequestOK(request[x])'
  <2>1. CASE x \in D
    BY <1>3, <2>1 DEF RequestOK, Manages, Spends, Jobs, Nothing
  <2>2. CASE x \notin D
    BY <2>2
  <2> QED BY <2>1, <2>2
<1>5. ASSUME NEW w \in Hands PROVE (request[w] = Nothing \/ Jobs(request[w]))'
  BY <1>3 DEF SessionsInv, InFlight, Slots, Jobs
<1>6. ASSUME NEW x \in Visits, NEW y \in Visits, x # y
      PROVE  Compatible(request[x], request[y])'
  <2>1. Compatible(request'[x], request'[y])
    <3>1. CASE x \in D
      BY <1>3, <3>1 DEF Compatible, Manages, Spends, Nothing
    <3>2. CASE y \in D
      BY <1>3, <3>2 DEF Compatible, Manages, Spends, Nothing
    <3>3. CASE x \notin D /\ y \notin D
      BY <1>3, <1>6, <3>3 DEF Slots, SessionsInv, InFlight
    <3> QED BY <3>1, <3>2, <3>3
  <2> QED BY <2>1 DEF Compatible, Manages, Spends
<1> QED BY <1>2, <1>4, <1>5, <1>6 DEF InFlight

LEMMA OwnedKept ==
    ASSUME SessionsInv, Onward, OwnersStay,
           \A t \in Tenants, a \in People :
               <<t, a>> \in badge' => <<t, a>> \in badge \/ Owners(t)' # {},
           \A t \in Tenants, i \in 1 .. Len(session') :
               i > Len(session) /\ session'[i].tenant = t => Owners(t)' # {},
           \A t \in Tenants : Claimed(t)' => Claimed(t) \/ Owners(t)' # {},
           \A v \in Invitations, t \in Tenants :
               invitation'[v].status = "pending" /\ invitation'[v].tenant = t =>
                   invitation[v] = invitation'[v] \/ Owners(t) # {},
           \A v \in Invitations : invitation'[v].status = "pending" => invitation'[v].tenant \in Tenants
    PROVE  Owned'
<1>1. OwnerRemains'
  BY DEF SessionsInv, Owned, OwnerRemains, OwnersStay
<1>2. \A t \in Tenants, a \in People : <<t, a>> \in badge' => Owners(t)' # {}
  BY DEF SessionsInv, Owned, OwnersStay
<1>3. ASSUME NEW i \in 1 .. Len(session') PROVE Owners(session[i].tenant)' # {}
  <2>1. session'[i].tenant \in Tenants
    <3>1. session'[i] \in SessionRows
      BY DEF Onward
    <3> QED BY <3>1 DEF SessionRows
  <2>2. PICK t \in Tenants : t = session'[i].tenant
    BY <2>1
  <2>3. Owners(t)' # {}
    <3>1. CASE i > Len(session)
      BY <2>2, <3>1
    <3>2. CASE i \in 1 .. Len(session)
      BY <2>2, <3>2 DEF Onward, SessionsInv, Owned, OwnersStay
    <3> QED BY <3>1, <3>2 DEF SessionsInv, SessionsTypeOK, Onward
  <2> QED BY <2>2, <2>3 DEF Owners
<1>4. ASSUME NEW v \in Invitations, invitation'[v].status = "pending"
      PROVE  Owners(invitation[v].tenant)' # {}
  <2>1. PICK t \in Tenants : t = invitation'[v].tenant
    BY <1>4
  <2>2. Owners(t) # {}
    BY <1>4, <2>1 DEF SessionsInv, Owned
  <2>3. Owners(t)' # {}
    BY <2>2 DEF OwnersStay
  <2> QED BY <2>1, <2>3 DEF Owners
<1> QED BY <1>1, <1>2, <1>3, <1>4 DEF Owned

LEMMA HonouredKept ==
    ASSUME SessionsInv, UNCHANGED letterVars
    PROVE  Honoured'
BY DEF SessionsInv, Honoured, letterVars

LEMMA JobsStay ==
    ASSUME SessionsInv, queued' = queued, doomed' \subseteq doomed
    PROVE  JobsKept
BY DEF SessionsInv, SessionsTypeOK, JobsKept

(* Nothing but a worker's own step takes a revocation away. *)
LEMMA ChasedKept ==
    ASSUME SessionsInv, Onward, JobsKept,
           \A w \in Hands : Jobs(request[w]) => request'[w] = request[w]
    PROVE  RevocationIsChased'
<1> SUFFICES ASSUME NEW i \in doomed', InUse(i)'
             PROVE  \/ \E m \in Tries : queued'[session'[i].person][m] > 0
                    \/ \E w \in Hands : Sweeping(w, "job")' /\ i \in request'[w].targets
  BY DEF RevocationIsChased, Waiting
<1>1. /\ i \in 1 .. Len(session) /\ session'[i].person = session[i].person
      /\ session'[i].status = "live" => session[i].status = "live"
  BY DEF JobsKept, Onward
<1>2. InUse(i) /\ session[i].person \in People
  BY <1>1, SessionTyped DEF InUse, Open, SessionsInv
<1>3. CASE i \notin doomed
  BY <1>1, <1>3 DEF JobsKept
<1>4. CASE i \in doomed /\ Waiting(session[i].person)
  BY <1>1, <1>2, <1>4 DEF JobsKept, Waiting
<1>5. CASE \E w \in Hands : Sweeping(w, "job") /\ i \in request[w].targets
  BY <1>5 DEF Sweeping, Jobs
<1> QED BY <1>2, <1>3, <1>4, <1>5 DEF SessionsInv, RevocationIsChased

-----------------------------------------------------------------------------
(* Requests that only read. *)

LEMMA QuietStep ==
    ASSUME SessionsInv, NEW r \in Slots, NEW what \in RequestStates,
           request' = [request EXCEPT ![r] = what], RequestOK(what),
           UNCHANGED <<peopleVars, tokenVars, letterVars, kept>>,
           queued' \in [People -> [Tries -> Nat]], doomed' \subseteq 1 .. Len(session),
           r \in Hands => what = Nothing \/ Jobs(what),
           \A x \in Visits \ {r} : r \in Visits => Compatible(what, request[x]),
           RevocationIsChased'
    PROVE  SessionsInv'
<1>1. /\ users' = users /\ member' = member /\ session' = session /\ badge' = badge
      /\ link' = link /\ invitation' = invitation /\ honoured' = honoured /\ kept' = kept
  BY DEF peopleVars, tokenVars, letterVars
<1>2. ASSUME NEW q, RequestOK(q) PROVE RequestOK(q)'
  BY <1>1, <1>2 DEF RequestOK, Manages, Spends, Jobs, Owners
<1>3. ASSUME NEW x \in Slots \ {r} PROVE RequestOK(request[x])'
  <2>1. request \in [Slots -> RequestStates] /\ RequestOK(request[x])
    BY DEF SessionsInv, SessionsTypeOK, InFlight, Slots
  <2>2. PICK q : q = request[x]
    OBVIOUS
  <2>3. RequestOK(q)'
    BY <1>2, <2>1, <2>2
  <2>4. request'[x] = q
    BY <2>1, <2>2
  <2> QED BY <2>3, <2>4 DEF RequestOK, Manages, Spends, Jobs, Owners
<1>4. RequestOK(what)'
  BY <1>2
<1>5. InFlight' /\ request' \in [Slots -> RequestStates]
  BY <1>3, <1>4, BeginInFlight
<1>6. SessionsTypeOK'
  BY <1>1, <1>5 DEF SessionsInv, SessionsTypeOK, Slots
<1>7. Owned'
  BY <1>1 DEF SessionsInv, Owned, OwnerRemains, Claimed, Owners
<1>8. Honoured'
  BY <1>1 DEF SessionsInv, Honoured
<1> QED BY <1>5, <1>6, <1>7, <1>8 DEF SessionsInv

LEMMA BeginStep ==
    ASSUME SessionsInv, NEW r \in Visits, NEW what \in RequestStates, ~Jobs(request[r]),
           request' = [request EXCEPT ![r] = what], RequestOK(what),
           UNCHANGED <<peopleVars, tokenVars, letterVars, jobVars, kept>>,
           \A x \in Visits \ {r} : Compatible(what, request[x])
    PROVE  SessionsInv'
<1>1. /\ session' = session /\ queued' = queued /\ doomed' = doomed
      /\ queued \in [People -> [Tries -> Nat]] /\ doomed \subseteq 1 .. Len(session)
      /\ request \in [Slots -> RequestStates]
  BY DEF tokenVars, jobVars, SessionsInv, SessionsTypeOK, Slots
<1>2. Onward
  BY <1>1, StillOnward DEF SessionsInv
<1>3. \A w \in Hands : Jobs(request[w]) => request'[w] = request[w]
  BY <1>1 DEF Slots
<1>4. JobsKept
  BY <1>1, JobsStay
<1>5. RevocationIsChased'
  BY <1>2, <1>3, <1>4, ChasedKept
<1>6. r \in Slots /\ r \notin Hands
  BY SessionsAssumption DEF Slots
<1> QED BY <1>1, <1>5, <1>6, QuietStep

LEMMA IdleIsNoJob ==
    ASSUME NEW r, request[r] = Nothing
    PROVE  ~Jobs(request[r])
BY DEF Nothing, Jobs

LEMMA Sweep0OfJob ==
    ASSUME NEW p \in People, NEW n \in Nat
    PROVE  /\ [Sweep0("job", p, Everywhere) EXCEPT !.tries = n] \in Sweeps
           /\ [Sweep0("job", p, Everywhere) EXCEPT !.tries = n].why = "job"
           /\ [Sweep0("job", p, Everywhere) EXCEPT !.tries = n].person = p
<1>1. Sweep0("job", p, Everywhere) =
        [at |-> "sweep", why |-> "job", person |-> p, tenant |-> Everywhere, family |-> 0,
         keep |-> 0, link |-> Nobody, role |-> "none", tries |-> 0, targets |-> {}]
  BY DEF Sweep0
<1> QED BY <1>1 DEF Sweeps

LEMMA Sweep0OfLink ==
    ASSUME NEW p \in People, NEW t \in Tenants, NEW l \in Links
    PROVE  /\ [Sweep0("reset", p, t) EXCEPT !.link = l] \in Sweeps
           /\ [Sweep0("reset", p, t) EXCEPT !.link = l].why = "reset"
           /\ [Sweep0("reset", p, t) EXCEPT !.link = l].tenant = t
           /\ [Sweep0("reset", p, t) EXCEPT !.link = l].link = l
           /\ [Sweep0("reset", p, t) EXCEPT !.link = l].person = p
<1>1. Sweep0("reset", p, t) = [at |-> "sweep", why |-> "reset", person |-> p, tenant |-> t, family |-> 0,
        keep |-> 0, link |-> Nobody, role |-> "none", tries |-> 0, targets |-> {}]
  BY DEF Sweep0
<1> QED BY <1>1 DEF Sweeps

LEMMA Sweep0OfRole ==
    ASSUME NEW why \in {"remove", "role"}, NEW p \in People, NEW t \in Tenants,
           NEW role \in Roles \cup {"none"}
    PROVE  /\ [Sweep0(why, p, t) EXCEPT !.role = role] \in Sweeps
           /\ [Sweep0(why, p, t) EXCEPT !.role = role].why = why
           /\ [Sweep0(why, p, t) EXCEPT !.role = role].person = p
           /\ [Sweep0(why, p, t) EXCEPT !.role = role].tenant = t
<1>1. Sweep0(why, p, t) = [at |-> "sweep", why |-> why, person |-> p, tenant |-> t, family |-> 0,
        keep |-> 0, link |-> Nobody, role |-> "none", tries |-> 0, targets |-> {}]
  BY DEF Sweep0
<1> QED BY <1>1 DEF Sweeps

LEMMA ReadStep ==
    ASSUME SessionsInv, NEW r \in Visits, NEW p \in People, NEW t \in Tenants,
           Claim(r, p, t) \/ Login(r, p, t)
    PROVE  SessionsInv'
<1>1. request[r] = Nothing /\ UNCHANGED <<peopleVars, tokenVars, letterVars, jobVars, kept>>
      /\ ~Jobs(request[r])
  BY IdleIsNoJob DEF Claim, Login, Begin
<1>2. CASE Claim(r, p, t)
  <2>1. PICK what : what = [at |-> "claim", person |-> p, tenant |-> t]
    OBVIOUS
  <2>2. request' = [request EXCEPT ![r] = what]
    BY <1>2, <2>1 DEF Claim, Begin
  <2>3. what \in RequestStates /\ RequestOK(what)
    BY <2>1 DEF RequestStates, RequestOK, Manages, Spends, Jobs
  <2>4. \A x \in Visits \ {r} : Compatible(what, request[x])
    BY <2>1 DEF Compatible, Manages, Spends
  <2> QED BY <1>1, <2>2, <2>3, <2>4, BeginStep
<1>3. CASE Login(r, p, t)
  <2>1. PICK what : what = [at |-> "login", person |-> p, tenant |-> t, role |-> member[t][p]]
    OBVIOUS
  <2>2. request' = [request EXCEPT ![r] = what] /\ member[t][p] # "none"
    BY <1>3, <2>1 DEF Login, Begin
  <2>3. member[t][p] \in Roles /\ Owners(t) # {}
    <3>1. member[t][p] \in Roles \cup {"none"}
      BY DEF SessionsInv, SessionsTypeOK
    <3>2. Claimed(t)
      BY <2>2 DEF Claimed
    <3> QED BY <2>2, <3>1, <3>2 DEF SessionsInv, Owned, OwnerRemains
  <2>4. what \in RequestStates /\ RequestOK(what)
    BY <2>1, <2>3 DEF RequestStates, RequestOK, Manages, Spends, Jobs
  <2>5. \A x \in Visits \ {r} : Compatible(what, request[x])
    BY <2>1 DEF Compatible, Manages, Spends
  <2> QED BY <1>1, <2>2, <2>4, <2>5, BeginStep
<1> QED BY <1>2, <1>3

LEMMA AskStep ==
    ASSUME SessionsInv, NEW r \in Visits, NEW l \in Links, NEW p \in People, NEW t \in Tenants,
           RequestPasswordReset(r, l, p, t)
    PROVE  SessionsInv'
<1>1. request[r] = Nothing /\ UNCHANGED <<peopleVars, tokenVars, letterVars, jobVars, kept>>
      /\ ~Jobs(request[r])
  BY IdleIsNoJob DEF RequestPasswordReset, Begin
<1>2. PICK what : what = [at |-> "mail", link |-> l, person |-> p, tenant |-> t,
                          older |-> LinksOf(p, t)]
  OBVIOUS
<1>3. request' = [request EXCEPT ![r] = what]
  BY <1>2 DEF RequestPasswordReset, Begin
<1>4. /\ link[l] = Nobody /\ ~\E q \in Visits : request[q].at = "mail" /\ request[q].link = l
      /\ LinksOf(p, t) \subseteq Links /\ \A k \in LinksOf(p, t) : link[k] # Nobody
  BY DEF RequestPasswordReset, LinksOf, Nobody
<1>5. what \in RequestStates /\ RequestOK(what)
  BY <1>2, <1>4 DEF RequestStates, RequestOK, Manages, Spends, Jobs
<1>6. \A x \in Visits \ {r} : Compatible(what, request[x])
  BY <1>2, <1>4 DEF Compatible, Manages, Spends
<1> QED BY <1>1, <1>3, <1>5, <1>6, BeginStep

LEMMA OpenLinkStep ==
    ASSUME SessionsInv, NEW r \in Visits, NEW l \in Links, OpenLink(r, l)
    PROVE  SessionsInv'
<1>1. request[r] = Nothing /\ UNCHANGED <<peopleVars, tokenVars, letterVars, jobVars, kept>>
      /\ ~Jobs(request[r])
  BY IdleIsNoJob DEF OpenLink, Begin
<1>2. PICK what : what = [at |-> "spend", link |-> l]
  OBVIOUS
<1>3. request' = [request EXCEPT ![r] = what]
  BY <1>2 DEF OpenLink, Begin
<1>4. what \in RequestStates /\ RequestOK(what)
  BY <1>2 DEF RequestStates, RequestOK, Manages, Spends, Jobs
<1>5. \A x \in Visits \ {r} : Compatible(what, request[x])
  BY <1>2 DEF Compatible, Manages, Spends
<1> QED BY <1>1, <1>3, <1>4, <1>5, BeginStep

LEMMA OpenInvitationStep ==
    ASSUME SessionsInv, NEW r \in Visits, NEW v \in Invitations, OpenInvitation(r, v)
    PROVE  SessionsInv'
<1>1. request[r] = Nothing /\ UNCHANGED <<peopleVars, tokenVars, letterVars, jobVars, kept>>
      /\ ~Jobs(request[r])
  BY IdleIsNoJob DEF OpenInvitation, Begin
<1>2. PICK what : what = [at |-> "join", invitation |-> v,
                          known |-> invitation[v].person \in users]
  OBVIOUS
<1>3. request' = [request EXCEPT ![r] = what]
  BY <1>2 DEF OpenInvitation, Begin
<1>4. what \in RequestStates /\ RequestOK(what)
  BY <1>2 DEF RequestStates, RequestOK, Manages, Spends, Jobs
<1>5. \A x \in Visits \ {r} : Compatible(what, request[x])
  BY <1>2 DEF Compatible, Manages, Spends
<1> QED BY <1>1, <1>3, <1>4, <1>5, BeginStep

LEMMA SessionReadStep ==
    ASSUME SessionsInv, NEW r \in Visits, NEW i \in 1 .. Len(session),
           Refresh(r, i) \/ EnterPassword(r, i)
    PROVE  SessionsInv'
<1>1. request[r] = Nothing /\ UNCHANGED <<peopleVars, tokenVars, letterVars, jobVars, kept>>
      /\ ~Jobs(request[r])
  BY IdleIsNoJob DEF Refresh, EnterPassword, Begin
<1>2. /\ session[i].person \in People /\ session[i].tenant \in Tenants
      /\ session[i].family \in Nat /\ i \in Nat
  BY SessionTyped DEF SessionsInv, SessionsTypeOK
<1>3. ASSUME NEW s \in Sweeps, s.why \in {"reuse", "change"}, s.tenant \in Tenants,
             request' = [request EXCEPT ![r] = Snapshot(s)]
      PROVE  SessionsInv'
  <2>1. PICK what : what = Snapshot(s)
    OBVIOUS
  <2>2. /\ what \in Sweeps /\ what.why = s.why /\ what.tenant = s.tenant
        /\ what.targets \subseteq 1 .. Len(session)
    BY <2>1, <1>3, SnapshotShape DEF SessionsInv
  <2>3. what \in RequestStates /\ what.at = "sweep"
    BY <2>2, SweepShape
  <2>4. RequestOK(what)
    BY <1>3, <2>2, <2>3 DEF RequestOK, Manages, Spends, Jobs
  <2>5. \A x \in Visits \ {r} : Compatible(what, request[x])
    BY <1>3, <2>2, <2>3 DEF Compatible, Manages, Spends
  <2> QED BY <1>1, <1>3, <2>1, <2>3, <2>4, <2>5, BeginStep
<1>4. CASE EnterPassword(r, i)
  <2> PICK p \in People, t \in Tenants : p = session[i].person /\ t = session[i].tenant
    BY <1>2
  <2>1. PICK s : s = [Sweep0("change", p, t) EXCEPT !.keep = i]
    OBVIOUS
  <2>2. s \in Sweeps /\ s.why = "change" /\ s.tenant = session[i].tenant
    <3>1. s = [at |-> "sweep", why |-> "change", person |-> p, tenant |-> t, family |-> 0,
               keep |-> i, link |-> Nobody, role |-> "none", tries |-> 0, targets |-> {}]
      BY <2>1 DEF Sweep0
    <3> QED BY <1>2, <3>1 DEF Sweeps
  <2>3. request' = [request EXCEPT ![r] = Snapshot(s)]
    BY <1>4, <2>1 DEF EnterPassword, Begin
  <2> QED BY <1>2, <1>3, <2>2, <2>3
<1>5. CASE Refresh(r, i) /\ session[i].status = "rotated"
  <2> PICK p \in People, t \in Tenants, n \in Nat :
         p = session[i].person /\ t = session[i].tenant /\ n = session[i].family
    BY <1>2
  <2>1. PICK s : s = [Sweep0("reuse", p, t) EXCEPT !.family = n]
    OBVIOUS
  <2>2. s \in Sweeps /\ s.why = "reuse" /\ s.tenant = session[i].tenant
    <3>1. s = [at |-> "sweep", why |-> "reuse", person |-> p, tenant |-> t, family |-> n,
               keep |-> 0, link |-> Nobody, role |-> "none", tries |-> 0, targets |-> {}]
      BY <2>1 DEF Sweep0
    <3> QED BY <1>2, <3>1 DEF Sweeps
  <2>3. request' = [request EXCEPT ![r] = Snapshot(s)]
    BY <1>5, <2>1 DEF Refresh, Begin, InUse
  <2> QED BY <1>2, <1>3, <2>2, <2>3
<1>6. CASE Refresh(r, i) /\ session[i].status # "rotated"
  <2>1. PICK what : what = [at |-> "check", session |-> i]
    OBVIOUS
  <2>2. request' = [request EXCEPT ![r] = what]
    BY <1>6, <2>1 DEF Refresh, Begin
  <2>3. what \in RequestStates /\ RequestOK(what)
    BY <1>2, <2>1 DEF RequestStates, RequestOK, Manages, Spends, Jobs
  <2>4. \A x \in Visits \ {r} : Compatible(what, request[x])
    BY <2>1 DEF Compatible, Manages, Spends
  <2> QED BY <1>1, <2>2, <2>3, <2>4, BeginStep
<1> QED BY <1>4, <1>5, <1>6

LEMMA CheckMemberStep ==
    ASSUME SessionsInv, NEW r \in Visits, CheckMember(r)
    PROVE  SessionsInv'
<1> DEFINE i == request[r].session
<1>1. /\ request[r] \in RequestStates /\ RequestOK(request[r]) /\ request[r].at = "check"
      /\ UNCHANGED <<peopleVars, tokenVars, letterVars, jobVars, kept>>
  BY DEF CheckMember, SessionsInv, SessionsTypeOK, InFlight, Slots
<1>2. i \in 1 .. Len(session) /\ i \in Nat /\ ~Jobs(request[r])
  BY <1>1, Shapes DEF RequestOK, Jobs
<1>3. RoleOf(i) \in Roles
  <2>1. session[i].tenant \in Tenants /\ session[i].person \in People
    BY <1>2, SessionTyped DEF SessionsInv
  <2>2. member[session[i].tenant][session[i].person] \in Roles \cup {"none"}
    BY <2>1 DEF SessionsInv, SessionsTypeOK
  <2> QED BY <2>2 DEF CheckMember, RoleOf
<1>4. PICK what : what = [at |-> "rotate", session |-> i, role |-> RoleOf(i)]
  OBVIOUS
<1>5. request' = [request EXCEPT ![r] = what]
  BY <1>4 DEF CheckMember
<1>6. what \in RequestStates /\ RequestOK(what)
  BY <1>2, <1>3, <1>4 DEF RequestStates, RequestOK, Manages, Spends, Jobs
<1>7. \A x \in Visits \ {r} : Compatible(what, request[x])
  BY <1>4 DEF Compatible, Manages, Spends
<1> QED BY <1>1, <1>2, <1>5, <1>6, <1>7, BeginStep

(* The link is live, and nobody else holds it. *)
LEMMA SpendLinkStep ==
    ASSUME SessionsInv, NEW r \in Visits, SpendLink(r)
    PROVE  SessionsInv'
<1> DEFINE l == request[r].link
           p == link[l].person
           t == link[l].tenant
<1>1. /\ request[r] \in RequestStates /\ request[r].at = "spend" /\ ~Spending(l)
      /\ link[l].status = "live"
      /\ UNCHANGED <<peopleVars, tokenVars, letterVars, jobVars, kept>>
  BY DEF SpendLink, SetPassword, SessionsInv, SessionsTypeOK, Slots
<1>2. l \in Links /\ ~Jobs(request[r])
  BY <1>1, Shapes DEF Jobs
<1>3. p \in People /\ t \in Tenants
  <2>1. link[l] \in LinkRows
    BY <1>2 DEF SessionsInv, SessionsTypeOK
  <2> QED BY <1>1, <2>1 DEF LinkRows, Nobody
<1>4. PICK s : s = [Sweep0("reset", p, t) EXCEPT !.link = l]
  OBVIOUS
<1>5. s \in Sweeps /\ s.why = "reset" /\ s.tenant = t /\ s.link = l /\ s.person = p
  BY <1>2, <1>3, <1>4, Sweep0OfLink
<1>6. PICK what : what = Snapshot(s)
  OBVIOUS
<1>7. request' = [request EXCEPT ![r] = what]
  BY <1>4, <1>6 DEF SpendLink, SetPassword
<1>8. /\ what \in Sweeps /\ what.why = "reset" /\ what.tenant = t /\ what.link = l
      /\ what.person = p
      /\ what.targets \subseteq 1 .. Len(session)
  BY <1>5, <1>6, SnapshotShape DEF SessionsInv
<1>9. what \in RequestStates /\ what.at = "sweep"
  BY <1>8, SweepShape
<1>10. RequestOK(what)
  BY <1>1, <1>2, <1>3, <1>8, <1>9 DEF RequestOK, Manages, Spends, Jobs
<1>11. \A x \in Visits \ {r} : Compatible(what, request[x])
  BY <1>1, <1>8, <1>9 DEF Compatible, Manages, Spends, Spending, Sweeping
<1> QED BY <1>1, <1>2, <1>7, <1>9, <1>10, <1>11, BeginStep

(* An owner besides whoever is being managed remains. *)
LEMMA ManageMemberStep ==
    ASSUME SessionsInv, NEW r \in Visits, NEW a \in People, NEW p \in People, NEW t \in Tenants,
           NEW why \in {"remove", "role"}, NEW role \in Roles \cup {"none"},
           ManageMember(r, a, p, t, why, role)
    PROVE  SessionsInv'
<1>1. /\ request[r] = Nothing /\ ~Managing(t) /\ MayManage(a, p, t)
      /\ UNCHANGED <<peopleVars, tokenVars, letterVars, jobVars, kept>> /\ ~Jobs(request[r])
  BY IdleIsNoJob DEF ManageMember, Begin
<1>2. Owners(t) \ {p} # {}
  <2>1. Owners(t) # {}
    BY <1>1 DEF MayManage, Claimed, SessionsInv, Owned, OwnerRemains
  <2>2. CASE member[t][p] = "owner"
    <3>1. Cardinality(Owners(t)) > 1
      BY <1>1, <2>2 DEF MayManage
    <3>2. Cardinality({p}) = 1
      BY FS_Singleton
    <3>3. Owners(t) # {p}
      BY <3>1, <3>2
    <3> QED BY <2>1, <3>3
  <2>3. CASE member[t][p] # "owner"
    BY <2>1, <2>3 DEF Owners
  <2> QED BY <2>2, <2>3
<1>3. PICK s : s = [Sweep0(why, p, t) EXCEPT !.role = role]
  OBVIOUS
<1>4. s \in Sweeps /\ s.why = why /\ s.tenant = t /\ s.person = p
  BY <1>3, Sweep0OfRole
<1>5. PICK what : what = Snapshot(s)
  OBVIOUS
<1>6. request' = [request EXCEPT ![r] = what]
  BY <1>3, <1>5 DEF ManageMember, Begin
<1>7. /\ what \in Sweeps /\ what.why = why /\ what.tenant = t /\ what.person = p
      /\ what.targets \subseteq 1 .. Len(session)
  BY <1>4, <1>5, SnapshotShape DEF SessionsInv
<1>8. what \in RequestStates /\ what.at = "sweep"
  BY <1>7, SweepShape
<1>9. RequestOK(what)
  BY <1>2, <1>7, <1>8 DEF RequestOK, Manages, Spends, Jobs
<1>10. \A x \in Visits \ {r} : Compatible(what, request[x])
  BY <1>1, <1>7, <1>8 DEF Compatible, Manages, Spends, Managing, Sweeping
<1> QED BY <1>1, <1>6, <1>8, <1>9, <1>10, BeginStep

-----------------------------------------------------------------------------
(* Workers, and requests that are given up. *)

LEMMA WorkRevocationStep ==
    ASSUME SessionsInv, NEW w \in Hands, NEW p \in People, NEW n \in Tries,
           WorkRevocation(w, p, n)
    PROVE  SessionsInv'
<1>1. /\ request[w] = Nothing /\ queued[p][n] > 0
      /\ queued' = [queued EXCEPT ![p][n] = @ - 1] /\ doomed' = doomed
      /\ UNCHANGED <<peopleVars, tokenVars, letterVars, kept>>
      /\ queued \in [People -> [Tries -> Nat]] /\ request \in [Slots -> RequestStates]
      /\ doomed \subseteq 1 .. Len(session) /\ n \in Nat
  BY SessionsAssumption DEF WorkRevocation, Begin, SessionsInv, SessionsTypeOK, Slots, Tries
<1>2. PICK s : s = [Sweep0("job", p, Everywhere) EXCEPT !.tries = n]
  OBVIOUS
<1>3. s \in Sweeps /\ s.why = "job" /\ s.person = p
  BY <1>1, <1>2, Sweep0OfJob
<1>4. PICK what : what = Snapshot(s)
  OBVIOUS
<1>5. request' = [request EXCEPT ![w] = what]
  BY <1>2, <1>4 DEF WorkRevocation, Begin
<1>6. /\ what \in Sweeps /\ what.why = "job" /\ what.person = p
      /\ what.targets \subseteq 1 .. Len(session)
      /\ what.targets = {i \in Scope(s) : Open(i)}
  BY <1>3, <1>4, SnapshotShape DEF SessionsInv
<1>7. what.targets = {i \in 1 .. Len(session) : session[i].person = p /\ Open(i)}
  BY <1>3, <1>6 DEF Scope
<1>8. what \in RequestStates /\ what.at = "sweep" /\ Jobs(what)
  BY <1>6, SweepShape DEF Jobs
<1>9. RequestOK(what)
  BY <1>6, <1>7, <1>8 DEF RequestOK, Manages, Spends, Jobs
<1>10. queued' \in [People -> [Tries -> Nat]] /\ \A x \in People \ {p} : queued'[x] = queued[x]
  BY <1>1
<1>11. RevocationIsChased'
  <2> SUFFICES ASSUME NEW i \in doomed, InUse(i)
               PROVE  \/ \E m \in Tries : queued'[session[i].person][m] > 0
                      \/ \E h \in Hands : /\ request'[h].at = "sweep" /\ request'[h].why = "job"
                                          /\ i \in request'[h].targets
    BY <1>1 DEF RevocationIsChased, InUse, Open, Sweeping, Waiting, tokenVars
  <2>1. i \in 1 .. Len(session) /\ session[i].person \in People
    BY <1>1, SessionTyped DEF SessionsInv
  <2>2. CASE session[i].person = p
    <3>1. i \in what.targets
      BY <1>7, <2>1, <2>2 DEF InUse
    <3>2. request'[w] = what
      BY <1>1, <1>5 DEF Slots
    <3> QED BY <1>6, <1>8, <3>1, <3>2
  <2>3. CASE session[i].person # p /\ Waiting(session[i].person)
    BY <1>10, <2>1, <2>3 DEF Waiting
  <2>4. CASE \E h \in Hands : Sweeping(h, "job") /\ i \in request[h].targets
    <3>1. PICK h \in Hands : Sweeping(h, "job") /\ i \in request[h].targets
      BY <2>4
    <3>2. h # w
      BY <1>1, <3>1 DEF Sweeping, Nothing
    <3>3. request'[h] = request[h]
      BY <1>1, <1>5, <3>2 DEF Slots
    <3> QED BY <3>1, <3>3 DEF Sweeping
  <2> QED BY <2>2, <2>3, <2>4 DEF SessionsInv, RevocationIsChased
<1>12. w \in Slots /\ w \notin Visits
  BY SessionsAssumption DEF Slots
<1> QED BY <1>1, <1>5, <1>8, <1>9, <1>10, <1>11, <1>12, QuietStep

LEMMA NothingRests ==
    /\ Nothing \in RequestStates /\ RequestOK(Nothing) /\ ~Jobs(Nothing)
    /\ \A x : Compatible(Nothing, x)
BY DEF RequestStates, RequestOK, Manages, Spends, Jobs, Nothing, Compatible

(* A job that fails is back in the queue, or gone with what it was to end. *)
LEMMA FailRevocationStep ==
    ASSUME SessionsInv, NEW w \in Hands, FailRevocation(w)
    PROVE  SessionsInv'
<1> DEFINE p     == request[w].person
           again == request[w].tries + 1
<1>1. /\ request' = [request EXCEPT ![w] = Nothing] /\ Sweeping(w, "job") /\ w \in Slots
      /\ UNCHANGED <<peopleVars, tokenVars, letterVars, kept>>
      /\ queued \in [People -> [Tries -> Nat]] /\ request \in [Slots -> RequestStates]
      /\ doomed \subseteq 1 .. Len(session)
      /\ IF again \in Tries
         THEN queued' = [queued EXCEPT ![p][again] = @ + 1] /\ doomed' = doomed
         ELSE queued' = queued /\ doomed' = doomed \ request[w].targets
  BY DEF FailRevocation, End, SessionsInv, SessionsTypeOK, Slots
<1>2. RequestOK(request[w]) /\ request[w] \in RequestStates
  BY <1>1 DEF SessionsInv, InFlight
<1>3. p \in People
  BY <1>1, <1>2, Shapes, SweepShape DEF Sweeping
<1>4. \A i \in request[w].targets : session[i].person = p
  BY <1>1, <1>2 DEF RequestOK, Jobs, Sweeping
<1> HIDE DEF p, again
<1>5. /\ queued' \in [People -> [Tries -> Nat]] /\ doomed' \subseteq doomed
      /\ \A x \in People, n \in Tries : queued[x][n] > 0 => queued'[x][n] > 0
      /\ \/ \E m \in Tries : queued'[p][m] > 0
         \/ doomed' \cap request[w].targets = {}
  <2>1. CASE again \in Tries
    <3>1. queued' = [queued EXCEPT ![p] = [queued[p] EXCEPT ![again] = queued[p][again] + 1]]
      BY <1>1, <1>3, <2>1
    <3>2. queued[p] \in [Tries -> Nat] /\ queued[p][again] + 1 \in Nat
          /\ queued[p][again] + 1 > 0
      BY <1>1, <1>3, <2>1
    <3>3. PICK row \in [Tries -> Nat] :
            row = [queued[p] EXCEPT ![again] = queued[p][again] + 1]
      BY <3>2
    <3>4. row[again] > 0 /\ \A n \in Tries : queued[p][n] > 0 => row[n] > 0
      BY <2>1, <3>2, <3>3
    <3>5. queued' = [queued EXCEPT ![p] = row]
      BY <3>1, <3>3
    <3>6. queued'[p] = row /\ \A x \in People \ {p} : queued'[x] = queued[x]
      BY <1>1, <1>3, <3>5
    <3>7. queued' \in [People -> [Tries -> Nat]]
      BY <1>1, <1>3, <3>5
    <3> QED BY <1>1, <2>1, <3>4, <3>6, <3>7
  <2>2. CASE again \notin Tries
    BY <1>1, <2>2
  <2> QED BY <2>1, <2>2
<1>6. RevocationIsChased'
  <2> SUFFICES ASSUME NEW i \in doomed', InUse(i)
               PROVE  \/ \E m \in Tries : queued'[session[i].person][m] > 0
                      \/ \E h \in Hands : /\ request'[h].at = "sweep" /\ request'[h].why = "job"
                                          /\ i \in request'[h].targets
    BY <1>1 DEF RevocationIsChased, InUse, Open, Sweeping, Waiting, tokenVars
  <2>1. i \in doomed /\ session[i].person \in People
    BY <1>1, <1>5, SessionTyped DEF SessionsInv
  <2>2. CASE Waiting(session[i].person)
    BY <1>5, <2>1, <2>2 DEF Waiting
  <2>3. CASE \E h \in Hands : Sweeping(h, "job") /\ i \in request[h].targets
    <3>1. PICK h \in Hands : Sweeping(h, "job") /\ i \in request[h].targets
      BY <2>3
    <3>2. CASE h = w
      <4>1. session[i].person = p
        BY <1>4, <3>1, <3>2
      <4> QED BY <1>5, <3>1, <3>2, <4>1
    <3>3. CASE h # w
      <4>1. request'[h] = request[h]
        BY <1>1, <3>3 DEF Slots
      <4> QED BY <3>1, <4>1 DEF Sweeping
    <3> QED BY <3>2, <3>3
  <2> QED BY <2>1, <2>2, <2>3 DEF SessionsInv, RevocationIsChased
<1>7. doomed' \subseteq 1 .. Len(session)
  BY <1>1, <1>5
<1> QED BY <1>1, <1>5, <1>6, <1>7, NothingRests, QuietStep

(* A request that is given up leaves the jobs alone. *)
LEMMA CutOffStep ==
    ASSUME SessionsInv, NEW r \in Visits, CutOff(r)
    PROVE  SessionsInv'
<1>1. /\ request' = [request EXCEPT ![r] = Nothing]
      /\ UNCHANGED <<peopleVars, tokenVars, letterVars, jobVars, kept>>
  BY DEF CutOff, End
<1>2. r \in Slots /\ r \notin Hands
  BY SessionsAssumption DEF Slots
<1>3. /\ session' = session /\ queued' = queued /\ doomed' = doomed
      /\ queued \in [People -> [Tries -> Nat]] /\ doomed \subseteq 1 .. Len(session)
      /\ request \in [Slots -> RequestStates]
  BY <1>1 DEF tokenVars, jobVars, SessionsInv, SessionsTypeOK, Slots
<1>4. Onward
  BY <1>3, StillOnward DEF SessionsInv
<1>5. JobsKept
  BY <1>3, JobsStay
<1>6. \A w \in Hands : request'[w] = request[w]
  BY <1>1, <1>2, <1>3 DEF Slots
<1>7. RevocationIsChased'
  BY <1>4, <1>5, <1>6, ChasedKept
<1> QED BY <1>1, <1>2, <1>3, <1>7, NothingRests, QuietStep

-----------------------------------------------------------------------------
(* Requests that write. *)

Ended(D) == request' = [x \in Slots |-> IF x \in D THEN Nothing ELSE request[x]]

LEMMA EndEnds ==
    ASSUME SessionsInv, NEW r \in Slots, End(r)
    PROVE  Ended({r})
BY DEF SessionsInv, SessionsTypeOK, End, Ended, Slots

LEMMA NobodyEnds ==
    ASSUME SessionsInv, request' = request
    PROVE  Ended({})
BY DEF SessionsInv, SessionsTypeOK, Ended, Slots

LEMMA OthersInFlight ==
    ASSUME SessionsInv, NEW D \in SUBSET Slots, Ended(D), Onward, OwnersStay,
           \A x \in Slots \ D, t \in Tenants :
               Manages(request[x]) /\ request[x].tenant = t => Owners(t) \subseteq Owners(t)',
           \A x \in Slots \ D : request[x].at = "mail" =>
               link'[request[x].link] = Nobody /\ \A l \in request[x].older : link'[l] # Nobody,
           \A x \in Slots \ D : Spends(request[x]) => link'[request[x].link] = link[request[x].link]
    PROVE  InFlight' /\ request' \in [Slots -> RequestStates]
<1>1. ASSUME NEW x \in Slots \ D PROVE RequestOK(request[x])'
  <2>1. request \in [Slots -> RequestStates] /\ RequestOK(request[x])
    BY DEF SessionsInv, SessionsTypeOK, InFlight, Slots
  <2>2. PICK q \in RequestStates : q = request[x]
    BY <2>1
  <2>3. Manages(q) => Owners(q.tenant) \subseteq Owners(q.tenant)'
    <3> SUFFICES ASSUME Manages(q) PROVE Owners(q.tenant) \subseteq Owners(q.tenant)'
      OBVIOUS
    <3>1. q.tenant \in Tenants
      BY <2>1, <2>2 DEF RequestOK, Manages
    <3>2. PICK t \in Tenants : t = q.tenant
      BY <3>1
    <3>3. Owners(t) \subseteq Owners(t)'
      BY <2>2, <3>2
    <3> QED BY <3>2, <3>3
  <2>4. RequestOK(q)'
    BY <2>1, <2>2, <2>3, OtherKept
  <2>5. request'[x] = q
    BY <2>2 DEF Ended
  <2> QED BY <2>4, <2>5 DEF RequestOK, Manages, Spends, Jobs, Owners
<1> QED BY <1>1, EndInFlight DEF Ended

LEMMA GrowStep ==
    ASSUME SessionsInv, NEW D \in SUBSET Slots, Ended(D), Onward,
           users' \subseteq People, member' \in [Tenants -> [People -> Roles \cup {"none"}]],
           badge' \subseteq Tenants \X People, kept' \subseteq 1 .. Len(session'),
           JobsKept, link' = link,
           invitation' \in [Invitations -> InvitationRows],
           honoured' \in [Links \cup Invitations -> Nat],
           \A t \in Tenants : Owners(t) \subseteq Owners(t)',
           \A t \in Tenants : Claimed(t)' => Claimed(t) \/ Owners(t)' # {},
           \A t \in Tenants, a \in People :
               <<t, a>> \in badge' => <<t, a>> \in badge \/ Owners(t)' # {},
           \A t \in Tenants, i \in 1 .. Len(session') :
               i > Len(session) /\ session'[i].tenant = t => Owners(t)' # {},
           \A v \in Invitations, t \in Tenants :
               invitation'[v].status = "pending" /\ invitation'[v].tenant = t =>
                   invitation[v] = invitation'[v] \/ Owners(t) # {},
           \A v \in Invitations : invitation'[v].status = "pending" => invitation'[v].tenant \in Tenants,
           Honoured', RevocationIsChased'
    PROVE  SessionsInv'
<1>1. OwnersStay
  BY DEF OwnersStay
<1>2. \A x \in Slots : RequestOK(request[x])
  BY DEF SessionsInv, InFlight
<1>3. InFlight' /\ request' \in [Slots -> RequestStates]
  <2>1. \A x \in Slots \ D, t \in Tenants :
          Manages(request[x]) /\ request[x].tenant = t => Owners(t) \subseteq Owners(t)'
    OBVIOUS
  <2>2. \A x \in Slots \ D : request[x].at = "mail" =>
          link'[request[x].link] = Nobody /\ \A l \in request[x].older : link'[l] # Nobody
    BY <1>2 DEF RequestOK
  <2>3. \A x \in Slots \ D : Spends(request[x]) => link'[request[x].link] = link[request[x].link]
    BY <1>2 DEF RequestOK
  <2> QED BY <1>1, <2>1, <2>2, <2>3, OthersInFlight
<1>4. Owned'
  BY <1>1, OwnedKept
<1>5. doomed' \subseteq 1 .. Len(session')
  BY DEF JobsKept, Onward, SessionsInv, SessionsTypeOK
<1>6. SessionsTypeOK'
  BY <1>3, <1>5 DEF SessionsInv, SessionsTypeOK, Onward, JobsKept, Slots
<1> QED BY <1>3, <1>4, <1>6 DEF SessionsInv

LEMMA InvitationTyped ==
    ASSUME SessionsTypeOK, NEW v \in Invitations, invitation[v].status = "pending"
    PROVE  /\ invitation[v].person \in People /\ invitation[v].tenant \in Tenants
           /\ invitation[v].role \in Roles /\ invitation[v] # Nobody
BY DEF SessionsTypeOK, InvitationRows, Nobody

(* Nothing but sessions, access tokens and what waits to be done changes. *)
LEMMA TokenStep ==
    ASSUME SessionsInv, NEW D \in SUBSET Slots, Ended(D), Onward,
           UNCHANGED <<peopleVars, letterVars>>,
           badge' \subseteq Tenants \X People, kept' \subseteq 1 .. Len(session'), JobsKept,
           \A t \in Tenants, a \in People :
               <<t, a>> \in badge' => <<t, a>> \in badge \/ Owners(t) # {},
           \A t \in Tenants, i \in 1 .. Len(session') :
               i > Len(session) /\ session'[i].tenant = t => Owners(t) # {},
           RevocationIsChased'
    PROVE  SessionsInv'
<1>1. /\ users' = users /\ member' = member /\ link' = link /\ invitation' = invitation
      /\ honoured' = honoured
  BY DEF peopleVars, letterVars
<1>2. \A t \in Tenants : Owners(t)' = Owners(t) /\ (Claimed(t)' <=> Claimed(t))
  BY <1>1 DEF Owners, Claimed
<1>3. Honoured'
  BY HonouredKept
<1>4. /\ users' \subseteq People /\ member' \in [Tenants -> [People -> Roles \cup {"none"}]]
      /\ invitation' \in [Invitations -> InvitationRows]
      /\ honoured' \in [Links \cup Invitations -> Nat]
  BY <1>1 DEF SessionsInv, SessionsTypeOK
<1>5. \A v \in Invitations : invitation'[v].status = "pending" => invitation'[v].tenant \in Tenants
  BY <1>1, InvitationTyped DEF SessionsInv
<1> QED BY <1>1, <1>2, <1>3, <1>4, <1>5, GrowStep

LEMMA VisitStep ==
    ASSUME SessionsInv, NEW D \in SUBSET Visits, Ended(D), Onward,
           UNCHANGED <<peopleVars, letterVars>>,
           badge' \subseteq Tenants \X People, kept' \subseteq 1 .. Len(session'), JobsKept,
           \A t \in Tenants, a \in People :
               <<t, a>> \in badge' => <<t, a>> \in badge \/ Owners(t) # {},
           \A t \in Tenants, i \in 1 .. Len(session') :
               i > Len(session) /\ session'[i].tenant = t => Owners(t) # {}
    PROVE  SessionsInv'
<1>1. D \in SUBSET Slots /\ \A w \in Hands : request'[w] = request[w]
  BY SessionsAssumption DEF Ended, Slots
<1>2. RevocationIsChased'
  BY <1>1, ChasedKept
<1> QED BY <1>1, <1>2, TokenStep

-----------------------------------------------------------------------------
(* Each operation that writes. *)

(* What follows is so of every step that only ends sessions. *)
LEMMA RevokingStep ==
    ASSUME SessionsInv, NEW D \in SUBSET Visits, Ended(D), NEW T, Revoke(T),
           UNCHANGED <<peopleVars, badge, letterVars>>, kept' \subseteq 1 .. Len(session), JobsKept
    PROVE  SessionsInv'
<1>1. Onward /\ Len(session') = Len(session)
  BY RevokeOnward DEF SessionsInv
<1>2. badge' \subseteq Tenants \X People /\ kept' \subseteq 1 .. Len(session')
  BY <1>1 DEF SessionsInv, SessionsTypeOK
<1>3. \A t \in Tenants, i \in 1 .. Len(session') : ~(i > Len(session))
  BY <1>1 DEF SessionsInv, SessionsTypeOK
<1> QED BY <1>1, <1>2, <1>3, VisitStep

LEMMA LogoutStep ==
    ASSUME SessionsInv, NEW i \in 1 .. Len(session), Logout(i)
    PROVE  SessionsInv'
<1>1. /\ Revoke({i}) /\ kept' \subseteq 1 .. Len(session) /\ queued' = queued
      /\ UNCHANGED <<peopleVars, badge, letterVars>> /\ request' = request
      /\ doomed' \subseteq doomed
  BY DEF Logout, SessionsInv, SessionsTypeOK
<1>2. Ended({})
  BY <1>1, NobodyEnds
<1>3. JobsKept
  BY <1>1, JobsStay
<1> QED BY <1>1, <1>2, <1>3, RevokingStep

LEMMA ExpireStep ==
    ASSUME SessionsInv, NEW i \in 1 .. Len(session), Expire(i)
    PROVE  SessionsInv'
<1>1. /\ session' = [session EXCEPT ![i].status = "expired"]
      /\ kept' \subseteq 1 .. Len(session) /\ queued' = queued /\ doomed' \subseteq doomed
      /\ UNCHANGED <<peopleVars, badge, letterVars>> /\ request' = request
      /\ session \in Seq(SessionRows) /\ Len(session) \in Nat
      /\ badge \subseteq Tenants \X People
  BY DEF Expire, SessionsInv, SessionsTypeOK
<1>2. PICK row : row = [session[i] EXCEPT !.status = "expired"]
  OBVIOUS
<1>3. session[i] \in SessionRows
  BY <1>1
<1>4. /\ row \in SessionRows /\ row.person = session[i].person /\ row.tenant = session[i].tenant
      /\ row.family = session[i].family /\ row.status = "expired"
  BY <1>2, <1>3 DEF SessionRows, SessionStatuses
<1>5. session' = [session EXCEPT ![i] = row]
  BY <1>1, <1>2
<1>6. /\ session' \in Seq(SessionRows) /\ Len(session') = Len(session)
      /\ session'[i] = row /\ \A k \in 1 .. Len(session) : k # i => session'[k] = session[k]
  BY SMTT(30), <1>1, <1>4, <1>5
<1>7. Onward
  BY <1>1, <1>4, <1>6 DEF Onward, SessionsInv, SessionsTypeOK
<1>8. Ended({})
  BY <1>1, NobodyEnds
<1>9. JobsKept
  BY <1>1, JobsStay
<1>10. \A t \in Tenants, k \in 1 .. Len(session') : ~(k > Len(session))
  BY <1>1, <1>6
<1> QED BY <1>1, <1>6, <1>7, <1>8, <1>9, <1>10, VisitStep

LEMMA HandleReuseStep ==
    ASSUME SessionsInv, NEW r \in Visits, HandleReuse(r)
    PROVE  SessionsInv'
<1>1. /\ Revoke(request[r].targets) /\ kept' \subseteq 1 .. Len(session) /\ queued' = queued
      /\ UNCHANGED <<peopleVars, badge, letterVars>> /\ End(r) /\ doomed' \subseteq doomed
  BY DEF HandleReuse, SessionsInv, SessionsTypeOK
<1>2. Ended({r}) /\ {r} \in SUBSET Visits
  BY <1>1, EndEnds DEF Slots
<1>3. JobsKept
  BY <1>1, JobsStay
<1> QED BY <1>1, <1>2, <1>3, RevokingStep

LEMMA SweepTyped ==
    ASSUME SessionsInv, NEW r \in Slots, request[r].at = "sweep"
    PROVE  /\ request[r] \in Sweeps /\ request[r].person \in People
           /\ request[r].role \in Roles \cup {"none"}
           /\ request[r].targets \subseteq 1 .. Len(session)
           /\ request[r].why # "job" => request[r].tenant \in Tenants
           /\ RequestOK(request[r])
<1>1. request[r] \in RequestStates /\ RequestOK(request[r])
  BY DEF SessionsInv, SessionsTypeOK, InFlight, Slots
<1> QED BY <1>1, Shapes, SweepShape DEF RequestOK

(* The job is queued with the password, for what is left of its user's sessions. *)
LEMMA PasswordJobs ==
    ASSUME SessionsInv, NEW r \in Visits, NEW p \in People, SetsPassword(r, p, 1)
    PROVE  JobsKept
<1>1. /\ queued' = [queued EXCEPT ![p][0] = @ + 1]
      /\ doomed' = {i \in 1 .. Len(session) \ request[r].targets :
                       IF session[i].person = p THEN InUse(i) ELSE i \in doomed}
      /\ queued \in [People -> [Tries -> Nat]]
  BY DEF SetsPassword, SessionsInv, SessionsTypeOK
<1>2. 0 \in Tries
  BY SessionsAssumption DEF Tries
<1>3. PICK row : row = [queued[p] EXCEPT ![0] = queued[p][0] + 1]
  OBVIOUS
<1>4. queued[p] \in [Tries -> Nat] /\ queued[p][0] \in Nat
  BY <1>1, <1>2
<1>5. /\ row \in [Tries -> Nat] /\ row[0] > 0
      /\ \A n \in Tries : queued[p][n] > 0 => row[n] > 0
  BY <1>2, <1>3, <1>4
<1>6. queued' = [queued EXCEPT ![p] = row]
  BY <1>1, <1>3
<1>7. /\ queued' \in [People -> [Tries -> Nat]]
      /\ queued'[p] = row /\ \A x \in People \ {p} : queued'[x] = queued[x]
  BY <1>1, <1>5, <1>6
<1>8. \A x \in People, n \in Tries :
         queued[x][n] > 0 => \E m \in Tries : queued'[x][m] > 0
  BY <1>5, <1>7
<1>9. \A i \in doomed' :
         i \in doomed \/ \E m \in Tries : queued'[session[i].person][m] > 0
  BY <1>1, <1>2, <1>5, <1>7
<1> QED BY <1>1, <1>7, <1>8, <1>9 DEF JobsKept

LEMMA ChangePasswordStep ==
    ASSUME SessionsInv, NEW r \in Visits, ChangePassword(r)
    PROVE  SessionsInv'
<1> DEFINE p == request[r].person
<1>1. p \in People
  BY SweepTyped DEF ChangePassword, Sweeping, Slots
<1>2. /\ Revoke(request[r].targets) /\ UNCHANGED <<peopleVars, badge, letterVars>> /\ End(r)
      /\ SetsPassword(r, p, 1)
      /\ kept' = {i \in {request[r].keep} : InUse(i)} \cup {i \in kept : session[i].person # p}
      /\ kept \subseteq 1 .. Len(session)
  BY DEF ChangePassword, SessionsInv, SessionsTypeOK
<1>3. kept' \subseteq 1 .. Len(session)
  BY <1>2 DEF InUse, Open
<1>4. JobsKept
  BY <1>1, <1>2, PasswordJobs
<1>5. Ended({r}) /\ {r} \in SUBSET Visits
  BY <1>2, EndEnds DEF Slots
<1> QED BY <1>2, <1>3, <1>4, <1>5, RevokingStep

LEMMA StartTyped ==
    ASSUME SessionsTypeOK, NEW p \in People, NEW t \in Tenants, NEW role,
           StartSession(p, t, role, Len(session) + 1)
    PROVE  /\ Onward /\ Len(session') = Len(session) + 1 /\ Len(session) \in Nat
           /\ session'[Len(session) + 1].tenant = t
           /\ badge' \subseteq Tenants \X People
           /\ \A u \in Tenants, a \in People : <<u, a>> \in badge' => <<u, a>> \in badge \/ u = t
<1>1. Len(session) \in Nat
  BY DEF SessionsTypeOK
<1>2. PICK row : row = [person |-> p, tenant |-> t, family |-> Len(session) + 1, status |-> "live"]
  OBVIOUS
<1>3. row \in SessionRows /\ row.family \in 1 .. Len(session) + 1 /\ row.tenant = t
  BY <1>1, <1>2 DEF SessionRows, SessionStatuses
<1>4. session' = Append(session, row)
  BY <1>2 DEF StartSession
<1>5. Onward /\ Len(session') = Len(session) + 1 /\ session'[Len(session) + 1].tenant = t
  BY <1>3, <1>4, AppendOnward
<1>6. /\ badge' \subseteq Tenants \X People
      /\ \A u \in Tenants, a \in People : <<u, a>> \in badge' => <<u, a>> \in badge \/ u = t
  BY DEF StartSession, SessionsTypeOK
<1> QED BY <1>1, <1>5, <1>6

LEMMA FinishLoginStep ==
    ASSUME SessionsInv, NEW r \in Visits, FinishLogin(r)
    PROVE  SessionsInv'
<1>1. /\ request[r] \in RequestStates /\ RequestOK(request[r]) /\ request[r].at = "login"
      /\ UNCHANGED <<peopleVars, letterVars, jobVars, kept>> /\ End(r)
      /\ kept \subseteq 1 .. Len(session)
  BY DEF FinishLogin, SessionsInv, SessionsTypeOK, InFlight, Slots
<1>2. PICK p \in People, t \in Tenants : p = request[r].person /\ t = request[r].tenant
  BY <1>1, Shapes
<1>3. Owners(t) # {}
  BY <1>1, <1>2 DEF RequestOK
<1>4. StartSession(p, t, request[r].role, Len(session) + 1)
  BY <1>2 DEF FinishLogin
<1>5. /\ Onward /\ Len(session') = Len(session) + 1 /\ Len(session) \in Nat
      /\ session'[Len(session) + 1].tenant = t
      /\ badge' \subseteq Tenants \X People
      /\ \A u \in Tenants, a \in People : <<u, a>> \in badge' => <<u, a>> \in badge \/ u = t
  BY <1>4, StartTyped DEF SessionsInv
<1>6. \A u \in Tenants, i \in 1 .. Len(session') :
        i > Len(session) /\ session'[i].tenant = u => Owners(u) # {}
  <2> TAKE u \in Tenants, i \in 1 .. Len(session')
  <2>1. i > Len(session) => i = Len(session) + 1
    BY <1>5
  <2> QED BY <1>3, <1>5, <2>1
<1>7. JobsKept
  BY <1>1, JobsStay DEF jobVars
<1>8. kept' \subseteq 1 .. Len(session')
  BY <1>1, <1>5
<1>9. Ended({r}) /\ {r} \in SUBSET Visits
  BY <1>1, EndEnds DEF Slots
<1> QED BY <1>1, <1>3, <1>5, <1>6, <1>7, <1>8, <1>9, VisitStep

(* The successor belongs to the workspace of its predecessor. *)
LEMMA RotateStep ==
    ASSUME SessionsInv, NEW r \in Visits, Rotate(r)
    PROVE  SessionsInv'
<1>1. /\ request[r] \in RequestStates /\ RequestOK(request[r]) /\ request[r].at = "rotate"
      /\ UNCHANGED <<peopleVars, letterVars, queued>> /\ End(r)
      /\ doomed' \subseteq doomed /\ kept \subseteq 1 .. Len(session)
      /\ session \in Seq(SessionRows) /\ Len(session) \in Nat
      /\ \A k \in 1 .. Len(session) : session[k].family \in 1 .. k
      /\ badge \subseteq Tenants \X People
  BY DEF Rotate, SessionsInv, SessionsTypeOK, InFlight, Slots
<1>2. PICK i \in 1 .. Len(session) : i = request[r].session
  BY <1>1 DEF RequestOK
<1>3. session[i] \in SessionRows /\ session[i].person \in People /\ session[i].tenant \in Tenants
  BY SessionTyped DEF SessionsInv
<1>4. PICK s1 : s1 = IF Open(i) THEN [session EXCEPT ![i].status = "rotated"] ELSE session
  OBVIOUS
<1>5. PICK row : row = [session[i] EXCEPT !.status = "live"]
  OBVIOUS
<1>6. PICK old : old = [session[i] EXCEPT !.status = "rotated"]
  OBVIOUS
<1>7. /\ row \in SessionRows /\ row.tenant = session[i].tenant /\ row.family = session[i].family
      /\ old \in SessionRows /\ old.tenant = session[i].tenant /\ old.person = session[i].person
      /\ old.family = session[i].family /\ old.status = "rotated"
  BY <1>3, <1>5, <1>6 DEF SessionRows, SessionStatuses
<1>8. /\ s1 \in Seq(SessionRows) /\ Len(s1) = Len(session)
      /\ \A k \in 1 .. Len(session) : s1[k] = session[k] \/ (k = i /\ s1[k] = old)
  <2>1. CASE Open(i)
    <3>1. s1 = [session EXCEPT ![i] = old]
      BY <1>4, <1>6, <2>1
    <3> QED BY <1>1, <1>7, <3>1
  <2>2. CASE ~Open(i)
    BY <1>1, <1>4, <2>2
  <2> QED BY <2>1, <2>2
<1>9. session' = Append(s1, row)
  BY <1>2, <1>4, <1>5 DEF Rotate
<1>10. /\ session' \in Seq(SessionRows) /\ Len(session') = Len(session) + 1
       /\ session'[Len(session) + 1] = row
       /\ \A k \in 1 .. Len(session) : session'[k] = s1[k]
  BY <1>1, <1>7, <1>8, <1>9
<1>11. \A k \in 1 .. Len(session') : k \in 1 .. Len(session) \/ k = Len(session) + 1
  BY <1>1, <1>10
<1>12. \A k \in 1 .. Len(session') : session'[k].family \in 1 .. k
  <2> TAKE k \in 1 .. Len(session')
  <2>1. CASE k \in 1 .. Len(session)
    BY <1>1, <1>7, <1>8, <1>10, <2>1
  <2>2. CASE k = Len(session) + 1
    <3>1. session[i].family \in 1 .. i
      BY <1>1
    <3> QED BY <1>1, <1>7, <1>10, <2>2, <3>1
  <2> QED BY <1>11, <2>1, <2>2
<1>13. \A k \in 1 .. Len(session) :
          /\ session'[k].person = session[k].person /\ session'[k].tenant = session[k].tenant
          /\ session'[k].status = "live" => session[k].status = "live"
  BY <1>7, <1>8, <1>10
<1>14. Onward
  BY <1>1, <1>10, <1>12, <1>13 DEF Onward
<1>15. Owners(session[i].tenant) # {}
  BY DEF SessionsInv, Owned
<1>16. /\ badge' \subseteq Tenants \X People
       /\ \A u \in Tenants, a \in People :
             <<u, a>> \in badge' => <<u, a>> \in badge \/ Owners(u) # {}
  <2>1. \/ badge' = badge \cup {<<session[i].tenant, session[i].person>>}
        \/ badge' = badge
    BY <1>2 DEF Rotate
  <2> QED BY <1>1, <1>3, <1>15, <2>1
<1>17. \A u \in Tenants, k \in 1 .. Len(session') :
        k > Len(session) /\ session'[k].tenant = u => Owners(u) # {}
  <2> TAKE u \in Tenants, k \in 1 .. Len(session')
  <2>1. k > Len(session) => k = Len(session) + 1
    BY <1>1, <1>11
  <2> QED BY <1>7, <1>10, <1>15, <2>1
<1>18. JobsKept
  BY <1>1, JobsStay
<1>19. kept' \subseteq 1 .. Len(session')
  <2>1. kept' = kept \ {i} /\ kept \subseteq 1 .. Len(session)
    BY <1>1, <1>2 DEF Rotate
  <2>2. 1 .. Len(session) \subseteq 1 .. Len(session')
    BY <1>1, <1>10
  <2> QED BY <2>1, <2>2
<1>20. Ended({r}) /\ {r} \in SUBSET Visits
  BY <1>1, EndEnds DEF Slots
<1> QED BY <1>1, <1>14, <1>16, <1>17, <1>18, <1>19, <1>20, VisitStep

(* What the worker chose has ended when its job is done. *)
LEMMA RevokeEverywhereStep ==
    ASSUME SessionsInv, NEW w \in Hands, RevokeEverywhere(w)
    PROVE  SessionsInv'
<1>1. /\ Revoke(request[w].targets) /\ kept' = kept /\ queued' = queued
      /\ UNCHANGED <<peopleVars, badge, letterVars>> /\ End(w) /\ Len(session) \in Nat
      /\ doomed' = doomed \ request[w].targets /\ doomed \subseteq 1 .. Len(session)
  BY DEF RevokeEverywhere, SessionsInv, SessionsTypeOK
<1>2. /\ Onward /\ Len(session') = Len(session)
      /\ \A i \in 1 .. Len(session) : i \in request[w].targets => session'[i].status # "live"
  BY <1>1, RevokeOnward DEF SessionsInv
<1>3. Ended({w}) /\ {w} \in SUBSET Slots /\ w \in Slots
  BY <1>1, EndEnds DEF Slots
<1>4. RevocationIsChased'
  <2> SUFFICES ASSUME NEW i \in doomed', InUse(i)'
               PROVE  \/ \E m \in Tries : queued[session'[i].person][m] > 0
                      \/ \E h \in Hands : /\ request'[h].at = "sweep" /\ request'[h].why = "job"
                                          /\ i \in request'[h].targets
    BY <1>1 DEF RevocationIsChased, Sweeping, Waiting
  <2>1. i \in 1 .. Len(session) /\ i \in doomed /\ i \notin request[w].targets
    BY <1>1
  <2>2. session'[i].person = session[i].person /\ InUse(i)
    BY <1>2, <2>1 DEF Onward, InUse, Open
  <2>3. CASE Waiting(session[i].person)
    BY <2>2, <2>3 DEF Waiting
  <2>4. CASE \E h \in Hands : Sweeping(h, "job") /\ i \in request[h].targets
    <3>1. PICK h \in Hands : Sweeping(h, "job") /\ i \in request[h].targets
      BY <2>4
    <3>2. request'[h] = request[h]
      BY <1>3, <2>1, <3>1 DEF Ended, Slots
    <3> QED BY <3>1, <3>2 DEF Sweeping
  <2> QED BY <2>1, <2>2, <2>3, <2>4 DEF SessionsInv, RevocationIsChased
<1>5. badge' \subseteq Tenants \X People /\ kept' \subseteq 1 .. Len(session')
  BY <1>1, <1>2 DEF SessionsInv, SessionsTypeOK
<1>6. \A t \in Tenants, i \in 1 .. Len(session') : ~(i > Len(session))
  BY <1>1, <1>2
<1>7. JobsKept
  BY <1>1, JobsStay
<1> QED BY <1>1, <1>2, <1>3, <1>4, <1>5, <1>6, <1>7, TokenStep

(* Who registers owns the workspace. *)
LEMMA RegisterStep ==
    ASSUME SessionsInv, NEW r \in Visits, Register(r)
    PROVE  SessionsInv'
<1>1. /\ request[r] \in RequestStates /\ request[r].at = "claim"
      /\ UNCHANGED <<letterVars, jobVars, kept>> /\ End(r)
      /\ kept \subseteq 1 .. Len(session)
      /\ member \in [Tenants -> [People -> Roles \cup {"none"}]] /\ users \subseteq People
  BY DEF Register, SessionsInv, SessionsTypeOK, Slots
<1>2. PICK p \in People, t \in Tenants : p = request[r].person /\ t = request[r].tenant
  BY <1>1, Shapes
<1>3. /\ member' = [member EXCEPT ![t][p] = "owner"] /\ users' = users \cup {p}
      /\ StartSession(p, t, "owner", Len(session) + 1)
  BY <1>2 DEF Register
<1>4. /\ Onward /\ Len(session') = Len(session) + 1 /\ Len(session) \in Nat
      /\ session'[Len(session) + 1].tenant = t
      /\ badge' \subseteq Tenants \X People
      /\ \A u \in Tenants, a \in People : <<u, a>> \in badge' => <<u, a>> \in badge \/ u = t
  BY <1>3, StartTyped DEF SessionsInv
<1>5. /\ member' \in [Tenants -> [People -> Roles \cup {"none"}]] /\ users' \subseteq People
      /\ member'[t][p] = "owner"
      /\ \A u \in Tenants, a \in People : <<u, a>> # <<t, p>> => member'[u][a] = member[u][a]
  BY <1>1, <1>3 DEF Roles
<1>6. \A u \in Tenants : Owners(u) \subseteq Owners(u)'
  BY <1>5 DEF Owners
<1>7. Owners(t)' # {}
  BY <1>5 DEF Owners
<1>8. \A u \in Tenants : Claimed(u)' => Claimed(u) \/ Owners(u)' # {}
  BY <1>5, <1>7 DEF Claimed
<1>9. \A u \in Tenants, i \in 1 .. Len(session') :
        i > Len(session) /\ session'[i].tenant = u => Owners(u)' # {}
  <2> TAKE u \in Tenants, i \in 1 .. Len(session')
  <2>1. i > Len(session) => i = Len(session) + 1
    BY <1>4
  <2> QED BY <1>4, <1>7, <2>1
<1>10. Ended({r}) /\ {r} \in SUBSET Slots /\ \A w \in Hands : request'[w] = request[w]
  <2>1. r \in Slots /\ r \notin Hands
    BY SessionsAssumption DEF Slots
  <2>2. Ended({r})
    BY <1>1, <2>1, EndEnds
  <2> QED BY <2>1, <2>2 DEF Slots, Ended
<1>11. /\ link' = link /\ JobsKept /\ kept' \subseteq 1 .. Len(session')
       /\ invitation' = invitation /\ honoured' = honoured
  BY <1>1, <1>4, JobsStay DEF letterVars, jobVars
<1>12. Honoured'
  BY <1>1, HonouredKept
<1>13. RevocationIsChased'
  BY <1>4, <1>10, <1>11, ChasedKept
<1>14. /\ invitation' \in [Invitations -> InvitationRows]
       /\ honoured' \in [Links \cup Invitations -> Nat]
       /\ \A v \in Invitations : invitation'[v].status = "pending" => invitation'[v].tenant \in Tenants
  BY <1>11, InvitationTyped DEF SessionsInv, SessionsTypeOK
<1>15. \A u \in Tenants, a \in People :
         <<u, a>> \in badge' => <<u, a>> \in badge \/ Owners(u)' # {}
  BY <1>4, <1>7
<1> QED BY <1>4, <1>5, <1>6, <1>8, <1>9, <1>10, <1>11, <1>12, <1>13, <1>14, <1>15, GrowStep

(* An invitation that is pending was not honoured, and comes from a workspace
   that has an owner.                                                       *)
LEMMA AcceptInvitationStep ==
    ASSUME SessionsInv, NEW r \in Visits, AcceptInvitation(r)
    PROVE  SessionsInv'
<1>1. /\ request[r] \in RequestStates /\ request[r].at = "join"
      /\ UNCHANGED <<link, jobVars, kept>> /\ End(r)
      /\ kept \subseteq 1 .. Len(session)
      /\ member \in [Tenants -> [People -> Roles \cup {"none"}]] /\ users \subseteq People
      /\ invitation \in [Invitations -> InvitationRows]
      /\ honoured \in [Links \cup Invitations -> Nat]
  BY DEF AcceptInvitation, SessionsInv, SessionsTypeOK, Slots
<1>2. PICK v \in Invitations : v = request[r].invitation
  BY <1>1, Shapes
<1>3. invitation[v].status = "pending"
  BY <1>2 DEF AcceptInvitation
<1>4. PICK p \in People, t \in Tenants, role \in Roles :
        p = invitation[v].person /\ t = invitation[v].tenant /\ role = invitation[v].role
  BY <1>3, InvitationTyped DEF SessionsInv
<1>5. /\ member' = [member EXCEPT ![t][p] = role] /\ users' = users \cup {p}
      /\ member[t][p] = "none"
      /\ StartSession(p, t, role, Len(session) + 1)
      /\ invitation' = [invitation EXCEPT ![v].status = "accepted"]
      /\ honoured' = [honoured EXCEPT ![v] = @ + 1]
  BY <1>2, <1>4 DEF AcceptInvitation
<1>6. /\ Onward /\ Len(session') = Len(session) + 1 /\ Len(session) \in Nat
      /\ session'[Len(session) + 1].tenant = t
      /\ badge' \subseteq Tenants \X People
      /\ \A u \in Tenants, a \in People : <<u, a>> \in badge' => <<u, a>> \in badge \/ u = t
  BY <1>5, StartTyped DEF SessionsInv
<1>7. /\ member' \in [Tenants -> [People -> Roles \cup {"none"}]] /\ users' \subseteq People
      /\ \A u \in Tenants, a \in People : <<u, a>> # <<t, p>> => member'[u][a] = member[u][a]
  BY <1>1, <1>5
<1>8. \A u \in Tenants : Owners(u) \subseteq Owners(u)'
  BY <1>5, <1>7 DEF Owners
<1>9. Owners(t) # {} /\ Owners(t)' # {}
  BY <1>3, <1>4, <1>8 DEF SessionsInv, Owned
<1>10. \A u \in Tenants : Claimed(u)' => Claimed(u) \/ Owners(u)' # {}
  BY <1>7, <1>9 DEF Claimed
<1>11. \A u \in Tenants, i \in 1 .. Len(session') :
        i > Len(session) /\ session'[i].tenant = u => Owners(u)' # {}
  <2> TAKE u \in Tenants, i \in 1 .. Len(session')
  <2>1. i > Len(session) => i = Len(session) + 1
    BY <1>6
  <2> QED BY <1>6, <1>9, <2>1
<1>12. Ended({r}) /\ {r} \in SUBSET Slots /\ \A w \in Hands : request'[w] = request[w]
  <2>1. r \in Slots /\ r \notin Hands
    BY SessionsAssumption DEF Slots
  <2>2. Ended({r})
    BY <1>1, <2>1, EndEnds
  <2> QED BY <2>1, <2>2 DEF Slots, Ended
<1>13. kept' \subseteq 1 .. Len(session')
  BY <1>1, <1>6
<1>14. /\ invitation' \in [Invitations -> InvitationRows]
       /\ invitation'[v].status = "accepted"
       /\ \A w \in Invitations \ {v} : invitation'[w] = invitation[w]
  <2>1. invitation[v] # Nobody /\ invitation[v] \in InvitationRows
    BY <1>1, <1>3 DEF Nobody
  <2>2. PICK new : new = [invitation[v] EXCEPT !.status = "accepted"]
    OBVIOUS
  <2>3. new \in InvitationRows /\ new.status = "accepted"
    BY <2>1, <2>2 DEF InvitationRows
  <2>4. invitation' = [invitation EXCEPT ![v] = new]
    BY <1>5, <2>2
  <2> QED BY <1>1, <2>3, <2>4
<1>15. v \notin Links
  BY SessionsAssumption
<1>16. /\ honoured' \in [Links \cup Invitations -> Nat] /\ honoured'[v] = honoured[v] + 1
       /\ \A x \in (Links \cup Invitations) \ {v} : honoured'[x] = honoured[x]
  BY <1>1, <1>5
<1>17. Honoured'
  <2>1. honoured[v] = 0
    BY <1>3 DEF SessionsInv, Honoured
  <2>2. \A l \in Links : honoured'[l] = honoured[l] /\ link'[l] = link[l]
    BY <1>1, <1>15, <1>16
  <2> QED BY <1>1, <1>14, <1>16, <2>1, <2>2 DEF SessionsInv, Honoured
<1>18. JobsKept /\ RevocationIsChased'
  <2>1. JobsKept
    BY <1>1, JobsStay DEF jobVars
  <2> QED BY <1>6, <1>12, <2>1, ChasedKept
<1>19. \A w \in Invitations : invitation'[w].status = "pending" =>
          invitation'[w].tenant \in Tenants /\ invitation'[w] = invitation[w]
  BY <1>14, InvitationTyped DEF SessionsInv
<1>20. \A u \in Tenants, a \in People :
         <<u, a>> \in badge' => <<u, a>> \in badge \/ Owners(u)' # {}
  BY <1>6, <1>9
<1>21. \A w \in Invitations, u \in Tenants :
         invitation'[w].status = "pending" /\ invitation'[w].tenant = u =>
             invitation[w] = invitation'[w] \/ Owners(u) # {}
  BY <1>19
<1>22. link' = link
  BY <1>1
<1> QED BY <1>6, <1>7, <1>8, <1>10, <1>11, <1>12, <1>13, <1>14, <1>16, <1>17, <1>18, <1>19, <1>20,
        <1>21, <1>22, GrowStep

(* Another owner than the one who is managed was there when the memberships
   were locked, and nobody else has managed anybody of the workspace since. *)
LEMMA ManageStep ==
    ASSUME SessionsInv, NEW r \in Visits, NEW why \in {"role", "remove"}, Manage(r, why)
    PROVE  SessionsInv'
<1>1. /\ request[r].at = "sweep" /\ request[r].why = why /\ r \in Slots /\ Manages(request[r])
      /\ Revoke(request[r].targets) /\ kept' \subseteq kept /\ End(r)
      /\ UNCHANGED <<users, badge, letterVars, queued>>
      /\ doomed' \subseteq doomed /\ kept \subseteq 1 .. Len(session)
      /\ member \in [Tenants -> [People -> Roles \cup {"none"}]] /\ users \subseteq People
      /\ badge \subseteq Tenants \X People
  BY DEF Manage, Manages, Sweeping, SessionsInv, SessionsTypeOK, Slots
<1>2. PICK p \in People, t \in Tenants, role \in Roles \cup {"none"} :
        p = request[r].person /\ t = request[r].tenant /\ role = request[r].role
  BY <1>1, SweepTyped
<1>3. member' = [member EXCEPT ![t][p] = role]
  BY <1>2 DEF Manage
<1>4. /\ member' \in [Tenants -> [People -> Roles \cup {"none"}]]
      /\ \A u \in Tenants, a \in People : <<u, a>> # <<t, p>> => member'[u][a] = member[u][a]
  BY <1>1, <1>3
<1>5. Owners(t) \ {p} # {}
  BY <1>1, <1>2, SweepTyped DEF RequestOK
<1>6. Owners(t)' # {}
  BY <1>4, <1>5 DEF Owners
<1>7. \A u \in Tenants \ {t} : Owners(u)' = Owners(u) /\ (Claimed(u)' <=> Claimed(u))
  BY <1>4 DEF Owners, Claimed
<1>8. OwnersStay
  BY <1>6, <1>7 DEF OwnersStay
<1>9. Onward /\ Len(session') = Len(session)
  BY <1>1, RevokeOnward DEF SessionsInv
<1>10. Ended({r}) /\ {r} \in SUBSET Slots /\ \A w \in Hands : request'[w] = request[w]
  <2>1. r \in Slots /\ r \notin Hands
    BY SessionsAssumption DEF Slots
  <2>2. Ended({r})
    BY <1>1, <2>1, EndEnds
  <2> QED BY <2>1, <2>2 DEF Slots, Ended
<1>11. \A x \in Slots \ {r}, u \in Tenants :
          Manages(request[x]) /\ request[x].tenant = u => Owners(u) \subseteq Owners(u)'
  <2> SUFFICES ASSUME NEW x \in Slots \ {r}, NEW u \in Tenants,
                      Manages(request[x]), request[x].tenant = u
               PROVE  Owners(u) \subseteq Owners(u)'
    OBVIOUS
  <2>1. x \in Visits
    BY DEF Slots, SessionsInv, InFlight, Manages, Jobs, Nothing
  <2>2. u # t
    BY <1>1, <1>2, <2>1 DEF SessionsInv, InFlight, Compatible
  <2> QED BY <1>7, <2>2
<1>12. /\ link' = link /\ invitation' = invitation /\ honoured' = honoured /\ JobsKept
  BY <1>1, JobsStay DEF letterVars
<1>13. \A x \in Slots : RequestOK(request[x])
  BY DEF SessionsInv, InFlight
<1>14. InFlight' /\ request' \in [Slots -> RequestStates]
  <2>1. \A x \in Slots \ {r} : request[x].at = "mail" =>
          link'[request[x].link] = Nobody /\ \A l \in request[x].older : link'[l] # Nobody
    BY <1>12, <1>13 DEF RequestOK
  <2>2. \A x \in Slots \ {r} : Spends(request[x]) => link'[request[x].link] = link[request[x].link]
    BY <1>12, <1>13 DEF RequestOK
  <2> QED BY <1>8, <1>9, <1>10, <1>11, <2>1, <2>2, OthersInFlight
<1>15. Owned'
  <2>1. \A u \in Tenants, a \in People :
          <<u, a>> \in badge' => <<u, a>> \in badge \/ Owners(u)' # {}
    BY <1>1
  <2>2. \A u \in Tenants, i \in 1 .. Len(session') :
          i > Len(session) /\ session'[i].tenant = u => Owners(u)' # {}
    BY <1>9 DEF SessionsInv, SessionsTypeOK
  <2>3. \A u \in Tenants : Claimed(u)' => Claimed(u) \/ Owners(u)' # {}
    BY <1>6, <1>7
  <2>4. \A v \in Invitations, u \in Tenants :
          invitation'[v].status = "pending" /\ invitation'[v].tenant = u =>
              invitation[v] = invitation'[v] \/ Owners(u) # {}
    BY <1>12
  <2>5. \A v \in Invitations : invitation'[v].status = "pending" => invitation'[v].tenant \in Tenants
    BY <1>12, InvitationTyped DEF SessionsInv
  <2> QED BY <1>8, <1>9, <2>1, <2>2, <2>3, <2>4, <2>5, OwnedKept
<1>16. Honoured'
  BY <1>1, HonouredKept
<1>17. RevocationIsChased'
  BY <1>9, <1>10, <1>12, ChasedKept
<1>18. SessionsTypeOK'
  BY <1>1, <1>4, <1>9, <1>12, <1>14 DEF SessionsInv, SessionsTypeOK, Onward, JobsKept, Slots
<1> QED BY <1>14, <1>15, <1>16, <1>17, <1>18 DEF SessionsInv

-----------------------------------------------------------------------------
(* Links and invitations. *)

(* The new link is nobody's until now, and no link that is being spent is
   superseded.                                                              *)
LEMMA SendPasswordResetStep ==
    ASSUME SessionsInv, NEW r \in Visits, SendPasswordReset(r)
    PROVE  SessionsInv'
<1>1. /\ request[r] \in RequestStates /\ RequestOK(request[r]) /\ request[r].at = "mail"
      /\ UNCHANGED <<peopleVars, tokenVars, invitation, honoured, jobVars, kept>> /\ End(r)
      /\ link \in [Links -> LinkRows]
      /\ ~\E l \in request[r].older : Spending(l)
  BY DEF SendPasswordReset, SessionsInv, SessionsTypeOK, InFlight, Slots
<1>2. PICK m \in Links, p \in People, t \in Tenants, older \in SUBSET Links :
        m = request[r].link /\ p = request[r].person /\ t = request[r].tenant
        /\ older = request[r].older
  BY <1>1, Shapes
<1>3. link[m] = Nobody /\ \A l \in older : link[l] # Nobody
  BY <1>1, <1>2 DEF RequestOK
<1>4. PICK new : new = [status |-> "live", person |-> p, tenant |-> t]
  OBVIOUS
<1>5. link' = [l \in Links |-> IF l = m THEN new
                 ELSE IF l \in older THEN [link[l] EXCEPT !.status = "spent"] ELSE link[l]]
  BY <1>2, <1>4 DEF SendPasswordReset
<1>6. link'[m] = new /\ new \in LinkRows
  BY <1>4, <1>5 DEF LinkRows
<1>7. \A l \in older : /\ link'[l] \in LinkRows /\ link'[l].status = "spent"
                       /\ link'[l].person = link[l].person /\ l # m
  <2> SUFFICES ASSUME NEW l \in older
               PROVE  /\ link'[l] \in LinkRows /\ link'[l].status = "spent"
                      /\ link'[l].person = link[l].person /\ l # m
    OBVIOUS
  <2>1. l # m /\ l \in Links /\ link[l] # Nobody /\ link[l] \in LinkRows
    BY <1>1, <1>3
  <2>2. link'[l] = [link[l] EXCEPT !.status = "spent"]
    BY <1>5, <2>1
  <2> QED BY <2>1, <2>2 DEF LinkRows
<1>8. \A l \in Links : l # m /\ l \notin older => link'[l] = link[l]
  BY <1>5
<1>9. link' \in [Links -> LinkRows]
  <2>1. \A l \in Links : link'[l] \in LinkRows
    BY <1>1, <1>6, <1>7, <1>8
  <2>2. link' = [l \in Links |-> link'[l]]
    BY <1>5
  <2> QED BY <2>1, <2>2
<1>10. /\ users' = users /\ member' = member /\ session' = session /\ badge' = badge
       /\ invitation' = invitation /\ honoured' = honoured
       /\ queued' = queued /\ doomed' = doomed /\ kept' = kept
  BY <1>1 DEF peopleVars, tokenVars, jobVars
<1>11. Onward
  BY <1>10, StillOnward DEF SessionsInv
<1>12. \A u \in Tenants : Owners(u)' = Owners(u) /\ (Claimed(u)' <=> Claimed(u))
  BY <1>10 DEF Owners, Claimed
<1>13. OwnersStay
  BY <1>12 DEF OwnersStay
<1>14. Ended({r}) /\ {r} \in SUBSET Slots /\ \A w \in Hands : request'[w] = request[w]
  <2>1. r \in Slots /\ r \notin Hands
    BY SessionsAssumption DEF Slots
  <2>2. Ended({r})
    BY <1>1, <2>1, EndEnds
  <2> QED BY <2>1, <2>2 DEF Slots, Ended
<1>15. \A x \in Slots \ {r} : request[x].at \in {"mail", "sweep"} /\ ~Jobs(request[x]) => x \in Visits
  BY DEF Slots, SessionsInv, InFlight, Nothing
<1>16. ASSUME NEW x \in Slots \ {r}, request[x].at = "mail"
       PROVE  link'[request[x].link] = Nobody /\ \A l \in request[x].older : link'[l] # Nobody
  <2>1. /\ x \in Visits /\ RequestOK(request[x]) /\ request[x].link \in Links
        /\ request[x].older \subseteq Links
    BY <1>15, <1>16, Shapes DEF Jobs, SessionsInv, SessionsTypeOK, InFlight, Slots
  <2>2. request[x].link # m
    BY <1>1, <1>2, <1>16, <2>1 DEF SessionsInv, InFlight, Compatible
  <2>3. link[request[x].link] = Nobody /\ \A l \in request[x].older : link[l] # Nobody
    BY <1>16, <2>1 DEF RequestOK
  <2>4. link'[request[x].link] = Nobody
    BY <1>3, <1>8, <2>1, <2>2, <2>3
  <2>5. \A l \in Links : link[l] # Nobody => link'[l] # Nobody
    BY <1>3, <1>7, <1>8 DEF Nobody
  <2> QED BY <2>1, <2>3, <2>4, <2>5
<1>17. ASSUME NEW x \in Slots \ {r}, Spends(request[x])
       PROVE  link'[request[x].link] = link[request[x].link]
  <2>1. x \in Visits /\ RequestOK(request[x])
    BY <1>15, <1>17 DEF Spends, Jobs, SessionsInv, InFlight
  <2>2. request[x].link \in Links /\ link[request[x].link].status = "live"
    BY <1>17, <2>1 DEF RequestOK
  <2>3. request[x].link \notin older
    BY <1>1, <1>2, <1>17, <2>1 DEF Spends, Spending, Sweeping
  <2>4. request[x].link # m
    BY <1>3, <2>2 DEF Nobody
  <2> QED BY <1>8, <2>2, <2>3, <2>4
<1>18. InFlight' /\ request' \in [Slots -> RequestStates]
  BY <1>11, <1>12, <1>13, <1>14, <1>16, <1>17, OthersInFlight
<1>19. Owned'
  BY <1>10 DEF SessionsInv, Owned, OwnerRemains, Claimed, Owners
<1>20. \A l \in Links : link[l].status = "spent" =>
         link'[l].status = "spent" /\ link'[l].person = link[l].person
  BY <1>3, <1>7, <1>8 DEF Nobody
<1>21. Honoured'
  BY <1>10, <1>20 DEF SessionsInv, Honoured
<1>22. RevocationIsChased'
  <2>1. JobsKept
    BY <1>10, JobsStay
  <2> QED BY <1>11, <1>14, <2>1, ChasedKept
<1>23. SessionsTypeOK'
  BY <1>9, <1>10, <1>18 DEF SessionsInv, SessionsTypeOK, Slots
<1> QED BY <1>18, <1>19, <1>21, <1>22, <1>23 DEF SessionsInv

(* The link was live, so that it was never honoured, and the job is queued
   with the change.                                                         *)
LEMMA ResetPasswordStep ==
    ASSUME SessionsInv, NEW r \in Visits, ResetPassword(r)
    PROVE  SessionsInv'
<1>1. /\ request[r].at = "sweep" /\ Spends(request[r]) /\ r \in Slots
      /\ Revoke(request[r].targets) /\ End(r)
      /\ UNCHANGED <<peopleVars, badge, invitation>>
      /\ kept' \subseteq kept /\ kept \subseteq 1 .. Len(session)
      /\ link \in [Links -> LinkRows]
      /\ honoured \in [Links \cup Invitations -> Nat] /\ Len(session) \in Nat
  BY DEF ResetPassword, Sweeping, Spends, SessionsInv, SessionsTypeOK, Slots
<1>2. PICK l \in Links, p \in People : l = request[r].link /\ p = request[r].person
  BY <1>1, SweepTyped DEF RequestOK
<1>3. link[l].status = "live" /\ link[l].person = p
  BY <1>1, <1>2, SweepTyped DEF RequestOK
<1>4. /\ link' = [link EXCEPT ![l].status = "spent"]
      /\ honoured' = [honoured EXCEPT ![l] = @ + 1]
      /\ SetsPassword(r, p, 1)
  BY <1>2 DEF ResetPassword
<1>5. link[l] # Nobody /\ link[l] \in LinkRows
  BY <1>1, <1>3 DEF Nobody
<1>6. PICK new : new = [link[l] EXCEPT !.status = "spent"]
  OBVIOUS
<1>7. new \in LinkRows /\ new.status = "spent" /\ new.person = link[l].person /\ new # Nobody
  BY <1>5, <1>6 DEF LinkRows, Nobody
<1>8. /\ link' \in [Links -> LinkRows] /\ link'[l] = new
      /\ \A k \in Links \ {l} : link'[k] = link[k]
  <2>1. link' = [link EXCEPT ![l] = new]
    BY <1>4, <1>6
  <2> QED BY <1>1, <1>7, <2>1
<1>9. /\ honoured' \in [Links \cup Invitations -> Nat] /\ honoured'[l] = honoured[l] + 1
      /\ \A x \in (Links \cup Invitations) \ {l} : honoured'[x] = honoured[x]
      /\ JobsKept
  BY <1>1, <1>4, PasswordJobs
<1>10. Onward /\ Len(session') = Len(session)
       /\ \A i \in 1 .. Len(session) : i \in request[r].targets => session'[i].status # "live"
  BY <1>1, RevokeOnward DEF SessionsInv
<1>11. Ended({r}) /\ {r} \in SUBSET Slots /\ \A w \in Hands : request'[w] = request[w]
  <2>1. r \in Slots /\ r \notin Hands
    BY SessionsAssumption DEF Slots
  <2>2. Ended({r})
    BY <1>1, <2>1, EndEnds
  <2> QED BY <2>1, <2>2 DEF Slots, Ended
<1>12. /\ users' = users /\ member' = member /\ badge' = badge /\ invitation' = invitation
  BY <1>1 DEF peopleVars
<1>13. \A u \in Tenants : Owners(u)' = Owners(u) /\ (Claimed(u)' <=> Claimed(u))
  BY <1>12 DEF Owners, Claimed
<1>14. OwnersStay
  BY <1>13 DEF OwnersStay
<1>15. ASSUME NEW x \in Slots \ {r}, request[x].at = "mail"
       PROVE  link'[request[x].link] = Nobody /\ \A k \in request[x].older : link'[k] # Nobody
  <2>1. /\ RequestOK(request[x]) /\ request[x].link \in Links /\ request[x].older \subseteq Links
    BY <1>15, Shapes DEF SessionsInv, SessionsTypeOK, InFlight, Slots
  <2>2. link[request[x].link] = Nobody /\ \A k \in request[x].older : link[k] # Nobody
    BY <1>15, <2>1 DEF RequestOK
  <2>3. \A k \in Links : (link'[k] = Nobody) = (link[k] = Nobody)
    BY <1>5, <1>7, <1>8
  <2> QED BY <2>1, <2>2, <2>3
<1>16. ASSUME NEW x \in Slots \ {r}, Spends(request[x])
       PROVE  link'[request[x].link] = link[request[x].link]
  <2>1. x \in Visits /\ RequestOK(request[x])
    BY <1>16 DEF Spends, Jobs, Nothing, SessionsInv, InFlight, Slots
  <2>2. request[x].link \in Links /\ link[request[x].link].status = "live"
    BY <1>16, <2>1 DEF RequestOK
  <2>3. r \in Visits /\ r # x
    OBVIOUS
  <2>4. request[x].link # l
    BY <1>1, <1>2, <1>16, <2>1, <2>3 DEF SessionsInv, InFlight, Compatible
  <2> QED BY <1>8, <2>2, <2>4
<1>17. InFlight' /\ request' \in [Slots -> RequestStates]
  BY <1>10, <1>11, <1>13, <1>14, <1>15, <1>16, OthersInFlight
<1>18. Owned'
  <2>1. \A u \in Tenants, i \in 1 .. Len(session') : ~(i > Len(session))
    BY <1>1, <1>10
  <2>2. \A v \in Invitations : invitation'[v].status = "pending" => invitation'[v].tenant \in Tenants
    BY <1>12, InvitationTyped DEF SessionsInv
  <2> QED BY <1>10, <1>12, <1>13, <1>14, <2>1, <2>2, OwnedKept
<1>19. Honoured'
  <2>1. honoured[l] = 0
    BY <1>3 DEF SessionsInv, Honoured
  <2>2. l \notin Invitations
    BY SessionsAssumption
  <2>3. \A k \in Links : honoured'[k] = 0 \/ (honoured'[k] = 1 /\ link'[k].status = "spent")
    BY SMTT(30), <1>7, <1>8, <1>9, <2>1 DEF SessionsInv, Honoured
  <2>4. \A v \in Invitations : honoured'[v] = honoured[v] /\ invitation'[v] = invitation[v]
    BY <1>9, <1>12, <2>2
  <2> QED BY <2>3, <2>4 DEF SessionsInv, Honoured
<1>20. RevocationIsChased'
  BY <1>9, <1>10, <1>11, ChasedKept
<1>21. SessionsTypeOK'
  BY <1>1, <1>8, <1>9, <1>10, <1>12, <1>17
     DEF SessionsInv, SessionsTypeOK, Onward, JobsKept, Slots
<1> QED BY <1>17, <1>18, <1>19, <1>20, <1>21 DEF SessionsInv

LEMMA InviteStep ==
    ASSUME SessionsInv, NEW v \in Invitations, NEW t \in Tenants, NEW a \in People,
           NEW p \in People, NEW role \in Roles, Invite(v, a, p, t, role)
    PROVE  SessionsInv'
<1>1. /\ UNCHANGED <<peopleVars, tokenVars, link, honoured, jobVars, request, kept>>
      /\ invitation[v] = Nobody /\ Holds(a, t)
      /\ invitation \in [Invitations -> InvitationRows]
  BY DEF Invite, SessionsInv, SessionsTypeOK
<1>2. PICK new : new = [status |-> "pending", person |-> p, tenant |-> t, role |-> role]
  OBVIOUS
<1>3. new \in InvitationRows /\ new.tenant = t /\ invitation' = [invitation EXCEPT ![v] = new]
  BY <1>2 DEF InvitationRows, Invite
<1>4. /\ invitation' \in [Invitations -> InvitationRows] /\ invitation'[v] = new
      /\ \A w \in Invitations \ {v} : invitation'[w] = invitation[w]
  BY <1>1, <1>3
<1>5. Owners(t) # {}
  BY <1>1 DEF Holds, SessionsInv, Owned
<1>6. /\ users' = users /\ member' = member /\ session' = session /\ badge' = badge /\ link' = link
      /\ honoured' = honoured /\ queued' = queued /\ doomed' = doomed /\ request' = request
      /\ kept' = kept
  BY <1>1 DEF peopleVars, tokenVars, jobVars
<1>7. SessionsTypeOK'
  BY <1>4, <1>6 DEF SessionsInv, SessionsTypeOK
<1>8. InFlight'
  BY <1>6 DEF SessionsInv, InFlight, RequestOK, Compatible, Manages, Spends, Jobs, Owners
<1>9. Owned'
  <2>1. \A w \in Invitations :
          invitation'[w].status = "pending" => Owners(invitation'[w].tenant) # {}
    BY <1>3, <1>4, <1>5 DEF SessionsInv, Owned
  <2> QED BY <1>6, <2>1 DEF SessionsInv, Owned, OwnerRemains, Claimed, Owners
<1>10. Honoured'
  <2>1. honoured[v] = 0
    BY <1>1 DEF SessionsInv, Honoured, Nobody
  <2> QED BY <1>4, <1>6, <2>1 DEF SessionsInv, Honoured
<1>11. RevocationIsChased'
  BY <1>6 DEF SessionsInv, RevocationIsChased, InUse, Open, Sweeping, Waiting
<1> QED BY <1>7, <1>8, <1>9, <1>10, <1>11 DEF SessionsInv

LEMMA RevokeInvitationStep ==
    ASSUME SessionsInv, NEW v \in Invitations, RevokeInvitation(v)
    PROVE  SessionsInv'
<1>1. /\ UNCHANGED <<peopleVars, tokenVars, link, honoured, jobVars, request, kept>>
      /\ invitation[v].status = "pending" /\ invitation[v] # Nobody
      /\ invitation \in [Invitations -> InvitationRows]
  BY DEF RevokeInvitation, Nobody, SessionsInv, SessionsTypeOK
<1>2. PICK new : new = [invitation[v] EXCEPT !.status = "revoked"]
  OBVIOUS
<1>3. new \in InvitationRows /\ new.status = "revoked"
  <2>1. invitation[v] \in InvitationRows
    BY <1>1
  <2> QED BY <1>1, <1>2, <2>1 DEF InvitationRows
<1>4. invitation' = [invitation EXCEPT ![v] = new]
  BY <1>2 DEF RevokeInvitation
<1>5. /\ invitation' \in [Invitations -> InvitationRows] /\ invitation'[v] = new
      /\ \A w \in Invitations \ {v} : invitation'[w] = invitation[w]
  BY <1>1, <1>3, <1>4
<1>6. /\ users' = users /\ member' = member /\ session' = session /\ badge' = badge /\ link' = link
      /\ honoured' = honoured /\ queued' = queued /\ doomed' = doomed /\ request' = request
      /\ kept' = kept
  BY <1>1 DEF peopleVars, tokenVars, jobVars
<1>7. SessionsTypeOK'
  BY <1>5, <1>6 DEF SessionsInv, SessionsTypeOK
<1>8. InFlight'
  BY <1>6 DEF SessionsInv, InFlight, RequestOK, Compatible, Manages, Spends, Jobs, Owners
<1>9. Owned'
  <2>1. \A w \in Invitations :
          invitation'[w].status = "pending" => Owners(invitation'[w].tenant) # {}
    BY <1>3, <1>5 DEF SessionsInv, Owned
  <2> QED BY <1>6, <2>1 DEF SessionsInv, Owned, OwnerRemains, Claimed, Owners
<1>10. Honoured'
  <2>1. honoured[v] = 0
    BY <1>1 DEF SessionsInv, Honoured
  <2> QED BY <1>5, <1>6, <2>1 DEF SessionsInv, Honoured
<1>11. RevocationIsChased'
  BY <1>6 DEF SessionsInv, RevocationIsChased, InUse, Open, Sweeping, Waiting
<1> QED BY <1>7, <1>8, <1>9, <1>10, <1>11 DEF SessionsInv

-----------------------------------------------------------------------------
LEMMA SessionsInitInv == SessionsInit => SessionsInv
<1> SUFFICES ASSUME SessionsInit PROVE SessionsInv
  OBVIOUS
<1>1. PICK n \in 0 .. MaxSessions, p \in People, t \in Tenants :
        /\ n > 0 => member[t][p] # "none"
        /\ session = [i \in 1 .. n |->
              [person |-> p, tenant |-> t, family |-> i, status |-> "revoked"]]
  BY DEF SessionsInit
<1>2. n \in Nat
  BY SessionsAssumption
<1>3. \A i \in 1 .. n :
        [person |-> p, tenant |-> t, family |-> i, status |-> "revoked"] \in SessionRows
  BY <1>2 DEF SessionRows, SessionStatuses
<1>4. /\ session \in Seq(SessionRows) /\ Len(session) = n
      /\ \A i \in 1 .. n : /\ session[i].tenant = t /\ session[i].family = i
                           /\ session[i].status = "revoked"
  <2>1. session \in [1 .. n -> SessionRows]
    BY <1>1, <1>3
  <2>2. session \in Seq(SessionRows) /\ Len(session) = n
    BY <1>1, <1>2, <2>1
  <2> QED BY <1>1, <2>2
<1>5. SessionsTypeOK
  <2>1. \A i \in 1 .. Len(session) : session[i].family \in 1 .. i
    BY <1>2, <1>4
  <2>2. request \in [Visits \cup Hands -> RequestStates]
    BY DEF SessionsInit, RequestStates
  <2>3. link \in [Links -> LinkRows] /\ invitation \in [Invitations -> InvitationRows]
    BY DEF SessionsInit
  <2>4. /\ users \subseteq People /\ member \in [Tenants -> [People -> Roles \cup {"none"}]]
        /\ badge \subseteq Tenants \X People /\ queued \in [People -> [Tries -> Nat]]
        /\ honoured \in [Links \cup Invitations -> Nat]
        /\ doomed \subseteq 1 .. Len(session) /\ kept \subseteq 1 .. Len(session)
    BY DEF SessionsInit
  <2> QED BY <1>4, <2>1, <2>2, <2>3, <2>4 DEF SessionsTypeOK
<1>6. InFlight
  <2>1. \A r \in Slots : request[r] = Nothing
    BY DEF SessionsInit, Slots
  <2> QED BY <2>1 DEF InFlight, RequestOK, Compatible, Manages, Spends, Jobs, Nothing, Slots
<1>7. Owned
  <2>1. OwnerRemains
    BY DEF SessionsInit, OwnerRemains
  <2>2. \A u \in Tenants, a \in People : <<u, a>> \in badge => Owners(u) # {}
    BY DEF SessionsInit, Owners
  <2>3. \A i \in 1 .. Len(session) : Owners(session[i].tenant) # {}
    BY <1>1, <1>2, <1>4, <2>1 DEF OwnerRemains, Claimed
  <2>4. \A v \in Invitations : invitation[v].status # "pending"
    BY DEF SessionsInit
  <2> QED BY <2>1, <2>2, <2>3, <2>4 DEF Owned
<1>8. Honoured
  BY <1>2, <1>4 DEF SessionsInit, Honoured
<1>9. RevocationIsChased
  BY DEF SessionsInit, RevocationIsChased
<1> QED BY <1>5, <1>6, <1>7, <1>8, <1>9 DEF SessionsInv

LEMMA SessionsStep == SessionsInv /\ [SessionsNext]_sessionsVars => SessionsInv'
<1> SUFFICES ASSUME SessionsInv, [SessionsNext]_sessionsVars PROVE SessionsInv'
  OBVIOUS
<1>1. CASE UNCHANGED sessionsVars
  <2>1. /\ users' = users /\ member' = member /\ session' = session /\ badge' = badge
        /\ link' = link /\ invitation' = invitation /\ honoured' = honoured
        /\ queued' = queued /\ doomed' = doomed /\ request' = request /\ kept' = kept
    BY <1>1 DEF sessionsVars, peopleVars, tokenVars, letterVars, jobVars
  <2>2. SessionsTypeOK' /\ Honoured'
    BY <2>1 DEF SessionsInv, SessionsTypeOK, Honoured
  <2>3. InFlight' /\ Owned'
    BY <2>1 DEF SessionsInv, InFlight, RequestOK, Compatible, Manages, Spends, Jobs, Owned,
       OwnerRemains, Claimed, Owners
  <2>4. RevocationIsChased'
    BY <2>1 DEF SessionsInv, RevocationIsChased, InUse, Open, Sweeping, Waiting
  <2> QED BY <2>2, <2>3, <2>4 DEF SessionsInv
<1>2. CASE SessionsNext
  <2>1. CASE \E r \in Visits, p \in People, t \in Tenants : Claim(r, p, t) \/ Login(r, p, t)
    BY <2>1, ReadStep
  <2>2. CASE \E r \in Visits : Register(r) \/ FinishLogin(r)
    BY <2>2, RegisterStep, FinishLoginStep
  <2>3. CASE \E i \in 1 .. Len(session) : Logout(i) \/ Expire(i)
    BY <2>3, LogoutStep, ExpireStep
  <2>4. CASE \E r \in Visits, i \in 1 .. Len(session) : Refresh(r, i) \/ EnterPassword(r, i)
    BY <2>4, SessionReadStep
  <2>5. CASE \E r \in Visits : CheckMember(r) \/ Rotate(r) \/ HandleReuse(r)
    BY <2>5, CheckMemberStep, RotateStep, HandleReuseStep
  <2>6. CASE \E r \in Visits, l \in Links, p \in People, t \in Tenants :
                RequestPasswordReset(r, l, p, t)
    BY <2>6, AskStep
  <2>7. CASE \E r \in Visits, l \in Links : OpenLink(r, l)
    BY <2>7, OpenLinkStep
  <2>8. CASE \E r \in Visits :
                SendPasswordReset(r) \/ SpendLink(r) \/ ResetPassword(r) \/ ChangePassword(r)
    BY <2>8, SendPasswordResetStep, SpendLinkStep, ResetPasswordStep, ChangePasswordStep
  <2>9. CASE \E w \in Hands, p \in People, n \in Tries : WorkRevocation(w, p, n)
    BY <2>9, WorkRevocationStep
  <2>10. CASE \E w \in Hands : RevokeEverywhere(w) \/ FailRevocation(w)
    BY <2>10, RevokeEverywhereStep, FailRevocationStep
  <2>11. CASE \E v \in Invitations, t \in Tenants, a \in People, p \in People, role \in Roles :
                Invite(v, a, p, t, role)
    BY <2>11, InviteStep
  <2>12. CASE \E v \in Invitations : RevokeInvitation(v)
    BY <2>12, RevokeInvitationStep
  <2>13. CASE \E r \in Visits, v \in Invitations : OpenInvitation(r, v)
    BY <2>13, OpenInvitationStep
  <2>14. CASE \E r \in Visits : AcceptInvitation(r)
    BY <2>14, AcceptInvitationStep
  <2>15. CASE \E r \in Visits, a \in People, p \in People, t \in Tenants, role \in Roles :
                ManageMember(r, a, p, t, "role", role)
    BY <2>15, ManageMemberStep
  <2>16. CASE \E r \in Visits, a \in People, p \in People, t \in Tenants :
                ManageMember(r, a, p, t, "remove", "none")
    BY <2>16, ManageMemberStep
  <2>17. CASE \E r \in Visits : ChangeMemberRole(r) \/ RemoveMember(r)
    BY <2>17, ManageStep DEF ChangeMemberRole, RemoveMember
  <2>18. CASE \E r \in Visits : CutOff(r)
    BY <2>18, CutOffStep
  <2> QED BY <1>2, <2>1, <2>2, <2>3, <2>4, <2>5, <2>6, <2>7, <2>8, <2>9, <2>10, <2>11, <2>12,
          <2>13, <2>14, <2>15, <2>16, <2>17, <2>18 DEF SessionsNext
<1> QED BY <1>1, <1>2

(* The invariant of package auth, for any number of requests in flight. *)
THEOREM SessionsHold == SessionsSpec => []SessionsInv
BY SessionsInitInv, SessionsStep, PTL DEF SessionsSpec

(* A workspace that has members keeps an owner, though owners demote and
   remove each other at once: auth/members_service.go.                      *)
THEOREM AnOwnerRemains == SessionsSpec => []OwnerRemains
<1>1. SessionsInv => OwnerRemains
  BY DEF SessionsInv, Owned
<1> QED BY <1>1, SessionsHold, PTL

(* A link sets one password and an invitation makes one membership:
   auth/credentials.go, ResetPassword, and members_service.go,
   AcceptInvitation.                                                        *)
THEOREM LettersAreSpentOnce == SessionsSpec => []SpentOnce
<1>1. SessionsInv => SpentOnce
  BY DEF SessionsInv, Honoured, SpentOnce
<1> QED BY <1>1, SessionsHold, PTL

(* What was in use when a password was reset or changed has ended, or a job to
   end it waits or is at work, unless one failed for the last time since:
   auth/jobs.go.                                                            *)
THEOREM NoRevocationIsLost == SessionsSpec => []RevocationIsChased
<1>1. SessionsInv => RevocationIsChased
  BY DEF SessionsInv
<1> QED BY <1>1, SessionsHold, PTL
=============================================================================
