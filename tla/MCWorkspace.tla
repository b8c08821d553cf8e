----------------------------- MODULE MCWorkspace -----------------------------
(***************************************************************************)
(* The parts of a workspace that share no table, checked side by side: the *)
(* desk says which of them a behaviour is about, and the others rest, so   *)
(* that their states add up and do not multiply.                           *)
(***************************************************************************)
EXTENDS Limiter, Campus, Sessions, Handins, TLC

CONSTANTS
    Desks,            \* the parts a run is about
    r1, r2,           \* requests, at whichever desk
    x1, x2,           \* ids, or workspaces, that stand for each other
    o1, e1,           \* a room, a building or a book; an application
    p1, p2, m1, i1, w1  \* two people, two letters, a worker

VARIABLE desk

workspaceVars == <<desk, limiterVars, campusVars, sessionsVars, handinsVars>>

(* What a desk that is not looked at rests at. *)
NobodyHere ==
    /\ member = [t \in Tenants |-> [p \in People |-> "none"]]
    /\ session = <<>>
    /\ link = [l \in Links |-> Nobody] /\ invitation = [v \in Invitations |-> Nobody]

Past(rows, p, t) == \A x \in DOMAIN rows :
    rows[x] # Nobody /\ rows[x].person = p /\ rows[x].tenant = t
OwnedBy(t, owners) == \A p \in People :
    member[t][p] = IF p \in owners THEN "owner" ELSE "none"

(* Three workspaces in use, each with the part of package auth it is about
   still to come: passwords of a person who owns two, the members of one that
   all of them own, and invitations to one that one person owns beside one
   that is unclaimed.  The workspace may be either of two.                  *)
Passwords(p, t) ==
    /\ session = <<>>
    /\ \A u \in Tenants : OwnedBy(u, {p})
    /\ \A l \in Links : link[l] = Nobody
    /\ Past(invitation, p, t)
Members(p, t) ==
    /\ OwnedBy(t, People) /\ \A u \in Tenants \ {t} : OwnedBy(u, {})
    /\ Len(session) = 1 /\ session[1].person = p
    /\ Past(link, p, t) /\ Past(invitation, p, t)
Guests(p, t) ==
    /\ OwnedBy(t, {p}) /\ \A u \in Tenants \ {t} : OwnedBy(u, {})
    /\ Len(session) = 1 /\ session[1].person = p
    /\ Past(link, p, t) /\ \A v \in Invitations : invitation[v] = Nobody

WorkspaceInit ==
    /\ desk \in Desks
    /\ LimiterInit /\ CampusInit /\ HandinsInit
    /\ SessionsInit
    /\ \E t \in Tenants :
          CASE desk = "passwords" -> Passwords(p1, t)
            [] desk = "members"   -> Members(p2, t)
            [] desk = "guests"    -> Guests(p2, t)
            [] OTHER -> NobodyHere

AtLimiter == /\ desk = "limiter" /\ LimiterNext
             /\ UNCHANGED <<desk, campusVars, sessionsVars, handinsVars>>
AtCampus == /\ desk = "campus" /\ CampusNext
            /\ UNCHANGED <<desk, limiterVars, sessionsVars, handinsVars>>
AtSessions == /\ desk \in {"passwords", "members", "guests"} /\ SessionsNext
              /\ UNCHANGED <<desk, limiterVars, campusVars, handinsVars>>
AtHandins == /\ desk = "handins" /\ HandinsNext
             /\ UNCHANGED <<desk, limiterVars, campusVars, sessionsVars>>

WorkspaceNext == AtLimiter \/ AtCampus \/ AtSessions \/ AtHandins

WorkspaceSpec == WorkspaceInit /\ [][WorkspaceNext]_workspaceVars

(* Every variable of every part has the values it may have, and the rows that
   refer to a student, or to an assignment, are gone when it is.            *)
WorkspaceTypeOK ==
    /\ LimiterTypeOK /\ CampusTypeOK /\ SessionsTypeOK /\ HandinsTypeOK

(* One of the two sets passwords at whichever desk. *)
OneJob == [p \in People |-> IF p = p1 THEN 1 ELSE 0]

(* Which session a change of password was to keep is asked in a run of its own;
   nothing else depends on it.                                              *)
WithoutKept == <<desk, limiterVars, campusVars, peopleVars, tokenVars, letterVars,
                 jobVars, request, handinsVars>>

Alike == Permutations({r1, r2}) \cup Permutations({x1, x2})
=============================================================================
