------------------------------- MODULE Inbox -------------------------------
(***************************************************************************)
(* What a workspace tells its people: the bells of package notify, and the *)
(* daily mail that sums up those nobody has read.                          *)
(*                                                                         *)
(* An announcement is told by a job that may run again after it has run;   *)
(* an event is told in the transaction of the event.  The sweep gathers    *)
(* what is pending in one statement and stamps it in later ones, while     *)
(* bells are read, silenced and added.  Its transaction may fail, and the  *)
(* job is tried again; two sweeps do not run at once.                      *)
(***************************************************************************)
EXTENDS Naturals

CONSTANTS
    People,
    Announcements,  \* told to everybody on the course
    Happenings          \* told to one person each

VARIABLES
    onCourse,   \* the people enrolled
    reachable,  \* those with an address
    fanouts,    \* the announcements posted, with a job that may run
    bell,       \* the rows of notifications, and whether they are read
    digested,   \* the bells stamped
    mailed,     \* how often a bell was in a mail
    silent,     \* the people who turned the digest off
    sweep       \* what the sweep under way has gathered

inboxVars == <<onCourse, reachable, fanouts, bell, digested, mailed, silent, sweep>>

News  == Announcements \cup Happenings
Bells == News \X People

NoSweep == [at |-> "idle"]
Sweeps  == {NoSweep} \cup [at: {"gathered"}, bells: SUBSET Bells]

InboxTypeOK ==
    /\ onCourse \subseteq People /\ reachable \subseteq People
    /\ fanouts \subseteq Announcements
    /\ bell \in [Bells -> {"none", "unread", "read"}]
    /\ digested \subseteq Bells
    /\ mailed \in [Bells -> Nat]
    /\ silent \subseteq People
    /\ sweep \in Sweeps

InboxInit ==
    /\ onCourse \in SUBSET People /\ reachable \in SUBSET People
    /\ fanouts = {}
    /\ bell = [b \in Bells |-> "none"]
    /\ digested = {} /\ silent = {}
    /\ mailed = [b \in Bells |-> 0]
    /\ sweep = NoSweep

-----------------------------------------------------------------------------
(* Bells. *)

(* The announcement and its job are one transaction. *)
PostAnnouncement(a) ==
    /\ a \notin fanouts
    /\ fanouts' = fanouts \cup {a}
    /\ UNCHANGED <<onCourse, reachable, bell, digested, mailed, silent, sweep>>

(* A bell already there is left as it is. *)
FanOut(a) ==
    /\ a \in fanouts
    /\ bell' = [b \in Bells |->
                  IF b[1] = a /\ b[2] \in onCourse /\ bell[b] = "none"
                  THEN "unread" ELSE bell[b]]
    /\ UNCHANGED <<onCourse, reachable, fanouts, digested, mailed, silent, sweep>>

RecordNotice(e, p) ==
    /\ \A q \in People : bell[<<e, q>>] = "none"
    /\ bell' = [bell EXCEPT ![<<e, p>>] = "unread"]
    /\ UNCHANGED <<onCourse, reachable, fanouts, digested, mailed, silent, sweep>>

(* A bell read again is no change. *)
ReadOne(b) ==
    /\ bell[b] = "unread"
    /\ bell' = [bell EXCEPT ![b] = "read"]
    /\ UNCHANGED <<onCourse, reachable, fanouts, digested, mailed, silent, sweep>>

ReadAll(p) ==
    /\ bell' = [b \in Bells |->
                  IF b[2] = p /\ bell[b] = "unread" THEN "read" ELSE bell[b]]
    /\ UNCHANGED <<onCourse, reachable, fanouts, digested, mailed, silent, sweep>>

SetPreferences(p, digest) ==
    /\ silent' = IF digest THEN silent \ {p} ELSE silent \cup {p}
    /\ UNCHANGED <<onCourse, reachable, fanouts, bell, digested, mailed, sweep>>

ComeOrGo(p) ==
    /\ onCourse' = IF p \in onCourse THEN onCourse \ {p} ELSE onCourse \cup {p}
    /\ UNCHANGED <<reachable, fanouts, bell, digested, mailed, silent, sweep>>

-----------------------------------------------------------------------------
(* The daily sweep. *)

Pending == {b \in Bells : bell[b] = "unread" /\ b \notin digested /\ b[2] \notin silent}

PendingDigests ==
    /\ sweep = NoSweep
    /\ sweep' = [at |-> "gathered", bells |-> Pending]
    /\ UNCHANGED <<onCourse, reachable, fanouts, bell, digested, mailed, silent>>

ToMail == {b \in sweep.bells : b[2] \in reachable}

(* Mutant: whatever is pending by then is stamped. *)
StampPending ==
    /\ sweep.at = "gathered"
    /\ mailed' = [b \in Bells |-> IF b \in ToMail THEN mailed[b] + 1 ELSE mailed[b]]
    /\ digested' = digested \cup {b \in Pending : b[2] \in reachable}
    /\ sweep' = NoSweep
    /\ UNCHANGED <<onCourse, reachable, fanouts, bell, silent>>

(* The mails are queued in the transaction that stamps what is in them. *)
SendDigests ==
    /\ sweep.at = "gathered"
    /\ mailed' = [b \in Bells |-> IF b \in ToMail THEN mailed[b] + 1 ELSE mailed[b]]
    /\ digested' = digested \cup ToMail
    /\ sweep' = NoSweep
    /\ UNCHANGED <<onCourse, reachable, fanouts, bell, silent>>

FailSweep ==
    /\ sweep.at = "gathered"
    /\ sweep' = NoSweep
    /\ UNCHANGED <<onCourse, reachable, fanouts, bell, digested, mailed, silent>>

-----------------------------------------------------------------------------
InboxNext ==
    \/ \E a \in Announcements : PostAnnouncement(a) \/ FanOut(a)
    \/ \E b \in Bells : ReadOne(b)
    \/ \E p \in People :
        \/ \E e \in Happenings : RecordNotice(e, p)
        \/ \E digest \in BOOLEAN : SetPreferences(p, digest)
        \/ ReadAll(p) \/ ComeOrGo(p)
    \/ PendingDigests \/ SendDigests \/ FailSweep

InboxSpec == InboxInit /\ [][InboxNext]_inboxVars

-----------------------------------------------------------------------------
(* A bell is in one mail exactly when it is stamped: one that came, or was
   read or silenced, while the sweep was at work is neither mailed twice nor
   stamped unmailed, and a sweep tried again mails nobody twice.
   notify/service.go, digestTenant.                                         *)
MailedOnce ==
    \A b \in Bells : mailed[b] = IF b \in digested THEN 1 ELSE 0
=============================================================================
