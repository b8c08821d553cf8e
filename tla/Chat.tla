-------------------------------- MODULE Chat --------------------------------
(***************************************************************************)
(* One conversation of package chat, and the sockets of package httpapi    *)
(* that its messages, and who is online, are heard on.                     *)
(*                                                                         *)
(* A message is stored in one transaction and published after it; what is  *)
(* published is a NOTIFY, which Postgres keeps in one queue and hands to   *)
(* the listener of every process from there.  A process dispatches one     *)
(* notification at a time: it collects the sockets that are to hear it     *)
(* under the hub's lock, and writes to them without.  Who is online is     *)
(* decided under that lock and published after it, too.                    *)
(*                                                                         *)
(* The ticket a socket is opened with stays in the process that minted it, *)
(* so a socket opens in that one.  A typing signal, which is kept nowhere, *)
(* is left out.                                                            *)
(***************************************************************************)
EXTENDS Naturals, Sequences

CONSTANTS
    Talkers,
    Texts,      \* the messages that may be sent
    Sockets,    \* a socket is opened once
    Instances   \* the processes behind the load balancer

Nothing == "nothing"

ASSUME NothingAssumption == Nothing \notin Instances \cup Talkers

VARIABLES
    kind,       \* of the conversation, once it is open
    members,    \* who is in it
    text,       \* the messages: how far the request that sends each has come
    queue,      \* the notifications, in the order Postgres took them
    reached,    \* how far each instance's listener has read of the queue
    deaf,       \* the instances whose listener has lost its connection
    writing,    \* what each instance has still to write of what it read
    socket,     \* each socket: whose it is, where, what its handler is doing,
                \* whether it is subscribed, and whether it can have missed any
    heard,      \* the messages each socket was written, in order
    seen,       \* what each socket was last told of each person
    joined,     \* history: who was ever in it
    crossed     \* history: whose comings and goings the hub lost sight of

groupVars == <<kind, members, joined>>
wireVars == <<reached, deaf, writing>>
toldVars == <<heard, seen>>
chatVars == <<groupVars, text, queue, wireVars, socket, toldVars, crossed>>

Notices == [type : {"message"}, text : Texts]
    \cup [type : {"presence"}, person : Talkers, state : {"online", "offline"}]

Unopened == [person |-> Nothing, instance |-> Nothing, at |-> "unopened",
             subscribed |-> FALSE, missed |-> FALSE]

ChatTypeOK ==
    /\ kind \in {"none", "direct", "group", "course"}
    /\ members \subseteq Talkers
    /\ text \in [Texts -> {"unsent", "stored", "told", "untold"}]
    /\ queue \in Seq(Notices)
    /\ reached \in [Instances -> 0 .. Len(queue)]
    /\ deaf \subseteq Instances
    /\ writing \in [Instances -> SUBSET (Sockets \X (1 .. Len(queue)))]
    /\ socket \in [Sockets -> [person : Talkers \cup {Nothing},
                               instance : Instances \cup {Nothing},
                               at : {"unopened", "hello", "reading", "asking",
                                     "goodbye", "closed"},
                               subscribed : BOOLEAN, missed : BOOLEAN]]
    /\ heard \in [Sockets -> Seq(Texts)]
    /\ seen \in [Sockets -> [Talkers -> {"online", "offline", Nothing}]]
    /\ joined \subseteq Talkers /\ crossed \subseteq Talkers

ChatInit ==
    /\ kind = "none" /\ members = {}
    /\ text = [m \in Texts |-> "unsent"]
    /\ queue = <<>>
    /\ reached = [i \in Instances |-> 0] /\ deaf = {}
    /\ writing = [i \in Instances |-> {}]
    /\ socket = [s \in Sockets |-> Unopened]
    /\ heard = [s \in Sockets |-> <<>>]
    /\ seen = [s \in Sockets |-> [p \in Talkers |-> Nothing]]
    /\ joined = {} /\ crossed = {}

-----------------------------------------------------------------------------
(* The conversation *)

Opened(as, people) ==
    /\ kind = "none"
    /\ kind' = as
    /\ members' = people /\ joined' = people
    /\ UNCHANGED <<wireVars, toldVars, text, queue, socket, crossed>>

CreateGroup(a, others) ==
    /\ others # {} /\ a \notin others
    /\ Opened("group", others \cup {a})

EnsureDirect(a, b) == a # b /\ Opened("direct", {a, b})

(* A course's channel is opened by whoever comes to it first, and has nobody in
   it until they join, in a second transaction.                             *)
EnsureCourseChannel == Opened("course", {})

Joins(p) ==
    /\ members' = members \cup {p}
    /\ joined' = joined \cup {p}
    /\ UNCHANGED <<wireVars, toldVars, kind, text, queue, socket, crossed>>

(* Somebody enrolled comes to the channel. *)
EnsureMember(p) == kind = "course" /\ Joins(p)

(* Whether the actor is the group's admin is asked in a transaction of its own
   before, and a request that passed may come here at any later time: all that
   is left of the question is that there was an admin.                      *)
AddMember(p) == kind = "group" /\ Joins(p)

RemoveMember(p) ==
    /\ kind = "group" /\ p \in members
    /\ members' = members \ {p}
    /\ UNCHANGED <<wireVars, toldVars, kind, joined, text, queue, socket, crossed>>

-----------------------------------------------------------------------------
(* Sending *)

(* pg_notify, on a connection of its own: at once, and in one order. *)
Publish(notice) == queue' = Append(queue, notice)

(* One transaction asks whether the sender is a member, and inserts. *)
InsertMessage(m, p) ==
    /\ text[m] = "unsent"
    /\ p \in members
    /\ text' = [text EXCEPT ![m] = "stored"]
    /\ UNCHANGED <<groupVars, wireVars, toldVars, queue, socket, crossed>>

PublishMessage(m) ==
    /\ text[m] = "stored"
    /\ text' = [text EXCEPT ![m] = "told"]
    /\ Publish([type |-> "message", text |-> m])
    /\ UNCHANGED <<groupVars, wireVars, toldVars, socket, crossed>>

(* The request ends between its steps, or the NOTIFY fails: the message, if it
   was stored, is read later, but not heard.                                *)
CutMessage(m) ==
    /\ text[m] = "stored"
    /\ text' = [text EXCEPT ![m] = "untold"]
    /\ UNCHANGED <<groupVars, wireVars, toldVars, queue, socket, crossed>>

-----------------------------------------------------------------------------
(* The hub: a socket opens, subscribes and closes *)

Registered(s) == socket[s].at \in {"hello", "reading", "asking"}
ByUser(i, p) ==
    {s \in Sockets : Registered(s) /\ socket[s].instance = i /\ socket[s].person = p}
Online(p) == \E i \in Instances : ByUser(i, p) # {}

(* Somebody is being announced, as having come or as having gone. *)
Announcing(p) ==
    \E s \in Sockets : socket[s].at \in {"hello", "goodbye"} /\ socket[s].person = p

(* Somebody who comes back before their going was told, or who comes to a
   second process, is out of the hub's sight.                               *)
OutOfSight(p, i) == Announcing(p) \/ \E j \in Instances \ {i} : ByUser(j, p) # {}

Register(s, i, p) ==
    LET first == ByUser(i, p) = {}
    IN  /\ socket[s].at = "unopened"
        /\ socket' = [socket EXCEPT ![s] =
              [person |-> p, instance |-> i,
               at |-> IF first THEN "hello" ELSE "reading",
               subscribed |-> FALSE, missed |-> i \in deaf]]
        /\ crossed' = IF first /\ OutOfSight(p, i) THEN crossed \cup {p} ELSE crossed
        /\ UNCHANGED <<groupVars, wireVars, toldVars, text, queue>>

Announced(s) == [type |-> "presence", person |-> socket[s].person,
                 state |-> IF socket[s].at = "hello" THEN "online" ELSE "offline"]
After(at) == IF at = "hello" THEN "reading" ELSE "closed"

AnnouncePresence(s) ==
    /\ socket[s].at \in {"hello", "goodbye"}
    /\ Publish(Announced(s))
    /\ socket' = [socket EXCEPT ![s].at = After(@)]
    /\ UNCHANGED <<groupVars, wireVars, toldVars, text, crossed>>

(* The NOTIFY fails, and nobody is told. *)
AnnounceFails(s) ==
    /\ socket[s].at \in {"hello", "goodbye"}
    /\ socket' = [socket EXCEPT ![s].at = After(@)]
    /\ crossed' = crossed \cup {socket[s].person}
    /\ UNCHANGED <<groupVars, wireVars, toldVars, text, queue>>

(* Membership is asked of the database, and then the socket is subscribed. *)
IsMember(s) ==
    /\ socket[s].at = "reading" /\ ~socket[s].subscribed
    /\ socket[s].person \in members
    /\ socket' = [socket EXCEPT ![s].at = "asking"]
    /\ UNCHANGED <<groupVars, wireVars, toldVars, text, queue, crossed>>

Subscribe(s) ==
    /\ socket[s].at = "asking"
    /\ socket' = [socket EXCEPT ![s].at = "reading", ![s].subscribed = TRUE]
    /\ UNCHANGED <<groupVars, wireVars, toldVars, text, queue, crossed>>

(* Mutant: whoever closes a socket is said to have gone. *)
UnregisterAny(s) ==
    /\ socket[s].at = "reading"
    /\ socket' = [socket EXCEPT ![s].at = "goodbye", ![s].subscribed = FALSE]
    /\ UNCHANGED <<groupVars, wireVars, toldVars, text, queue, crossed>>

(* The connection ends: its handler takes the socket out of both maps. *)
Unregister(s) ==
    LET p == socket[s].person
        i == socket[s].instance
        last == ByUser(i, p) = {s}
    IN  /\ socket[s].at = "reading"
        /\ socket' = [socket EXCEPT ![s].at = IF last THEN "goodbye" ELSE "closed",
                                    ![s].subscribed = FALSE]
        /\ UNCHANGED <<groupVars, wireVars, toldVars, text, queue, crossed>>

-----------------------------------------------------------------------------
(* The listener and the dispatcher of each instance *)

Targets(i, notice) ==
    {s \in Sockets :
        /\ Registered(s) /\ socket[s].instance = i
        /\ \/ notice.type = "message" /\ socket[s].subscribed
           \/ notice.type = "presence" /\ socket[s].person # notice.person}

(* Mutant: every notification is dispatched in a goroutine of its own. *)
DispatchApart(i) ==
    /\ i \notin deaf /\ reached[i] < Len(queue)
    /\ LET n == reached[i] + 1
       IN  /\ reached' = [reached EXCEPT ![i] = n]
           /\ writing' = [writing EXCEPT ![i] = @ \cup (Targets(i, queue[n]) \X {n})]
    /\ UNCHANGED <<groupVars, toldVars, text, queue, deaf, socket, crossed>>

Dispatch(i) ==
    /\ i \notin deaf /\ reached[i] < Len(queue)
    /\ writing[i] = {}
    /\ LET n == reached[i] + 1
       IN  /\ reached' = [reached EXCEPT ![i] = n]
           /\ writing' = [writing EXCEPT ![i] = Targets(i, queue[n]) \X {n}]
    /\ UNCHANGED <<groupVars, toldVars, text, queue, deaf, socket, crossed>>

(* A write to a socket whose handler has ended is an error nobody looks at. *)
Send(i, s, n) ==
    LET notice == queue[n]
    IN  /\ <<s, n>> \in writing[i]
        /\ writing' = [writing EXCEPT ![i] = @ \ {<<s, n>>}]
        /\ heard' = IF Registered(s) /\ notice.type = "message"
                    THEN [heard EXCEPT ![s] = Append(@, notice.text)] ELSE heard
        /\ seen' = IF Registered(s) /\ notice.type = "presence"
                   THEN [seen EXCEPT ![s][notice.person] = notice.state] ELSE seen
        /\ UNCHANGED <<groupVars, text, queue, reached, deaf, socket, crossed>>

(* A write that fails, or takes too long, is an error nobody looks at either,
   but the connection does not outlive it: the handler's next read ends it.  *)
WriteFails(i, s, n) ==
    /\ <<s, n>> \in writing[i] /\ Registered(s)
    /\ writing' = [writing EXCEPT ![i] = @ \ {<<s, n>>}]
    /\ socket' = [socket EXCEPT ![s].missed = TRUE]
    /\ UNCHANGED <<groupVars, toldVars, text, queue, reached, deaf, crossed>>

(* The listener's connection drops; what is notified until it listens again is
   lost to the sockets of its instance.                                     *)
DropListener(i) ==
    /\ i \notin deaf /\ writing[i] = {}
    /\ deaf' = deaf \cup {i}
    /\ reached' = [reached EXCEPT ![i] = 0]
    /\ socket' = [s \in Sockets |->
          IF socket[s].instance = i THEN [socket[s] EXCEPT !.missed = TRUE] ELSE socket[s]]
    /\ UNCHANGED <<groupVars, toldVars, text, queue, writing, crossed>>

Listen(i) ==
    /\ i \in deaf
    /\ deaf' = deaf \ {i}
    /\ reached' = [reached EXCEPT ![i] = Len(queue)]
    /\ UNCHANGED <<groupVars, toldVars, text, queue, writing, socket, crossed>>

(* The process stops: its sockets are gone, and nobody says so. *)
Stop(i) ==
    LET here == {s \in Sockets : socket[s].instance = i
                     /\ (Registered(s) \/ socket[s].at = "goodbye")}
    IN  /\ here # {}
        /\ socket' = [s \in Sockets |-> IF s \in here
              THEN [socket[s] EXCEPT !.at = "closed", !.subscribed = FALSE]
              ELSE socket[s]]
        /\ crossed' = crossed \cup {socket[s].person : s \in here}
        /\ deaf' = deaf \cup {i}
        /\ reached' = [reached EXCEPT ![i] = 0]
        /\ writing' = [writing EXCEPT ![i] = {}]
        /\ UNCHANGED <<groupVars, toldVars, text, queue>>

-----------------------------------------------------------------------------
ChatNext ==
    \/ \E a \in Talkers :
           \/ \E others \in SUBSET Talkers : CreateGroup(a, others)
           \/ \E b \in Talkers : EnsureDirect(a, b)
    \/ EnsureCourseChannel
    \/ \E p \in Talkers : EnsureMember(p) \/ AddMember(p) \/ RemoveMember(p)
    \/ \E m \in Texts : (\E p \in Talkers : InsertMessage(m, p))
           \/ PublishMessage(m) \/ CutMessage(m)
    \/ \E s \in Sockets :
          \/ \E i \in Instances, p \in Talkers : Register(s, i, p)
          \/ AnnouncePresence(s) \/ AnnounceFails(s)
          \/ IsMember(s) \/ Subscribe(s) \/ Unregister(s)
    \/ \E i \in Instances :
          \/ Dispatch(i) \/ DropListener(i) \/ Listen(i) \/ Stop(i)
          \/ \E s \in Sockets : \E n \in 1 .. Len(queue) : Send(i, s, n) \/ WriteFails(i, s, n)

ChatSpec == ChatInit /\ [][ChatNext]_chatVars

-----------------------------------------------------------------------------
Before(s, a, b) ==
    \E x, y \in DOMAIN heard[s] : x < y /\ heard[s][x] = a /\ heard[s][y] = b

(* Whichever instances two members are at, and whatever their listeners miss,
   they hear the messages in one order and each at most once; what they hear
   was stored, and who hears it was let into the conversation.  httpapi/chat_ws.go,
   Dispatch.                                                                *)
HeardInOneOrder ==
    /\ \A s, t \in Sockets : \A a, b \in Texts : ~(Before(s, a, b) /\ Before(t, b, a))
    /\ \A s \in Sockets : \A x \in DOMAIN heard[s] :
          text[heard[s][x]] = "told" /\ socket[s].person \in joined

(* What makes it inductive.  A message has one place in the queue, and what a
   socket heard was heard in the order of the places; what an instance is
   writing is what its listener read last, and nothing its sockets heard lies
   beyond that.  Only who was let in is subscribed.                         *)
Message(m) == [type |-> "message", text |-> m]
Places == 1 .. Len(queue)

OnePlace ==
    \A m \in Texts : \A n \in Places : queue[n] = Message(m) =>
        text[m] = "told" /\ \A k \in Places : queue[k] = Message(m) => k = n

HeardHasPlace ==
    \A s \in Sockets : \A x \in DOMAIN heard[s] :
        \E n \in Places : queue[n] = Message(heard[s][x])

HeardInPlace ==
    \A s \in Sockets : \A x, y \in DOMAIN heard[s] : \A n, k \in Places :
        /\ x < y
        /\ queue[n] = Message(heard[s][x]) /\ queue[k] = Message(heard[s][y])
        => n < k

HeardWithin(s, bound) ==
    \A x \in DOMAIN heard[s] : \A k \in Places :
        queue[k] = Message(heard[s][x]) => k <= bound

HeardIsReached ==
    \A s \in Sockets : \A i \in Instances :
        socket[s].instance = i /\ i \notin deaf => HeardWithin(s, reached[i])

WritesTheLast ==
    \A i \in Instances : \A s \in Sockets : \A n \in Places :
        <<s, n>> \in writing[i] =>
            /\ i \notin deaf /\ n = reached[i] /\ socket[s].instance = i
            /\ HeardWithin(s, n - 1)
            /\ queue[n].type = "message" => socket[s].person \in joined
            /\ queue[n].type = "presence" => socket[s].person # queue[n].person

Admitted ==
    /\ members \subseteq joined /\ (kind = "none" => joined = {})
    /\ \A s \in Sockets :
          \/ socket[s].subscribed \/ socket[s].at = "asking" \/ heard[s] # <<>>
          => socket[s].person \in joined

SocketsAreSomebodys ==
    \A s \in Sockets :
        /\ socket[s].at = "unopened" =>
              /\ socket[s] = Unopened /\ heard[s] = <<>>
              /\ \A p \in Talkers : seen[s][p] = Nothing
        /\ socket[s].at \notin {"unopened", "closed"} =>
              socket[s].instance \in Instances /\ socket[s].person \in Talkers

MessagesKept ==
    /\ OnePlace /\ HeardHasPlace /\ HeardInPlace /\ HeardIsReached
    /\ WritesTheLast /\ Admitted /\ SocketsAreSomebodys

(* Nothing is on its way to a socket. *)
Quiet(s) == LET i == socket[s].instance
            IN  writing[i] = {} /\ reached[i] = Len(queue)

(* What a socket was last told of somebody is so as soon as all that was
   published is written, however many sockets they open and close in one
   process: it takes a going and a coming back that cross, a second process, a
   lost NOTIFY or a process that stops to tell it wrong.  httpapi/chat_ws.go,
   register and unregister.                                                 *)
PresenceIsTrue ==
    \A s \in Sockets : \A p \in Talkers :
        /\ Registered(s) /\ ~socket[s].missed /\ Quiet(s)
        /\ p \notin crossed /\ ~Announcing(p)
        => seen[s][p] \in {Nothing, IF Online(p) THEN "online" ELSE "offline"}

(* What makes it inductive.  Of somebody the hub has not lost sight of, all the
   sockets are in one instance, one of them at most is being announced, and
   none is open when it is the going; what was last published of them is so
   when nothing is being announced.  What a socket was told is the last notice
   its instance has read, but for one that is being written.                *)
Tells(n, p) == queue[n].type = "presence" /\ queue[n].person = p
State(p) == IF Online(p) THEN "online" ELSE "offline"

Together(p) ==
    \A s, t \in Sockets :
        /\ socket[s].person = p /\ socket[t].person = p
        => /\ Registered(s) /\ Registered(t) => socket[s].instance = socket[t].instance
           /\ socket[s].at \in {"hello", "goodbye"} /\ socket[t].at \in {"hello", "goodbye"}
                  => s = t
           /\ socket[s].at = "goodbye" => ~Registered(t)

LastIsSo(p) ==
    ~Announcing(p) =>
        \A n \in Places :
            Tells(n, p) /\ (\A k \in Places : Tells(k, p) => k <= n)
                => queue[n].state = State(p)

InSight(p) == Together(p) /\ LastIsSo(p)

SeenIsLatest(s, i, p) ==
    \/ seen[s][p] = Nothing
    \/ /\ socket[s].person # p
       /\ \E n \in Places :
             /\ n <= reached[i] /\ Tells(n, p) /\ seen[s][p] = queue[n].state
             /\ \A k \in Places :
                   n < k /\ k <= reached[i] /\ Tells(k, p) => <<s, k>> \in writing[i]

PresenceKept ==
    /\ \A p \in Talkers \ crossed : InSight(p)
    /\ \A s \in Sockets : \A i \in Instances :
          Registered(s) /\ ~socket[s].missed /\ socket[s].instance = i
              => i \notin deaf /\ \A p \in Talkers : SeenIsLatest(s, i, p)
=============================================================================
