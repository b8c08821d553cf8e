----------------------------- MODULE ChatProofs -----------------------------
(* What is proved of a conversation and of the sockets it is heard on, for any
   number of people, messages, sockets and processes behind the balancer; and
   of all that the school has of one learner, desk by desk.                 *)
EXTENDS MCLearner, CommerceProofs, ProgressProofs, AttemptsProofs, SequenceTheorems

-----------------------------------------------------------------------------
(* Chat: types, and what each kind of step changes. *)

SocketRows == [person : Talkers \cup {Nothing}, instance : Instances \cup {Nothing},
               at : {"unopened", "hello", "reading", "asking", "goodbye", "closed"},
               subscribed : BOOLEAN, missed : BOOLEAN]

(* A notice is appended: every place keeps its notice. *)
LEMMA QueueGrows ==
    ASSUME queue \in Seq(Notices), NEW notice \in Notices, Publish(notice)
    PROVE  /\ queue' \in Seq(Notices)
           /\ Len(queue) \in Nat /\ Len(queue') = Len(queue) + 1
           /\ \A n \in Places : n \in Places' /\ queue'[n] = queue[n]
           /\ Places' = Places \cup {Len(queue) + 1}
           /\ queue'[Len(queue) + 1] = notice
BY AppendProperties DEF Publish, Places

(* The steps of one socket change nothing of another. *)
SocketStep(s) ==
    \/ \E i \in Instances, p \in Talkers : Register(s, i, p)
    \/ AnnouncePresence(s) \/ AnnounceFails(s)
    \/ IsMember(s) \/ Subscribe(s) \/ Unregister(s)

LEMMA SocketStepIsOwn ==
    ASSUME ChatTypeOK, NEW s \in Sockets, SocketStep(s)
    PROVE  /\ socket' \in [Sockets -> SocketRows]
           /\ \A t \in Sockets \ {s} : socket'[t] = socket[t]
<1>1. socket \in [Sockets -> SocketRows]
  BY DEF ChatTypeOK, SocketRows
<1>2. \E r \in SocketRows : socket' = [socket EXCEPT ![s] = r]
  <2>1. ASSUME NEW i \in Instances, NEW p \in Talkers, Register(s, i, p)
        PROVE  \E r \in SocketRows : socket' = [socket EXCEPT ![s] = r]
    <3> DEFINE then == IF ByUser(i, p) = {} THEN "hello" ELSE "reading"
    <3>1. [person |-> p, instance |-> i, at |-> then, subscribed |-> FALSE,
           missed |-> i \in deaf] \in SocketRows
      BY DEF SocketRows
    <3>2. socket' = [socket EXCEPT ![s] =
              [person |-> p, instance |-> i, at |-> then, subscribed |-> FALSE,
               missed |-> i \in deaf]]
      BY <2>1 DEF Register
    <3> QED BY <3>1, <3>2
  <2>2. CASE AnnouncePresence(s) \/ AnnounceFails(s)
    <3>1. [socket[s] EXCEPT !.at = After(@)] \in SocketRows
      BY <1>1 DEF SocketRows, After
    <3>2. socket' = [socket EXCEPT ![s] = [socket[s] EXCEPT !.at = After(@)]]
      BY <2>2 DEF AnnouncePresence, AnnounceFails
    <3> QED BY <3>1, <3>2
  <2>3. CASE IsMember(s)
    <3>1. [socket[s] EXCEPT !.at = "asking"] \in SocketRows
      BY <1>1 DEF SocketRows
    <3>2. socket' = [socket EXCEPT ![s] = [socket[s] EXCEPT !.at = "asking"]]
      BY <2>3 DEF IsMember
    <3> QED BY <3>1, <3>2
  <2>4. CASE Subscribe(s)
    <3>1. [socket[s] EXCEPT !.at = "reading", !.subscribed = TRUE] \in SocketRows
      BY <1>1 DEF SocketRows
    <3>2. socket' = [socket EXCEPT ![s] =
                        [socket[s] EXCEPT !.at = "reading", !.subscribed = TRUE]]
      BY <1>1, <2>4 DEF Subscribe
    <3> QED BY <3>1, <3>2
  <2>5. CASE Unregister(s)
    <3> DEFINE then == IF ByUser(socket[s].instance, socket[s].person) = {s}
                       THEN "goodbye" ELSE "closed"
    <3>1. [socket[s] EXCEPT !.at = then, !.subscribed = FALSE] \in SocketRows
      BY <1>1 DEF SocketRows
    <3>2. socket' = [socket EXCEPT ![s] =
                        [socket[s] EXCEPT !.at = then, !.subscribed = FALSE]]
      BY <1>1, <2>5 DEF Unregister
    <3> QED BY <3>1, <3>2
  <2> QED BY <2>1, <2>2, <2>3, <2>4, <2>5 DEF SocketStep
<1> QED BY <1>1, <1>2

(* What each of them makes of it. *)
LEMMA RegisterEffect ==
    ASSUME ChatTypeOK, NEW s \in Sockets, NEW i \in Instances, NEW p \in Talkers,
           Register(s, i, p)
    PROVE  /\ socket[s].at = "unopened"
           /\ ByUser(i, p) = {} => socket'[s].at = "hello"
           /\ ByUser(i, p) # {} => socket'[s].at = "reading"
           /\ socket'[s].instance = i /\ socket'[s].person = p
           /\ ~socket'[s].subscribed
           /\ socket'[s].missed <=> i \in deaf
           /\ ByUser(i, p) = {} /\ OutOfSight(p, i) => p \in crossed'
           /\ UNCHANGED queue
<1> DEFINE then == IF ByUser(i, p) = {} THEN "hello" ELSE "reading"
<1>1. socket' = [socket EXCEPT ![s] =
          [person |-> p, instance |-> i, at |-> then, subscribed |-> FALSE,
           missed |-> i \in deaf]]
  BY DEF Register
<1>2. socket'[s] = [person |-> p, instance |-> i, at |-> then, subscribed |-> FALSE,
                    missed |-> i \in deaf]
  BY <1>1 DEF ChatTypeOK
<1>3. /\ socket[s].at = "unopened"
      /\ ByUser(i, p) = {} /\ OutOfSight(p, i) => p \in crossed'
      /\ UNCHANGED queue
  BY DEF Register
<1>4. socket'[s].at = then /\ socket'[s].instance = i /\ socket'[s].person = p
  BY <1>2
<1>5. ~socket'[s].subscribed
  BY <1>2
<1>6. socket'[s].missed <=> i \in deaf
  <2>1. \A b \in BOOLEAN : socket'[s] = [person |-> p, instance |-> i, at |-> then,
            subscribed |-> FALSE, missed |-> b] => socket'[s].missed = b
    OBVIOUS
  <2>2. socket'[s].missed = (i \in deaf)
    BY <1>2, <2>1
  <2> QED BY <2>2
<1> QED BY <1>3, <1>4, <1>5, <1>6

LEMMA AnnounceEffect ==
    ASSUME ChatTypeOK, NEW s \in Sockets, AnnouncePresence(s) \/ AnnounceFails(s)
    PROVE  /\ socket[s].at \in {"hello", "goodbye"}
           /\ socket'[s].at = After(socket[s].at) /\ socket'[s].at \in {"reading", "closed"}
           /\ socket'[s].instance = socket[s].instance
           /\ socket'[s].person = socket[s].person
           /\ socket'[s].subscribed = socket[s].subscribed
           /\ socket'[s].missed = socket[s].missed
<1>1. socket'[s] = [socket[s] EXCEPT !.at = After(@)] /\ socket[s] \in SocketRows
  BY DEF AnnouncePresence, AnnounceFails, ChatTypeOK, SocketRows
<1> QED BY <1>1 DEF AnnouncePresence, AnnounceFails, After, SocketRows

LEMMA AskingEffect ==
    ASSUME ChatTypeOK, NEW s \in Sockets, IsMember(s) \/ Subscribe(s)
    PROVE  /\ socket[s].at \in {"reading", "asking"}
           /\ socket'[s].at \in {"reading", "asking"}
           /\ socket'[s].instance = socket[s].instance
           /\ socket'[s].person = socket[s].person
           /\ socket'[s].missed = socket[s].missed
           /\ socket'[s].at = "asking" => socket[s].person \in members
           /\ socket'[s].subscribed => socket[s].subscribed \/ socket[s].at = "asking"
           /\ UNCHANGED <<queue, crossed>>
<1>1. socket \in [Sockets -> SocketRows]
  BY DEF ChatTypeOK, SocketRows
<1>2. CASE IsMember(s)
  <2>1. socket'[s] = [socket[s] EXCEPT !.at = "asking"]
    BY <1>1, <1>2 DEF IsMember
  <2> QED BY <1>1, <1>2, <2>1 DEF IsMember, SocketRows
<1>3. CASE Subscribe(s)
  <2>1. socket'[s] = [socket[s] EXCEPT !.at = "reading", !.subscribed = TRUE]
    BY <1>1, <1>3 DEF Subscribe
  <2> QED BY <1>1, <1>3, <2>1 DEF Subscribe, SocketRows
<1> QED BY <1>2, <1>3

LEMMA UnregisterEffect ==
    ASSUME ChatTypeOK, NEW s \in Sockets, Unregister(s)
    PROVE  /\ socket[s].at = "reading"
           /\ socket'[s].at = IF ByUser(socket[s].instance, socket[s].person) = {s}
                              THEN "goodbye" ELSE "closed"
           /\ socket'[s].instance = socket[s].instance
           /\ socket'[s].person = socket[s].person
           /\ ~socket'[s].subscribed /\ socket'[s].missed = socket[s].missed
           /\ UNCHANGED <<queue, crossed>>
<1> DEFINE then == IF ByUser(socket[s].instance, socket[s].person) = {s}
                   THEN "goodbye" ELSE "closed"
<1>1. socket \in [Sockets -> SocketRows]
  BY DEF ChatTypeOK, SocketRows
<1>2. socket'[s] = [socket[s] EXCEPT !.at = then, !.subscribed = FALSE]
  BY <1>1 DEF Unregister
<1>3. socket[s].at = "reading" /\ UNCHANGED <<queue, crossed>>
  BY DEF Unregister
<1> QED BY <1>1, <1>2, <1>3 DEF SocketRows

THEOREM ChatInitTyped == ChatInit => ChatTypeOK
BY DEF ChatInit, ChatTypeOK, Unopened

LEMMA AnnouncedIsNotice ==
    ASSUME ChatTypeOK, SocketsAreSomebodys, NEW s \in Sockets,
           socket[s].at \in {"hello", "goodbye"}
    PROVE  Announced(s) \in Notices
BY DEF SocketsAreSomebodys, Announced, Notices

(* The steps about the conversation and its messages that publish nothing. *)
ConversationStep ==
    \/ \E a \in Talkers :
           \/ \E others \in SUBSET Talkers : CreateGroup(a, others)
           \/ \E b \in Talkers : EnsureDirect(a, b)
    \/ EnsureCourseChannel
    \/ \E p \in Talkers : EnsureMember(p) \/ AddMember(p) \/ RemoveMember(p)
    \/ \E m \in Texts : (\E p \in Talkers : InsertMessage(m, p)) \/ CutMessage(m)

LEMMA ConversationKeeps ==
    ASSUME ChatTypeOK, Admitted, ConversationStep
    PROVE  /\ UNCHANGED <<queue, wireVars, socket, toldVars, crossed>>
           /\ ChatTypeOK'
           /\ \A m \in Texts : text[m] = "told" => text'[m] = "told"
           /\ joined \subseteq joined' /\ members' \subseteq joined'
           /\ kind' = "none" => joined' = {}
<1>1. UNCHANGED <<queue, wireVars, socket, toldVars, crossed>>
  BY DEF ConversationStep, CreateGroup, EnsureDirect, EnsureCourseChannel, Opened,
     EnsureMember, AddMember, Joins, RemoveMember, InsertMessage, CutMessage
<1>2. UNCHANGED <<queue, reached, deaf, writing, socket, heard, seen, crossed>>
  BY <1>1 DEF wireVars, toldVars
<1>3. CASE UNCHANGED groupVars
  <2>1. ASSUME NEW m \in Texts, NEW p \in Talkers, InsertMessage(m, p)
        PROVE  /\ text' \in [Texts -> {"unsent", "stored", "told", "untold"}]
               /\ \A n \in Texts : text[n] = "told" => text'[n] = "told"
    BY <2>1 DEF InsertMessage, ChatTypeOK
  <2>2. /\ text' \in [Texts -> {"unsent", "stored", "told", "untold"}]
        /\ \A n \in Texts : text[n] = "told" => text'[n] = "told"
    <3>1. ASSUME NEW m \in Texts, CutMessage(m)
          PROVE  /\ text' \in [Texts -> {"unsent", "stored", "told", "untold"}]
                 /\ \A n \in Texts : text[n] = "told" => text'[n] = "told"
      BY <3>1 DEF CutMessage, ChatTypeOK
    <3>2. CASE UNCHANGED text
      BY <3>2 DEF ChatTypeOK
    <3>3. CASE \E m \in Texts : (\E p \in Talkers : InsertMessage(m, p)) \/ CutMessage(m)
      BY <2>1, <3>1, <3>3
    <3> QED BY <3>2, <3>3 DEF ConversationStep, CreateGroup, EnsureDirect,
         EnsureCourseChannel, Opened, EnsureMember, AddMember, Joins, RemoveMember
  <2> QED BY <1>1, <1>2, <1>3, <2>2 DEF groupVars, ChatTypeOK, Admitted
<1>4. CASE UNCHANGED text
  <2>1. /\ kind' \in {"none", "direct", "group", "course"}
        /\ members' \subseteq Talkers /\ joined' \subseteq Talkers
        /\ joined \subseteq joined' /\ members' \subseteq joined'
        /\ kind' = "none" => joined' = {}
    <3>1. CASE \/ EnsureCourseChannel
                \/ \E a \in Talkers :
                      \/ \E others \in SUBSET Talkers : CreateGroup(a, others)
                      \/ \E b \in Talkers : EnsureDirect(a, b)
      BY <3>1 DEF ChatTypeOK, Admitted, CreateGroup, EnsureDirect,
         EnsureCourseChannel, Opened
    <3>2. CASE \E p \in Talkers : EnsureMember(p) \/ AddMember(p) \/ RemoveMember(p)
      <4>1. PICK p \in Talkers : EnsureMember(p) \/ AddMember(p) \/ RemoveMember(p)
        BY <3>2
      <4>2. CASE kind # "none" /\ Joins(p)
        BY <4>2 DEF ChatTypeOK, Admitted, Joins
      <4>3. CASE RemoveMember(p)
        BY <4>3 DEF ChatTypeOK, Admitted, RemoveMember
      <4> QED BY <4>1, <4>2, <4>3 DEF EnsureMember, AddMember
    <3>3. CASE \E m \in Texts : (\E p \in Talkers : InsertMessage(m, p)) \/ CutMessage(m)
      BY <3>3 DEF ChatTypeOK, Admitted, InsertMessage, CutMessage, groupVars
    <3> QED BY <3>1, <3>2, <3>3 DEF ConversationStep
  <2> QED BY <1>1, <1>2, <1>4, <2>1 DEF ChatTypeOK
<1> QED BY <1>3, <1>4 DEF ConversationStep, CreateGroup, EnsureDirect,
     EnsureCourseChannel, Opened, EnsureMember, AddMember, Joins, RemoveMember,
     InsertMessage, CutMessage

(* The notices published. *)
LEMMA PublishTyped ==
    ASSUME ChatTypeOK, NEW notice \in Notices, Publish(notice),
           UNCHANGED <<kind, members, joined, reached, deaf, writing, heard, seen>>,
           text' \in [Texts -> {"unsent", "stored", "told", "untold"}],
           socket' \in [Sockets -> SocketRows], crossed' \subseteq Talkers
    PROVE  ChatTypeOK'
<1>1. /\ queue' \in Seq(Notices) /\ Len(queue) \in Nat /\ Len(queue') = Len(queue) + 1
  BY QueueGrows DEF ChatTypeOK
<1>2. 0 .. Len(queue) \subseteq 0 .. Len(queue') /\ 1 .. Len(queue) \subseteq 1 .. Len(queue')
  BY <1>1
<1>3. reached' \in [Instances -> 0 .. Len(queue')]
  BY <1>2 DEF ChatTypeOK
<1>4. writing' \in [Instances -> SUBSET (Sockets \X (1 .. Len(queue')))]
  BY <1>2 DEF ChatTypeOK
<1> QED BY <1>1, <1>3, <1>4 DEF ChatTypeOK, SocketRows

LEMMA SocketStepTyped ==
    ASSUME ChatTypeOK, SocketsAreSomebodys, NEW s \in Sockets, SocketStep(s)
    PROVE  ChatTypeOK'
<1>1. socket' \in [Sockets -> SocketRows]
  BY SocketStepIsOwn
<1>2. UNCHANGED <<kind, members, joined, reached, deaf, writing, heard, seen, text>>
  BY DEF SocketStep, Register, AnnouncePresence, AnnounceFails, IsMember, Subscribe,
     Unregister, groupVars, wireVars, toldVars
<1>3. crossed' \subseteq Talkers
  BY DEF SocketStep, Register, AnnouncePresence, AnnounceFails, IsMember, Subscribe,
     Unregister, ChatTypeOK, SocketsAreSomebodys
<1>4. CASE UNCHANGED queue
  BY <1>1, <1>2, <1>3, <1>4 DEF ChatTypeOK, SocketRows
<1>5. CASE AnnouncePresence(s)
  <2>1. Announced(s) \in Notices /\ Publish(Announced(s))
    BY <1>5, AnnouncedIsNotice DEF AnnouncePresence
  <2> QED BY <1>1, <1>2, <1>3, <2>1, PublishTyped DEF ChatTypeOK
<1> QED BY <1>4, <1>5 DEF SocketStep, Register, AnnounceFails, IsMember, Subscribe,
     Unregister

LEMMA PublishMessageTyped ==
    ASSUME ChatTypeOK, NEW m \in Texts, PublishMessage(m)
    PROVE  ChatTypeOK'
<1>1. Message(m) \in Notices /\ Publish(Message(m))
  BY DEF PublishMessage, Message, Notices
<1> QED BY <1>1, PublishTyped
     DEF PublishMessage, ChatTypeOK, SocketRows, groupVars, wireVars, toldVars

(* The steps of an instance. *)
LEMMA DispatchEffect ==
    ASSUME ChatTypeOK, NEW i \in Instances, Dispatch(i)
    PROVE  /\ i \notin deaf /\ writing[i] = {}
           /\ reached[i] + 1 \in Places
           /\ reached' = [reached EXCEPT ![i] = reached[i] + 1]
           /\ writing' = [writing EXCEPT ![i] =
                              Targets(i, queue[reached[i] + 1]) \X {reached[i] + 1}]
           /\ Targets(i, queue[reached[i] + 1]) \subseteq Sockets
           /\ UNCHANGED <<kind, members, joined, heard, seen, text, queue, deaf, socket, crossed>>
BY DEF ChatTypeOK, Dispatch, Places, Targets, groupVars, toldVars

LEMMA OneSetReplaced ==
    ASSUME NEW A, NEW B, NEW f \in [A -> SUBSET B], NEW x \in A, NEW v \in SUBSET B
    PROVE  [f EXCEPT ![x] = v] \in [A -> SUBSET B]
OBVIOUS

LEMMA DispatchTyped ==
    ASSUME ChatTypeOK, NEW i \in Instances, Dispatch(i)
    PROVE  ChatTypeOK'
<1>1. reached' \in [Instances -> 0 .. Len(queue')]
  BY DispatchEffect DEF ChatTypeOK, Places
<1>2. writing' \in [Instances -> SUBSET (Sockets \X (1 .. Len(queue')))]
  <2>1. Targets(i, queue[reached[i] + 1]) \X {reached[i] + 1} \subseteq Sockets \X Places
    BY DispatchEffect
  <2>2. writing \in [Instances -> SUBSET (Sockets \X Places)]
    BY DEF ChatTypeOK, Places
  <2>3. writing' \in [Instances -> SUBSET (Sockets \X Places)]
    BY <2>1, <2>2, OneSetReplaced, DispatchEffect
  <2> QED BY <2>3, DispatchEffect DEF Places
<1> QED BY <1>1, <1>2, DispatchEffect DEF ChatTypeOK

LEMMA SendTyped ==
    ASSUME ChatTypeOK, NEW i \in Instances, NEW s \in Sockets, NEW n \in Places,
           Send(i, s, n)
    PROVE  ChatTypeOK'
<1>1. /\ UNCHANGED <<kind, members, joined, text, queue, reached, deaf, socket, crossed>>
      /\ writing' = [writing EXCEPT ![i] = writing[i] \ {<<s, n>>}]
  BY DEF Send, groupVars
<1>2. queue[n] \in Notices
  BY DEF ChatTypeOK, Places
<1>3. heard' \in [Sockets -> Seq(Texts)]
  <2>1. CASE queue[n].type = "message"
    <3>1. queue[n].text \in Texts
      BY <1>2, <2>1 DEF Notices
    <3>2. Append(heard[s], queue[n].text) \in Seq(Texts)
      BY <3>1, AppendProperties DEF ChatTypeOK
    <3> QED BY <3>2 DEF Send, ChatTypeOK
  <2> QED BY <2>1 DEF Send, ChatTypeOK
<1>4. seen' \in [Sockets -> [Talkers -> {"online", "offline", Nothing}]]
  <2>1. CASE queue[n].type = "presence"
    <3>1. queue[n].person \in Talkers /\ queue[n].state \in {"online", "offline"}
      BY <1>2, <2>1 DEF Notices
    <3> QED BY <3>1 DEF Send, ChatTypeOK
  <2> QED BY <2>1 DEF Send, ChatTypeOK
<1>5. writing' \in [Instances -> SUBSET (Sockets \X (1 .. Len(queue')))]
  BY <1>1 DEF ChatTypeOK
<1> QED BY <1>1, <1>3, <1>4, <1>5 DEF ChatTypeOK

(* A write that fails leaves its socket where it was, having missed something. *)
LEMMA WriteFailsEffect ==
    ASSUME ChatTypeOK, NEW i \in Instances, NEW s \in Sockets, NEW n \in Places,
           WriteFails(i, s, n)
    PROVE  /\ UNCHANGED <<kind, members, joined, text, queue, reached, deaf, heard, seen,
                          crossed>>
           /\ Registered(s) /\ socket'[s].missed
           /\ \A t \in Sockets : /\ t # s => socket'[t] = socket[t]
                                 /\ socket'[t].person = socket[t].person
                                 /\ socket'[t].instance = socket[t].instance
                                 /\ socket'[t].at = socket[t].at
                                 /\ socket'[t].subscribed = socket[t].subscribed
           /\ writing' = [writing EXCEPT ![i] = writing[i] \ {<<s, n>>}]
           /\ ChatTypeOK'
<1>1. socket \in [Sockets -> SocketRows]
  BY DEF ChatTypeOK, SocketRows
<1>2. /\ UNCHANGED <<kind, members, joined, text, queue, reached, deaf, heard, seen, crossed>>
      /\ writing' = [writing EXCEPT ![i] = writing[i] \ {<<s, n>>}]
      /\ socket' = [socket EXCEPT ![s] = [socket[s] EXCEPT !.missed = TRUE]]
      /\ Registered(s)
  BY DEF WriteFails, groupVars, toldVars
<1>3. [socket[s] EXCEPT !.missed = TRUE] \in SocketRows
  BY <1>1 DEF SocketRows
<1>4. socket' \in [Sockets -> SocketRows] /\ socket'[s] = [socket[s] EXCEPT !.missed = TRUE]
  BY <1>1, <1>2, <1>3
<1>5. writing' \in [Instances -> SUBSET (Sockets \X (1 .. Len(queue)))]
  BY <1>2 DEF ChatTypeOK
<1>6. ChatTypeOK'
  BY <1>2, <1>4, <1>5 DEF ChatTypeOK, SocketRows
<1>7. \A t \in Sockets : t # s => socket'[t] = socket[t]
  BY <1>1, <1>2
<1>8. /\ socket'[s].person = socket[s].person /\ socket'[s].instance = socket[s].instance
      /\ socket'[s].at = socket[s].at /\ socket'[s].subscribed = socket[s].subscribed
      /\ socket'[s].missed
  BY <1>1, <1>4 DEF SocketRows
<1> QED BY <1>2, <1>6, <1>7, <1>8

(* The listener drops, listens again, or goes with its process: the instance
   is writing nothing then, and has lost its place or is at the end.        *)
ListenerStep(i) == DropListener(i) \/ Listen(i) \/ Stop(i)

LEMMA ListenerEffect ==
    ASSUME ChatTypeOK, WritesTheLast, SocketsAreSomebodys,
           NEW i \in Instances, ListenerStep(i)
    PROVE  /\ UNCHANGED <<kind, members, joined, text, queue, heard, seen>>
           /\ reached' \in [Instances -> 0 .. Len(queue)]
           /\ writing' = [writing EXCEPT ![i] = {}]
           /\ deaf' \subseteq Instances
           /\ \A j \in Instances \ {i} :
                 reached'[j] = reached[j] /\ (j \in deaf' <=> j \in deaf)
           /\ i \in deaf' \/ reached'[i] = Len(queue)
           /\ socket' \in [Sockets -> SocketRows]
           /\ \A s \in Sockets :
                 /\ socket'[s].person = socket[s].person
                 /\ socket'[s].instance = socket[s].instance
                 /\ socket[s].instance # i => socket'[s] = socket[s]
                 /\ socket'[s].subscribed => socket[s].subscribed
                 /\ socket'[s].at = socket[s].at
                       \/ (socket'[s].at = "closed" /\ socket[s].at # "unopened")
                 /\ ~socket'[s].missed => ~socket[s].missed
                 /\ socket[s].instance = i /\ Registered(s)' =>
                       i \in deaf \/ socket'[s].missed
           /\ \A p \in Talkers \ crossed' :
                 /\ p \notin crossed
                 /\ \A s \in Sockets : socket[s].person = p => socket'[s].at = socket[s].at
           /\ crossed' \subseteq Talkers
<1>1. socket \in [Sockets -> SocketRows]
  BY DEF ChatTypeOK, SocketRows
<1>2. i \in deaf => writing[i] = {}
  BY DEF WritesTheLast, ChatTypeOK, Places
<1>3. UNCHANGED <<kind, members, joined, text, queue, heard, seen>>
  BY DEF ListenerStep, DropListener, Listen, Stop, groupVars, toldVars
<1>4. writing' = [writing EXCEPT ![i] = {}]
  BY <1>2 DEF ListenerStep, DropListener, Listen, Stop, ChatTypeOK
<1>5. /\ reached' \in [Instances -> 0 .. Len(queue)]
      /\ \A j \in Instances \ {i} :
            reached'[j] = reached[j] /\ (j \in deaf' <=> j \in deaf)
      /\ i \in deaf' \/ reached'[i] = Len(queue)
      /\ deaf' \subseteq Instances
  <2> Len(queue) \in Nat
    BY DEF ChatTypeOK
  <2>1. CASE DropListener(i) \/ Stop(i)
    <3>1. deaf' = deaf \cup {i} /\ reached' = [reached EXCEPT ![i] = 0]
      BY <2>1 DEF DropListener, Stop
    <3> QED BY <3>1 DEF ChatTypeOK
  <2>2. CASE Listen(i)
    <3>1. deaf' = deaf \ {i} /\ reached' = [reached EXCEPT ![i] = Len(queue)]
      BY <2>2 DEF Listen
    <3> QED BY <3>1 DEF ChatTypeOK
  <2> QED BY <2>1, <2>2 DEF ListenerStep
<1>6. CASE DropListener(i)
  <2>1. socket' = [s \in Sockets |->
          IF socket[s].instance = i THEN [socket[s] EXCEPT !.missed = TRUE] ELSE socket[s]]
    BY <1>6 DEF DropListener
  <2>2. crossed' = crossed
    BY <1>6 DEF DropListener
  <2>3. socket' \in [Sockets -> SocketRows]
    BY <1>1, <2>1 DEF SocketRows
  <2>4. \A s \in Sockets :
          /\ socket'[s].person = socket[s].person
          /\ socket'[s].instance = socket[s].instance
          /\ socket[s].instance # i => socket'[s] = socket[s]
          /\ socket'[s].subscribed => socket[s].subscribed
          /\ socket'[s].at = socket[s].at
          /\ ~socket'[s].missed => ~socket[s].missed
          /\ socket[s].instance = i => socket'[s].missed
    BY <1>1, <2>1 DEF SocketRows
  <2>5. crossed' \subseteq Talkers
    BY <2>2 DEF ChatTypeOK
  <2> QED BY <1>3, <1>4, <1>5, <2>2, <2>3, <2>4, <2>5
<1>7. CASE Listen(i)
  <2>1. UNCHANGED <<socket, crossed>> /\ i \in deaf
    BY <1>7 DEF Listen
  <2>2. crossed' \subseteq Talkers
    BY <2>1 DEF ChatTypeOK
  <2> QED BY <1>1, <1>3, <1>4, <1>5, <2>1, <2>2
<1>8. CASE Stop(i)
  <2> DEFINE here == {s \in Sockets : socket[s].instance = i
                          /\ (Registered(s) \/ socket[s].at = "goodbye")}
  <2>1. /\ socket' = [s \in Sockets |-> IF s \in here
              THEN [socket[s] EXCEPT !.at = "closed", !.subscribed = FALSE]
              ELSE socket[s]]
        /\ crossed' = crossed \cup {socket[s].person : s \in here}
    BY <1>8 DEF Stop
  <2>2. socket' \in [Sockets -> SocketRows]
    <3>1. \A s \in Sockets : [socket[s] EXCEPT !.at = "closed", !.subscribed = FALSE] \in SocketRows
      BY <1>1 DEF SocketRows
    <3> QED BY <1>1, <2>1, <3>1
  <2>3. \A s \in here : socket[s].person \in Talkers /\ socket[s].at # "unopened"
    BY DEF SocketsAreSomebodys, Registered
  <2>4. crossed' \subseteq Talkers
    <3>1. {socket[s].person : s \in here} \subseteq Talkers /\ crossed \subseteq Talkers
      BY <2>3 DEF ChatTypeOK
    <3> QED BY <2>1, <3>1
  <2>5. \A s \in Sockets :
          /\ socket'[s].person = socket[s].person
          /\ socket'[s].instance = socket[s].instance
          /\ socket[s].instance # i => socket'[s] = socket[s]
          /\ socket'[s].subscribed => socket[s].subscribed
          /\ socket'[s].at = socket[s].at
                \/ (socket'[s].at = "closed" /\ socket[s].at # "unopened")
          /\ ~socket'[s].missed => ~socket[s].missed
          /\ socket[s].instance = i => ~Registered(s)'
    <3> TAKE s \in Sockets
    <3>1. CASE s \in here
      <4>1. socket'[s] = [socket[s] EXCEPT !.at = "closed", !.subscribed = FALSE]
        BY <2>1, <3>1
      <4> QED BY <1>1, <2>3, <3>1, <4>1 DEF SocketRows, Registered
    <3>2. CASE s \notin here
      <4>1. socket'[s] = socket[s]
        BY <2>1, <3>2
      <4> QED BY <3>2, <4>1 DEF Registered
    <3> QED BY <3>1, <3>2
  <2>6. \A p \in Talkers \ crossed' :
           /\ p \notin crossed
           /\ \A s \in Sockets : socket[s].person = p => socket'[s].at = socket[s].at
    BY <2>1
  <2> QED BY <1>3, <1>4, <1>5, <2>2, <2>4, <2>5, <2>6
<1> QED BY <1>6, <1>7, <1>8 DEF ListenerStep

LEMMA ListenerTyped ==
    ASSUME ChatTypeOK, WritesTheLast, SocketsAreSomebodys,
           NEW i \in Instances, ListenerStep(i)
    PROVE  ChatTypeOK'
<1>1. writing' \in [Instances -> SUBSET (Sockets \X (1 .. Len(queue)))]
  BY ListenerEffect DEF ChatTypeOK
<1> QED BY <1>1, ListenerEffect DEF ChatTypeOK, SocketRows

-----------------------------------------------------------------------------
(* Chat: messages are heard in one order. *)

(* Every place keeps its notice. *)
PlacesKept == \A n \in Places : n \in Places' /\ queue'[n] = queue[n]

(* Whatever is published, what was heard keeps its place and its bound: a new
   place is of no message that anybody heard.                               *)
NothingHeardIsNew ==
    \A n \in Places' \ Places : \A s \in Sockets : \A x \in DOMAIN heard[s] :
        queue'[n] # Message(heard[s][x])

LEMMA WithinStays ==
    ASSUME PlacesKept, NothingHeardIsNew, heard' = heard,
           NEW s \in Sockets, NEW bound, HeardWithin(s, bound)
    PROVE  HeardWithin(s, bound)'
BY DEF HeardWithin, PlacesKept, NothingHeardIsNew

(* Steps at which nothing is read or written of the queue. *)
LEMMA HeardStays ==
    ASSUME MessagesKept, PlacesKept, NothingHeardIsNew, heard' = heard
    PROVE  HeardHasPlace' /\ HeardInPlace'
<1>1. HeardHasPlace'
  BY DEF MessagesKept, HeardHasPlace, PlacesKept
<1>2. HeardInPlace'
  <2> SUFFICES ASSUME NEW s \in Sockets, NEW x \in DOMAIN heard[s], NEW y \in DOMAIN heard[s],
                      NEW n \in Places', NEW k \in Places', x < y,
                      queue'[n] = Message(heard[s][x]), queue'[k] = Message(heard[s][y])
               PROVE  n < k
    BY DEF HeardInPlace, Message
  <2>1. n \in Places /\ k \in Places
    BY DEF NothingHeardIsNew
  <2> QED BY <2>1 DEF MessagesKept, HeardInPlace, PlacesKept
<1> QED BY <1>1, <1>2

(* A socket keeps whose it is and where, and nobody who was not let in gets
   subscribed.                                                              *)
SocketsKept ==
    \A s \in Sockets :
        /\ \/ socket[s].at = "unopened"
           \/ /\ socket'[s].at # "unopened"
              /\ socket'[s].instance = socket[s].instance
              /\ socket'[s].person = socket[s].person
        /\ socket'[s].at = "unopened" => socket'[s] = socket[s]
        /\ socket'[s].at \notin {"unopened", "closed"} =>
              socket'[s].instance \in Instances /\ socket'[s].person \in Talkers
        /\ socket'[s].subscribed \/ socket'[s].at = "asking" => socket'[s].person \in joined'

LEMMA UnopenedIsOut ==
    ASSUME MessagesKept, NEW s \in Sockets, socket[s].at = "unopened"
    PROVE  /\ heard[s] = <<>> /\ \A i \in Instances : socket[s].instance # i
BY NothingAssumption DEF MessagesKept, SocketsAreSomebodys, Unopened

LEMMA AdmittedStays ==
    ASSUME MessagesKept, SocketsKept, joined \subseteq joined', members' \subseteq joined',
           kind' = "none" => joined' = {}, heard' = heard
    PROVE  Admitted'
<1>1. \A s \in Sockets : heard[s] # <<>> => socket'[s].person \in joined'
  BY UnopenedIsOut DEF MessagesKept, Admitted, SocketsKept
<1> QED BY <1>1 DEF Admitted, SocketsKept

LEMMA SomebodysStays ==
    ASSUME MessagesKept, SocketsKept, heard' = heard, seen' = seen
    PROVE  SocketsAreSomebodys'
BY DEF MessagesKept, SocketsAreSomebodys, SocketsKept

LEMMA QuietMessages ==
    ASSUME MessagesKept, PlacesKept, NothingHeardIsNew, SocketsKept, OnePlace',
           joined \subseteq joined', members' \subseteq joined', kind' = "none" => joined' = {},
           ChatTypeOK, Places' \subseteq Places \cup {Len(queue) + 1},
           UNCHANGED <<reached, deaf, heard, seen>>,
           \A i \in Instances : writing'[i] \subseteq writing[i]
    PROVE  MessagesKept'
<1>1. HeardHasPlace' /\ HeardInPlace'
  BY HeardStays
<1>2. Admitted' /\ SocketsAreSomebodys'
  BY AdmittedStays, SomebodysStays
<1>3. HeardIsReached'
  <2> SUFFICES ASSUME NEW s \in Sockets, NEW i \in Instances,
                      socket'[s].instance = i, i \notin deaf
               PROVE  HeardWithin(s, reached[i])'
    BY DEF HeardIsReached
  <2>1. HeardWithin(s, reached[i])
    <3>1. CASE socket[s].at = "unopened"
      BY <3>1, UnopenedIsOut DEF HeardWithin
    <3>2. CASE socket[s].at # "unopened"
      BY <3>2 DEF SocketsKept, MessagesKept, HeardIsReached
    <3> QED BY <3>1, <3>2
  <2> QED BY <2>1, WithinStays DEF HeardWithin
<1>4. WritesTheLast'
  <2> SUFFICES ASSUME NEW i \in Instances, NEW s \in Sockets, NEW n \in Places',
                      <<s, n>> \in writing[i]
               PROVE  /\ i \notin deaf /\ n = reached[i] /\ socket'[s].instance = i
                      /\ HeardWithin(s, n - 1)'
                      /\ queue'[n].type = "message" => socket'[s].person \in joined'
                      /\ queue'[n].type = "presence" => socket'[s].person # queue'[n].person
    BY DEF WritesTheLast
  <2>1. n \in Places
    BY DEF ChatTypeOK, Places
  <2>2. /\ i \notin deaf /\ n = reached[i] /\ socket[s].instance = i
        /\ HeardWithin(s, n - 1)
        /\ queue[n].type = "message" => socket[s].person \in joined
        /\ queue[n].type = "presence" => socket[s].person # queue[n].person
    BY <2>1 DEF MessagesKept, WritesTheLast
  <2>3. socket'[s].instance = socket[s].instance /\ socket'[s].person = socket[s].person
    BY <2>2, UnopenedIsOut DEF SocketsKept
  <2> QED BY <2>1, <2>2, <2>3, WithinStays DEF PlacesKept
<1> QED BY <1>1, <1>2, <1>3, <1>4 DEF MessagesKept

LEMMA ConversationMessages ==
    ASSUME ChatTypeOK, MessagesKept, ConversationStep
    PROVE  MessagesKept'
<1>1. /\ UNCHANGED <<queue, reached, deaf, writing, socket, heard, seen>>
      /\ \A m \in Texts : text[m] = "told" => text'[m] = "told"
      /\ joined \subseteq joined' /\ members' \subseteq joined'
      /\ kind' = "none" => joined' = {}
  BY ConversationKeeps DEF MessagesKept, wireVars, toldVars
<1>2. PlacesKept /\ NothingHeardIsNew /\ Places' = Places
  BY <1>1 DEF PlacesKept, NothingHeardIsNew, Places
<1>3. SocketsKept
  BY <1>1 DEF SocketsKept, MessagesKept, SocketsAreSomebodys, Admitted
<1>4. OnePlace'
  BY <1>1, <1>2 DEF MessagesKept, OnePlace
<1> QED BY <1>1, <1>2, <1>3, <1>4, QuietMessages

LEMMA PublishMessageMessages ==
    ASSUME ChatTypeOK, MessagesKept, NEW m \in Texts, PublishMessage(m)
    PROVE  MessagesKept'
<1>1. /\ UNCHANGED <<kind, members, joined, reached, deaf, writing, heard, seen, socket>>
      /\ text[m] = "stored" /\ text'[m] = "told"
      /\ \A o \in Texts \ {m} : text'[o] = text[o]
  BY DEF PublishMessage, groupVars, wireVars, toldVars, ChatTypeOK
<1>2. /\ Len(queue) \in Nat /\ PlacesKept /\ Places' = Places \cup {Len(queue) + 1}
      /\ queue'[Len(queue) + 1] = Message(m)
  <2>1. Message(m) \in Notices /\ Publish(Message(m))
    BY DEF PublishMessage, Message, Notices
  <2> QED BY <2>1, QueueGrows DEF ChatTypeOK, PlacesKept
<1>3. \A n \in Places : queue[n] # Message(m)
  BY <1>1 DEF MessagesKept, OnePlace
<1>4. \A o \in Texts : Message(o) = Message(m) => o = m
  BY DEF Message
<1>5. NothingHeardIsNew
  <2> SUFFICES ASSUME NEW s \in Sockets, NEW x \in DOMAIN heard[s],
                      Message(m) = Message(heard[s][x])
               PROVE  FALSE
    BY <1>2 DEF NothingHeardIsNew
  <2>1. \E n \in Places : queue[n] = Message(heard[s][x])
    BY DEF MessagesKept, HeardHasPlace
  <2> QED BY <1>3, <2>1
<1>6. OnePlace'
  <2> SUFFICES ASSUME NEW o \in Texts, NEW n \in Places', queue'[n] = Message(o)
               PROVE  text'[o] = "told" /\ \A k \in Places' : queue'[k] = Message(o) => k = n
    BY DEF OnePlace, Message
  <2>1. CASE o = m
    BY <1>1, <1>2, <1>3, <2>1 DEF PlacesKept
  <2>2. CASE o # m
    <3>1. \A k \in Places' : queue'[k] = Message(o) => k \in Places /\ queue[k] = Message(o)
      BY <1>2, <1>4, <2>2 DEF PlacesKept
    <3> QED BY <1>1, <2>2, <3>1 DEF MessagesKept, OnePlace
  <2> QED BY <2>1, <2>2
<1>7. SocketsKept
  BY <1>1 DEF SocketsKept, MessagesKept, SocketsAreSomebodys, Admitted
<1> QED BY <1>1, <1>2, <1>5, <1>6, <1>7, QuietMessages DEF MessagesKept, Admitted

LEMMA SocketStepMessages ==
    ASSUME ChatTypeOK, MessagesKept, NEW s \in Sockets, SocketStep(s)
    PROVE  MessagesKept'
<1>1. UNCHANGED <<kind, members, joined, reached, deaf, writing, heard, seen, text>>
  BY DEF SocketStep, Register, AnnouncePresence, AnnounceFails, IsMember, Subscribe,
     Unregister, groupVars, wireVars, toldVars
<1>2. PlacesKept /\ NothingHeardIsNew /\ OnePlace' /\ Places' \subseteq Places \cup {Len(queue) + 1}
  <2>1. CASE UNCHANGED queue
    BY <1>1, <2>1 DEF PlacesKept, NothingHeardIsNew, MessagesKept, OnePlace, Places
  <2>2. CASE AnnouncePresence(s)
    <3>1. /\ Len(queue) \in Nat /\ PlacesKept /\ Places' = Places \cup {Len(queue) + 1}
          /\ queue'[Len(queue) + 1] = Announced(s)
      <4>1. Announced(s) \in Notices /\ Publish(Announced(s))
        BY <2>2, AnnouncedIsNotice DEF AnnouncePresence, MessagesKept
      <4> QED BY <4>1, QueueGrows DEF ChatTypeOK, PlacesKept
    <3>2. \A m : Announced(s) # Message(m)
      <4>1. Announced(s).type = "presence" /\ \A m : Message(m).type = "message"
        BY DEF Announced, Message
      <4> QED BY <4>1
    <3>3. NothingHeardIsNew
      BY <3>1, <3>2 DEF NothingHeardIsNew
    <3>4. OnePlace'
      BY <1>1, <3>1, <3>2 DEF MessagesKept, OnePlace, PlacesKept
    <3> QED BY <3>1, <3>3, <3>4
  <2> QED BY <2>1, <2>2 DEF SocketStep, Register, AnnounceFails, IsMember, Subscribe,
       Unregister
<1>3. SocketsKept
  <2>1. \A t \in Sockets \ {s} : socket'[t] = socket[t]
    BY SocketStepIsOwn
  <2>2. /\ socket[s] \in SocketRows /\ socket'[s] \in SocketRows
        /\ socket \in [Sockets -> SocketRows]
    BY SocketStepIsOwn DEF ChatTypeOK, SocketRows
  <2>3. /\ \/ socket[s].at = "unopened"
           \/ /\ socket'[s].instance = socket[s].instance
              /\ socket'[s].person = socket[s].person
        /\ socket'[s].at # "unopened"
        /\ socket'[s].at # "closed" =>
              socket'[s].instance \in Instances /\ socket'[s].person \in Talkers
        /\ socket'[s].subscribed \/ socket'[s].at = "asking" => socket'[s].person \in joined
    <3>1. socket[s].at \notin {"unopened", "closed"} =>
              socket[s].instance \in Instances /\ socket[s].person \in Talkers
      BY DEF MessagesKept, SocketsAreSomebodys
    <3>2. socket[s].subscribed \/ socket[s].at = "asking" \/ socket[s].person \in members
              => socket[s].person \in joined
      BY DEF MessagesKept, Admitted
    <3>3. ASSUME NEW i \in Instances, NEW p \in Talkers, Register(s, i, p)
          PROVE  /\ socket[s].at = "unopened"
                 /\ socket'[s].at \in {"hello", "reading"} /\ ~socket'[s].subscribed
                 /\ socket'[s].instance = i /\ socket'[s].person = p
      BY <3>3, RegisterEffect
    <3>4. ASSUME AnnouncePresence(s) \/ AnnounceFails(s)
          PROVE  /\ socket[s].at \in {"hello", "goodbye"}
                 /\ socket'[s].at \in {"reading", "closed"}
                 /\ socket'[s].instance = socket[s].instance
                 /\ socket'[s].person = socket[s].person
                 /\ socket'[s].subscribed = socket[s].subscribed
      BY <3>4, AnnounceEffect
    <3>5. ASSUME IsMember(s) \/ Subscribe(s) \/ Unregister(s)
          PROVE  /\ socket[s].at \in {"reading", "asking"}
                 /\ socket'[s].at \in {"reading", "asking", "goodbye", "closed"}
                 /\ socket'[s].instance = socket[s].instance
                 /\ socket'[s].person = socket[s].person
                 /\ socket'[s].at = "asking" => socket[s].person \in members
                 /\ socket'[s].subscribed => socket[s].subscribed \/ socket[s].at = "asking"
      BY <3>5, AskingEffect, UnregisterEffect
    <3> QED BY <3>1, <3>2, <3>3, <3>4, <3>5 DEF SocketStep
  <2> QED BY <1>1, <2>1, <2>3
       DEF SocketsKept, MessagesKept, SocketsAreSomebodys, Admitted
<1> QED BY <1>1, <1>2, <1>3, QuietMessages DEF MessagesKept, Admitted

LEMMA WriteFailsMessages ==
    ASSUME ChatTypeOK, MessagesKept, NEW i \in Instances, NEW s \in Sockets,
           NEW n \in Places, WriteFails(i, s, n)
    PROVE  MessagesKept'
<1>1. /\ UNCHANGED <<kind, members, joined, text, queue, reached, deaf, heard, seen>>
      /\ Registered(s)
      /\ \A t \in Sockets : /\ t # s => socket'[t] = socket[t]
                            /\ socket'[t].person = socket[t].person
                            /\ socket'[t].instance = socket[t].instance
                            /\ socket'[t].at = socket[t].at
                            /\ socket'[t].subscribed = socket[t].subscribed
      /\ writing' = [writing EXCEPT ![i] = writing[i] \ {<<s, n>>}]
  BY WriteFailsEffect
<1>2. PlacesKept /\ NothingHeardIsNew /\ OnePlace' /\ Places' = Places
  BY <1>1 DEF PlacesKept, NothingHeardIsNew, MessagesKept, OnePlace, Places
<1>3. SocketsKept
  BY <1>1 DEF SocketsKept, MessagesKept, SocketsAreSomebodys, Admitted, Registered
<1>4. \A j \in Instances : writing'[j] \subseteq writing[j]
  BY <1>1 DEF ChatTypeOK
<1> QED BY <1>1, <1>2, <1>3, <1>4, QuietMessages DEF MessagesKept, Admitted

LEMMA ListenerMessages ==
    ASSUME ChatTypeOK, MessagesKept, NEW i \in Instances, ListenerStep(i)
    PROVE  MessagesKept'
<1>1. WritesTheLast /\ SocketsAreSomebodys
  BY DEF MessagesKept
<1>2. /\ UNCHANGED <<kind, members, joined, text, queue, heard, seen>>
      /\ writing' = [writing EXCEPT ![i] = {}]
      /\ \A j \in Instances \ {i} :
            reached'[j] = reached[j] /\ (j \in deaf' <=> j \in deaf)
      /\ i \in deaf' \/ reached'[i] = Len(queue)
  BY <1>1, ListenerEffect
<1>3. \A s \in Sockets :
          /\ socket'[s].person = socket[s].person
          /\ socket'[s].instance = socket[s].instance
          /\ socket[s].instance # i => socket'[s] = socket[s]
          /\ socket'[s].subscribed => socket[s].subscribed
          /\ \/ socket'[s].at = socket[s].at
             \/ (socket'[s].at = "closed" /\ socket[s].at # "unopened")
  BY <1>1, ListenerEffect
<1>4. PlacesKept /\ NothingHeardIsNew /\ Places' = Places
  BY <1>2 DEF PlacesKept, NothingHeardIsNew, Places
<1>5. SocketsKept
  BY <1>2, <1>3, UnopenedIsOut DEF SocketsKept, MessagesKept, SocketsAreSomebodys, Admitted
<1>6. HeardHasPlace' /\ HeardInPlace'
  BY <1>2, <1>4, HeardStays
<1>7. Admitted' /\ SocketsAreSomebodys'
  BY <1>2, <1>5, AdmittedStays, SomebodysStays DEF MessagesKept, Admitted
<1>8. OnePlace'
  BY <1>2, <1>4 DEF MessagesKept, OnePlace
<1>9. HeardIsReached'
  <2> SUFFICES ASSUME NEW s \in Sockets, NEW j \in Instances,
                      socket'[s].instance = j, j \notin deaf'
               PROVE  HeardWithin(s, reached[j])'
    BY DEF HeardIsReached
  <2>1. CASE j = i
    <3>1. \A k \in Places : k <= Len(queue)
      BY DEF ChatTypeOK, Places
    <3> QED BY <1>2, <1>4, <2>1, <3>1 DEF HeardWithin
  <2>2. CASE j # i
    <3>1. HeardWithin(s, reached[j])
      BY <1>2, <1>3, <2>2 DEF MessagesKept, HeardIsReached
    <3>2. HeardWithin(s, reached[j])' <=> HeardWithin(s, reached[j])
      BY <1>2, <1>4, <2>2 DEF HeardWithin
    <3> QED BY <3>1, <3>2
  <2> QED BY <2>1, <2>2
<1>10. WritesTheLast'
  <2> SUFFICES ASSUME NEW j \in Instances, NEW s \in Sockets, NEW n \in Places,
                      <<s, n>> \in writing'[j]
               PROVE  /\ j \notin deaf' /\ n = reached'[j] /\ socket'[s].instance = j
                      /\ HeardWithin(s, n - 1)'
                      /\ queue[n].type = "message" => socket'[s].person \in joined
                      /\ queue[n].type = "presence" => socket'[s].person # queue[n].person
    BY <1>2, <1>4 DEF WritesTheLast
  <2>1. j # i /\ <<s, n>> \in writing[j]
    BY <1>2 DEF ChatTypeOK
  <2>2. HeardWithin(s, n - 1)
    BY <2>1 DEF MessagesKept, WritesTheLast
  <2>3. HeardWithin(s, n - 1)'
    BY <1>2, <1>4, <2>2, WithinStays
  <2> QED BY <1>2, <1>3, <2>1, <2>3 DEF MessagesKept, WritesTheLast
<1> QED BY <1>6, <1>7, <1>8, <1>9, <1>10 DEF MessagesKept

LEMMA DispatchMessages ==
    ASSUME ChatTypeOK, MessagesKept, NEW i \in Instances, Dispatch(i)
    PROVE  MessagesKept'
<1> DEFINE n == reached[i] + 1
<1>1. /\ i \notin deaf /\ writing[i] = {} /\ n \in Places
      /\ reached' = [reached EXCEPT ![i] = n]
      /\ writing' = [writing EXCEPT ![i] = Targets(i, queue[n]) \X {n}]
      /\ UNCHANGED <<kind, members, joined, heard, seen, text, queue, deaf, socket>>
  BY DispatchEffect
<1>2. /\ reached[i] \in Nat /\ reached'[i] = n
      /\ writing'[i] = Targets(i, queue[n]) \X {n}
      /\ \A j \in Instances \ {i} : reached'[j] = reached[j] /\ writing'[j] = writing[j]
  BY <1>1 DEF ChatTypeOK
<1>3. /\ OnePlace' /\ HeardHasPlace' /\ HeardInPlace' /\ Admitted' /\ SocketsAreSomebodys'
      /\ Places' = Places
  BY <1>1 DEF MessagesKept, OnePlace, HeardHasPlace, HeardInPlace, Admitted,
     SocketsAreSomebodys, Places
<1>4. HeardIsReached'
  BY <1>1, <1>2, <1>3 DEF MessagesKept, HeardIsReached, HeardWithin, Places
<1>5. WritesTheLast'
  <2> SUFFICES ASSUME NEW j \in Instances, NEW s \in Sockets, NEW k \in Places,
                      <<s, k>> \in writing'[j]
               PROVE  /\ j \notin deaf /\ k = reached'[j] /\ socket[s].instance = j
                      /\ HeardWithin(s, k - 1)
                      /\ queue[k].type = "message" => socket[s].person \in joined
                      /\ queue[k].type = "presence" => socket[s].person # queue[k].person
    BY <1>1, <1>3 DEF WritesTheLast, HeardWithin
  <2>1. CASE j # i
    BY <1>2, <2>1 DEF MessagesKept, WritesTheLast
  <2>2. CASE j = i
    <3>1. s \in Targets(i, queue[n]) /\ k = n
      BY <1>2, <2>2
    <3>2. HeardWithin(s, reached[i])
      BY <1>1, <3>1 DEF Targets, MessagesKept, HeardIsReached
    <3>3. k - 1 = reached[i]
      BY <1>2, <3>1
    <3>4. socket[s].subscribed => socket[s].person \in joined
      BY DEF MessagesKept, Admitted
    <3>5. socket[s].instance = i
      BY <3>1 DEF Targets
    <3>6. queue[k].type = "message" => socket[s].person \in joined
      BY <3>1, <3>4 DEF Targets
    <3>7. queue[k].type = "presence" => socket[s].person # queue[k].person
      BY <3>1 DEF Targets
    <3> QED BY <1>1, <1>2, <2>2, <3>1, <3>2, <3>3, <3>5, <3>6, <3>7
  <2> QED BY <2>1, <2>2
<1> QED BY <1>3, <1>4, <1>5 DEF MessagesKept

(* What a socket hears is appended to what it heard. *)
LEMMA SendEffect ==
    ASSUME ChatTypeOK, NEW i \in Instances, NEW s \in Sockets, NEW n \in Places,
           Send(i, s, n)
    PROVE  /\ <<s, n>> \in writing[i] /\ queue[n] \in Notices
           /\ UNCHANGED <<kind, members, joined, text, queue, reached, deaf, socket, crossed>>
           /\ \A j \in Instances : writing'[j] \subseteq writing[j]
           /\ \A j \in Instances, t \in Sockets, k \in Places :
                 <<t, k>> \in writing[j] => <<t, k>> \in writing'[j] \/ (j = i /\ t = s /\ k = n)
           /\ <<s, n>> \notin writing'[i]
           /\ \A t \in Sockets \ {s} : heard'[t] = heard[t] /\ seen'[t] = seen[t]
           /\ \/ heard'[s] = heard[s]
              \/ /\ Registered(s) /\ queue[n].type = "message" /\ queue[n].text \in Texts
                 /\ heard'[s] = Append(heard[s], queue[n].text)
           /\ \A p \in Talkers :
                 /\ Registered(s) /\ Tells(n, p) => seen'[s][p] = queue[n].state
                 /\ ~(Registered(s) /\ Tells(n, p)) => seen'[s][p] = seen[s][p]
<1>1. queue[n] \in Notices
  BY DEF ChatTypeOK, Places
<1>2. /\ <<s, n>> \in writing[i]
      /\ writing' = [writing EXCEPT ![i] = writing[i] \ {<<s, n>>}]
      /\ UNCHANGED <<kind, members, joined, text, queue, reached, deaf, socket, crossed>>
  BY DEF Send, groupVars
<1>3. /\ \A j \in Instances : writing'[j] \subseteq writing[j]
      /\ \A j \in Instances, t \in Sockets, k \in Places :
            <<t, k>> \in writing[j] => <<t, k>> \in writing'[j] \/ (j = i /\ t = s /\ k = n)
      /\ <<s, n>> \notin writing'[i]
  BY <1>2 DEF ChatTypeOK
<1>4. /\ \A t \in Sockets \ {s} : heard'[t] = heard[t]
      /\ \/ heard'[s] = heard[s]
         \/ /\ Registered(s) /\ queue[n].type = "message" /\ queue[n].text \in Texts
            /\ heard'[s] = Append(heard[s], queue[n].text)
  BY <1>1 DEF Send, ChatTypeOK, Notices
<1>5. /\ \A t \in Sockets \ {s} : seen'[t] = seen[t]
      /\ \A p \in Talkers :
            /\ Registered(s) /\ Tells(n, p) => seen'[s][p] = queue[n].state
            /\ ~(Registered(s) /\ Tells(n, p)) => seen'[s][p] = seen[s][p]
  <2>1. CASE Registered(s) /\ queue[n].type = "presence"
    <3>1. queue[n].person \in Talkers
      BY <1>1, <2>1 DEF Notices
    <3>2. seen' = [seen EXCEPT ![s][queue[n].person] = queue[n].state]
      BY <2>1 DEF Send
    <3> QED BY <2>1, <3>1, <3>2 DEF ChatTypeOK, Tells
  <2>2. CASE ~(Registered(s) /\ queue[n].type = "presence")
    <3>1. seen' = seen
      BY <2>2 DEF Send
    <3> QED BY <2>2, <3>1 DEF Tells
  <2> QED BY <2>1, <2>2
<1> QED BY <1>1, <1>2, <1>3, <1>4, <1>5

(* A socket that hears a message hears the last its instance has read, and all
   it heard before lies before that.                                        *)
LEMMA SendMessages ==
    ASSUME ChatTypeOK, MessagesKept, NEW i \in Instances, NEW s \in Sockets,
           NEW n \in Places, Send(i, s, n)
    PROVE  MessagesKept'
<1> DEFINE m == queue[n].text
<1>1. /\ <<s, n>> \in writing[i] /\ queue[n] \in Notices
      /\ UNCHANGED <<kind, members, joined, text, queue, reached, deaf, socket, crossed>>
      /\ \A j \in Instances : writing'[j] \subseteq writing[j]
      /\ <<s, n>> \notin writing'[i]
      /\ \A t \in Sockets \ {s} : heard'[t] = heard[t] /\ seen'[t] = seen[t]
  BY SendEffect
<1>2. \/ heard'[s] = heard[s]
      \/ /\ Registered(s) /\ queue[n].type = "message" /\ m \in Texts
         /\ heard'[s] = Append(heard[s], m)
  BY SendEffect
<1>3. ~Registered(s) => \A p \in Talkers : seen'[s][p] = seen[s][p]
  BY DEF Send
<1>4. /\ i \notin deaf /\ n = reached[i] /\ socket[s].instance = i
      /\ HeardWithin(s, n - 1)
      /\ queue[n].type = "message" => socket[s].person \in joined
  BY <1>1 DEF MessagesKept, WritesTheLast
<1>5. Places' = Places /\ n \in Nat /\ Places \subseteq Nat /\ heard[s] \in Seq(Texts)
  BY <1>1 DEF Places, ChatTypeOK
<1>6. OnePlace'
  BY <1>1, <1>5 DEF MessagesKept, OnePlace
<1>7. queue[n].type = "message" => queue[n] = Message(m)
  BY <1>1 DEF Notices, Message
<1>8. CASE heard'[s] = heard[s]
  <2>1. \A t \in Sockets : heard'[t] = heard[t]
    BY <1>1, <1>8
  <2>2. HeardHasPlace' /\ HeardInPlace' /\ HeardIsReached'
    <3>1. HeardHasPlace' /\ HeardInPlace'
      <4>1. ChatTypeOK'
        BY SendTyped
      <4>2. heard' = heard
        BY <2>1, <4>1 DEF ChatTypeOK
      <4>3. PlacesKept /\ NothingHeardIsNew
        BY <1>1, <1>5 DEF PlacesKept, NothingHeardIsNew
      <4> QED BY <4>2, <4>3, HeardStays
    <3>2. HeardIsReached'
      BY <1>1, <1>5, <2>1 DEF MessagesKept, HeardIsReached, HeardWithin
    <3> QED BY <3>1, <3>2
  <2>3. Admitted'
    BY <1>1, <2>1 DEF MessagesKept, Admitted
  <2>4. WritesTheLast'
    BY <1>1, <1>5, <2>1 DEF MessagesKept, WritesTheLast, HeardWithin
  <2>5. SocketsAreSomebodys'
    BY <1>1, <1>3, <2>1 DEF MessagesKept, SocketsAreSomebodys, Registered
  <2> QED BY <1>6, <2>2, <2>3, <2>4, <2>5 DEF MessagesKept
<1>9. CASE /\ Registered(s) /\ queue[n].type = "message" /\ m \in Texts
           /\ heard'[s] = Append(heard[s], m)
  <2> DEFINE last == Len(heard[s]) + 1
  <2>1. /\ Len(heard[s]) \in Nat /\ DOMAIN heard[s] = 1 .. Len(heard[s])
        /\ DOMAIN heard'[s] = 1 .. last /\ heard'[s][last] = m
        /\ \A x \in DOMAIN heard[s] : heard'[s][x] = heard[s][x]
    BY <1>5, <1>9, AppendProperties
  <2>2. queue[n] = Message(m) /\ \A k \in Places : queue[k] = Message(m) => k = n
    BY <1>7, <1>9 DEF MessagesKept, OnePlace
  <2>3. \A x \in DOMAIN heard[s], k \in Places : queue[k] = Message(heard[s][x]) => k <= n - 1
    BY <1>4 DEF HeardWithin
  <2>4. HeardHasPlace'
    <3>1. HeardHasPlace
      BY DEF MessagesKept
    <3>2. ASSUME NEW t \in Sockets, NEW x \in DOMAIN heard'[t]
          PROVE  \E k \in Places : queue[k] = Message(heard'[t][x])
      <4>1. CASE t = s /\ x = last
        BY <2>1, <2>2, <4>1
      <4>2. CASE t # s \/ x # last
        <5>1. x \in DOMAIN heard[t] /\ heard'[t][x] = heard[t][x]
          BY <1>1, <2>1, <3>2, <4>2
        <5> QED BY <3>1, <5>1 DEF HeardHasPlace
      <4> QED BY <4>1, <4>2
    <3> QED BY <1>1, <1>5, <3>2 DEF HeardHasPlace
  <2>5. HeardInPlace'
    <3>1. \A x, y \in DOMAIN heard'[s] : \A k, l \in Places :
              x < y /\ queue[k] = Message(heard'[s][x]) /\ queue[l] = Message(heard'[s][y])
              => k < l
      <4> SUFFICES ASSUME NEW x \in DOMAIN heard'[s], NEW y \in DOMAIN heard'[s],
                          NEW k \in Places, NEW l \in Places, x < y,
                          queue[k] = Message(heard'[s][x]), queue[l] = Message(heard'[s][y])
                   PROVE  k < l
        OBVIOUS
      <4>1. x \in DOMAIN heard[s] /\ heard'[s][x] = heard[s][x]
        BY <2>1
      <4>2. CASE y = last
        <5>1. l = n
          BY <2>1, <2>2, <4>2
        <5>2. k <= n - 1
          BY <2>3, <4>1
        <5>3. k \in Nat /\ n \in Nat
          BY <1>5
        <5> QED BY <5>1, <5>2, <5>3
      <4>3. CASE y # last
        <5>1. y \in DOMAIN heard[s] /\ heard'[s][y] = heard[s][y]
          BY <2>1, <4>3
        <5> QED BY <4>1, <5>1 DEF MessagesKept, HeardInPlace
      <4> QED BY <4>2, <4>3
    <3>2. HeardInPlace
      BY DEF MessagesKept
    <3>3. ASSUME NEW t \in Sockets \ {s}
          PROVE  \A x, y \in DOMAIN heard'[t] : \A k, l \in Places :
                    x < y /\ queue[k] = Message(heard'[t][x]) /\ queue[l] = Message(heard'[t][y])
                    => k < l
      <4>1. heard'[t] = heard[t]
        BY <1>1
      <4> QED BY <3>2, <4>1 DEF HeardInPlace
    <3> QED BY <1>1, <1>5, <3>1, <3>3 DEF HeardInPlace
  <2>6. HeardWithin(s, n)'
    <3> SUFFICES ASSUME NEW x \in DOMAIN heard'[s], NEW k \in Places,
                        queue[k] = Message(heard'[s][x])
                 PROVE  k <= n
      BY <1>1, <1>5 DEF HeardWithin
    <3>1. CASE x = last
      BY <1>5, <2>1, <2>2, <3>1
    <3>2. CASE x # last
      <4>1. x \in DOMAIN heard[s] /\ heard'[s][x] = heard[s][x]
        BY <2>1, <3>2
      <4> QED BY <1>5, <2>3, <4>1
    <3> QED BY <3>1, <3>2
  <2>7. HeardIsReached'
    BY <1>1, <1>4, <1>5, <2>6 DEF MessagesKept, HeardIsReached, HeardWithin
  <2>8. Admitted'
    BY <1>1, <1>4, <1>9 DEF MessagesKept, Admitted
  <2>9. SocketsAreSomebodys'
    BY <1>1, <1>3, <1>9 DEF MessagesKept, SocketsAreSomebodys, Registered
  <2>10. WritesTheLast'
    <3> SUFFICES ASSUME NEW j \in Instances, NEW t \in Sockets, NEW k \in Places,
                        <<t, k>> \in writing'[j]
                 PROVE  /\ j \notin deaf /\ k = reached[j] /\ socket[t].instance = j
                        /\ HeardWithin(t, k - 1)'
                        /\ queue[k].type = "message" => socket[t].person \in joined
                        /\ queue[k].type = "presence" => socket[t].person # queue[k].person
      BY <1>1, <1>5 DEF WritesTheLast
    <3>1. <<t, k>> \in writing[j]
      BY <1>1
    <3>2. t # s
      BY <1>1, <1>4, <3>1 DEF MessagesKept, WritesTheLast
    <3>3. HeardWithin(t, k - 1)
      BY <3>1 DEF MessagesKept, WritesTheLast
    <3>4. HeardWithin(t, k - 1)'
      BY <1>1, <1>5, <3>2, <3>3 DEF HeardWithin
    <3> QED BY <3>1, <3>4 DEF MessagesKept, WritesTheLast
  <2> QED BY <1>6, <2>4, <2>5, <2>7, <2>8, <2>9, <2>10 DEF MessagesKept
<1> QED BY <1>2, <1>8, <1>9

LEMMA MessagesInit == ChatInit => MessagesKept
<1> SUFFICES ASSUME ChatInit PROVE MessagesKept
  OBVIOUS
<1>1. Places = {}
  BY DEF ChatInit, Places
<1>2. \A s \in Sockets : heard[s] = <<>> /\ DOMAIN heard[s] = {}
  BY DEF ChatInit
<1>3. OnePlace /\ HeardHasPlace /\ HeardInPlace /\ WritesTheLast
  BY <1>1, <1>2 DEF OnePlace, HeardHasPlace, HeardInPlace, WritesTheLast
<1>4. HeardIsReached
  BY <1>1 DEF HeardIsReached, HeardWithin
<1>5. Admitted /\ SocketsAreSomebodys
  BY <1>2 DEF ChatInit, Admitted, SocketsAreSomebodys, Unopened
<1> QED BY <1>3, <1>4, <1>5 DEF MessagesKept

(* Every step is of one of the kinds above. *)
LEMMA ChatSteps ==
    ASSUME ChatNext
    PROVE  \/ ConversationStep
           \/ \E m \in Texts : PublishMessage(m)
           \/ \E s \in Sockets : SocketStep(s)
           \/ \E i \in Instances :
                 \/ Dispatch(i) \/ ListenerStep(i)
                 \/ \E s \in Sockets : \E n \in Places : Send(i, s, n) \/ WriteFails(i, s, n)
BY DEF ChatNext, ConversationStep, SocketStep, ListenerStep, Places

LEMMA MessagesStep ==
    ChatTypeOK /\ MessagesKept /\ [ChatNext]_chatVars => ChatTypeOK' /\ MessagesKept'
<1> SUFFICES ASSUME ChatTypeOK, MessagesKept, [ChatNext]_chatVars
             PROVE  ChatTypeOK' /\ MessagesKept'
  OBVIOUS
<1>1. WritesTheLast /\ SocketsAreSomebodys /\ Admitted
  BY DEF MessagesKept
<1>2. CASE ConversationStep
  BY <1>1, <1>2, ConversationKeeps, ConversationMessages
<1>3. CASE \E m \in Texts : PublishMessage(m)
  BY <1>3, PublishMessageTyped, PublishMessageMessages
<1>4. CASE \E s \in Sockets : SocketStep(s)
  BY <1>1, <1>4, SocketStepTyped, SocketStepMessages
<1>5. CASE \E i \in Instances : Dispatch(i)
  BY <1>5, DispatchTyped, DispatchMessages
<1>6. CASE \E i \in Instances : ListenerStep(i)
  BY <1>1, <1>6, ListenerTyped, ListenerMessages
<1>7. CASE \E i \in Instances : \E s \in Sockets : \E n \in Places : Send(i, s, n)
  BY <1>7, SendTyped, SendMessages
<1>8. CASE \E i \in Instances : \E s \in Sockets : \E n \in Places : WriteFails(i, s, n)
  BY <1>8, WriteFailsEffect, WriteFailsMessages
<1>9. CASE UNCHANGED chatVars
  <2>1. UNCHANGED <<kind, members, joined, text, queue, reached, deaf, writing, socket,
                    heard, seen, crossed>>
    BY <1>9 DEF chatVars, groupVars, wireVars, toldVars
  <2>2. ChatTypeOK'
    BY <2>1 DEF ChatTypeOK
  <2>3. MessagesKept'
    BY <2>1 DEF MessagesKept, OnePlace, HeardHasPlace, HeardInPlace, HeardIsReached,
       WritesTheLast, HeardWithin, Admitted, SocketsAreSomebodys, Places
  <2> QED BY <2>2, <2>3
<1> QED BY <1>2, <1>3, <1>4, <1>5, <1>6, <1>7, <1>8, <1>9, ChatSteps

(* The inductive invariant of the messages, for any number of instances,
   sockets and messages, and whatever listeners and processes are lost.     *)
THEOREM MessagesAreKept == ChatSpec => [](ChatTypeOK /\ MessagesKept)
BY ChatInitTyped, MessagesInit, MessagesStep, PTL DEF ChatSpec

LEMMA KeptAreInOrder == ChatTypeOK /\ MessagesKept => HeardInOneOrder
<1> SUFFICES ASSUME ChatTypeOK, MessagesKept PROVE HeardInOneOrder
  OBVIOUS
<1>1. Places \subseteq Nat
  BY DEF Places
<1>2. ASSUME NEW s \in Sockets, NEW x \in DOMAIN heard[s]
      PROVE  text[heard[s][x]] = "told" /\ socket[s].person \in joined
  <2>1. heard[s] # <<>> /\ heard[s][x] \in Texts
    BY <1>2 DEF ChatTypeOK
  <2> QED BY <1>2, <2>1 DEF MessagesKept, Admitted, HeardHasPlace, OnePlace
<1>3. ASSUME NEW s \in Sockets, NEW t \in Sockets, NEW a \in Texts, NEW b \in Texts,
             Before(s, a, b), Before(t, b, a)
      PROVE  FALSE
  <2>1. PICK x, y \in DOMAIN heard[s] : x < y /\ heard[s][x] = a /\ heard[s][y] = b
    BY <1>3 DEF Before
  <2>2. PICK v, w \in DOMAIN heard[t] : v < w /\ heard[t][v] = b /\ heard[t][w] = a
    BY <1>3 DEF Before
  <2>3. PICK n, k \in Places : queue[n] = Message(a) /\ queue[k] = Message(b)
    BY <2>1 DEF MessagesKept, HeardHasPlace
  <2>4. n < k /\ k < n
    BY <2>1, <2>2, <2>3 DEF MessagesKept, HeardInPlace
  <2> QED BY <1>1, <2>4
<1> QED BY <1>2, <1>3 DEF HeardInOneOrder

(* Everybody hears the messages in one order, at most once, and only who was
   let in hears any.                                                        *)
THEOREM OneOrderIsHeard == ChatSpec => []HeardInOneOrder
BY KeptAreInOrder, MessagesAreKept, PTL

-----------------------------------------------------------------------------
(* Chat: who is online is told as it is. *)

(* Nothing that says where somebody is has changed. *)
SightKept(p) ==
    \A s \in Sockets :
        /\ socket'[s].person = p <=> socket[s].person = p
        /\ socket[s].person = p =>
              /\ socket'[s].instance = socket[s].instance
              /\ Registered(s)' <=> Registered(s)
              /\ socket'[s].at = "hello" <=> socket[s].at = "hello"
              /\ socket'[s].at = "goodbye" <=> socket[s].at = "goodbye"

NothingToldOf(p) == \A n \in Places' \ Places : ~Tells(n, p)'

LEMMA LastStays ==
    ASSUME NEW p \in Talkers, LastIsSo(p), PlacesKept, NothingToldOf(p),
           Announcing(p) => Announcing(p)', Online(p)' <=> Online(p)
    PROVE  LastIsSo(p)'
<1>1. State(p)' = State(p)
  BY DEF State
<1>2. ASSUME ~Announcing(p), NEW n \in Places', Tells(n, p)',
             \A k \in Places' : Tells(k, p)' => k <= n
      PROVE  queue'[n].state = State(p)
  <2>1. n \in Places /\ queue'[n] = queue[n]
    BY <1>2 DEF NothingToldOf, PlacesKept
  <2>2. Tells(n, p) /\ \A k \in Places : Tells(k, p) => k <= n
    BY <1>2, <2>1 DEF Tells, PlacesKept
  <2> QED BY <1>2, <2>1, <2>2 DEF LastIsSo
<1> QED BY <1>1, <1>2 DEF LastIsSo

LEMMA SightStays ==
    ASSUME NEW p \in Talkers, InSight(p), SightKept(p), PlacesKept, NothingToldOf(p)
    PROVE  InSight(p)'
<1>1. Announcing(p)' <=> Announcing(p)
  BY DEF Announcing, SightKept
<1>2. Online(p)' <=> Online(p)
  BY DEF Online, ByUser, SightKept
<1>3. Together(p)'
  BY DEF InSight, Together, SightKept
<1> QED BY <1>1, <1>2, <1>3, LastStays DEF InSight

(* What a socket was last told stays the last, while its instance reads nothing
   more and writes no less.                                                 *)
LEMMA SeenStays ==
    ASSUME ChatTypeOK, PlacesKept, Places' \subseteq Places \cup {Len(queue) + 1},
           NEW s \in Sockets, NEW i \in Instances, NEW p \in Talkers,
           SeenIsLatest(s, i, p), seen'[s][p] = seen[s][p], reached'[i] = reached[i],
           \A k \in Places : Tells(k, p) /\ <<s, k>> \in writing[i] => <<s, k>> \in writing'[i],
           socket'[s].person = socket[s].person
    PROVE  SeenIsLatest(s, i, p)'
<1>1. CASE seen[s][p] = Nothing
  BY <1>1 DEF SeenIsLatest
<1>2. CASE seen[s][p] # Nothing
  <2>1. PICK n \in Places :
            /\ n <= reached[i] /\ Tells(n, p) /\ seen[s][p] = queue[n].state
            /\ \A k \in Places :
                  n < k /\ k <= reached[i] /\ Tells(k, p) => <<s, k>> \in writing[i]
    BY <1>2 DEF SeenIsLatest
  <2>2. n \in Places' /\ n <= reached'[i] /\ Tells(n, p)' /\ seen'[s][p] = queue'[n].state
    BY <2>1 DEF PlacesKept, Tells
  <2>3. ASSUME NEW k \in Places', n < k, k <= reached'[i], Tells(k, p)'
        PROVE  <<s, k>> \in writing'[i]
    <3>1. k \in Places
      BY <2>3 DEF ChatTypeOK, Places
    <3> QED BY <2>1, <2>3, <3>1 DEF PlacesKept, Tells
  <2>4. socket'[s].person # p
    BY <1>2 DEF SeenIsLatest
  <2> QED BY <2>2, <2>3, <2>4 DEF SeenIsLatest
<1> QED BY <1>1, <1>2

(* A socket that hears all that its instance reads. *)
Listening(s, i) == Registered(s) /\ ~socket[s].missed /\ socket[s].instance = i

SeenAreLatest ==
    \A s \in Sockets : \A i \in Instances :
        Listening(s, i) => i \notin deaf /\ \A p \in Talkers : SeenIsLatest(s, i, p)

LEMMA PresenceKeptIs ==
    PresenceKept <=> (\A p \in Talkers \ crossed : InSight(p)) /\ SeenAreLatest
BY DEF PresenceKept, SeenAreLatest, Listening

(* Steps that read and write nothing of the queue. *)
LEMMA QuietSeen ==
    ASSUME ChatTypeOK, SocketsAreSomebodys, SeenAreLatest, PlacesKept,
           Places' \subseteq Places \cup {Len(queue) + 1},
           UNCHANGED <<reached, deaf, writing, seen>>,
           \A s \in Sockets : Registered(s)' =>
              \/ /\ Registered(s) /\ socket'[s].person = socket[s].person
                 /\ socket'[s].instance = socket[s].instance
                 /\ socket'[s].missed = socket[s].missed
              \/ socket[s].at = "unopened" /\ (socket'[s].missed <=> socket'[s].instance \in deaf)
    PROVE  SeenAreLatest'
<1> SUFFICES ASSUME NEW s \in Sockets, NEW i \in Instances, Listening(s, i)'
             PROVE  i \notin deaf /\ \A p \in Talkers : SeenIsLatest(s, i, p)'
  BY DEF SeenAreLatest
<1>1. CASE /\ Registered(s) /\ socket'[s].person = socket[s].person
           /\ socket'[s].instance = socket[s].instance
           /\ socket'[s].missed = socket[s].missed
  <2>1. i \notin deaf /\ \A p \in Talkers : SeenIsLatest(s, i, p)
    BY <1>1 DEF SeenAreLatest, Listening
  <2> QED BY <1>1, <2>1, SeenStays
<1>2. CASE socket[s].at = "unopened" /\ (socket'[s].missed <=> socket'[s].instance \in deaf)
  <2>1. \A p \in Talkers : seen'[s][p] = Nothing
    BY <1>2 DEF SocketsAreSomebodys
  <2> QED BY <1>2, <2>1 DEF Listening, SeenIsLatest
<1> QED BY <1>1, <1>2 DEF Listening

LEMMA ConversationPresence ==
    ASSUME ChatTypeOK, MessagesKept, PresenceKept,
           ConversationStep \/ \E m \in Texts : PublishMessage(m)
    PROVE  PresenceKept'
<1>1. UNCHANGED <<reached, deaf, writing, socket, seen, crossed>>
  <2>1. CASE ConversationStep
    BY <2>1, ConversationKeeps DEF MessagesKept, wireVars, toldVars
  <2>2. CASE \E m \in Texts : PublishMessage(m)
    BY <2>2 DEF PublishMessage, wireVars, toldVars
  <2> QED BY <2>1, <2>2
<1>2. /\ PlacesKept /\ Places' \subseteq Places \cup {Len(queue) + 1}
      /\ \A n \in Places' \ Places : queue'[n].type = "message"
  <2>1. CASE ConversationStep
    BY <2>1, ConversationKeeps DEF MessagesKept, PlacesKept, Places
  <2>2. ASSUME NEW m \in Texts, PublishMessage(m)
        PROVE  /\ PlacesKept /\ Places' \subseteq Places \cup {Len(queue) + 1}
               /\ \A n \in Places' \ Places : queue'[n].type = "message"
    <3>1. Message(m) \in Notices /\ Publish(Message(m))
      BY <2>2 DEF PublishMessage, Message, Notices
    <3>2. /\ PlacesKept /\ Places' = Places \cup {Len(queue) + 1}
          /\ queue'[Len(queue) + 1] = Message(m)
      BY <3>1, QueueGrows DEF ChatTypeOK, PlacesKept
    <3> QED BY <3>2 DEF Message
  <2> QED BY <2>1, <2>2
<1>3. \A p \in Talkers \ crossed : InSight(p)'
  <2>1. \A p \in Talkers : SightKept(p) /\ NothingToldOf(p)
    BY <1>1, <1>2 DEF SightKept, Registered, NothingToldOf, Tells
  <2> QED BY <1>2, <2>1, SightStays, PresenceKeptIs
<1>4. SeenAreLatest'
  <2>1. SocketsAreSomebodys /\ SeenAreLatest
    BY PresenceKeptIs DEF MessagesKept
  <2> QED BY <1>1, <1>2, <2>1, QuietSeen DEF Registered
<1> QED BY <1>1, <1>3, <1>4 DEF PresenceKept, SeenAreLatest, Listening
(* A step of a socket is out of everybody else's sight. *)
LEMMA SocketStepOthers ==
    ASSUME ChatTypeOK, NEW s \in Sockets, SocketStep(s), NEW p \in Talkers,
           socket[s].person # p, socket'[s].person # p
    PROVE  SightKept(p) /\ NothingToldOf(p)
<1>1. SightKept(p)
  BY SocketStepIsOwn DEF SightKept, Registered
<1>2. NothingToldOf(p)
  <2>1. CASE queue' = queue
    BY <2>1 DEF NothingToldOf, Places
  <2>2. CASE AnnouncePresence(s)
    <3>1. queue' = Append(queue, Announced(s)) /\ Announced(s).person # p
      BY <2>2 DEF AnnouncePresence, Publish, Announced
    <3>2. \A n \in Places' \ Places : queue'[n] = Announced(s)
      BY <3>1, AppendProperties DEF ChatTypeOK, Places
    <3> QED BY <3>1, <3>2 DEF NothingToldOf, Tells
  <2> QED BY <2>1, <2>2 DEF SocketStep, Register, AnnounceFails, IsMember, Subscribe,
         Unregister
<1> QED BY <1>1, <1>2

(* Somebody opens a socket: the first they have, which is announced, or one
   more where they have others.                                             *)
LEMMA RegisterPresence ==
    ASSUME ChatTypeOK, SocketsAreSomebodys, NEW s \in Sockets, NEW i \in Instances,
           NEW p \in Talkers, Register(s, i, p), InSight(p), p \notin crossed'
    PROVE  InSight(p)'
<1>1. /\ \A t \in Sockets \ {s} : socket'[t] = socket[t]
      /\ socket'[s].instance = i /\ socket'[s].person = p
      /\ socket[s].at = "unopened" /\ queue' = queue
      /\ ~Registered(s)
  BY SocketStepIsOwn, RegisterEffect DEF SocketStep, Registered
<1>2. CASE ByUser(i, p) = {}
  <2>1. socket'[s].at = "hello" /\ ~OutOfSight(p, i)
    BY <1>2, RegisterEffect
  <2>2. \A t \in Sockets : socket[t].person = p =>
            ~Registered(t) /\ socket[t].at # "goodbye"
    BY <1>2, <2>1 DEF OutOfSight, Announcing, ByUser, SocketsAreSomebodys, Registered
  <2>3. \A t \in Sockets : socket'[t].person = p /\ t # s =>
            ~Registered(t)' /\ socket'[t].at \notin {"hello", "goodbye"}
    BY <1>1, <2>2 DEF Registered
  <2>4. Announcing(p)'
    BY <1>1, <2>1 DEF Announcing
  <2>5. Together(p)'
    BY <2>1, <2>3 DEF Together, Registered
  <2> QED BY <2>4, <2>5 DEF InSight, LastIsSo
<1>3. CASE ByUser(i, p) # {}
  <2>1. socket'[s].at = "reading"
    BY <1>3, RegisterEffect
  <2>2. PICK u \in Sockets : Registered(u) /\ socket[u].instance = i /\ socket[u].person = p
    BY <1>3 DEF ByUser
  <2>3. u # s /\ socket'[u] = socket[u]
    BY <1>1, <2>2
  <2>4. \A t \in Sockets : Registered(t)' /\ socket'[t].person = p => socket'[t].instance = i
    BY <1>1, <2>2 DEF InSight, Together, Registered
  <2>5. Together(p)'
    BY <1>1, <2>1, <2>2, <2>4 DEF InSight, Together, Registered
  <2>6. Online(p) /\ Online(p)'
    BY <2>2, <2>3 DEF Online, ByUser, Registered
  <2>7. Announcing(p) => Announcing(p)'
    BY <1>1 DEF Announcing
  <2> QED BY <1>1, <2>5, <2>6, <2>7, LastStays DEF InSight, PlacesKept, NothingToldOf, Places
<1> QED BY <1>2, <1>3

(* What is announced is the last that is told of them, and it is so. *)
LEMMA AnnouncePresencePresence ==
    ASSUME ChatTypeOK, SocketsAreSomebodys, NEW s \in Sockets, NEW p \in Talkers,
           AnnouncePresence(s), socket[s].person = p, InSight(p)
    PROVE  InSight(p)'
<1>1. /\ \A t \in Sockets \ {s} : socket'[t] = socket[t]
      /\ socket'[s].instance = socket[s].instance /\ socket'[s].person = p
      /\ socket[s].at \in {"hello", "goodbye"}
      /\ socket'[s].at = After(socket[s].at)
  BY SocketStepIsOwn, AnnounceEffect DEF SocketStep
<1>2. \A t \in Sockets : Registered(t)' <=> Registered(t)
  BY <1>1 DEF Registered, After
<1>3. \A t \in Sockets : socket'[t].person = p => socket'[t].at \notin {"hello", "goodbye"}
  BY <1>1 DEF InSight, Together, After
<1>4. ~Announcing(p)'
  BY <1>3 DEF Announcing
<1>5. Together(p)'
  BY <1>1, <1>2, <1>3 DEF InSight, Together
<1>6. State(p)' = IF socket[s].at = "hello" THEN "online" ELSE "offline"
  <2>1. CASE socket[s].at = "hello"
    <3>1. Registered(s)' /\ socket'[s].instance \in Instances
      BY <1>1, <2>1 DEF Registered, After, SocketsAreSomebodys
    <3> QED BY <1>1, <2>1, <3>1 DEF State, Online, ByUser
  <2>2. CASE socket[s].at = "goodbye"
    <3>1. \A t \in Sockets : socket'[t].person = p => ~Registered(t)'
      BY <1>1, <1>2, <2>2 DEF InSight, Together
    <3> QED BY <2>2, <3>1 DEF State, Online, ByUser
  <2> QED BY <1>1, <2>1, <2>2
<1>7. /\ Len(queue) \in Nat /\ Places' = Places \cup {Len(queue) + 1}
      /\ queue'[Len(queue) + 1] = Announced(s)
  BY AnnouncedIsNotice, QueueGrows, <1>1 DEF AnnouncePresence, ChatTypeOK
<1>8. LastIsSo(p)'
  <2> SUFFICES ASSUME NEW n \in Places', \A k \in Places' : Tells(k, p)' => k <= n
               PROVE  queue'[n].state = State(p)'
    BY DEF LastIsSo
  <2>1. PICK last \in Nat : last = Len(queue) + 1
    BY <1>7
  <2>2. queue'[last] = Announced(s) /\ Tells(last, p)'
    BY <1>7, <2>1 DEF Tells, Announced
  <2>3. n = last
    BY <1>7, <2>1, <2>2 DEF Places
  <2> QED BY <1>6, <2>2, <2>3 DEF Announced
<1> QED BY <1>5, <1>8 DEF InSight

(* Somebody closes a socket: the last they had, of which there is nothing else
   to tell, or one of several.                                              *)
LEMMA UnregisterPresence ==
    ASSUME ChatTypeOK, SocketsAreSomebodys, NEW s \in Sockets, NEW p \in Talkers,
           Unregister(s), socket[s].person = p, InSight(p)
    PROVE  InSight(p)'
<1> DEFINE i == socket[s].instance
<1>1. /\ \A t \in Sockets \ {s} : socket'[t] = socket[t]
      /\ socket'[s].instance = i /\ socket'[s].person = p
      /\ socket[s].at = "reading" /\ queue' = queue
      /\ socket'[s].at = IF ByUser(i, p) = {s} THEN "goodbye" ELSE "closed"
  BY SocketStepIsOwn, UnregisterEffect DEF SocketStep
<1>2. i \in Instances /\ Registered(s) /\ ~Registered(s)'
  BY <1>1 DEF SocketsAreSomebodys, Registered
<1>3. CASE ByUser(i, p) = {s}
  <2>1. \A t \in Sockets \ {s} : socket[t].person = p =>
            ~Registered(t) /\ socket[t].at # "goodbye"
    BY <1>2, <1>3 DEF InSight, Together, ByUser
  <2>2. \A t \in Sockets \ {s} : socket'[t].person = p =>
            ~Registered(t)' /\ socket'[t].at \notin {"hello", "goodbye"}
    BY <1>1, <2>1 DEF Registered
  <2>3. Announcing(p)'
    BY <1>1, <1>3 DEF Announcing
  <2>4. Together(p)'
    BY <1>2, <2>2 DEF Together
  <2> QED BY <2>3, <2>4 DEF InSight, LastIsSo
<1>4. CASE ByUser(i, p) # {s}
  <2>1. socket'[s].at = "closed" /\ s \in ByUser(i, p)
    BY <1>1, <1>2, <1>4 DEF ByUser
  <2>2. PICK u \in ByUser(i, p) : u # s
    BY <1>4, <2>1
  <2>3. Together(p)'
    <3>1. \A t \in Sockets : socket'[t].person = p =>
              /\ socket[t].person = p /\ socket'[t].instance = socket[t].instance
              /\ Registered(t)' => Registered(t)
              /\ socket'[t].at \in {"hello", "goodbye"} => socket'[t].at = socket[t].at
      BY <1>1, <1>2, <2>1 DEF Registered
    <3> QED BY <3>1 DEF InSight, Together
  <2>4. Online(p) /\ Online(p)'
    <3>1. u \in Sockets /\ Registered(u) /\ socket[u].instance = i /\ socket[u].person = p
      BY <2>2 DEF ByUser
    <3>2. Registered(u)' /\ socket'[u].instance = i /\ socket'[u].person = p
      BY <1>1, <2>2, <3>1 DEF Registered
    <3> QED BY <1>2, <3>1, <3>2 DEF Online, ByUser
  <2>5. Announcing(p) => Announcing(p)'
    BY <1>1 DEF Announcing
  <2> QED BY <1>1, <2>3, <2>4, <2>5, LastStays DEF InSight, PlacesKept, NothingToldOf, Places
<1> QED BY <1>3, <1>4

LEMMA SocketStepPresence ==
    ASSUME ChatTypeOK, MessagesKept, PresenceKept, NEW s \in Sockets, SocketStep(s)
    PROVE  PresenceKept'
<1>1. SocketsAreSomebodys /\ SeenAreLatest /\ \A p \in Talkers \ crossed : InSight(p)
  BY PresenceKeptIs DEF MessagesKept
<1>2. crossed \subseteq crossed' /\ UNCHANGED <<reached, deaf, writing, seen>>
  BY DEF SocketStep, Register, AnnouncePresence, AnnounceFails, IsMember, Subscribe,
     Unregister, wireVars, toldVars
<1>3. PlacesKept /\ Places' \subseteq Places \cup {Len(queue) + 1}
  <2>1. CASE AnnouncePresence(s)
    <3>1. Announced(s) \in Notices /\ Publish(Announced(s))
      BY <1>1, <2>1, AnnouncedIsNotice DEF AnnouncePresence
    <3> QED BY <3>1, QueueGrows DEF ChatTypeOK, PlacesKept
  <2>2. CASE queue' = queue
    BY <2>2 DEF PlacesKept, Places
  <2> QED BY <2>1, <2>2 DEF SocketStep, Register, AnnounceFails, IsMember, Subscribe,
         Unregister
<1>4. \A t \in Sockets \ {s} : socket'[t] = socket[t]
  BY SocketStepIsOwn
<1>5. ASSUME NEW p \in Talkers \ crossed'
      PROVE  InSight(p)'
  <2>1. InSight(p)
    BY <1>1, <1>2
  <2>2. CASE socket[s].person # p /\ socket'[s].person # p
    BY <1>3, <2>1, <2>2, SocketStepOthers, SightStays
  <2>3. ASSUME NEW i \in Instances, NEW q \in Talkers, Register(s, i, q)
        PROVE  InSight(p)'
    <3>1. socket[s].person = Nothing /\ socket'[s].person = q
      BY <1>1, <2>3, RegisterEffect DEF SocketsAreSomebodys, Unopened
    <3>2. CASE q = p
      BY <1>1, <2>1, <2>3, <3>2, RegisterPresence
    <3> QED BY <2>2, <3>1, <3>2, NothingAssumption
  <2>4. CASE AnnouncePresence(s)
    <3>1. socket'[s].person = socket[s].person
      BY <2>4, AnnounceEffect
    <3> QED BY <1>1, <2>1, <2>2, <2>4, <3>1, AnnouncePresencePresence
  <2>5. CASE AnnounceFails(s)
    <3>1. socket'[s].person = socket[s].person /\ socket[s].person \in crossed'
      BY <2>5, AnnounceEffect DEF AnnounceFails
    <3> QED BY <2>2, <3>1
  <2>6. CASE IsMember(s) \/ Subscribe(s)
    <3>1. SightKept(p)
      BY <1>4, <2>6, AskingEffect DEF SightKept, Registered
    <3>2. NothingToldOf(p)
      BY <2>6, AskingEffect DEF NothingToldOf, Places
    <3> QED BY <1>3, <2>1, <3>1, <3>2, SightStays
  <2>7. CASE Unregister(s)
    <3>1. socket'[s].person = socket[s].person
      BY <2>7, UnregisterEffect
    <3> QED BY <1>1, <2>1, <2>2, <2>7, <3>1, UnregisterPresence
  <2> QED BY <2>3, <2>4, <2>5, <2>6, <2>7 DEF SocketStep
<1>6. SeenAreLatest'
  <2>1. Registered(s)' =>
            \/ /\ Registered(s) /\ socket'[s].person = socket[s].person
               /\ socket'[s].instance = socket[s].instance
               /\ socket'[s].missed = socket[s].missed
            \/ socket[s].at = "unopened" /\ (socket'[s].missed <=> socket'[s].instance \in deaf)
    <3>1. CASE \E i \in Instances, p \in Talkers : Register(s, i, p)
      BY <3>1, RegisterEffect
    <3>2. CASE AnnouncePresence(s) \/ AnnounceFails(s)
      BY <3>2, AnnounceEffect DEF Registered, After
    <3>3. CASE IsMember(s) \/ Subscribe(s)
      BY <3>3, AskingEffect DEF Registered
    <3>4. CASE Unregister(s)
      <4>1. socket'[s].at \in {"goodbye", "closed"}
        BY <3>4, UnregisterEffect
      <4> QED BY <4>1 DEF Registered
    <3> QED BY <3>1, <3>2, <3>3, <3>4 DEF SocketStep
  <2>2. \A t \in Sockets : Registered(t)' =>
            \/ /\ Registered(t) /\ socket'[t].person = socket[t].person
               /\ socket'[t].instance = socket[t].instance
               /\ socket'[t].missed = socket[t].missed
            \/ socket[t].at = "unopened" /\ (socket'[t].missed <=> socket'[t].instance \in deaf)
    BY <1>4, <2>1 DEF Registered
  <2> QED BY <1>1, <1>2, <1>3, <2>2, QuietSeen
<1> QED BY <1>5, <1>6 DEF PresenceKept, SeenAreLatest, Listening

(* A listener that is lost, or a process: its sockets have missed something or
   are gone, and whoever was there is out of sight.                         *)
LEMMA ListenerPresence ==
    ASSUME ChatTypeOK, MessagesKept, PresenceKept, NEW i \in Instances, ListenerStep(i)
    PROVE  PresenceKept'
<1>1. WritesTheLast /\ SocketsAreSomebodys /\ SeenAreLatest
  BY PresenceKeptIs DEF MessagesKept
<1>2. /\ UNCHANGED <<queue, seen>> /\ writing' = [writing EXCEPT ![i] = {}]
      /\ \A j \in Instances \ {i} :
            reached'[j] = reached[j] /\ (j \in deaf' <=> j \in deaf)
      /\ \A s \in Sockets :
            /\ socket'[s].person = socket[s].person
            /\ socket'[s].instance = socket[s].instance
            /\ socket[s].instance # i => socket'[s] = socket[s]
            /\ socket'[s].at = socket[s].at \/ socket'[s].at = "closed"
            /\ ~socket'[s].missed => ~socket[s].missed
            /\ socket[s].instance = i /\ Registered(s)' => i \in deaf \/ socket'[s].missed
      /\ \A p \in Talkers \ crossed' :
            /\ p \notin crossed
            /\ \A s \in Sockets : socket[s].person = p => socket'[s].at = socket[s].at
  BY <1>1, ListenerEffect
<1>3. PlacesKept /\ Places' = Places
  BY <1>2 DEF PlacesKept, Places
<1>4. ASSUME NEW p \in Talkers \ crossed'
      PROVE  InSight(p)'
  <2>1. SightKept(p)
    BY <1>2 DEF SightKept, Registered
  <2>2. NothingToldOf(p)
    BY <1>3 DEF NothingToldOf
  <2> QED BY <1>2, <1>3, <2>1, <2>2, SightStays DEF PresenceKept
<1>5. SeenAreLatest'
  <2> SUFFICES ASSUME NEW s \in Sockets, NEW j \in Instances, Listening(s, j)'
               PROVE  j \notin deaf' /\ \A p \in Talkers : SeenIsLatest(s, j, p)'
    BY DEF SeenAreLatest
  <2>1. socket'[s].instance = j /\ Registered(s)' /\ ~socket'[s].missed
    BY DEF Listening
  <2>2. Listening(s, j)
    <3>1. Registered(s)
      BY <1>2, <2>1 DEF Registered
    <3> QED BY <1>2, <2>1, <3>1 DEF Listening
  <2>3. j \notin deaf /\ \A p \in Talkers : SeenIsLatest(s, j, p)
    BY <1>1, <2>2 DEF SeenAreLatest
  <2>4. j # i
    BY <1>2, <2>1, <2>3
  <2>5. writing'[j] = writing[j] /\ reached'[j] = reached[j] /\ j \notin deaf'
    BY <1>2, <2>3, <2>4 DEF ChatTypeOK
  <2> QED BY <1>2, <1>3, <2>3, <2>5, SeenStays
<1> QED BY <1>4, <1>5 DEF PresenceKept, SeenAreLatest, Listening

(* Nothing that says who is where, and nothing published. *)
LEMMA NobodyMoves ==
    ASSUME PresenceKept, UNCHANGED <<queue, socket, crossed>>
    PROVE  \A p \in Talkers \ crossed' : InSight(p)'
<1>1. PlacesKept /\ \A p \in Talkers : SightKept(p) /\ NothingToldOf(p)
  BY DEF PlacesKept, SightKept, NothingToldOf, Registered, Places
<1> QED BY <1>1, SightStays DEF PresenceKept

(* What an instance reads it is to write to all its sockets that have not said
   it of themselves.                                                        *)
LEMMA DispatchPresence ==
    ASSUME ChatTypeOK, MessagesKept, PresenceKept, NEW i \in Instances, Dispatch(i)
    PROVE  PresenceKept'
<1> DEFINE n == reached[i] + 1
<1>1. /\ writing[i] = {} /\ n \in Places
      /\ reached' = [reached EXCEPT ![i] = n]
      /\ writing' = [writing EXCEPT ![i] = Targets(i, queue[n]) \X {n}]
      /\ UNCHANGED <<seen, queue, deaf, socket, crossed>>
  BY DispatchEffect
<1>2. PlacesKept /\ Places' = Places
  BY <1>1 DEF PlacesKept, Places
<1>3. ASSUME NEW s \in Sockets, NEW j \in Instances, Listening(s, j)', NEW p \in Talkers
      PROVE  j \notin deaf' /\ SeenIsLatest(s, j, p)'
  <2>1. Listening(s, j)
    BY <1>1, <1>3 DEF Listening, Registered
  <2>2. j \notin deaf /\ SeenIsLatest(s, j, p)
    BY <2>1, PresenceKeptIs DEF SeenAreLatest
  <2>3. CASE j # i
    <3>1. writing'[j] = writing[j] /\ reached'[j] = reached[j]
      BY <1>1, <2>3 DEF ChatTypeOK
    <3> QED BY <1>1, <1>2, <2>2, <3>1, SeenStays
  <2>4. CASE j = i /\ seen[s][p] = Nothing
    BY <1>1, <2>2, <2>4 DEF SeenIsLatest
  <2>5. CASE j = i /\ seen[s][p] # Nothing
    <3>1. PICK m \in Places :
              /\ m <= reached[i] /\ Tells(m, p) /\ seen[s][p] = queue[m].state
              /\ \A k \in Places : ~(m < k /\ k <= reached[i] /\ Tells(k, p))
      BY <1>1, <2>2, <2>5 DEF SeenIsLatest
    <3>2. socket[s].person # p
      BY <2>2, <2>5 DEF SeenIsLatest
    <3>3. reached[i] \in Nat /\ reached'[i] = n /\ writing'[i] = Targets(i, queue[n]) \X {n}
      BY <1>1 DEF ChatTypeOK
    <3>4. ASSUME NEW k \in Places, m < k, k <= n, Tells(k, p)
          PROVE  <<s, k>> \in writing'[i]
      <4>1. k = n
        BY <3>1, <3>3, <3>4 DEF Places
      <4>2. s \in Targets(i, queue[n])
        BY <2>1, <2>5, <3>2, <3>4, <4>1 DEF Targets, Tells, Listening
      <4> QED BY <3>3, <4>1, <4>2
    <3>5. m <= n
      BY <3>1, <3>3 DEF Places
    <3>6. \A k \in Places : Tells(k, p)' <=> Tells(k, p)
      BY <1>1 DEF Tells
    <3>7. /\ m \in Places' /\ m <= reached'[i] /\ Tells(m, p)'
          /\ seen'[s][p] = queue'[m].state
      BY <1>1, <1>2, <3>1, <3>3, <3>5, <3>6
    <3>8. \A k \in Places' : m < k /\ k <= reached'[i] /\ Tells(k, p)' => <<s, k>> \in writing'[i]
      BY <1>2, <3>3, <3>4, <3>6
    <3> QED BY <1>1, <2>2, <2>5, <3>2, <3>7, <3>8 DEF SeenIsLatest
  <2> QED BY <1>1, <2>2, <2>3, <2>4, <2>5
<1>4. ASSUME NEW s \in Sockets, NEW j \in Instances, Listening(s, j)'
      PROVE  j \notin deaf'
  <2>1. Listening(s, j)
    BY <1>1, <1>4 DEF Listening, Registered
  <2> QED BY <1>1, <2>1, PresenceKeptIs DEF SeenAreLatest
<1>5. \A p \in Talkers \ crossed' : InSight(p)'
  BY <1>1, NobodyMoves
<1> QED BY <1>3, <1>4, <1>5 DEF PresenceKept, Listening

(* What a socket is written is what its instance read last. *)
LEMMA SendPresence ==
    ASSUME ChatTypeOK, MessagesKept, PresenceKept, NEW i \in Instances,
           NEW s \in Sockets, NEW n \in Places, Send(i, s, n)
    PROVE  PresenceKept'
<1>1. /\ <<s, n>> \in writing[i] /\ writing' = [writing EXCEPT ![i] = writing[i] \ {<<s, n>>}]
      /\ UNCHANGED <<queue, reached, deaf, socket, crossed>>
      /\ seen' = IF Registered(s) /\ queue[n].type = "presence"
                 THEN [seen EXCEPT ![s][queue[n].person] = queue[n].state] ELSE seen
  BY DEF Send
<1>2. /\ n = reached[i] /\ socket[s].instance = i
      /\ queue[n].type = "presence" => socket[s].person # queue[n].person
  BY <1>1 DEF MessagesKept, WritesTheLast
<1>3. PlacesKept /\ Places' = Places
  BY <1>1 DEF PlacesKept, Places
<1>4. ASSUME NEW t \in Sockets, NEW j \in Instances, Listening(t, j)'
      PROVE  Listening(t, j) /\ j \notin deaf'
  <2>1. Listening(t, j)
    BY <1>1, <1>4 DEF Listening, Registered
  <2> QED BY <1>1, <2>1, PresenceKeptIs DEF SeenAreLatest
<1>5. ASSUME NEW t \in Sockets, NEW j \in Instances, Listening(t, j)', NEW p \in Talkers
      PROVE  SeenIsLatest(t, j, p)'
  <2>1. Listening(t, j) /\ SeenIsLatest(t, j, p)
    BY <1>4, <1>5, PresenceKeptIs DEF SeenAreLatest
  <2>2. CASE t = s /\ Tells(n, p)
    <3>1. j = i /\ Registered(s)
      BY <1>2, <2>1, <2>2 DEF Listening
    <3>2. seen'[s][p] = queue[n].state
      BY <1>1, <2>2, <3>1 DEF Tells, ChatTypeOK
    <3>3. socket'[s].person # p
      BY <1>1, <1>2, <2>2 DEF Tells
    <3>4. Tells(n, p)' /\ n \in Places' /\ n <= reached'[i]
      BY <1>1, <1>2, <1>3, <2>2 DEF Tells, Places
    <3>5. \A k \in Places' : ~(n < k /\ k <= reached'[i])
      BY <1>1, <1>2, <1>3 DEF Places
    <3> QED BY <1>1, <2>2, <3>1, <3>2, <3>3, <3>4, <3>5 DEF SeenIsLatest
  <2>3. CASE ~(t = s /\ Tells(n, p))
    <3>1. seen'[t][p] = seen[t][p]
      BY <1>1, <2>3 DEF Tells, ChatTypeOK
    <3>2. \A k \in Places : Tells(k, p) /\ <<t, k>> \in writing[j] => <<t, k>> \in writing'[j]
      BY <1>1, <2>3 DEF ChatTypeOK
    <3> QED BY <1>1, <1>3, <2>1, <3>1, <3>2, SeenStays
  <2> QED BY <2>2, <2>3
<1>6. \A p \in Talkers \ crossed' : InSight(p)'
  BY <1>1, NobodyMoves
<1> QED BY <1>4, <1>5, <1>6 DEF PresenceKept, Listening

(* Whoever was not written something does not hear all any more. *)
LEMMA WriteFailsPresence ==
    ASSUME ChatTypeOK, MessagesKept, PresenceKept, NEW i \in Instances,
           NEW s \in Sockets, NEW n \in Places, WriteFails(i, s, n)
    PROVE  PresenceKept'
<1>1. /\ UNCHANGED <<queue, reached, deaf, seen, crossed>>
      /\ socket'[s].missed
      /\ \A t \in Sockets : /\ t # s => socket'[t] = socket[t]
                            /\ socket'[t].person = socket[t].person
                            /\ socket'[t].instance = socket[t].instance
                            /\ socket'[t].at = socket[t].at
      /\ writing' = [writing EXCEPT ![i] = writing[i] \ {<<s, n>>}]
  BY WriteFailsEffect
<1>2. PlacesKept /\ Places' = Places
  BY <1>1 DEF PlacesKept, Places
<1>3. \A p \in Talkers \ crossed' : InSight(p)'
  <2>1. \A p \in Talkers : SightKept(p) /\ NothingToldOf(p)
    BY <1>1, <1>2 DEF SightKept, NothingToldOf, Registered
  <2> QED BY <1>1, <1>2, <2>1, SightStays DEF PresenceKept
<1>4. ASSUME NEW t \in Sockets, NEW j \in Instances, Listening(t, j)'
      PROVE  j \notin deaf' /\ \A p \in Talkers : SeenIsLatest(t, j, p)'
  <2>1. t # s /\ Listening(t, j)
    BY <1>1, <1>4 DEF Listening, Registered
  <2>2. j \notin deaf /\ \A p \in Talkers : SeenIsLatest(t, j, p)
    BY <2>1, PresenceKeptIs DEF SeenAreLatest
  <2>3. \A k \in Places : <<t, k>> \in writing[j] => <<t, k>> \in writing'[j]
    BY <1>1, <2>1 DEF ChatTypeOK
  <2> QED BY <1>1, <1>2, <2>2, <2>3, SeenStays
<1> QED BY <1>3, <1>4 DEF PresenceKept, Listening

LEMMA PresenceInit == ChatInit => PresenceKept
<1> SUFFICES ASSUME ChatInit PROVE PresenceKept
  OBVIOUS
<1>1. \A s \in Sockets : socket[s].at = "unopened" /\ ~Registered(s)
  BY DEF ChatInit, Unopened, Registered
<1>2. Places = {}
  BY DEF ChatInit, Places
<1> QED BY <1>1, <1>2 DEF PresenceKept, InSight, Together, LastIsSo

LEMMA PresenceStep ==
    ChatTypeOK /\ MessagesKept /\ PresenceKept /\ [ChatNext]_chatVars => PresenceKept'
<1> SUFFICES ASSUME ChatTypeOK, MessagesKept, PresenceKept, [ChatNext]_chatVars
             PROVE  PresenceKept'
  OBVIOUS
<1>1. CASE ConversationStep \/ \E m \in Texts : PublishMessage(m)
  BY <1>1, ConversationPresence
<1>2. CASE \E s \in Sockets : SocketStep(s)
  BY <1>2, SocketStepPresence
<1>3. CASE \E i \in Instances : Dispatch(i)
  BY <1>3, DispatchPresence
<1>4. CASE \E i \in Instances : ListenerStep(i)
  BY <1>4, ListenerPresence
<1>5. CASE \E i \in Instances : \E s \in Sockets : \E n \in Places : Send(i, s, n)
  BY <1>5, SendPresence
<1>6. CASE \E i \in Instances : \E s \in Sockets : \E n \in Places : WriteFails(i, s, n)
  BY <1>6, WriteFailsPresence
<1>7. CASE UNCHANGED chatVars
  <2>1. UNCHANGED <<queue, reached, deaf, writing, socket, seen, crossed>>
    BY <1>7 DEF chatVars, wireVars, toldVars
  <2>2. \A p \in Talkers \ crossed' : InSight(p)'
    BY <2>1, NobodyMoves
  <2>3. SeenAreLatest'
    BY <2>1, PresenceKeptIs
       DEF SeenAreLatest, Listening, Registered, SeenIsLatest, Tells, Places
  <2> QED BY <2>2, <2>3 DEF PresenceKept, SeenAreLatest, Listening
<1> QED BY <1>1, <1>2, <1>3, <1>4, <1>5, <1>6, <1>7, ChatSteps

(* The inductive invariant of who is online. *)
THEOREM PresenceIsKept == ChatSpec => []PresenceKept
<1>1. ChatSpec => [](ChatTypeOK /\ MessagesKept)
  BY MessagesAreKept
<1> QED BY <1>1, PresenceInit, PresenceStep, PTL DEF ChatSpec

LEMMA KeptIsTrue == ChatTypeOK /\ MessagesKept /\ PresenceKept => PresenceIsTrue
<1> SUFFICES ASSUME ChatTypeOK, MessagesKept, PresenceKept,
                    NEW s \in Sockets, NEW p \in Talkers,
                    Registered(s), ~socket[s].missed, Quiet(s), p \notin crossed,
                    ~Announcing(p), seen[s][p] # Nothing
             PROVE  seen[s][p] = State(p)
  BY DEF PresenceIsTrue, State
<1> DEFINE i == socket[s].instance
<1>1. i \in Instances
  BY DEF MessagesKept, SocketsAreSomebodys, Registered
<1>2. SeenIsLatest(s, i, p)
  BY <1>1 DEF PresenceKept
<1>3. writing[i] = {} /\ reached[i] = Len(queue)
  BY DEF Quiet
<1>4. PICK n \in Places :
          /\ n <= reached[i] /\ Tells(n, p) /\ seen[s][p] = queue[n].state
          /\ \A k \in Places : ~(n < k /\ k <= reached[i] /\ Tells(k, p))
  BY <1>2, <1>3 DEF SeenIsLatest
<1>5. \A k \in Places : Tells(k, p) => k <= n
  BY <1>3, <1>4 DEF Places, ChatTypeOK
<1> QED BY <1>4, <1>5 DEF PresenceKept, InSight, LastIsSo

(* What a socket was told of somebody the hub has not lost sight of is so as
   soon as all that was published is written.                               *)
THEOREM PresenceToldTrue == ChatSpec => []PresenceIsTrue
BY KeptIsTrue, MessagesAreKept, PresenceIsKept, PTL

-----------------------------------------------------------------------------
(* The desks. *)

(* The conversations the run begins with keep the invariants, too. *)
LEMMA ConversationStarts ==
    ASSUME ConversationInit
    PROVE  ChatTypeOK /\ MessagesKept /\ PresenceKept
<1>1. /\ queue = <<>> /\ Places = {} /\ deaf = {}
      /\ joined = members /\ members \subseteq Talkers
      /\ kind = "none" => members = {}
      /\ \A s \in Sockets : heard[s] = <<>> /\ DOMAIN heard[s] = {}
  BY PeopleAssumption DEF ConversationInit, Talking, Watching, Places
<1> DEFINE Rests(row) ==
             \/ row = Gone \/ row = Unopened
             \/ \E i \in Instances : row = Settled(p1, i) \/ row = Settled(p2, i)
<1>2. /\ socket = [z \in Sockets |-> socket[z]]
      /\ \A z \in Sockets : Rests(socket[z])
  <2>1. CASE Talking
    <3>1. CASE socket = [z \in Sockets |-> Gone]
      BY <3>1
    <3>2. ASSUME NEW i \in Instances, NEW j \in Instances, SettledAt(x1, i, x2, j, Gone)
          PROVE  /\ socket = [z \in Sockets |-> socket[z]]
                 /\ \A z \in Sockets : Rests(socket[z])
      BY <3>2 DEF SettledAt
    <3> HIDE DEF Rests
    <3> QED BY <2>1, <3>1, <3>2 DEF Talking
  <2>2. CASE Watching
    <3>1. PICK i \in Instances, j \in Instances : SettledAt(x1, i, x3, j, Unopened)
      BY <2>2 DEF Watching
    <3> QED BY <3>1 DEF SettledAt
  <2> QED BY <2>1, <2>2 DEF ConversationInit
<1>3. /\ Gone.at = "closed" /\ Gone.subscribed = FALSE /\ Gone \in SocketRows
      /\ Unopened.at = "unopened" /\ Unopened.subscribed = FALSE
      /\ Unopened \in SocketRows
  BY DEF Gone, Unopened, SocketRows
<1>4. \A p \in Talkers, i \in Instances :
        /\ Settled(p, i).at = "reading" /\ Settled(p, i).subscribed = FALSE
        /\ Settled(p, i).person = p /\ Settled(p, i).instance = i
        /\ Settled(p, i) \in SocketRows
  BY DEF Settled, Unopened, SocketRows
<1>5. \A z \in Sockets : socket[z] \in SocketRows
  BY <1>2, <1>3, <1>4, PeopleAssumption
<1>6. \A z \in Sockets :
        /\ socket[z].at \notin {"hello", "goodbye", "asking"} /\ ~socket[z].subscribed
        /\ socket[z].at = "unopened" => socket[z] = Unopened
        /\ socket[z].at \notin {"unopened", "closed"} =>
              socket[z].instance \in Instances /\ socket[z].person \in Talkers
  BY <1>2, <1>3, <1>4, PeopleAssumption
<1>7. ChatTypeOK
  <2>1. /\ text \in [Texts -> {"unsent", "stored", "told", "untold"}]
        /\ kind \in {"none", "direct", "group", "course"} /\ crossed \subseteq Talkers
    BY DEF ConversationInit, Talking, Watching
  <2>2. socket \in [Sockets -> SocketRows]
    BY <1>2, <1>5
  <2> QED BY <1>1, <2>1, <2>2 DEF ChatTypeOK, ConversationInit, SocketRows
<1>8. MessagesKept
  <2>1. OnePlace /\ HeardHasPlace /\ HeardInPlace /\ WritesTheLast
    BY <1>1 DEF OnePlace, HeardHasPlace, HeardInPlace, WritesTheLast
  <2>2. HeardIsReached
    BY <1>1 DEF HeardIsReached, HeardWithin
  <2>3. Admitted /\ SocketsAreSomebodys
    BY <1>1, <1>6 DEF ConversationInit, Admitted, SocketsAreSomebodys
  <2> QED BY <2>1, <2>2, <2>3 DEF MessagesKept
<1>9. PresenceKept
  <2>1. ASSUME NEW p \in Talkers \ crossed PROVE Together(p)
    <3>1. Watching
      BY <2>1 DEF ConversationInit, Talking
    <3>2. PICK i \in Instances, j \in Instances : SettledAt(x1, i, x3, j, Unopened)
      BY <3>1 DEF Watching
    <3>3. Unopened.person # p
      BY NothingAssumption DEF Unopened
    <3>4. \A z \in Sockets : socket[z].person = p =>
              socket[z].instance = IF p = p1 THEN i ELSE j
      BY <1>4, <3>2, <3>3, PeopleAssumption DEF SettledAt
    <3> QED BY <1>6, <3>4 DEF Together
  <2>2. \A p \in Talkers : LastIsSo(p)
    BY <1>1 DEF LastIsSo
  <2>3. \A s \in Sockets : \A p \in Talkers : seen[s][p] = Nothing
    BY DEF ConversationInit
  <2> QED BY <1>1, <2>1, <2>2, <2>3 DEF PresenceKept, InSight, SeenIsLatest
<1> QED BY <1>7, <1>8, <1>9

(* Looking at one desk at a time loses nothing: whichever desk a behaviour of
   the learner is about, each part of it is a behaviour of its own module, and
   the conversation keeps its invariants wherever it begins.                *)
THEOREM LearnerDesks ==
    LearnerSpec => /\ Spec /\ LessonsSpec /\ RewardsSpec /\ QuizSpec
                   /\ [](ChatTypeOK /\ MessagesKept /\ PresenceKept)
<1>1. LearnerInit => Init /\ LessonsInit /\ RewardsInit /\ QuizInit
  BY DEF LearnerInit
<1>2. LearnerInit => ChatTypeOK /\ MessagesKept /\ PresenceKept
  BY ConversationStarts, ChatInitTyped, MessagesInit, PresenceInit DEF LearnerInit
<1>3. [LearnerNext]_learnerVars => [Next]_vars
  BY DEF LearnerNext, learnerVars, AtSale, AtLessons, AtRewards, AtQuiz, AtChat
<1>4. [LearnerNext]_learnerVars => [LessonsNext]_lessonsVars
  BY DEF LearnerNext, learnerVars, AtSale, AtLessons, AtRewards, AtQuiz, AtChat
<1>5. [LearnerNext]_learnerVars => [RewardsNext]_rewardsVars
  BY DEF LearnerNext, learnerVars, AtSale, AtLessons, AtRewards, AtQuiz, AtChat
<1>6. [LearnerNext]_learnerVars => [QuizNext]_quizVars
  BY DEF LearnerNext, learnerVars, AtSale, AtLessons, AtRewards, AtQuiz, AtChat
<1>7. [LearnerNext]_learnerVars => [ChatNext]_chatVars
  BY DEF LearnerNext, learnerVars, AtSale, AtLessons, AtRewards, AtQuiz, AtChat
<1> QED BY <1>1, <1>2, <1>3, <1>4, <1>5, <1>6, <1>7, MessagesStep, PresenceStep, PTL
        DEF LearnerSpec, Spec, LessonsSpec, RewardsSpec, QuizSpec

(* So all that the run of the learner asks of its states holds of any learner:
   of as many orders, lessons, courses, questions, people and processes.    *)
THEOREM LearnerKept ==
    LearnerSpec => [](/\ LearnerTypeOK
                      /\ MoneyIsReal /\ RefundIsChased
                      /\ StatusFollowsRollup /\ StandingIsEarned
                      /\ BestIsKept /\ PassIsSettled
                      /\ HeardInOneOrder /\ PresenceIsTrue)
<1>1. RewardsInv => RewardsTypeOK /\ StandingIsEarned
  BY DEF RewardsInv
<1>2. TypeOK /\ LessonsTypeOK /\ RewardsTypeOK /\ QuizTypeOK /\ ChatTypeOK
      => LearnerTypeOK
  BY DEF LearnerTypeOK
<1> QED BY <1>1, <1>2, LearnerDesks, TypeCorrect, MoneyReal, RefundsAreChased,
           ProgressTyped, StatusIsFollowed, RewardsHold, AttemptsTyped, BestStands,
           PassSettles, KeptAreInOrder, KeptIsTrue, PTL
=============================================================================
