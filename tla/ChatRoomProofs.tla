--------------------------- MODULE ChatRoomProofs ---------------------------
(***************************************************************************)
(* Proofs about ChatRoom for every set of ids, id 0 included, every set of *)
(* commands that a chat may carry, every capacity of the queue and every   *)
(* number of messages and starts of the server.  The inductive invariant   *)
(* is IInv of module ChatRoom.                                             *)
(***************************************************************************)
EXTENDS ChatRoom, SysVMsgProofs

\* What IInv says of the messages in the queue and of those yet to be sent.
QueueOK(q) == \A i \in 1..Len(q) : ValidType(q[i]) /\ (q[i].cmd = "L" => ListMessage(q[i]))
OutOK(q) == \A i \in 1..Len(q) : q[i].cmd = "L" => ListMessage(q[i])

\* The lists and requests on their way can be counted.
LEMMA InFlightNat == ASSUME NEW q \in Seq(Message), NEW c
                     PROVE  Cardinality(InFlight(q, c)) \in Nat
BY PlacesFinite DEF InFlight

\* The initial states satisfy the inductive invariant.
LEMMA InitIInv == Init => IInv
<1> SUFFICES ASSUME Init PROVE IInv
    OBVIOUS
<1>1. \A c \in Ids : Cardinality(InFlight(<<>>, c)) = 0
    BY PlacesEmpty DEF InFlight
<1>2. OwnList
    BY <1>1 DEF Init, OwnList
<1>3. TypeOK
    <2>1. srv_shutdown \in BOOLEAN /\ missed \in BOOLEAN
        BY DEF Init
    <2>2. queue \in Seq(Message) /\ Len(queue) = 0 /\ users \in Seq(0..99) /\ out \in Seq(Message)
        BY DEF Init
    <2> QED
        BY <2>1, <2>2, IdsAssumption DEF Init, TypeOK, MY_TYPE
<1> QED
    BY <1>2, <1>3 DEF Init, IInv, AtMostOneMore

\* A client's msgsnd preserves it, when the client is owed a list for a request.
LEMMA ClientSndStep ==
    ASSUME IInv, NEW c \in Ids, NEW m \in Message, ClientSnd(c, m),
           m.cmd = "L" => ListMessage(m),
           client' \in [Ids -> {"poll", "menu", "list"}], owed' \in [Ids -> Int],
           \A d \in Ids : owed'[d] >= owed[d] + (IF m \in ListsOf(d) THEN 1 ELSE 0)
    PROVE  IInv'
<1> USE IdsAssumption DEF IInv
<1>1. /\ queue \in Seq(Message) /\ Len(queue) < QMax /\ out \in Seq(Message) /\ out' = out
      /\ users' = users /\ server' = server /\ srv_shutdown' = srv_shutdown
      /\ after' = after /\ missed' = missed /\ starts' = starts
      /\ sends < MaxSends /\ sends' = sends + 1 /\ mtype' = [mtype EXCEPT ![c] = m.mtype]
      /\ queue' = IF ValidType(m) THEN Append(queue, m) ELSE queue
    BY DEF ClientSnd, CanSend, serverVars, TypeOK
<1>2. queue' \in Seq(Message) /\ Len(queue') <= QMax
    BY <1>1
<1>3. TypeOK'
    BY <1>1, <1>2 DEF TypeOK, Message
<1>4. QueueOK(queue')
    BY <1>1 DEF QueueOK
<1>5. OwnList'
    <2> SUFFICES ASSUME NEW d \in Ids
                 PROVE  Cardinality(InFlight(queue', d)) + Cardinality(InFlight(out, d)) <= owed'[d]
        BY <1>1 DEF OwnList
    <2>1. Cardinality(InFlight(queue, d)) + Cardinality(InFlight(out, d)) <= owed[d] /\ owed[d] \in Int
        BY DEF OwnList, TypeOK
    <2>2. Cardinality(InFlight(Append(queue, m), d))
              = Cardinality(InFlight(queue, d)) + (IF m \in ListsOf(d) THEN 1 ELSE 0)
        BY <1>1, PlacesAppend DEF InFlight
    <2>3. Cardinality(InFlight(queue, d)) \in Nat /\ Cardinality(InFlight(out, d)) \in Nat
        BY <1>1, InFlightNat
    <2>4. owed'[d] \in Int /\ owed'[d] >= owed[d] + (IF m \in ListsOf(d) THEN 1 ELSE 0)
        OBVIOUS
    <2>5. CASE ValidType(m)
        <3>1. queue' = Append(queue, m)
            BY <1>1, <2>5
        <3> QED
            BY <2>1, <2>2, <2>3, <2>4, <3>1
    <2>6. CASE ~ValidType(m)
        <3>1. queue' = queue
            BY <1>1, <2>6
        <3> QED
            BY <2>1, <2>3, <2>4, <3>1
    <2> QED
        BY <2>5, <2>6
<1> QED
    BY <1>1, <1>3, <1>4, <1>5 DEF QueueOK, AtMostOneMore, ListMessage

\* A client's msgrcv preserves it: a list that was received is owed no more.
LEMMA ClientRcvStep ==
    ASSUME IInv, NEW c \in Ids, ClientRcv(c), UNCHANGED <<serverVars, sends>>,
           client' \in [Ids -> {"poll", "menu", "list"}]
    PROVE  IInv'
<1> USE IdsAssumption DEF IInv
<1> DEFINE m == Received(queue, c)
<1>0. c \in Nat
    OBVIOUS
<1>1. /\ queue \in Seq(Message) /\ out \in Seq(Message) /\ out' = out /\ sends' = sends
      /\ users' = users /\ server' = server /\ srv_shutdown' = srv_shutdown
      /\ after' = after /\ missed' = missed /\ starts' = starts
      /\ CanReceive(queue, c) /\ queue' = AfterReceive(queue, c)
      /\ mtype' = [mtype EXCEPT ![c] = m.mtype]
      /\ owed' = [d \in Ids |-> owed[d] - (IF m.cmd = "L" /\ m.to = d THEN 1 ELSE 0)]
    BY DEF ClientRcv, serverVars, TypeOK
<1>2. /\ m \in Message /\ queue' \in Seq(Message) /\ Len(queue') = Len(queue) - 1
      /\ \E i \in 1..Len(queue) : m = queue[i]
      /\ \A i \in 1..Len(queue') : \E j \in 1..Len(queue) : queue'[i] = queue[j]
    <2> DEFINE q == AfterReceive(queue, c)
    <2>0. queue \in Seq(Message) /\ c \in Nat /\ CanReceive(queue, c)
        BY <1>0, <1>1
    <2>1. queue \in Seq(Message) /\ CanReceive(queue, c) /\ queue' = q
        BY <1>1
    <2>2. /\ m \in Message /\ q \in Seq(Message) /\ Len(q) = Len(queue) - 1
          /\ \E i \in 1..Len(queue) : m = queue[i]
          /\ \A i \in 1..Len(q) : \E j \in 1..Len(queue) : q[i] = queue[j]
        BY <2>0, ReceiveIs
    <2> HIDE DEF q, m
    <2> QED
        BY <2>1, <2>2
<1>3. \A d \in Ids : Cardinality(InFlight(queue', d))
              = Cardinality(InFlight(queue, d)) - (IF m \in ListsOf(d) THEN 1 ELSE 0)
    BY <1>0, <1>1, ReceiveCounts DEF InFlight
<1>4. ValidType(m)
    BY <1>2
<1> HIDE DEF m
<1>5. owed' \in [Ids -> Int]
    BY <1>1 DEF TypeOK
<1>6. TypeOK'
    <2>1. mtype' \in [Ids -> 0..99]
        BY <1>1, <1>2 DEF TypeOK, Message
    <2>2. Len(queue') <= QMax
        BY <1>1, <1>2 DEF TypeOK
    <2> QED
        BY <1>1, <1>2, <1>5, <2>1, <2>2 DEF TypeOK
<1>7. QueueOK(queue')
    BY <1>2 DEF QueueOK
<1>8. OwnList'
    <2> SUFFICES ASSUME NEW d \in Ids
                 PROVE  Cardinality(InFlight(queue', d)) + Cardinality(InFlight(out, d)) <= owed'[d]
        BY <1>1 DEF OwnList
    <2>1. Cardinality(InFlight(queue, d)) + Cardinality(InFlight(out, d)) <= owed[d] /\ owed[d] \in Int
        BY DEF OwnList, TypeOK
    <2>2. Cardinality(InFlight(queue, d)) \in Nat /\ Cardinality(InFlight(out, d)) \in Nat
        BY <1>1, InFlightNat
    <2>3. m.cmd = "L" /\ m.to = d => m \in ListsOf(d)
        BY <1>2, <1>4 DEF ListsOf, ListFor
    <2> QED
        BY <1>1, <1>3, <2>1, <2>2, <2>3
<1> QED
    BY <1>1, <1>6, <1>7, <1>8 DEF QueueOK, AtMostOneMore, ListMessage

\* A step that changes nothing but where a client is preserves it.
LEMMA ClientMoves ==
    ASSUME IInv, UNCHANGED <<queue, serverVars, mtype, owed, sends>>,
           client' \in [Ids -> {"poll", "menu", "list"}]
    PROVE  IInv'
<1>1. /\ queue' = queue /\ out' = out /\ sends' = sends /\ users' = users /\ server' = server
      /\ srv_shutdown' = srv_shutdown /\ after' = after /\ missed' = missed /\ starts' = starts
      /\ mtype' = mtype /\ owed' = owed
    BY DEF serverVars
<1>2. TypeOK'
    BY <1>1 DEF IInv, TypeOK
<1>3. OwnList'
    BY <1>1 DEF IInv, OwnList
<1> QED
    BY <1>1, <1>2, <1>3 DEF IInv, AtMostOneMore, ListMessage

\* What a user types has the form of a message's text.
LEMMA TextIsOfMessage ==
    ASSUME NEW text \in Texts
    PROVE  text \in [cmd : {"l", "L", "C", "text"}, id : 0..99]
<1>1. CASE text = Plain
    BY <1>1 DEF Plain
<1>2. ASSUME NEW cmd \in Commands, NEW id \in Ids, text = [cmd |-> cmd, id |-> id]
      PROVE  text \in [cmd : {"l", "L", "C", "text"}, id : 0..99]
    <2>1. cmd \in {"l", "L", "C", "text"} /\ id \in 0..99
        BY IdsAssumption
    <2> QED
        BY <1>2, <2>1
<1>3. text \in [cmd : Commands, id : Ids] =>
          \E cmd \in Commands, id \in Ids : text = [cmd |-> cmd, id |-> id]
    OBVIOUS
<1> QED
    BY <1>1, <1>2, <1>3 DEF Texts

\* Every step of a client preserves it.
LEMMA ClientStep ==
    ASSUME IInv, NEW c \in Ids,
           \/ Poll(c) \/ OtherChoice(c) \/ login(c) \/ AskList(c) \/ GetList(c)
           \/ \E dst \in Ids \ {c}, text \in Texts : chat(c, dst, text)
    PROVE  IInv'
<1>1. /\ client \in [Ids -> {"poll", "menu", "list"}] /\ mtype[c] \in 0..99
      /\ owed \in [Ids -> Int] /\ Ids \subseteq 0..99
    BY IdsAssumption DEF IInv, TypeOK
<1>2. CASE Poll(c)
    <2>1. client' \in [Ids -> {"poll", "menu", "list"}] /\ UNCHANGED <<serverVars, sends>>
        BY <1>1, <1>2 DEF Poll
    <2>2. CASE ClientRcv(c)
        BY <2>1, <2>2, ClientRcvStep
    <2>3. CASE UNCHANGED <<mtype, owed, queue>>
        BY <2>1, <2>3, ClientMoves
    <2> QED
        BY <1>2, <2>2, <2>3 DEF Poll
<1>3. CASE OtherChoice(c)
    BY <1>1, <1>3, ClientMoves DEF OtherChoice
<1>4. CASE login(c)
    <2> DEFINE m == Msg(mtype[c], "l", c, Plain)
    <2>1. m \in Message /\ m.cmd = "l"
        BY <1>1 DEF Message, Msg, Plain, NoOne
    <2>2. ClientSnd(c, m) /\ client' = [client EXCEPT ![c] = "poll"] /\ owed' = owed
        BY <1>4 DEF login
    <2> HIDE DEF m
    <2>3. \A d \in Ids : m \notin ListsOf(d)
        BY <2>1 DEF ListsOf, ListFor
    <2> QED
        BY <1>1, <2>1, <2>2, <2>3, ClientSndStep
<1>5. CASE AskList(c)
    <2> DEFINE m == Msg(mtype[c], "L", c, Plain)
    <2>1. m \in Message /\ ListMessage(m) /\ m.cmd = "L" /\ m.id = c /\ m.to = NoOne
        BY <1>1 DEF Message, Msg, Plain, NoOne, ListMessage
    <2>2. ClientSnd(c, m) /\ client' = [client EXCEPT ![c] = "list"]
          /\ owed' = [owed EXCEPT ![c] = @ + 1]
        BY <1>5 DEF AskList
    <2> HIDE DEF m
    <2>3. \A d \in Ids : d # c => m \notin ListsOf(d)
        BY <1>1, <2>1 DEF ListsOf, ListFor, NoOne
    <2> QED
        BY <1>1, <2>1, <2>2, <2>3, ClientSndStep
<1>6. CASE GetList(c)
    BY <1>1, <1>6, ClientRcvStep DEF GetList
<1>7. ASSUME NEW dst \in Ids \ {c}, NEW text \in Texts, chat(c, dst, text) PROVE IInv'
    <2> DEFINE m == Msg(dst, "C", dst, text)
               Carries(d) == text = [cmd |-> "L", id |-> d]
    <2>1. m \in Message /\ m.cmd = "C" /\ m.text = text
        BY <1>1, TextIsOfMessage DEF Message, Msg, NoOne
    <2>2. /\ ClientSnd(c, m) /\ client' = [client EXCEPT ![c] = "poll"]
          /\ owed' = [d \in Ids |-> owed[d] + (IF Carries(d) THEN 1 ELSE 0)]
        BY <1>7 DEF chat
    <2> HIDE DEF m
    <2>3. \A d \in Ids : m \in ListsOf(d) => Carries(d)
        BY <2>1 DEF ListsOf, ListFor
    <2> HIDE DEF Carries
    <2>4. owed' \in [Ids -> Int]
        BY <1>1, <2>2
    <2>5. \A d \in Ids : owed'[d] >= owed[d] + (IF m \in ListsOf(d) THEN 1 ELSE 0)
        <3> TAKE d \in Ids
        <3>1. owed[d] \in Int /\ owed'[d] = owed[d] + (IF Carries(d) THEN 1 ELSE 0)
            BY <1>1, <2>2
        <3> QED
            BY <2>3, <3>1
    <2>6. client' \in [Ids -> {"poll", "menu", "list"}]
        BY <1>1, <2>2
    <2> QED
        BY <2>1, <2>2, <2>4, <2>5, <2>6, ClientSndStep
<1> QED
    BY <1>2, <1>3, <1>4, <1>5, <1>6, <1>7

\* What m_chat finds in an id is its last digit or 0.
LEMMA LastDigit == ASSUME NEW n \in 0..99 PROVE (IF n >= 10 THEN n % 10 ELSE 0) \in 0..99
BY SMT

\* The answers of the server are messages, and only a valid list for the client
\* that asked for it is one more on its way.
LEMMA AnswersAre ==
    ASSUME NEW m \in Message, ValidType(m), m.cmd = "L" => ListMessage(m),
           NEW us \in Seq(0..99)
    PROVE  /\ Answers(m, us) \in Seq(Message)
           /\ OutOK(Answers(m, us))
           /\ \A d \in Ids : Cardinality(InFlight(Answers(m, us), d))
                               <= IF m \in ListsOf(d) THEN 1 ELSE 0
<1> USE IdsAssumption
<1>1. CASE m.cmd = "L"
    <2> DEFINE r == ListReply(m)
    <2>1. /\ r \in Message /\ ListMessage(r) /\ r.cmd = "L"
          /\ r.mtype = m.id /\ r.to = m.id /\ m.id \in 0..99
        BY DEF ListReply, List, Plain, Message, ListMessage
    <2>2. Answers(m, us) = <<r>>
        BY <1>1 DEF Answers
    <2> HIDE DEF r
    <2>3. \A d \in Ids : r \in ListsOf(d) => m \in ListsOf(d)
        BY <1>1, <2>1 DEF ListsOf, ListFor, ValidType, ListMessage, NoOne
    <2>4. \A d \in Ids : Cardinality(InFlight(<<r>>, d)) = IF r \in ListsOf(d) THEN 1 ELSE 0
        BY PlacesOne DEF InFlight
    <2> QED
        BY <2>1, <2>2, <2>3, <2>4 DEF OutOK
<1>2. CASE m.cmd = "C"
    <2> DEFINE r == ChatForward(m)
               n == IF m.id >= 10 THEN m.id % 10 ELSE 0
    <2>1. /\ m.text \in [cmd : {"l", "L", "C", "text"}, id : 0..99] /\ n \in 0..99
        <3>1. m.id \in 0..99
            BY DEF Message
        <3>2. n \in 0..99
            BY <3>1, LastDigit, Zenon
        <3> QED
            BY <3>2 DEF Message
    <2>2. r = Msg(n, m.text.cmd, m.text.id, Plain)
        BY DEF ChatForward
    <2> HIDE DEF n, r
    <2>3. /\ r \in Message /\ ListMessage(r) /\ r.to = NoOne /\ r.text = Plain
          /\ r.cmd = m.text.cmd /\ r.id = m.text.id
        BY <2>1, <2>2 DEF Msg, Message, Plain, ListMessage, NoOne
    <2>4. \A d \in Ids : r \in ListsOf(d) => m \in ListsOf(d)
        BY <1>2, <2>1, <2>3 DEF ListsOf, ListFor, Plain, NoOne
    <2>5. Answers(m, us) = <<r>>
        BY <1>2 DEF Answers, r
    <2>6. \A d \in Ids : Cardinality(InFlight(<<r>>, d)) = IF r \in ListsOf(d) THEN 1 ELSE 0
        BY <2>3, PlacesOne DEF InFlight
    <2> QED
        BY <2>3, <2>4, <2>5, <2>6 DEF OutOK
<1>3. CASE m.cmd \notin {"L", "C"}
    <2>1. Answers(m, us) \in Seq(Message) /\ \A i \in 1..Len(Answers(m, us)) : Answers(m, us)[i].cmd = "B"
        <3>1. CASE m.cmd = "l"
            <4>1. Answers(m, us) = Broadcast(us)
                BY <3>1 DEF Answers
            <4>2. \A i \in 1..Len(us) : us[i] \in 0..99
                BY ElementOfSeq
            <4> DEFINE b(i) == Msg(us[i], "B", 0, Plain)
            <4>3. \A i \in 1..Len(us) : b(i) \in Message /\ b(i).cmd = "B"
                BY <4>2 DEF Message, Msg, Plain, NoOne
            <4>4. Broadcast(us) = [i \in 1..Len(us) |-> b(i)]
                BY DEF Broadcast
            <4> HIDE DEF b
            <4>5. Len(us) \in Nat
                OBVIOUS
            <4> QED
                BY <4>1, <4>3, <4>4, <4>5
        <3>2. CASE m.cmd # "l"
            BY <1>3, <3>2 DEF Answers
        <3> QED
            BY <3>1, <3>2
    <2> DEFINE a == Answers(m, us)
    <2> HIDE DEF a
    <2>2. \A d \in Ids : InFlight(a, d) = {}
        BY <2>1 DEF InFlight, Places, ListsOf, ListFor, a
    <2>3. \A d \in Ids : Cardinality(InFlight(a, d)) = 0
        BY <2>2, FS_EmptySet
    <2> QED
        BY <2>1, <2>3 DEF OutOK, a
<1> QED
    BY <1>1, <1>2, <1>3

\* Every step of the server, a signal and a restart preserve it.
LEMMA ServerStep ==
    ASSUME IInv, Check \/ Receive \/ Send \/ Signal \/ Restart PROVE IInv'
<1> USE IdsAssumption
<1>0. queue \in Seq(Message) /\ out \in Seq(Message) /\ users \in Seq(0..99)
      /\ after \in Nat /\ QueueOK(queue) /\ OutOK(out)
    BY DEF IInv, TypeOK, QueueOK, OutOK
<1>c. \A d \in Ids : /\ Cardinality(InFlight(queue, d)) \in Nat
                     /\ Cardinality(InFlight(out, d)) \in Nat /\ owed[d] \in Int
                     /\ Cardinality(InFlight(queue, d)) + Cardinality(InFlight(out, d)) <= owed[d]
    BY <1>0, InFlightNat DEF IInv, OwnList, TypeOK
<1>t. out # <<>> => /\ Tail(out) \in Seq(Message) /\ OutOK(Tail(out)) /\ Head(out) \in Message
                    /\ (Head(out).cmd = "L" => ListMessage(Head(out)))
    BY <1>0 DEF OutOK
<1>d. out # <<>> => \A d \in Ids : Cardinality(InFlight(Tail(out), d))
              = Cardinality(InFlight(out, d)) - (IF Head(out) \in ListsOf(d) THEN 1 ELSE 0)
    BY <1>0, PlacesTail DEF InFlight
<1>1. CASE Check
    <2>1. queue' = queue /\ out' = out /\ owed' = owed
        BY <1>1 DEF Check, clientVars
    <2>2. OwnList'
        BY <2>1 DEF IInv, OwnList
    <2> QED
        BY <1>1, <2>1, <2>2
        DEF Check, clientVars, IInv, TypeOK, AtMostOneMore, ListMessage
<1>2. CASE Receive
    <2> DEFINE m == Received(queue, 0)
               us == IF m.cmd = "l" THEN Append(users, m.id) ELSE users
               q == AfterReceive(queue, 0)
    <2>1. /\ server = "rcv" /\ CanReceive(queue, 0) /\ users' = us /\ out' = Answers(m, us)
          /\ queue' = q /\ server' = "send" /\ srv_shutdown' = srv_shutdown /\ missed' = missed /\ starts' = starts
          /\ after' = (IF srv_shutdown THEN after + 1 ELSE after) /\ UNCHANGED clientVars
        BY <1>2 DEF Receive
    <2>2. /\ m \in Message /\ q \in Seq(Message) /\ Len(q) = Len(queue) - 1
          /\ \E i \in 1..Len(queue) : m = queue[i]
          /\ \A i \in 1..Len(q) : \E j \in 1..Len(queue) : q[i] = queue[j]
        <3>1. queue \in Seq(Message) /\ 0 \in Nat /\ CanReceive(queue, 0)
            BY <1>0, <2>1
        <3> QED
            BY <3>1, ReceiveIs
    <2>3. \A d \in Ids : Cardinality(InFlight(q, d))
              = Cardinality(InFlight(queue, d)) - (IF m \in ListsOf(d) THEN 1 ELSE 0)
        BY <1>0, <2>1, ReceiveCounts DEF InFlight
    <2> HIDE DEF m, q
    <2>4. ValidType(m) /\ (m.cmd = "L" => ListMessage(m)) /\ QueueOK(q)
        BY <1>0, <2>2 DEF QueueOK
    <2>5. us \in Seq(0..99)
        BY <1>0, <2>2 DEF Message
    <2> HIDE DEF us
    <2>6. /\ Answers(m, us) \in Seq(Message) /\ OutOK(Answers(m, us))
          /\ \A d \in Ids : Cardinality(InFlight(Answers(m, us), d))
                              <= IF m \in ListsOf(d) THEN 1 ELSE 0
        BY <2>2, <2>4, <2>5, AnswersAre
    <2>7. \A d \in Ids : Cardinality(InFlight(Answers(m, us), d)) \in Nat
        BY <2>6, InFlightNat
    <2> DEFINE a == Answers(m, us)
    <2>8. \A d \in Ids : Cardinality(InFlight(q, d)) + Cardinality(InFlight(a, d)) <= owed[d]
        <3> HIDE DEF a
        <3> QED
            BY <1>c, <2>3, <2>6, <2>7 DEF a
    <2>9. OwnList'
        BY <2>1, <2>8 DEF OwnList, clientVars
    <2>10. TypeOK'
        <3>1. Len(queue') <= QMax /\ after' \in Nat
            BY <1>0, <2>1, <2>2 DEF IInv, TypeOK
        <3> QED
            BY <2>1, <2>2, <2>5, <2>6, <3>1 DEF IInv, TypeOK, clientVars
    <2>11. after' <= 1 /\ (after' > 0 => srv_shutdown')
        BY <1>0, <2>1 DEF IInv
    <2> QED
        BY <2>1, <2>4, <2>6, <2>9, <2>10, <2>11 DEF IInv, QueueOK, OutOK, AtMostOneMore, ListMessage
<1>3. CASE Send
    <2>0. /\ users' = users /\ srv_shutdown' = srv_shutdown /\ after' = after /\ missed' = missed /\ starts' = starts
          /\ server = "send" /\ UNCHANGED clientVars
        BY <1>3 DEF Send
    <2>1. CASE out = <<>> /\ server' = "check" /\ queue' = queue /\ out' = out
        <3>1. OwnList'
            BY <2>0, <2>1 DEF IInv, OwnList, clientVars
        <3> QED
            BY <2>0, <2>1, <3>1
            DEF clientVars, IInv, TypeOK, AtMostOneMore, ListMessage
    <2>2. CASE /\ out # <<>> /\ ValidType(Head(out)) /\ CanSend(queue, QMax)
               /\ queue' = Append(queue, Head(out)) /\ out' = Tail(out) /\ server' = server
        <3>1. \A d \in Ids : Cardinality(InFlight(Append(queue, Head(out)), d))
                = Cardinality(InFlight(queue, d)) + (IF Head(out) \in ListsOf(d) THEN 1 ELSE 0)
            BY <1>0, <1>t, <2>2, PlacesAppend DEF InFlight
        <3>2. OwnList'
            <4>1. \A d \in Ids : Cardinality(InFlight(Append(queue, Head(out)), d))
                                   + Cardinality(InFlight(Tail(out), d)) <= owed[d]
                <5> TAKE d \in Ids
                <5>1. Cardinality(InFlight(Tail(out), d))
                        = Cardinality(InFlight(out, d)) - (IF Head(out) \in ListsOf(d) THEN 1 ELSE 0)
                    BY <1>d, <2>2
                <5>2. /\ Cardinality(InFlight(queue, d)) \in Nat
                      /\ Cardinality(InFlight(out, d)) \in Nat /\ owed[d] \in Int
                      /\ Cardinality(InFlight(queue, d)) + Cardinality(InFlight(out, d)) <= owed[d]
                    BY <1>c
                <5>3. CASE Head(out) \in ListsOf(d)
                    BY <3>1, <5>1, <5>2, <5>3
                <5>4. CASE Head(out) \notin ListsOf(d)
                    BY <3>1, <5>1, <5>2, <5>4
                <5> QED
                    BY <5>3, <5>4
            <4> QED
                BY <2>0, <2>2, <4>1 DEF OwnList, clientVars
        <3>3. queue' \in Seq(Message) /\ Len(queue') <= QMax /\ QueueOK(queue')
            BY <1>0, <1>t, <2>2 DEF CanSend, QueueOK, IInv, TypeOK
        <3>4. TypeOK'
            BY <1>t, <2>0, <2>2, <3>3 DEF IInv, TypeOK, clientVars
        <3> QED
            BY <1>t, <2>0, <2>2, <3>2, <3>3, <3>4
            DEF IInv, QueueOK, OutOK, AtMostOneMore, ListMessage
    <2>3. CASE /\ out # <<>> /\ queue' = queue /\ out' = Tail(out) /\ server' = server
        <3>1. OwnList'
            <4>1. \A d \in Ids : Cardinality(InFlight(queue, d))
                                   + Cardinality(InFlight(Tail(out), d)) <= owed[d]
                BY <1>c, <1>d, <2>3
            <4> QED
                BY <2>0, <2>3, <4>1 DEF OwnList, clientVars
        <3>2. TypeOK'
            BY <1>t, <2>0, <2>3 DEF IInv, TypeOK, clientVars
        <3> QED
            BY <1>t, <2>0, <2>3, <3>1, <3>2
            DEF IInv, OutOK, AtMostOneMore, ListMessage
    <2> QED
        BY <1>3, <2>1, <2>2, <2>3 DEF Send
<1>4. CASE Signal
    <2>0. /\ users' = users /\ queue' = queue /\ after' = after /\ starts' = starts
          /\ ~srv_shutdown /\ srv_shutdown' = TRUE /\ missed' \in BOOLEAN
          /\ server # "ended" /\ UNCHANGED clientVars
        BY <1>4 DEF Signal
    <2>1. \/ server = "rcv" /\ server' = "check" /\ out' = out
          \/ server = "send" /\ out # <<>> /\ out' = Tail(out) /\ server' = server
          \/ server' = server /\ out' = out
        BY <1>4 DEF Signal
    <2>2. OwnList'
        <3>1. out # <<>> => \A d \in Ids : Cardinality(InFlight(queue, d))
                                   + Cardinality(InFlight(Tail(out), d)) <= owed[d]
            BY <1>c, <1>d
        <3> QED
            BY <1>c, <2>0, <2>1, <3>1 DEF OwnList, clientVars
    <2>3. out' \in Seq(Message) /\ OutOK(out')
        BY <1>0, <1>t, <2>1
    <2>4. TypeOK'
        BY <2>0, <2>1, <2>3 DEF IInv, TypeOK, clientVars
    <2> QED
        BY <1>0, <2>0, <2>1, <2>2, <2>3, <2>4
        DEF IInv, OutOK, AtMostOneMore, ListMessage
<1>5. CASE Restart
    <2>1. /\ queue' = queue /\ out' = <<>> /\ users' = <<>> /\ server' = "check"
          /\ srv_shutdown' = FALSE /\ after' = 0 /\ missed' = FALSE /\ UNCHANGED clientVars
          /\ server = "ended" /\ starts < MaxStarts /\ starts' = starts + 1
        BY <1>5 DEF Restart
    <2>2. out = <<>>
        BY <2>1 DEF IInv
    <2>3. OwnList'
        BY <2>1, <2>2 DEF IInv, OwnList, clientVars
    <2>4. TypeOK'
        <3>1. users' \in Seq(0..99) /\ out' \in Seq(Message)
            BY <2>1
        <3>2. starts' \in 1..MaxStarts
            BY <2>1 DEF IInv, TypeOK
        <3>3. srv_shutdown' \in BOOLEAN /\ missed' \in BOOLEAN
            BY <2>1, Zenon
        <3> QED
            BY <2>1, <3>1, <3>2, <3>3 DEF IInv, TypeOK, clientVars
    <2> QED
        BY <2>1, <2>3, <2>4 DEF IInv, AtMostOneMore, ListMessage
<1> QED
    BY <1>1, <1>2, <1>3, <1>4, <1>5

\* The inductive invariant holds in every reachable state.
THEOREM Invariance == Spec => []IInv
<1>1. IInv /\ [Next]_vars => IInv'
    <2> SUFFICES ASSUME IInv, [Next]_vars PROVE IInv'
        OBVIOUS
    <2>1. CASE UNCHANGED vars
        <3>1. client' \in [Ids -> {"poll", "menu", "list"}]
            BY <2>1 DEF vars, clientVars, IInv, TypeOK
        <3> QED
            BY <2>1, <3>1, ClientMoves DEF vars, clientVars
    <2> QED
        BY <2>1, ClientStep, ServerStep DEF Next
<1> QED
    BY InitIInv, <1>1, PTL DEF Spec

\* After a SIGINT or SIGQUIT the server handles at most one more message,
\* wherever in its loop the signal finds it.
THEOREM AtMostOneMoreHolds == Spec => []AtMostOneMore
<1>1. IInv => AtMostOneMore
    BY DEF IInv
<1> QED
    BY Invariance, <1>1, PTL

\* A client is never sent more lists than were requested for it, by itself or
\* by a chat whose text reads as such a request, whoever takes the requests,
\* the chats and the lists from the queue, and through signals and restarts.
THEOREM OwnListHolds == Spec => []OwnList
<1>1. IInv => OwnList
    BY DEF IInv
<1> QED
    BY Invariance, <1>1, PTL

=============================================================================
