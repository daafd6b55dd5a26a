------------------------------ MODULE ChatRoom ------------------------------
(***************************************************************************)
(* The chat room of src/03NetPro_thread/04Project/chatroom: one server and *)
(* its clients on one System V queue.  A client is known by its id, its    *)
(* pid % 100, which is also the mtype it receives.  The server receives    *)
(* messages of every type, its own answers included.                       *)
(*                                                                         *)
(* The text of a message is abstracted to its command letter, the number   *)
(* that the server's parsing finds in it, the text of a chat, and a        *)
(* history field, whom a list is meant for.  The text of a chat may itself *)
(* begin like a command and a number; the server obeys it when it receives *)
(* the text that it has sent on (bound: a chat in a chat has plain text).  *)
(***************************************************************************)
EXTENDS SysVMsg, FiniteSets

CONSTANTS Ids,          \* the clients' ids: small numbers, pid % 100
          Commands,     \* the commands that a chat text may begin like
          QMax,         \* bound: messages the queue holds
          MaxSends,     \* bound: messages all clients send
          MaxStarts     \* bound: starts of the server

ASSUME IdsAssumption == /\ Ids \subseteq 0..99 /\ Commands \subseteq {"l", "L", "C"}
                        /\ QMax \in Nat \ {0}
                        /\ MaxSends \in Nat /\ MaxStarts \in Nat \ {0}

MY_TYPE == 1            \* the mtype of a client's first messages

NoOne == -1             \* not a client: the server

\* What a user may type for a chat: "l:00:<id>..", "L:<id>:", "C:<id>:..", or a
\* text that is no command.
Plain == [cmd |-> "text", id |-> 0]
Texts == {Plain} \cup [cmd : Commands, id : Ids]

\* A message that is not a list of the server's.
Msg(type, cmd, id, text) ==
    [mtype |-> type, cmd |-> cmd, id |-> id, text |-> text, to |-> NoOne]

VARIABLES queue,        \* the System V queue, which outlives the server
          users,        \* the server's list of users, in the order of login
          server,       \* "check", "rcv", "send", "ended"
          out,          \* messages the server's handler has yet to send
          srv_shutdown, \* set by sig_handler
          after,        \* history: messages received since srv_shutdown was set
          missed,       \* history: the signal came between loop test and msgrcv
          starts,       \* starts of the server so far
          client,       \* "poll", "menu" or "list" for each client
          mtype,        \* s_buf->mtype of each client
          owed,         \* history: list requests sent less lists that were received
          sends         \* messages that the clients sent so far

serverVars == <<users, server, out, srv_shutdown, after, missed, starts>>
clientVars == <<client, mtype, owed, sends>>
vars == <<queue, serverVars, clientVars>>

Init == /\ queue = <<>>
        /\ users = <<>> /\ server = "check" /\ out = <<>>
        /\ srv_shutdown = FALSE /\ after = 0 /\ missed = FALSE /\ starts = 1
        /\ client = [c \in Ids |-> "poll"]
        /\ mtype = [c \in Ids |-> MY_TYPE]
        /\ owed = [c \in Ids |-> 0]
        /\ sends = 0

----------------------------------------------------------------------------
(* The client *)

\* A client's msgrcv of type id: s_buf->mtype is overwritten.  The client with
\* id 0 receives messages of every type.
ClientRcv(c) == LET m == Received(queue, c)
                IN  /\ CanReceive(queue, c)
                    /\ mtype' = [mtype EXCEPT ![c] = m.mtype]
                    /\ owed' = [d \in Ids |-> owed[d] - (IF m.cmd = "L" /\ m.to = d THEN 1 ELSE 0)]
                    /\ queue' = AfterReceive(queue, c)

\* The msgrcv with IPC_NOWAIT at the top of the loop.
Poll(c) == /\ client[c] = "poll"
           /\ client' = [client EXCEPT ![c] = "menu"]
           /\ \/ ClientRcv(c)
              \/ ~CanReceive(queue, c) /\ UNCHANGED <<mtype, owed, queue>>
           /\ UNCHANGED <<serverVars, sends>>

\* Any other choice, and 'H': the loop goes round.
OtherChoice(c) == /\ client[c] = "menu"
                  /\ client' = [client EXCEPT ![c] = "poll"]
                  /\ UNCHANGED <<queue, serverVars, mtype, owed, sends>>

\* A client's msgsnd, of message m: its mtype stays in s_buf.
ClientSnd(c, m) == /\ sends < MaxSends
                   /\ CanSend(queue, QMax)
                   /\ sends' = sends + 1
                   /\ queue' = IF ValidType(m) THEN Append(queue, m) ELSE queue
                   /\ mtype' = [mtype EXCEPT ![c] = m.mtype]
                   /\ UNCHANGED serverVars

\* login(): "l:00:<id>#<name>", under whatever type s_buf still has.
login(c) == /\ client[c] = "menu"
            /\ ClientSnd(c, Msg(mtype[c], "l", c, Plain))
            /\ client' = [client EXCEPT ![c] = "poll"]
            /\ UNCHANGED owed

\* case 'L': "L:<id>:", after which the client waits for a message.
AskList(c) == /\ client[c] = "menu"
              /\ ClientSnd(c, Msg(mtype[c], "L", c, Plain))
              /\ client' = [client EXCEPT ![c] = "list"]
              /\ owed' = [owed EXCEPT ![c] = @ + 1]

\* the blocking msgrcv of case 'L'
GetList(c) == /\ client[c] = "list"
              /\ ClientRcv(c)
              /\ client' = [client EXCEPT ![c] = "poll"]
              /\ UNCHANGED <<serverVars, sends>>

\* chat(): "C:<dst>:<text>" under type dst, so that dst may receive it itself.
\* A text that reads as a request for a list is owed one.
chat(c, dst, text) ==
    /\ client[c] = "menu"
    /\ ClientSnd(c, Msg(dst, "C", dst, text))
    /\ client' = [client EXCEPT ![c] = "poll"]
    /\ owed' = [d \in Ids |-> owed[d] + (IF text = [cmd |-> "L", id |-> d] THEN 1 ELSE 0)]

----------------------------------------------------------------------------
(* The server *)

\* m_user_online_broadcast: "B:00:..." to every user, the new one included.
Broadcast(us) == [i \in 1..Len(us) |-> Msg(us[i], "B", 0, Plain)]

\* m_list_user(id): "L:00:..." to id
List(id) == [mtype |-> id, cmd |-> "L", id |-> 0, text |-> Plain, to |-> id]

\* Mutant: m_list_user(msg + 3), as in m_chat, starts at the second digit.
ListReplyLastDigit(m) == List(m.id % 10)

\* The id is the number after "L:".
ListReply(m) == List(m.id)

\* m_chat(msg + 3): for "C:12:text" the handler starts at the second digit, so
\* that it finds the last digit of the id; for "C:7:text" it starts at the
\* colon and finds 0.  What it sends on is the text from its second character
\* on, so that "@12:xL:12:" makes it send "L:12:".
ChatForward(m) == Msg(IF m.id >= 10 THEN m.id % 10 ELSE 0, m.text.cmd, m.text.id, Plain)

\* msg_handler: the answers to message m.  'B', 'Q' and 'F' are ignored and
\* other texts are reported as errors.
Answers(m, us) == CASE m.cmd = "l" -> Broadcast(us)
                    [] m.cmd = "L" -> <<ListReply(m)>>
                    [] m.cmd = "C" -> <<ChatForward(m)>>
                    [] OTHER       -> <<>>

\* Mutant: `while (1)' instead of `while (!srv_shutdown)'.
CheckNothing == /\ server = "check"
                /\ server' = "rcv"
                /\ UNCHANGED <<queue, users, out, srv_shutdown, after, missed, starts, clientVars>>

\* while (!srv_shutdown)
Check == /\ server = "check"
         /\ server' = IF srv_shutdown THEN "ended" ELSE "rcv"
         /\ UNCHANGED <<queue, users, out, srv_shutdown, after, missed, starts, clientVars>>

\* msgrcv(.., 0, ..) and msg_handler; a login adds its user to the list
\* before the broadcast.
Receive == /\ server = "rcv"
           /\ CanReceive(queue, 0)
           /\ LET m  == Received(queue, 0)
                  us == IF m.cmd = "l" THEN Append(users, m.id) ELSE users
              IN  /\ users' = us
                  /\ out' = Answers(m, us)
           /\ queue' = AfterReceive(queue, 0)
           /\ server' = "send"
           /\ after' = IF srv_shutdown THEN after + 1 ELSE after
           /\ UNCHANGED <<srv_shutdown, missed, starts, clientVars>>

\* send_msg of the next answer, which does not look at the result of msgsnd: an
\* answer of type 0 is lost.  When there is none, back to the loop test.
Send == /\ server = "send"
        /\ \/ /\ out = <<>>
              /\ server' = "check"
              /\ UNCHANGED <<queue, out>>
           \/ /\ out # <<>>
              /\ \/ /\ ValidType(Head(out))
                    /\ CanSend(queue, QMax)
                    /\ queue' = Append(queue, Head(out))
                 \/ /\ ~ValidType(Head(out))
                    /\ UNCHANGED queue
              /\ out' = Tail(out)
              /\ UNCHANGED server
        /\ UNCHANGED <<users, srv_shutdown, after, missed, starts, clientVars>>

\* SIGINT or SIGQUIT: sig_handler sets srv_shutdown.  A msgrcv that has begun
\* to block fails with EINTR and the loop test follows; one that has not yet
\* been called blocks all the same.  A blocked msgsnd fails and its message is
\* dropped.
Signal == /\ server # "ended"
          /\ ~srv_shutdown
          /\ srv_shutdown' = TRUE
          /\ \/ /\ server = "rcv" /\ queue = <<>>
                /\ server' = "check"
                /\ UNCHANGED out
             \/ /\ server = "send" /\ out # <<>>
                /\ ValidType(Head(out)) /\ ~CanSend(queue, QMax)
                /\ out' = Tail(out)
                /\ UNCHANGED server
             \/ UNCHANGED <<server, out>>
          /\ missed' = (server = "rcv" /\ server' = "rcv")
          /\ UNCHANGED <<queue, users, after, starts, clientVars>>

\* The server is started again: the users are gone, the queue is not, since
\* server_destroy is only called on an error path.
Restart == /\ server = "ended"
           /\ starts < MaxStarts
           /\ starts' = starts + 1
           /\ server' = "check" /\ users' = <<>> /\ out' = <<>>
           /\ srv_shutdown' = FALSE /\ after' = 0 /\ missed' = FALSE
           /\ UNCHANGED <<queue, clientVars>>

Next == \/ \E c \in Ids : \/ Poll(c) \/ OtherChoice(c) \/ login(c) \/ AskList(c) \/ GetList(c)
                          \/ \E dst \in Ids \ {c}, text \in Texts : chat(c, dst, text)
        \/ Check \/ Receive \/ Send \/ Signal \/ Restart

\* The server and a msgrcv of a client run; what users type, signals and
\* restarts are up to the environment.
Fairness == /\ WF_vars(Check) /\ WF_vars(Receive) /\ WF_vars(Send)
            /\ \A c \in Ids : WF_vars(Poll(c)) /\ WF_vars(GetList(c))

Spec == Init /\ [][Next]_vars /\ Fairness

----------------------------------------------------------------------------
(* Properties *)

Message == [mtype : 0..99, cmd : {"l", "L", "C", "B", "text"}, id : 0..99,
            text : [cmd : {"l", "L", "C", "text"}, id : 0..99], to : -1..99]

\* Types of the queue, of the server and of the clients.
TypeOK == /\ queue \in Seq(Message) /\ Len(queue) <= QMax
          /\ users \in Seq(0..99) /\ out \in Seq(Message)
          /\ server \in {"check", "rcv", "send", "ended"}
          /\ srv_shutdown \in BOOLEAN /\ after \in Nat /\ missed \in BOOLEAN
          /\ starts \in 1..MaxStarts
          /\ client \in [Ids -> {"poll", "menu", "list"}]
          /\ mtype \in [Ids -> 0..99]
          /\ owed \in [Ids -> Int] /\ sends \in 0..MaxSends

\* After SIGINT or SIGQUIT the server handles at most one more message: the
\* one that releases it from a msgrcv entered just before the signal.
AtMostOneMore == after <= 1

\* Requests for a list for c, chats that carry one, and lists for c, which
\* msgsnd does not reject
ListFor(m, c) == \/ m.cmd = "L" /\ m.to = NoOne /\ m.id = c
                 \/ m.cmd = "C" /\ m.text = [cmd |-> "L", id |-> c]
                 \/ m.cmd = "L" /\ m.to = c
ListsOf(c) == {m \in Message : ValidType(m) /\ ListFor(m, c)}
InFlight(q, c) == Places(q, ListsOf(c))

\* A client is never sent more lists than were requested for it, by itself or
\* by a chat whose text reads as such a request: the requests that the server
\* may still handle and the lists on their way to a client are at most as many
\* as it is owed, under whatever mtype a request was sent, whoever receives it,
\* and although the server also receives its own lists and the chats that it
\* has forwarded.
OwnList == \A c \in Ids :
              Cardinality(InFlight(queue, c)) + Cardinality(InFlight(out, c)) <= owed[c]

\* The server's parsing finds no id in a list of its own.
ListMessage(m) == m.to = NoOne \/ m.id = 0

\* What OwnList and AtMostOneMore need to be inductive.
IInv == /\ TypeOK /\ OwnList /\ AtMostOneMore
        /\ \A i \in 1..Len(queue) :
              ValidType(queue[i]) /\ (queue[i].cmd = "L" => ListMessage(queue[i]))
        /\ \A i \in 1..Len(out) : out[i].cmd = "L" => ListMessage(out[i])
        /\ server # "send" => out = <<>>
        /\ after > 0 => srv_shutdown /\ server # "rcv"

\* A shutdown ends the server.  It goes on for ever only when the signal came
\* between the loop test and a msgrcv that then waits for ever on an empty
\* queue, or when it waits for ever in msgsnd on a full one.
ShutdownEnds ==
    <>[](srv_shutdown /\ server # "ended") =>
        \/ <>[](missed /\ server = "rcv" /\ queue = <<>>)
        \/ <>[](server = "send" /\ ~CanSend(queue, QMax))

\* What the comment above the loop of m_user_online_broadcast says: the login
\* message goes to the users.  The server does not receive it itself.
BroadcastForUsers ==
    [][server = "rcv" /\ server' = "send" => Head(queue).cmd # "B"]_vars

=============================================================================
