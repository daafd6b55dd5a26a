----------------------------- MODULE EchoServer -----------------------------
(***************************************************************************)
(* The upper-casing echo server of                                         *)
(* src/02App_Devel/03IPC/04MsgQueue/03Project/echo_server: every client    *)
(* and the server share one System V queue.  A client sends its line with  *)
(* mtype 20 + pid % 10 and waits for a message of the same mtype; the      *)
(* server takes the first message of any type and sends it back in upper   *)
(* case under the mtype it came with.  Requests and answers are therefore  *)
(* told apart by nothing but the case of their letters.                    *)
(***************************************************************************)
EXTENDS SysVMsg, FiniteSets

CONSTANTS Clients,      \* client processes
          TypeOf,       \* their mtypes, 20 + pid % 10: not always different
          QMax,         \* bound: messages the queue holds
          None          \* no message

\* A message: its type, whose line it carries, and in which case.
Message == [mtype : Nat \ {0}, from : Clients, case : {"lower", "upper"}]

QueueAssumption == /\ IsFiniteSet(Clients) /\ TypeOf \in [Clients -> Nat \ {0}]
                   /\ QMax \in Nat \ {0} /\ None \notin Message

VARIABLES queue,    \* the System V queue
          client,   \* "input", "wait" or "gone" for each client
          got,      \* the last message that each client received
          inhand    \* the answer the server has yet to send, or None

vars == <<queue, client, got, inhand>>

Init == /\ queue = <<>>
        /\ client = [c \in Clients |-> "input"]
        /\ got = [c \in Clients |-> None]
        /\ inhand = None

\* The user types `exit'.
Exit(c) == /\ client[c] = "input"
           /\ client' = [client EXCEPT ![c] = "gone"]
           /\ UNCHANGED <<queue, got, inhand>>

\* The user types a line, and the client's msg_handler sends it.
ClientSend(c) == /\ client[c] = "input"
                 /\ CanSend(queue, QMax)
                 /\ queue' = Append(queue, [mtype |-> TypeOf[c], from |-> c, case |-> "lower"])
                 /\ client' = [client EXCEPT ![c] = "wait"]
                 /\ UNCHANGED <<got, inhand>>

\* msgrcv of the client's msg_handler, which asks for its own mtype.
ClientReceive(c) == /\ client[c] = "wait"
                    /\ CanReceive(queue, TypeOf[c])
                    /\ got' = [got EXCEPT ![c] = Received(queue, TypeOf[c])]
                    /\ queue' = AfterReceive(queue, TypeOf[c])
                    /\ client' = [client EXCEPT ![c] = "input"]
                    /\ UNCHANGED inhand

\* Mutant: mybuf.mtype is never set.
ToUpperNoType(m) == [m EXCEPT !.case = "upper", !.mtype = 0]

\* The server's msg_handler: mybuf.mtype = buf->mtype, letters to upper case.
ToUpper(m) == [m EXCEPT !.case = "upper"]

\* Mutant: the server sends the request's own answer and keeps it in hand.
ServerSendTwice == /\ inhand # None
                   /\ CanSend(queue, QMax)
                   /\ queue' = Append(queue, inhand)
                   /\ UNCHANGED <<client, got, inhand>>

\* msgrcv(.., 0, ..) of the server's main loop.
ServerReceive == /\ inhand = None
                 /\ CanReceive(queue, 0)
                 /\ inhand' = ToUpper(Received(queue, 0))
                 /\ queue' = AfterReceive(queue, 0)
                 /\ UNCHANGED <<client, got>>

\* msgsnd of the server's msg_handler.
ServerSend == /\ inhand # None
              /\ CanSend(queue, QMax)
              /\ queue' = Append(queue, inhand)
              /\ inhand' = None
              /\ UNCHANGED <<client, got>>

Next == \/ \E c \in Clients : Exit(c) \/ ClientSend(c) \/ ClientReceive(c)
        \/ ServerReceive \/ ServerSend

\* The server runs.  A client blocked in msgrcv waits in the kernel's list of
\* receivers, where the server queues up behind it after every message: a
\* message that keeps coming back reaches it (strong fairness).  The blocked
\* msgsnd of the server likewise waits in the queue's list of senders.  Users
\* need not type anything.
Fairness == /\ WF_vars(ServerReceive) /\ SF_vars(ServerSend)
            /\ \A c \in Clients : SF_vars(ClientReceive(c))

Spec == Init /\ [][Next]_vars /\ Fairness

----------------------------------------------------------------------------
(* Properties *)

\* Types of the queue and of the processes.
TypeOK == /\ queue \in Seq(Message) /\ Len(queue) <= QMax
          /\ client \in [Clients -> {"input", "wait", "gone"}]
          /\ got \in [Clients -> Message \cup {None}]
          /\ inhand \in Message \cup {None}

Waiting(t) == Cardinality({c \in Clients : client[c] = "wait" /\ TypeOf[c] = t})
OfType(t) == {m \in Message : m.mtype = t}
Pending(t) == Cardinality(Places(queue, OfType(t))) + (IF inhand \in OfType(t) THEN 1 ELSE 0)

\* For every mtype there are exactly as many messages on their way as clients
\* that wait for one: none is lost or left over, although the server also
\* receives its own answers and clients may take their own requests.
OneEach == \A t \in {TypeOf[c] : c \in Clients} : Waiting(t) = Pending(t)

\* OneEach is inductive together with the types.
IInv == TypeOK /\ OneEach

\* Every client that waits gets a message in the end, whatever the capacity of
\* the queue: the server and the clients never wait for each other for ever.
Answered == \A c \in Clients : (client[c] = "wait") ~> (client[c] = "input")

\* What the client prints ("receive from server"): a message that it received
\* was sent by the server, that is, it is in upper case.
FromServer == \A c \in Clients : got[c] # None => got[c].case = "upper"

=============================================================================
