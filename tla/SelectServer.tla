---------------------------- MODULE SelectServer ----------------------------
(***************************************************************************)
(* The TCP server of src/03NetPro_thread/06Socket/03Tcp_select_enhanced:   *)
(* one thread that serves all its clients with select().  cli_fds has one  *)
(* slot for each connection and ol_con counts them; each round accepts at  *)
(* most one connection and then goes through the first ol_con slots.       *)
(*                                                                         *)
(* The kernel's part is external: conn says whose connection a descriptor  *)
(* is, accept returns the lowest free one, and a client that leaves with   *)
(* an answer unread resets its connection.  A read that follows the lines  *)
(* meets the end of the file or fails on a reset; a write to a client that *)
(* has left breaks the connection, and one to a broken connection raises   *)
(* SIGPIPE, which the server does not handle.  Lines of text are counted.  *)
(***************************************************************************)
EXTENDS Integers, Sequences, FiniteSets, FiniteSetsExt

CONSTANTS Clients,      \* a set of numbers
          None,
          MAX_CLI_NUM,  \* slots of cli_fds (20 in the code)
          MaxLines      \* bound: lines that the clients send, all together

ASSUME SlotsAssumption == /\ Clients \subseteq Nat /\ None \notin Clients
                          /\ MAX_CLI_NUM \in Nat \ {0} /\ MaxLines \in Nat

Slots == 0..(MAX_CLI_NUM - 1)
sock_fd == 3
Fds == 4..(4 + MAX_CLI_NUM)       \* one more than the slots, for a refusal

VARIABLES cli_fds,      \* the descriptors of the connections, -1 in a free slot
          ol_con,       \* connections
          rd_set,       \* what select() left in rd_set
          server,       \* "select", "accept", "dispatch", "write", or how it ended
          i,            \* index of the loop over the slots
          conn,         \* whose connection each descriptor is, or None
          backlog,      \* connections not yet accepted
          client,       \* "out", "waiting", "connected", "refused" or "left"
          lines,        \* lines that the clients have sent
          unread,       \* lines that the server has yet to read
          owed,         \* history: lines that were not yet written back
          unseen,       \* the client has yet to read an answer
          peer          \* the client's end: "open", "eof", "reset" or "broken"

serverVars == <<cli_fds, ol_con, rd_set, server, i, conn>>
vars == <<serverVars, backlog, client, lines, unread, owed, unseen, peer>>

\* How the loop can be left: select() or accept() failed, or SIGPIPE.
Ends == {"select_failed", "accept_failed", "sigpipe"}

Init == /\ cli_fds = [s \in Slots |-> -1]
        /\ ol_con = 0
        /\ rd_set = {}
        /\ server = "select"
        /\ i = 0
        /\ conn = [f \in Fds |-> None]
        /\ backlog = <<>>
        /\ client = [c \in Clients |-> "out"]
        /\ lines = 0
        /\ unread = [c \in Clients |-> 0]
        /\ owed = [c \in Clients |-> 0]
        /\ unseen = [c \in Clients |-> FALSE]
        /\ peer = [c \in Clients |-> "open"]

----------------------------------------------------------------------------
(* The clients *)

Linked(c) == client[c] \in {"waiting", "connected"} /\ peer[c] = "open"

\* Clients are alike, and connect in the order of their numbers.
Connect(c) == /\ client[c] = "out" /\ server \notin Ends
              /\ \A d \in Clients : d < c => client[d] # "out"
              /\ client' = [client EXCEPT ![c] = "waiting"]
              /\ backlog' = Append(backlog, c)
              /\ UNCHANGED <<serverVars, lines, unread, owed, unseen, peer>>

\* write() of a line from standard input
SendLine(c) == /\ Linked(c)
               /\ lines < MaxLines
               /\ lines' = lines + 1
               /\ unread' = [unread EXCEPT ![c] = @ + 1]
               /\ owed' = [owed EXCEPT ![c] = @ + 1]
               /\ UNCHANGED <<serverVars, backlog, client, unseen, peer>>

\* read() of an answer
SeeAnswer(c) == /\ Linked(c) /\ unseen[c]
                /\ unseen' = [unseen EXCEPT ![c] = FALSE]
                /\ UNCHANGED <<serverVars, backlog, client, lines, unread, owed, peer>>

\* "exit", or the end of the client: standard input is looked at before the
\* socket, so that an answer may still be unread.
Leave(c) == /\ Linked(c)
            /\ peer' = [peer EXCEPT ![c] = IF unseen[c] THEN "reset" ELSE "eof"]
            /\ UNCHANGED <<serverVars, backlog, client, lines, unread, owed, unseen>>

----------------------------------------------------------------------------
(* The server *)

Readable(c) == unread[c] > 0 \/ peer[c] # "open"
InUse == {cli_fds[s] : s \in Slots} \ {-1}

Ready == {f \in InUse : conn[f] # None /\ Readable(conn[f])}
            \cup (IF backlog # <<>> THEN {sock_fd} ELSE {})

\* Mutant: the loop over the slots tests the set that was passed to select()
\* instead of the one that it left.
SelectCopy == /\ server = "select"
              /\ \A f \in InUse : conn[f] # None
              /\ Ready # {}
              /\ rd_set' = InUse \cup (Ready \cap {sock_fd})
              /\ server' = "accept"
              /\ UNCHANGED <<cli_fds, ol_con, i, conn, backlog, client, lines,
                             unread, owed, unseen, peer>>

\* select() over sock_fd and cli_fds.  When nothing is ready it times out and
\* is called again; on a descriptor that is closed it fails, and the server
\* leaves its loop.
Select == /\ server = "select"
          /\ \/ /\ \E f \in InUse : conn[f] = None
                /\ server' = "select_failed"
                /\ rd_set' = {}
             \/ /\ \A f \in InUse : conn[f] # None
                /\ Ready # {}
                /\ rd_set' = Ready
                /\ server' = "accept"
          /\ UNCHANGED <<cli_fds, ol_con, i, conn, backlog, client, lines,
                         unread, owed, unseen, peer>>

Full == ol_con = MAX_CLI_NUM

FreeSlots == {s \in Slots : cli_fds[s] < 0}

\* accept(): the connection gets the first free slot, or is closed with a
\* warning when there are MAX_CLI_NUM already.  accept() may fail, and then the
\* server leaves its loop.
Accept == /\ server = "accept"
          /\ i' = 0
          /\ \/ /\ sock_fd \notin rd_set
                /\ server' = "dispatch"
                /\ UNCHANGED <<cli_fds, ol_con, conn, backlog, client>>
             \/ /\ sock_fd \in rd_set
                /\ server' = "accept_failed"
                /\ UNCHANGED <<cli_fds, ol_con, conn, backlog, client>>
             \/ /\ sock_fd \in rd_set
                /\ server' = "dispatch"
                /\ backlog' = Tail(backlog)
                /\ LET c  == Head(backlog)
                       fd == Min({f \in Fds : conn[f] = None})
                   IN  \/ /\ Full
                          /\ client' = [client EXCEPT ![c] = "refused"]
                          /\ UNCHANGED <<cli_fds, ol_con, conn>>
                       \/ /\ ~Full
                          /\ client' = [client EXCEPT ![c] = "connected"]
                          /\ conn' = [conn EXCEPT ![fd] = c]
                          /\ cli_fds' = IF FreeSlots = {} THEN cli_fds
                                        ELSE [cli_fds EXCEPT ![Min(FreeSlots)] = fd]
                          /\ ol_con' = ol_con + 1
          /\ UNCHANGED <<rd_set, lines, unread, owed, unseen, peer>>

\* client_handler, n > 0: everything that is there is read and turned to upper
\* case, and the write is next.
ReadLines(c) == /\ unread[c] > 0
                /\ unread' = [unread EXCEPT ![c] = 0]
                /\ server' = "write"
                /\ UNCHANGED <<cli_fds, ol_con, i, conn, client>>

\* ++i
NextSlot == i' = i + 1 /\ UNCHANGED server

\* Mutant: ol_con is not counted down.
EndOfFileKeepsCount(fd, c) ==
    /\ unread[c] = 0 /\ peer[c] \in {"eof", "broken"}
    /\ cli_fds' = [s \in Slots |-> IF s <= ol_con /\ cli_fds[s] = fd THEN -1 ELSE cli_fds[s]]
    /\ conn' = [conn EXCEPT ![fd] = None]
    /\ client' = [client EXCEPT ![c] = "left"]
    /\ UNCHANGED <<ol_con, unread>>
    /\ NextSlot

\* client_handler, n == 0: the slots up to ol_con are searched for the
\* descriptor, and it is closed.  When all slots are taken the search looks at
\* one int beyond cli_fds; what it does to that int is left out.
EndOfFile(fd, c) ==
    /\ unread[c] = 0 /\ peer[c] \in {"eof", "broken"}
    /\ cli_fds' = [s \in Slots |-> IF s <= ol_con /\ cli_fds[s] = fd THEN -1 ELSE cli_fds[s]]
    /\ ol_con' = ol_con - 1
    /\ conn' = [conn EXCEPT ![fd] = None]
    /\ client' = [client EXCEPT ![c] = "left"]
    /\ UNCHANGED unread
    /\ NextSlot

\* client_handler, n < 0: the descriptor is closed and its slot stays.
ReadError(fd, c) == /\ unread[c] = 0 /\ peer[c] = "reset"
                    /\ conn' = [conn EXCEPT ![fd] = None]
                    /\ client' = [client EXCEPT ![c] = "left"]
                    /\ UNCHANGED <<cli_fds, ol_con, unread>>
                    /\ NextSlot

client_handler(fd) == \E c \in Clients \cap {conn[fd]} :
                         ReadLines(c) \/ EndOfFile(fd, c) \/ ReadError(fd, c)

\* The slot is not handled.
Skip(n) == /\ i' = n
           /\ UNCHANGED <<cli_fds, ol_con, server, conn, client, unread>>

\* Mutant: the index is counted up twice.
DispatchSkips == /\ server = "dispatch"
                 /\ \/ i < ol_con /\ cli_fds[i] \in rd_set /\ client_handler(cli_fds[i])
                    \/ i < ol_con /\ cli_fds[i] \notin rd_set /\ Skip(i + 2)
                    \/ /\ i >= ol_con
                       /\ server' = "select"
                       /\ UNCHANGED <<cli_fds, ol_con, i, conn, client, unread>>
                 /\ UNCHANGED <<rd_set, backlog, lines, owed, unseen, peer>>

\* One round of the loop over the first ol_con slots.  For a free slot
\* FD_ISSET(-1) is undefined: in the builds there are it says no, or
\* client_handler(-1) fails without an effect.
Dispatch == /\ server = "dispatch"
            /\ \/ i < ol_con /\ cli_fds[i] \in rd_set /\ client_handler(cli_fds[i])
               \/ i < ol_con /\ cli_fds[i] \notin rd_set /\ Skip(i + 1)
               \/ /\ i >= ol_con
                  /\ server' = "select"
                  /\ UNCHANGED <<cli_fds, ol_con, i, conn, client, unread>>
            /\ UNCHANGED <<rd_set, backlog, lines, owed, unseen, peer>>

\* write(conn_fd, buf, n) of client_handler.  A client that has left answers it
\* with a reset, which may come before or after the next write; on a reset
\* connection the write fails and takes the error with it.
Write == /\ server = "write"
         /\ LET c == conn[cli_fds[i]]
            IN  \/ /\ peer[c] = "broken"
                   /\ server' = "sigpipe"
                   /\ UNCHANGED <<i, owed, unseen, peer>>
                \/ /\ peer[c] # "broken"
                   /\ owed' = [owed EXCEPT ![c] = unread[c]]
                   /\ unseen' = [unseen EXCEPT ![c] = TRUE]
                   /\ \E p \in CASE peer[c] = "open" -> {"open"}
                                [] peer[c] = "eof"  -> {"eof", "broken"}
                                [] OTHER            -> {"broken"} :
                         peer' = [peer EXCEPT ![c] = p]
                   /\ server' = "dispatch"
                   /\ i' = i + 1
         /\ UNCHANGED <<cli_fds, ol_con, rd_set, conn, backlog, client, lines, unread>>

Server == Select \/ Accept \/ Dispatch \/ Write

Next == \/ Server
        \/ \E c \in Clients : Connect(c) \/ SendLine(c) \/ SeeAnswer(c) \/ Leave(c)

\* The server's loop runs.  What clients do is up to them.
Fairness == WF_vars(Server)

Spec == Init /\ [][Next]_vars /\ Fairness

----------------------------------------------------------------------------
(* Properties *)

\* Types of the variables.
TypeOK == /\ cli_fds \in [Slots -> Fds \cup {-1}]
          /\ ol_con \in 0..MAX_CLI_NUM
          /\ rd_set \subseteq Fds \cup {sock_fd}
          /\ server \in {"select", "accept", "dispatch", "write"} \cup Ends
          /\ i \in 0..MAX_CLI_NUM
          /\ conn \in [Fds -> Clients \cup {None}]
          /\ backlog \in Seq(Clients)
          /\ client \in [Clients -> {"out", "waiting", "connected", "refused", "left"}]
          /\ lines \in 0..MaxLines
          /\ unread \in [Clients -> 0..MaxLines] /\ owed \in [Clients -> 0..MaxLines]
          /\ unseen \in [Clients -> BOOLEAN] /\ peer \in [Clients -> {"open", "eof", "reset", "broken"}]

\* Every connection is in exactly one slot, and ol_con is the number of slots in
\* use, so that no connection is lost between the kernel and cli_fds, through
\* every accept and every end of a connection in the middle of the loop over the
\* slots, and although descriptors are reused.
Tracked == /\ \A f \in Fds : conn[f] # None =>
                 Cardinality({s \in Slots : cli_fds[s] = f}) = 1
           /\ ol_con = Cardinality({s \in Slots : cli_fds[s] >= 0})

\* The server never blocks in read(): when it handles a descriptor of rd_set,
\* that connection has something to read.
ReadNeverBlocks == \A s \in Slots :
    (server = "dispatch" /\ s = i /\ i < ol_con /\ cli_fds[s] \in rd_set) =>
        conn[cli_fds[s]] # None /\ Readable(conn[cli_fds[s]])

\* What Tracked and ReadNeverBlocks need to be inductive.  A slot has a
\* descriptor of its own, and there is one for every connection;
OneSlot == /\ \A f \in Fds : conn[f] # None => \E s \in Slots : cli_fds[s] = f
           /\ \A s, t \in Slots : cli_fds[s] = cli_fds[t] /\ cli_fds[s] # -1 => s = t
           /\ ol_con = Cardinality({s \in Slots : cli_fds[s] >= 0})

\* a client has one connection, or waits once in the backlog;
OneConnection ==
    /\ \A f, g \in Fds : conn[f] = conn[g] /\ conn[f] # None => f = g
    /\ \A f \in Fds : conn[f] # None => client[conn[f]] = "connected"
    /\ \A k \in 1..Len(backlog) : client[backlog[k]] = "waiting"
    /\ \A j, k \in 1..Len(backlog) : backlog[j] = backlog[k] => j = k

\* and what select() found stays readable until its slot is handled.
HasInput(f) == conn[f] # None /\ Readable(conn[f])

Selected ==
    /\ server = "accept" => /\ \A s \in Slots : cli_fds[s] # -1 => conn[cli_fds[s]] # None
                            /\ \A f \in rd_set \ {sock_fd} : HasInput(f)
                            /\ sock_fd \in rd_set => backlog # <<>>
    /\ server \in {"dispatch", "write"} =>
          \A s \in Slots : s > i /\ cli_fds[s] \in rd_set => HasInput(cli_fds[s])
    /\ server = "dispatch" =>
          \A s \in Slots : s = i /\ cli_fds[s] \in rd_set => HasInput(cli_fds[s])
    /\ server = "write" => i < ol_con /\ cli_fds[i] \in Fds /\ conn[cli_fds[i]] # None

IInv == /\ TypeOK /\ OneSlot /\ OneConnection /\ Selected
        /\ \A c \in Clients : unread[c] <= lines /\ owed[c] <= lines

SlotOf(c) == CHOOSE s \in Slots : cli_fds[s] \in Fds /\ conn[cli_fds[s]] = c
Beyond(c) == client[c] = "connected" /\ SlotOf(c) >= ol_con

\* A connected client's lines are written back to it.  They stay unanswered
\* for ever only when a hole among the slots leaves the client's slot beyond
\* the first ol_con for ever, or the server ended: accept() failed, or a client
\* that left while the server answered it made select() fail on its descriptor
\* or the second write to it raise SIGPIPE.
Served == \A c \in Clients :
    <>[](client[c] = "connected" /\ owed[c] > 0) =>
        <>[](\/ Beyond(c) \/ server = "accept_failed"
             \/ server = "select_failed" /\ \E d \in Clients : peer[d] = "reset"
             \/ server = "sigpipe" /\ \E d \in Clients : peer[d] = "broken")

\* What the comment in client_handler says: what a client sends is turned to
\* upper case and written back to it.
WrittenBack == \A c \in Clients :
    client[c] = "connected" /\ owed[c] > 0 ~> owed[c] = 0 \/ server \in Ends

=============================================================================
