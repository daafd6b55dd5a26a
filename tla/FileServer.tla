----------------------------- MODULE FileServer -----------------------------
(***************************************************************************)
(* The file server of src/03NetPro_thread/06Socket/04File_Server: the loop *)
(* of the select server (SelectServer), with a handler that reads a        *)
(* request and writes the file that it names.  The connection stays open   *)
(* after an answer; the descriptor of the file is never closed.            *)
(*                                                                         *)
(* A request is one read.  It names a "file"; an "empty" one, which mmap   *)
(* refuses; or something "other": no name, or the name of no file.  The    *)
(* clients and the kernel are external: a descriptor is a connection, the  *)
(* listening socket's or a file, accept and open take the lowest free one, *)
(* and a write waits while the client has not read the answer before.      *)
(***************************************************************************)
EXTENDS Integers, Sequences, FiniteSets, FiniteSetsExt

CONSTANTS Clients,      \* a set of numbers
          None, File,
          MAX_CLI_NUM,  \* slots of cli_fds (2000 in the code)
          MaxFd,        \* the highest descriptor of a process
          MaxRequests   \* bound: requests of the clients, all together

Slots == 0..(MAX_CLI_NUM - 1)
sock_fd == 3
Fds == 4..MaxFd

VARIABLES cli_fds, ol_con, rd_set, i,
          server,       \* "select", "accept", "dispatch", "write", or how it ended
          conn,         \* what each descriptor is: a client's connection, File or None
          backlog,      \* connections not yet accepted
          client,       \* "out", "waiting", "connected", "refused" or "closed"
          request,      \* what the server has yet to read from each client, or None
          requests,     \* requests made so far
          unseen,       \* the client has yet to read an answer
          peer          \* the client's end: "open", "eof", "reset" or "broken"

tableVars == <<cli_fds, ol_con, rd_set>>
Ends == {"select_failed", "accept_failed", "sigpipe"}
vars == <<tableVars, i, server, conn, backlog, client, request, requests, unseen, peer>>

Init == /\ cli_fds = [s \in Slots |-> -1]
        /\ ol_con = 0 /\ rd_set = {} /\ i = 0
        /\ server = "select"
        /\ conn = [f \in Fds |-> None]
        /\ backlog = <<>>
        /\ client = [c \in Clients |-> "out"]
        /\ request = [c \in Clients |-> None] /\ requests = 0
        /\ unseen = [c \in Clients |-> FALSE]
        /\ peer = [c \in Clients |-> "open"]

----------------------------------------------------------------------------
(* The clients *)

Linked(c) == client[c] \in {"waiting", "connected"} /\ peer[c] = "open"

\* Clients are alike, and connect in the order of their numbers.
Connect(c) == /\ client[c] = "out" /\ server \notin Ends
              /\ \A d \in Clients : d < c => client[d] # "out"
              /\ client' = [client EXCEPT ![c] = "waiting"]
              /\ backlog' = Append(backlog, c)
              /\ UNCHANGED <<tableVars, i, server, conn, request, requests, unseen, peer>>

Request(c) == /\ Linked(c) /\ request[c] = None
              /\ requests < MaxRequests
              /\ requests' = requests + 1
              /\ \E r \in {"file", "empty", "other"} : request' = [request EXCEPT ![c] = r]
              /\ UNCHANGED <<tableVars, i, server, conn, backlog, client, unseen, peer>>

ReadAnswer(c) == /\ Linked(c) /\ unseen[c]
                 /\ unseen' = [unseen EXCEPT ![c] = FALSE]
                 /\ UNCHANGED <<tableVars, i, server, conn, backlog, client, request, requests, peer>>

Leave(c) == /\ Linked(c)
            /\ peer' = [peer EXCEPT ![c] = IF unseen[c] THEN "reset" ELSE "eof"]
            /\ UNCHANGED <<tableVars, i, server, conn, backlog, client, request, requests, unseen>>

----------------------------------------------------------------------------
(* main() *)

Free == {f \in Fds : conn[f] = None}
InUse == {cli_fds[s] : s \in Slots} \ {-1}
Readable(c) == request[c] # None \/ peer[c] # "open"

Ready == {f \in InUse : conn[f] \in Clients /\ Readable(conn[f])}
            \cup (IF backlog # <<>> THEN {sock_fd} ELSE {})

\* select() over sock_fd and cli_fds; on a descriptor that is closed it fails.
Select == /\ server = "select"
          /\ IF InUse \cap Free = {}
                THEN Ready # {} /\ rd_set' = Ready /\ server' = "accept"
                ELSE rd_set' = {} /\ server' = "select_failed"
          /\ UNCHANGED <<cli_fds, ol_con, i, conn, backlog, client, request, requests, unseen, peer>>

FreeSlots == {s \in Slots : cli_fds[s] < 0}

\* accept() may fail, and does without a free descriptor; then the server leaves
\* its loop.  Slots can be all taken although ol_con says that they are not.
Accept == /\ server = "accept"
          /\ i' = 0
          /\ \/ /\ sock_fd \notin rd_set
                /\ server' = "dispatch"
                /\ UNCHANGED <<cli_fds, ol_con, conn, backlog, client>>
             \/ /\ sock_fd \in rd_set
                /\ server' = "accept_failed"
                /\ UNCHANGED <<cli_fds, ol_con, conn, backlog, client>>
             \/ /\ sock_fd \in rd_set /\ Free # {}
                /\ server' = "dispatch"
                /\ backlog' = Tail(backlog)
                /\ \/ /\ ol_con = MAX_CLI_NUM
                      /\ client' = [client EXCEPT ![Head(backlog)] = "refused"]
                      /\ UNCHANGED <<cli_fds, ol_con, conn>>
                   \/ /\ ol_con # MAX_CLI_NUM
                      /\ client' = [client EXCEPT ![Head(backlog)] = "connected"]
                      /\ conn' = [conn EXCEPT ![Min(Free)] = Head(backlog)]
                      /\ cli_fds' = IF FreeSlots = {} THEN cli_fds
                                    ELSE [cli_fds EXCEPT ![Min(FreeSlots)] = Min(Free)]
                      /\ ol_con' = ol_con + 1
          /\ UNCHANGED <<rd_set, request, requests, unseen, peer>>

----------------------------------------------------------------------------
(* client_handler *)

\* Mutant: the slot is not cleared.
CloseKeepsSlot(fd) == /\ rd_set' = rd_set \ {fd}
                      /\ ol_con' = ol_con - 1
                      /\ client' = [client EXCEPT ![conn[fd]] = "closed"]
                      /\ UNCHANGED cli_fds

\* The search goes through the slots up to ol_con; when that is all of them it
\* looks at one int beyond cli_fds, which is left out.  The close() that follows an
\* error a second time has no effect.
server_close(fd) ==
    /\ cli_fds' = [s \in Slots |-> IF s <= ol_con /\ cli_fds[s] = fd THEN -1 ELSE cli_fds[s]]
    /\ rd_set' = rd_set \ {fd}
    /\ ol_con' = ol_con - 1
    /\ client' = [client EXCEPT ![conn[fd]] = "closed"]

\* conn after open() of file_send2, which fails without a free descriptor
Opened(r) == IF r \in {"file", "empty"} /\ Free # {} THEN [conn EXCEPT ![Min(Free)] = File] ELSE conn

\* read(), get_filename and file_send2 up to the write: unless there is a file
\* that can be opened and mapped, the connection is closed.
Handle(fd, c) ==
    \/ /\ request[c] = "file" /\ Free # {}
       /\ conn' = Opened("file")
       /\ request' = [request EXCEPT ![c] = None]
       /\ server' = "write"
       /\ UNCHANGED <<tableVars, i, client>>
    \/ /\ request[c] # "file" \/ Free = {}
       /\ conn' = [Opened(request[c]) EXCEPT ![fd] = None]
       /\ request' = [request EXCEPT ![c] = None]
       /\ server_close(fd)
       /\ i' = i + 1 /\ UNCHANGED server

\* client_handler(-1), for a free slot: read() fails, and server_close(-1) counts
\* ol_con down all the same and clears the bit that FD_ISSET(-1) has read.
HandleFree == /\ \E f \in rd_set : rd_set' = rd_set \ {f}
              /\ ol_con' = ol_con - 1
              /\ i' = i + 1
              /\ UNCHANGED <<cli_fds, server, conn, client, request>>

\* One round of the loop over the first ol_con slots.  FD_ISSET(-1) is undefined:
\* it reads a bit of rd_set that belongs to some descriptor.
Dispatch == /\ server = "dispatch"
            /\ \/ i < ol_con /\ cli_fds[i] \in rd_set /\ Handle(cli_fds[i], conn[cli_fds[i]])
               \/ /\ i < ol_con /\ cli_fds[i] \notin rd_set
                  /\ i' = i + 1
                  /\ UNCHANGED <<tableVars, server, conn, client, request>>
               \/ i < ol_con /\ cli_fds[i] = -1 /\ HandleFree
               \/ /\ i >= ol_con
                  /\ server' = "select"
                  /\ UNCHANGED <<tableVars, i, conn, client, request>>
            /\ UNCHANGED <<backlog, requests, unseen, peer>>

\* write() of file_send2, to a client that is there, that has left, that has
\* reset its connection (the write fails), or whose reset has been met before,
\* which raises SIGPIPE.
Write == /\ server = "write"
         /\ LET fd == cli_fds[i]
                c  == conn[fd]
            IN  \/ /\ \/ peer[c] = "open" /\ ~unseen[c] /\ UNCHANGED peer
                      \/ peer[c] = "eof" /\ \E p \in {"eof", "broken"} : peer' = [peer EXCEPT ![c] = p]
                   /\ unseen' = [unseen EXCEPT ![c] = TRUE]
                   /\ server' = "dispatch" /\ i' = i + 1
                   /\ UNCHANGED <<tableVars, conn, client>>
                \/ /\ peer[c] = "reset"
                   /\ conn' = [conn EXCEPT ![fd] = None]
                   /\ server_close(fd)
                   /\ server' = "dispatch" /\ i' = i + 1
                   /\ UNCHANGED <<unseen, peer>>
                \/ /\ peer[c] = "broken"
                   /\ server' = "sigpipe"
                   /\ UNCHANGED <<tableVars, i, conn, client, unseen, peer>>
         /\ UNCHANGED <<backlog, request, requests>>

Server == Select \/ Accept \/ Dispatch \/ Write

Next == Server \/ \E c \in Clients : Connect(c) \/ Request(c) \/ ReadAnswer(c) \/ Leave(c)

\* The server's loop runs.  What clients do is up to them.
Fairness == WF_vars(Server)

Spec == Init /\ [][Next]_vars /\ Fairness

----------------------------------------------------------------------------
(* Properties *)

\* Types of the variables.
TypeOK == /\ cli_fds \in [Slots -> Fds \cup {-1}] /\ ol_con \in 0..MAX_CLI_NUM
          /\ rd_set \subseteq Fds \cup {sock_fd} /\ i \in 0..MAX_CLI_NUM
          /\ server \in {"select", "accept", "dispatch", "write"} \cup Ends
          /\ conn \in [Fds -> Clients \cup {File, None}]
          /\ client \in [Clients -> {"out", "waiting", "connected", "refused", "closed"}]
          /\ request \in [Clients -> {"file", "empty", "other", None}]

\* The client is in none of the slots that the loop goes through: in one beyond
\* the first ol_con, or in none at all.
Unscanned(c) == ~\E s \in Slots : s < ol_con /\ cli_fds[s] \in Fds /\ conn[cli_fds[s]] = c

\* The server waits in write() for a client that does not read.
Blocked == server = "write" /\ unseen[conn[cli_fds[i]]] /\ peer[conn[cli_fds[i]]] = "open"

\* The request of a connected client is handled, or its connection closed.  It
\* is left for ever only in the four ways that the code leaves open: the client
\* stays outside the slots that the loop scans, because of a hole before it or
\* an ol_con counted down for a hole; the server waits for ever for a client
\* that does not read; accept() failed, for one since files took all the
\* descriptors; or SIGPIPE ended the server.  In particular no way in which a
\* connection ends makes select() fail.
RequestsHandled == \A c \in Clients :
    <>[](client[c] = "connected" /\ request[c] # None) =>
        <>[](\/ client[c] = "connected" /\ Unscanned(c)
             \/ Blocked \/ server = "accept_failed"
             \/ server = "sigpipe" /\ \E d \in Clients : peer[d] = "broken")

=============================================================================
