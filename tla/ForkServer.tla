----------------------------- MODULE ForkServer -----------------------------
(***************************************************************************)
(* The TCP server of src/03NetPro_thread/06Socket/02Tcp_loop/server.c: one *)
(* child process for each connection, and a handler of SIGCHLD that waits  *)
(* for one child.  The handler runs between any two steps of main().       *)
(*                                                                         *)
(* A child only works on its own connection, so children are counted.  The *)
(* kernel's part is external: SIGCHLD is one pending bit, blocked while    *)
(* its handler runs, and signal() restarts an interrupted accept().        *)
(***************************************************************************)
EXTENDS Integers

CONSTANT MaxClients     \* bound: clients that connect

ASSUME ClientsAssumption == MaxClients \in Nat

VARIABLES main,         \* "accept", "fork", "close" or "ended"
          handler,      \* sig_handler: "idle" or "waitpid"
          pending,      \* pending SIGCHLDs, 0 or 1
          clients,      \* clients that have connected
          backlog,      \* connections that wait for accept()
          serving,      \* children in client_handler
          zombies,      \* children that have ended and were not waited for
          conn_fds      \* connected sockets that the parent has open

vars == <<main, handler, pending, clients, backlog, serving, zombies, conn_fds>>

Init == /\ main = "accept" /\ handler = "idle" /\ pending = 0
        /\ clients = 0 /\ backlog = 0 /\ serving = 0 /\ zombies = 0
        /\ conn_fds = 0

----------------------------------------------------------------------------
\* A client connects.
Connect == /\ clients < MaxClients /\ main # "ended"
           /\ clients' = clients + 1
           /\ backlog' = backlog + 1
           /\ UNCHANGED <<main, handler, pending, serving, zombies, conn_fds>>

\* main() takes a step only while the handler does not run.
MainAt(l) == main = l /\ handler = "idle"

\* accept() with a connection
Accept == /\ MainAt("accept")
          /\ backlog > 0
          /\ backlog' = backlog - 1
          /\ conn_fds' = conn_fds + 1
          /\ main' = "fork"
          /\ UNCHANGED <<handler, pending, clients, serving, zombies>>

\* accept() fails, for want of descriptors also when no connection waits: the
\* loop is left and the server ends; init waits for the children left behind.
AcceptFails == /\ MainAt("accept")
               /\ main' = "ended"
               /\ pending' = 0 /\ zombies' = 0
               /\ UNCHANGED <<handler, clients, backlog, serving, conn_fds>>

\* fork(), which may fail: then the loop is left, the socket is closed and the
\* server ends in the same way.
Fork == /\ MainAt("fork")
        /\ \/ /\ serving' = serving + 1
              /\ main' = "close"
              /\ UNCHANGED <<pending, zombies, conn_fds>>
           \/ /\ main' = "ended"
              /\ conn_fds' = conn_fds - 1
              /\ pending' = 0 /\ zombies' = 0
              /\ UNCHANGED serving
        /\ UNCHANGED <<handler, clients, backlog>>

\* close(conn_fd) in the parent
Close == /\ MainAt("close")
         /\ conn_fds' = conn_fds - 1
         /\ main' = "accept"
         /\ UNCHANGED <<handler, pending, clients, backlog, serving, zombies>>

\* client_handler of a child ends, at the end of the connection or on an error:
\* the child becomes a zombie and SIGCHLD pending, if it was not before.
ChildExit == /\ serving > 0
             /\ serving' = serving - 1
             /\ zombies' = IF main = "ended" THEN zombies ELSE zombies + 1
             /\ pending' = IF main = "ended" THEN 0 ELSE 1
             /\ UNCHANGED <<main, handler, clients, backlog, conn_fds>>

\* SIGCHLD is delivered.
Deliver == /\ pending = 1 /\ handler = "idle"
           /\ pending' = 0
           /\ handler' = "waitpid"
           /\ UNCHANGED <<main, clients, backlog, serving, zombies, conn_fds>>

\* Mutant: the handler waits for one child more than it got a signal for.
WaitTwice == /\ handler = "waitpid"
             /\ zombies > 1
             /\ zombies' = zombies - 2
             /\ handler' = "idle"
             /\ UNCHANGED <<main, pending, clients, backlog, serving, conn_fds>>

\* waitpid(0, NULL, 0): waits for a child that has ended, and takes one.
Wait == /\ handler = "waitpid"
        /\ zombies > 0
        /\ zombies' = zombies - 1
        /\ handler' = "idle"
        /\ UNCHANGED <<main, pending, clients, backlog, serving, conn_fds>>

Next == Connect \/ Accept \/ AcceptFails \/ Fork \/ Close \/ ChildExit \/ Deliver \/ Wait

\* The server runs and its signals are delivered; clients come as they like,
\* a connection may stay open for ever, and accept() need not fail.
Fairness == WF_vars(Accept) /\ WF_vars(Fork) /\ WF_vars(Close) /\ WF_vars(Deliver)
            /\ WF_vars(Wait)

Spec == Init /\ [][Next]_vars /\ Fairness

----------------------------------------------------------------------------
(* Properties *)

Handling == IF handler = "waitpid" THEN 1 ELSE 0

\* Types of the variables.
TypeOK == /\ main \in {"accept", "fork", "close", "ended"}
          /\ handler \in {"idle", "waitpid"} /\ pending \in {0, 1}
          /\ clients \in Nat /\ backlog \in Nat
          /\ serving \in Nat /\ zombies \in Nat /\ conn_fds \in Nat

\* The handler's waitpid never blocks: there is a zombie for it, and one more
\* when another SIGCHLD is already pending, however the ends of children and
\* the deliveries are ordered.  Otherwise the server would stop accepting for
\* as long as its children live.
HandlerNeverBlocks == zombies >= pending + Handling

\* The parent has at most the one connection open that it has just accepted.
NoDescriptorLeak == conn_fds = IF main \in {"fork", "close"} THEN 1 ELSE 0

\* A client that connects gets a child of its own, unless accept or fork
\* fails, which ends the server.
Accepted == backlog > 0 ~> backlog = 0 \/ main = "ended"

\* What the comment on signal(SIGCHLD, ..) says, "no zombies": a child that
\* has ended is waited for.
ZombiesReaped == zombies > 0 ~> zombies = 0

\* The inductive invariant behind HandlerNeverBlocks and NoDescriptorLeak.
IInv == TypeOK /\ HandlerNeverBlocks /\ NoDescriptorLeak

=============================================================================
