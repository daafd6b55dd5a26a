----------------------------- MODULE MCProcesses -----------------------------
(* The programs of several processes: a behaviour is a run of one of them.   *)
(*                                                                           *)
(* 02Tcp_loop: four clients, so that several children end between two        *)
(* deliveries of SIGCHLD.  echo_server: three clients, two of which have the *)
(* same mtype (pid % 10 collides), and a queue smaller than their number.    *)
(* semaphores: three instances of semaphore.c, so that one can start while a *)
(* second is inside and a third waits, two of the others, and two kills.     *)
(* fork_exec2: three children at a time, of five that are waited for in the  *)
(* first loop.                                                               *)
EXTENDS ForkServer, FiniteSets

CONSTANTS Pids, FamilyPids, None, QMax, MaxKills, CHILD_NUM, SERVER_NUM

VARIABLES program,
          queue, client, got, inhand,
          prog, id, lastId, val, adj, semid, spc, killed, disturbed,
          pmain, count, child_dead_num, prunning, pzombies

echoVars == <<queue, client, got, inhand>>
semVars == <<prog, id, lastId, val, adj, semid, spc, killed, disturbed>>
poolVars == <<pmain, count, child_dead_num, prunning, pzombies>>

MTypeOf == [p \in Pids |-> 20 + (p % 10)]

Echo == INSTANCE EchoServer WITH Clients <- Pids, TypeOf <- MTypeOf
Sem == INSTANCE Semaphores WITH Instances <- Pids, Families <- FamilyPids, pc <- spc
Pool == INSTANCE ProcessPool WITH main <- pmain, running <- prunning, zombies <- pzombies

ASSUME PidsAssumption == Pids \subseteq Nat /\ IsFiniteSet(Pids) /\ FamilyPids \subseteq Pids
ASSUME ProgramsAssumption == Echo!QueueAssumption /\ Pool!PoolAssumption

MCInit == /\ program \in {"02Tcp_loop", "echo_server", "semaphores", "fork_exec2"}
          /\ program # "semaphores" => prog = "sem" /\ id = 0
          /\ Init /\ Echo!Init /\ Sem!Init /\ Pool!Init

ForkServerStep == program = "02Tcp_loop" /\ UNCHANGED <<program, echoVars, semVars, poolVars>>
EchoStep == program = "echo_server" /\ UNCHANGED <<program, vars, semVars, poolVars>>
SemStep == program = "semaphores" /\ UNCHANGED <<program, vars, echoVars, poolVars>>
PoolStep == program = "fork_exec2" /\ UNCHANGED <<program, vars, echoVars, semVars>>

MCNext == \/ ForkServerStep /\ Next
          \/ EchoStep /\ Echo!Next
          \/ SemStep /\ Sem!Next
          \/ PoolStep /\ Pool!Next

MCVars == <<program, vars, echoVars, semVars, poolVars>>

\* The fairness of the four modules, each for the runs of its program.
MCSpec == /\ MCInit /\ [][MCNext]_MCVars
          /\ WF_MCVars(ForkServerStep /\ Accept) /\ WF_MCVars(ForkServerStep /\ Fork)
          /\ WF_MCVars(ForkServerStep /\ Close) /\ WF_MCVars(ForkServerStep /\ Deliver)
          /\ WF_MCVars(ForkServerStep /\ Wait)
          /\ WF_MCVars(EchoStep /\ Echo!ServerReceive) /\ SF_MCVars(EchoStep /\ Echo!ServerSend)
          /\ \A p \in Pids : SF_MCVars(EchoStep /\ Echo!ClientReceive(p))
          /\ \A p \in Pids : WF_MCVars(SemStep /\ Sem!Main(p))
          /\ \A x \in Pids \X {"main", "child"} : WF_MCVars(SemStep /\ Sem!Proc(x))
          /\ WF_MCVars(PoolStep /\ Pool!Main) /\ WF_MCVars(PoolStep /\ Pool!ChildExit)

----------------------------------------------------------------------------

\* OneEach of EchoServer: for every mtype there are as many messages on their
\* way as clients that wait for one.
OneEach == Echo!OneEach

\* Answered of EchoServer: every client that waits gets a message.
Answered == Echo!Answered

\* FromServer of EchoServer, what the client prints: a message that it received
\* was sent by the server.
FromServer == Echo!FromServer

\* SemExclusive of Semaphores: one instance of semaphore.c at a time is inside,
\* unless another started while one was.
SemExclusive == Sem!SemExclusive

\* SemEnds of Semaphores: every instance ends, but for a child whose V is undone
\* with its killed parent or taken away by another instance that starts.
SemEnds == program = "semaphores" => Sem!SemEnds

\* PoolEnds of ProcessPool: main() keeps at most CHILD_NUM children and ends with
\* all of them waited for.
PoolEnds == program = "fork_exec2" => Pool!PoolEnds

=============================================================================
