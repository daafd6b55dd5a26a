----------------------------- MODULE Semaphores -----------------------------
(***************************************************************************)
(* The System V semaphore programs: semaphore.c and sem_parent_child.c of  *)
(* src/02App_Devel/03IPC/05Semaphore/SysV, and sem.c of                    *)
(* src/03NetPro_thread/02Semaphore/01SysV.  A behaviour has several        *)
(* instances of one of them, which share the semaphore of one key and each *)
(* set its value when they start.                                          *)
(*                                                                         *)
(* The kernel's part is external: semop with SEM_UNDO keeps an adjustment  *)
(* for each process, SETVAL clears them all, and the end of a process adds *)
(* its own to the value, which does not fall below 0.  A semop that waits  *)
(* fails with EINTR when its process is stopped and continued, also when   *)
(* no handler is installed.                                                *)
(***************************************************************************)
EXTENDS Integers, FiniteSets

CONSTANTS Instances,    \* of semaphore.c
          Families,     \* those of them that there are of a program with a child
          MaxKills      \* bound: processes that are killed

Procs == Instances \X {"main", "child"}

VARIABLES prog,         \* the program that all instances run
          id,           \* the semaphore that the key leads to, 0 if there is none
          lastId,       \* semaphores created so far
          val, adj,     \* its value, and the adjustment of each process
          semid,        \* the variable of main() in each instance; 0 after an error
          pc,
          killed,       \* processes that were killed
          disturbed     \* the last SETVAL came while another instance was under way

vars == <<prog, id, lastId, val, adj, semid, pc, killed, disturbed>>

NoAdjustment == [x \in Procs |-> 0]

\* semaphore.c opens a semaphore that may be there from earlier runs, with any
\* value; the others create it.
Init == /\ prog \in {"semaphore", "sem_parent_child", "sem"}
        /\ id \in {0, 1} /\ lastId = 1
        /\ val \in IF id = 1 THEN {0, 1} ELSE {0}
        /\ adj = NoAdjustment
        /\ semid = [p \in Instances |-> 0]
        /\ pc = [x \in Procs |->
                    IF x[2] = "main" /\ x[1] \in (IF prog = "semaphore" THEN Instances ELSE Families)
                       THEN "semget" ELSE "none"]
        /\ killed = {}
        /\ disturbed = FALSE

----------------------------------------------------------------------------
(* The kernel *)

Ended(x) == pc[x] \in {"none", "ended"}

Goto(x, l) == pc' = [pc EXCEPT ![x] = l]

Valid(x) == semid[x[1]] = id /\ id # 0

\* semop() of one operation with SEM_UNDO, when it need not wait
semop(x, op) == /\ Valid(x) /\ val + op >= 0
                /\ val' = val + op
                /\ adj' = [adj EXCEPT ![x] = @ - op]

\* The end of a process
Undo(x) == /\ val' = IF val + adj[x] < 0 THEN 0 ELSE val + adj[x]
           /\ adj' = [adj EXCEPT ![x] = 0]
           /\ Goto(x, "ended")

Kill(x) == /\ ~Ended(x)
           /\ Cardinality(killed) < MaxKills
           /\ killed' = killed \cup {x}
           /\ Undo(x)
           /\ UNCHANGED <<prog, id, lastId, semid, disturbed>>

----------------------------------------------------------------------------
(* Starting *)

Inside(p) == prog = "semaphore" /\ pc[<<p, "main">>] = "inside"

\* Between P and V in semaphore.c, from SETVAL to the end in the others
Underway(p) == \/ Inside(p)
               \/ /\ prog # "semaphore"
                  /\ pc[<<p, "main">>] \notin {"none", "semget", "setval", "ended"} \/ ~Ended(<<p, "child">>)

\* semget() of up_sem_init and of main(): semaphore.c does not create the
\* semaphore, and goes on with an id that is none.
semget(p) == LET x == <<p, "main">> IN
    /\ pc[x] = "semget"
    /\ \/ /\ id # 0
          /\ semid' = [semid EXCEPT ![p] = id]
          /\ Goto(x, "setval")
          /\ UNCHANGED <<id, lastId, val>>
       \/ /\ id = 0 /\ prog = "semaphore"
          /\ Goto(x, "p")
          /\ UNCHANGED <<id, lastId, val, semid>>
       \/ /\ id = 0 /\ prog # "semaphore"
          /\ lastId' = lastId + 1 /\ id' = lastId' /\ val' = 0
          /\ semid' = [semid EXCEPT ![p] = lastId']
          /\ Goto(x, "setval")
    /\ UNCHANGED <<prog, adj, killed, disturbed>>

InitVal == IF prog = "semaphore" THEN 1 ELSE 0
AfterInit == IF prog = "semaphore" THEN "p" ELSE "fork"

\* semctl(SETVAL).  When the semaphore was removed meanwhile sem.c exits, and
\* up_sem_init returns -1, which main() takes for an id.
setval(p) == LET x == <<p, "main">> IN
    /\ pc[x] = "setval"
    /\ \/ /\ Valid(x)
          /\ val' = InitVal
          /\ adj' = NoAdjustment
          /\ disturbed' = \E q \in Instances : Underway(q)
          /\ Goto(x, AfterInit)
          /\ UNCHANGED semid
       \/ /\ ~Valid(x)
          /\ semid' = [semid EXCEPT ![p] = 0]
          /\ Goto(x, IF prog = "sem" THEN "exit" ELSE AfterInit)
          /\ UNCHANGED <<val, adj, disturbed>>
    /\ UNCHANGED <<prog, id, lastId, killed>>

\* fork() of sem_parent_child.c and sem.c
fork(p) == /\ pc[<<p, "main">>] = "fork"
           /\ \/ pc' = [pc EXCEPT ![<<p, "main">>] = "v", ![<<p, "child">>] = "p"]
              \/ Goto(<<p, "main">>, "exit")
           /\ UNCHANGED <<prog, id, lastId, val, adj, semid, killed, disturbed>>

----------------------------------------------------------------------------
(* P and V *)

AfterP == IF prog = "semaphore" THEN "inside" ELSE "v"
AfterV(x) == IF prog # "semaphore" /\ x[2] = "main" THEN "wait" ELSE "exit"

\* A semop that fails ends semaphore.c; the others do not look at it.
AfterError(x, l) == IF prog = "semaphore" THEN "exit" ELSE l

\* Mutant: sem_flg of up_sem_p is 0.
PNoUndo(x) == /\ pc[x] = "p"
              /\ \/ Valid(x) /\ val > 0 /\ val' = val - 1 /\ UNCHANGED adj /\ Goto(x, AfterP)
                 \/ ~Valid(x) /\ Goto(x, AfterError(x, AfterP)) /\ UNCHANGED <<val, adj>>
              /\ UNCHANGED <<prog, id, lastId, semid, killed, disturbed>>

\* up_sem_p, sem_p: also when the semaphore is removed while the process waits
P(x) == /\ pc[x] = "p"
        /\ \/ semop(x, -1) /\ Goto(x, AfterP)
           \/ ~Valid(x) /\ Goto(x, AfterError(x, AfterP)) /\ UNCHANGED <<val, adj>>
        /\ UNCHANGED <<prog, id, lastId, semid, killed, disturbed>>

\* Mutant: up_sem_p does not call semop again, as sem_p.
InterruptedGoesOn(x) == /\ pc[x] = "p" /\ Valid(x) /\ val = 0
                        /\ Goto(x, AfterP)
                        /\ UNCHANGED <<prog, id, lastId, val, adj, semid, killed, disturbed>>

\* EINTR: up_sem_p calls semop again, sem_p of sem.c returns and main() does
\* not look at its result.
Interrupted(x) == /\ pc[x] = "p" /\ Valid(x) /\ val = 0
                  /\ prog = "sem"
                  /\ Goto(x, AfterP)
                  /\ UNCHANGED <<prog, id, lastId, val, adj, semid, killed, disturbed>>

\* up_sem_v, sem_v
V(x) == /\ pc[x] \in {"v", "inside"}
        /\ \/ semop(x, 1) /\ Goto(x, AfterV(x))
           \/ ~Valid(x) /\ Goto(x, AfterError(x, AfterV(x))) /\ UNCHANGED <<val, adj>>
        /\ UNCHANGED <<prog, id, lastId, semid, killed, disturbed>>

----------------------------------------------------------------------------
(* Ending *)

\* wait(NULL): there is a child, which may have been killed
wait(p) == /\ pc[<<p, "main">>] = "wait"
           /\ pc[<<p, "child">>] = "ended"
           /\ Goto(<<p, "main">>, IF prog = "sem" THEN "rmid" ELSE "exit")
           /\ UNCHANGED <<prog, id, lastId, val, adj, semid, killed, disturbed>>

\* semctl(IPC_RMID) of sem.c; it fails when another instance has done it
rmid(p) == /\ pc[<<p, "main">>] = "rmid"
           /\ IF Valid(<<p, "main">>)
                 THEN id' = 0 /\ val' = 0 /\ adj' = NoAdjustment
                 ELSE UNCHANGED <<id, val, adj>>
           /\ Goto(<<p, "main">>, "exit")
           /\ UNCHANGED <<prog, lastId, semid, killed, disturbed>>

Exit(x) == /\ pc[x] = "exit"
           /\ Undo(x)
           /\ UNCHANGED <<prog, id, lastId, semid, killed, disturbed>>

Main(p) == semget(p) \/ setval(p) \/ fork(p) \/ wait(p) \/ rmid(p)
Proc(x) == P(x) \/ V(x) \/ Exit(x)

Next == \/ \E p \in Instances : Main(p)
        \/ \E x \in Procs : Proc(x) \/ Interrupted(x) \/ Kill(x)

\* Processes are scheduled; kills and interruptions need not happen.
Fairness == /\ \A p \in Instances : WF_vars(Main(p))
            /\ \A x \in Procs : WF_vars(Proc(x))

Spec == Init /\ [][Next]_vars /\ Fairness

----------------------------------------------------------------------------
(* Properties *)

Labels == {"none", "semget", "setval", "fork", "p", "inside", "v", "wait", "rmid", "exit", "ended"}

\* Types of the variables.
TypeOK == /\ id \in 0..lastId /\ lastId \in 1..(1 + Cardinality(Instances)) /\ val \in Nat
          /\ adj \in [Procs -> -2..2] /\ semid \in [Instances -> 0..lastId]
          /\ pc \in [Procs -> Labels]
          /\ killed \subseteq Procs /\ disturbed \in BOOLEAN

\* One instance of semaphore.c at a time is inside, although instances are
\* killed inside, wait, or end, as long as none starts while another is inside:
\* its SETVAL lets a second one in, and the V of the first a third.
SemExclusive == ~disturbed => \A p, q \in Instances : Inside(p) /\ Inside(q) => p = q

\* What SemExclusive needs to be inductive: the instances of semaphore.c have no
\* children and are inside with a valid id.  Unless the last SETVAL disturbed
\* another one, the adjustment of a process says whether it is inside, and the
\* value is 1 at most, and 0 while one is.
Undisturbed == /\ \A p \in Instances : adj[<<p, "main">>] = IF Inside(p) THEN 1 ELSE 0
               /\ val \in {0, 1}
               /\ \A p, q \in Instances : Inside(p) => val = 0 /\ (Inside(q) => p = q)

IInv == /\ pc \in [Procs -> Labels] /\ adj \in [Procs -> Int] /\ val \in Nat
        /\ semid \in [Instances -> Int] /\ id \in Int /\ lastId \in Int
        /\ prog = "semaphore" =>
              /\ \A p \in Instances :
                    /\ pc[<<p, "child">>] = "none"
                    /\ pc[<<p, "main">>] \in {"semget", "setval", "p", "inside", "exit", "ended"}
                    /\ Inside(p) => Valid(<<p, "main">>)
              /\ ~disturbed => Undisturbed

\* Every instance ends, although instances are killed: what a process took and
\* did not give back is given back by its end, and what it gave without taking
\* is taken back.  In the programs with a child there are two exceptions.  The
\* child waits for ever when its main() was killed, which undoes a V that was
\* made; or when an instance started while another was under way, whose SETVAL
\* takes away a V that no child has used yet.
SemEnds == <>(\A x \in Procs : \/ Ended(x)
                               \/ /\ prog # "semaphore"
                                  /\ pc[x] \in {"p", "wait"}
                                  /\ disturbed \/ <<x[1], "main">> \in killed)

=============================================================================
