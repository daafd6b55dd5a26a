---------------------------- MODULE ProcessPool ----------------------------
(***************************************************************************)
(* src/02App_Devel/02Process/4fork_exec2.c: main() keeps CHILD_NUM         *)
(* children running until SERVER_NUM have ended, and then waits for the    *)
(* rest.  The execlp of a child is taken to succeed.                       *)
(***************************************************************************)
EXTENDS Integers

CONSTANTS CHILD_NUM, SERVER_NUM

PoolAssumption == CHILD_NUM \in Nat \ {0} /\ SERVER_NUM \in Nat

VARIABLES main,             \* "fork", "wait", "drain", "done" or "err"
          count, child_dead_num,
          running, zombies  \* children

vars == <<main, count, child_dead_num, running, zombies>>

Init == /\ main = IF SERVER_NUM > 0 THEN "fork" ELSE "drain"
        /\ count = 0 /\ child_dead_num = 0
        /\ running = 0 /\ zombies = 0

\* The inner loop: fork() until there are CHILD_NUM children.  It may fail.
Fork == /\ main = "fork"
        /\ \/ /\ count < CHILD_NUM
              /\ running' = running + 1 /\ count' = count + 1
              /\ UNCHANGED main
           \/ /\ count < CHILD_NUM
              /\ main' = "err"
              /\ UNCHANGED <<count, running>>
           \/ /\ count >= CHILD_NUM
              /\ main' = "wait"
              /\ UNCHANGED <<count, running>>
        /\ UNCHANGED <<child_dead_num, zombies>>

\* Mutant: the last loop goes on with the count of the first.
WaitKeepsCount == /\ main = "wait"
                  /\ zombies > 0
                  /\ zombies' = zombies - 1 /\ child_dead_num' = child_dead_num + 1
                  /\ count' = count - 1
                  /\ main' = IF child_dead_num' < SERVER_NUM THEN "fork" ELSE "drain"
                  /\ UNCHANGED running

\* waitpid() of the outer loop, with CHILD_NUM children; it would fail without
\* one, and be called again for ever.
Wait == /\ main = "wait"
        /\ zombies > 0
        /\ zombies' = zombies - 1 /\ child_dead_num' = child_dead_num + 1
        /\ \/ /\ child_dead_num' < SERVER_NUM
              /\ main' = "fork" /\ count' = count - 1
           \/ /\ child_dead_num' = SERVER_NUM
              /\ main' = "drain" /\ count' = 0
        /\ UNCHANGED running

\* The last loop: CHILD_NUM calls of waitpid(), with one child less to wait for.
Drain == /\ main = "drain"
         /\ \/ count < CHILD_NUM /\ zombies > 0
               /\ zombies' = zombies - 1 /\ count' = count + 1 /\ UNCHANGED main
            \/ count < CHILD_NUM /\ running + zombies = 0
               /\ count' = count + 1 /\ UNCHANGED <<zombies, main>>
            \/ count = CHILD_NUM
               /\ main' = "done" /\ UNCHANGED <<zombies, count>>
         /\ UNCHANGED <<child_dead_num, running>>

\* The child's `date' ends.
ChildExit == /\ running > 0
             /\ running' = running - 1 /\ zombies' = zombies + 1
             /\ UNCHANGED <<main, count, child_dead_num>>

Main == Fork \/ Wait \/ Drain
Next == Main \/ ChildExit

\* main() is scheduled and every child ends.
Fairness == WF_vars(Main) /\ WF_vars(ChildExit)

Spec == Init /\ [][Next]_vars /\ Fairness

----------------------------------------------------------------------------
(* Properties *)

\* Types of the variables.
TypeOK == /\ main \in {"fork", "wait", "drain", "done", "err"}
          /\ count \in 0..CHILD_NUM /\ child_dead_num \in 0..SERVER_NUM
          /\ running \in Nat /\ zombies \in Nat

\* There are never more than CHILD_NUM children.
Bounded == running + zombies <= CHILD_NUM

\* All of them are waited for at the end.
AllWaited == main = "done" => running + zombies = 0

\* What the two need to be inductive: `count' is the number of children in the
\* first loops; in the last one it and the children make CHILD_NUM - 1, until
\* there is none.
IInv == /\ TypeOK
        /\ main \in {"fork", "wait", "err"} => count = running + zombies
        /\ main = "wait" => count = CHILD_NUM
        /\ main \in {"fork", "wait"} => child_dead_num < SERVER_NUM
        /\ main = "drain" => running + zombies = 0 \/ running + zombies + count = CHILD_NUM - 1
        /\ AllWaited

\* There are never more than CHILD_NUM children, and unless a fork fails main()
\* ends, with all of them waited for: the two loops that share `count' leave
\* neither a zombie nor a child that runs on.
PoolEnds == /\ []Bounded
            /\ <>(\/ main = "err"
                  \/ main = "done" /\ running + zombies = 0)

=============================================================================
