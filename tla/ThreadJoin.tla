----------------------------- MODULE ThreadJoin -----------------------------
(***************************************************************************)
(* The two threads of src/03NetPro_thread/05Pthread/02test.c.              *)
(*                                                                         *)
(* thr_demo and thr_demo2 have the same body: they lock the mutex, read    *)
(* their number of rounds from main's variable arg, count, and return with *)
(* the mutex held.  It is main() that unlocks it after each join; and the  *)
(* join stores what the thread returned in the same arg.  The mutex is a   *)
(* normal one, which on Linux anyone may unlock.                           *)
(***************************************************************************)
EXTENDS Integers

CONSTANTS Arg,      \* the initial value of arg (20 in the code)
          Ret       \* what the threads return (10 in the code)

\* What the theorems assume of the two numbers.
ArgAssumption == Arg \in Nat /\ Ret \in Nat

pt1 == 1            \* runs thr_demo
pt2 == 2            \* runs thr_demo2
Threads == {pt1, pt2}
Free == 0           \* nobody holds the mutex

VARIABLES mutex,        \* the thread that locked it, or Free
          arg,          \* main's arg, shared with the threads
          i_gloabl_n,   \* the shared counter
          main,         \* where main() is
          pc,           \* where each thread is
          max, i,       \* the threads' locals
          reg           \* what a thread loaded for ++i_gloabl_n

vars == <<mutex, arg, i_gloabl_n, main, pc, max, i, reg>>

Init == /\ mutex = Free
        /\ arg = Arg
        /\ i_gloabl_n = 0
        /\ main = "create1"
        /\ pc = [t \in Threads |-> "absent"]
        /\ max = [t \in Threads |-> 0]
        /\ i = [t \in Threads |-> 0]
        /\ reg = [t \in Threads |-> 0]

----------------------------------------------------------------------------
(* thr_demo and thr_demo2.  Threads stop with the process. *)

Runs(t, l) == pc[t] = l /\ main # "exit"

\* pthread_mutex_lock(&mutex)
Lock(t) == /\ Runs(t, "lock")
           /\ mutex = Free
           /\ mutex' = t
           /\ pc' = [pc EXCEPT ![t] = "args"]
           /\ UNCHANGED <<arg, i_gloabl_n, main, max, i, reg>>

\* int max = *(int *)args
ReadArgs(t) == /\ Runs(t, "args")
               /\ max' = [max EXCEPT ![t] = arg]
               /\ pc' = [pc EXCEPT ![t] = "loop"]
               /\ UNCHANGED <<mutex, arg, i_gloabl_n, main, i, reg>>

\* ++i_gloabl_n reads the counter ...
Load(t) == /\ Runs(t, "loop")
           /\ i[t] < max[t]
           /\ reg' = [reg EXCEPT ![t] = i_gloabl_n]
           /\ pc' = [pc EXCEPT ![t] = "store"]
           /\ UNCHANGED <<mutex, arg, i_gloabl_n, main, max, i>>

\* ... and writes it.
Store(t) == /\ Runs(t, "store")
            /\ i_gloabl_n' = reg[t] + 1
            /\ i' = [i EXCEPT ![t] = @ + 1]
            /\ pc' = [pc EXCEPT ![t] = "loop"]
            /\ UNCHANGED <<mutex, arg, main, max, reg>>

\* return (void *)10, with the mutex still locked
Return(t) == /\ Runs(t, "loop")
             /\ i[t] >= max[t]
             /\ pc' = [pc EXCEPT ![t] = "done"]
             /\ UNCHANGED <<mutex, arg, i_gloabl_n, main, max, i, reg>>

Thread(t) == Lock(t) \/ ReadArgs(t) \/ Load(t) \/ Store(t) \/ Return(t)

----------------------------------------------------------------------------
(* main() *)

\* pthread_create of thread t; when it fails errExit ends the process.
Create(t, at, next) == /\ main = at
                       /\ \/ /\ pc' = [pc EXCEPT ![t] = "lock"]
                             /\ main' = next
                          \/ /\ main' = "exit"
                             /\ UNCHANGED pc
                       /\ UNCHANGED <<mutex, arg, i_gloabl_n, max, i, reg>>

\* pthread_join(t, (void *)&arg)
Join(t, at, next) == /\ main = at
                     /\ pc[t] = "done"
                     /\ arg' = Ret
                     /\ main' = next
                     /\ UNCHANGED <<mutex, i_gloabl_n, pc, max, i, reg>>

\* Mutant: the unlock between the joins is forgotten.
UnlockForgotten(at, next) == /\ main = at
                             /\ main' = next
                             /\ UNCHANGED <<mutex, arg, i_gloabl_n, pc, max, i, reg>>

\* pthread_mutex_unlock(&mutex), which main never locked
Unlock(at, next) == /\ main = at
                    /\ mutex' = Free
                    /\ main' = next
                    /\ UNCHANGED <<arg, i_gloabl_n, pc, max, i, reg>>

Main == \/ Create(pt1, "create1", "create2") \/ Create(pt2, "create2", "join1")
        \/ Join(pt1, "join1", "unlock1") \/ Unlock("unlock1", "join2")
        \/ Join(pt2, "join2", "unlock2") \/ Unlock("unlock2", "end")

Next == Main \/ \E t \in Threads : Thread(t)

\* Every thread is scheduled, and one that waits for a free mutex gets it.
Fairness == WF_vars(Main) /\ \A t \in Threads : WF_vars(Thread(t))

Spec == Init /\ [][Next]_vars /\ Fairness

----------------------------------------------------------------------------
(* Properties *)

Holding == {"args", "loop", "store"}

\* Types of the variables.
TypeOK == /\ mutex \in Threads \cup {Free}
          /\ arg \in Nat /\ i_gloabl_n \in Nat
          /\ main \in {"create1", "create2", "join1", "unlock1", "join2",
                       "unlock2", "end", "exit"}
          /\ pc \in [Threads -> {"absent", "lock", "args", "loop", "store", "done"}]
          /\ max \in [Threads -> Nat] /\ i \in [Threads -> Nat]
          /\ reg \in [Threads -> Nat]

\* The threads never count at the same time, although the unlocks are main's:
\* main unlocks only what a thread that has ended left locked.
Exclusive == ~(pc[pt1] \in Holding /\ pc[pt2] \in Holding)

\* When the program ends, thr_demo made the Arg rounds that arg asked for and
\* thr_demo2 only Ret: by then the join of pt1 had overwritten arg.
FinalCount == main = "end" => i_gloabl_n = Arg + Ret

\* thr_demo2 got the mutex first, and returned with it before pt1 is joined.
Hang == main = "join1" /\ pc[pt1] = "lock" /\ pc[pt2] = "done" /\ mutex = pt2

\* The program ends, with FinalCount, or it hangs for ever in the one way that
\* Hang describes.
EndsOrHangs == <>[](\/ main = "exit" \/ Hang
                    \/ main = "end" /\ FinalCount)

\* The threads that have locked the mutex, whoever unlocks it.
HasLocked(t) == pc[t] \notin {"absent", "lock"}

\* The inductive invariant behind Exclusive and FinalCount.
IInv == /\ TypeOK
        /\ i_gloabl_n = i[pt1] + i[pt2]
        /\ \A t \in Threads :
              /\ HasLocked(t) \/ i[t] = 0
              /\ pc[t] = "args" => i[t] = 0
              /\ pc[t] = "store" => reg[t] = i_gloabl_n /\ i[t] < max[t]
              /\ pc[t] \in {"loop", "store"} => i[t] <= max[t]
              /\ pc[t] = "done" => i[t] = max[t]
        /\ main \in {"create1", "create2", "join1"} =>
              /\ arg = Arg
              /\ \A t \in Threads : HasLocked(t) => mutex = t
              /\ HasLocked(pt1) /\ pc[pt1] # "args" => max[pt1] = Arg
        /\ main \in {"unlock1", "join2", "unlock2", "end"} =>
              /\ arg = Ret
              /\ pc[pt1] = "done" /\ max[pt1] = Arg
              /\ HasLocked(pt2) /\ pc[pt2] # "args" => max[pt2] = Ret
        /\ main = "create1" => pc[pt1] = "absent"
        /\ main \in {"create1", "create2"} => pc[pt2] = "absent"
        /\ main = "unlock1" => mutex = pt1 /\ ~HasLocked(pt2)
        /\ main = "join2" => (HasLocked(pt2) => mutex = pt2)
        /\ main \in {"unlock2", "end"} => pc[pt2] = "done"
        /\ main = "exit" => Exclusive

=============================================================================
