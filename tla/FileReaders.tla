---------------------------- MODULE FileReaders ----------------------------
(***************************************************************************)
(* The threads of src/03NetPro_thread/05Pthread/05test_homework.c, which   *)
(* read one file through one descriptor and add up in total_size what they *)
(* have read.  rmutex protects the read, the shared buffer and the sum.    *)
(*                                                                         *)
(* total_size is an int: it wraps around at Half.  pthread_cond_signal has *)
(* no waiters here and never fails, and is left out.                       *)
(***************************************************************************)
EXTENDS Integers

CONSTANTS Threads, Nobody,
          FileSize,     \* bytes in the file
          BUF_SIZE,     \* bytes that one read asks for (4096 in the code)
          Half,         \* an int is in -Half .. Half - 1
          MaxFaults     \* bound: reads that fail or are interrupted

SizeAssumption == /\ FileSize \in Nat /\ MaxFaults \in Nat
                  /\ BUF_SIZE \in Nat \ {0} /\ Half \in Nat \ {0}
                  /\ Nobody \notin Threads

VARIABLES rmutex,       \* the thread that holds it, or Nobody
          offset,       \* of the shared descriptor
          total_size,
          pthr,         \* pthr[idx].nread of each thread
          nread, reg,   \* a thread's locals: nread and the value of total_size
          pc,           \* where each thread is
          ret,          \* what each thread has returned
          main,         \* "create", "join", "end" or "exit"
          faults

vars == <<rmutex, offset, total_size, pthr, nread, reg, pc, ret, main, faults>>

Wrap(n) == ((n + Half) % (2 * Half)) - Half

Init == /\ rmutex = Nobody
        /\ offset = 0
        /\ total_size = 0
        /\ pthr = [t \in Threads |-> 0]
        /\ nread = [t \in Threads |-> 0]
        /\ reg = [t \in Threads |-> 0]
        /\ pc = [t \in Threads |-> "absent"]
        /\ ret = [t \in Threads |-> 0]
        /\ main = "create"
        /\ faults = 0

----------------------------------------------------------------------------
(* thr_read_file *)

At(t, l) == pc[t] = l /\ main # "exit"
Goto(t, l) == pc' = [pc EXCEPT ![t] = l]

\* Mutant: pthread_mutex_lock is forgotten.
LockForgotten(t) == /\ At(t, "lock")
                    /\ Goto(t, "read")
                    /\ UNCHANGED <<rmutex, offset, total_size, pthr, nread, reg, ret, main, faults>>

Lock(t) == /\ At(t, "lock")
           /\ rmutex = Nobody
           /\ rmutex' = t
           /\ Goto(t, "read")
           /\ UNCHANGED <<offset, total_size, pthr, nread, reg, ret, main, faults>>

\* read() returns some of the bytes that are left, or 0 at the end.
Read(t) == /\ At(t, "read")
           /\ \/ /\ offset < FileSize
                 /\ \E n \in 1..BUF_SIZE :
                       /\ offset + n <= FileSize
                       /\ offset' = offset + n
                       /\ nread' = [nread EXCEPT ![t] = n]
                       /\ pthr' = [pthr EXCEPT ![t] = n]
                 /\ Goto(t, "load")
              \/ /\ offset = FileSize
                 /\ pthr' = [pthr EXCEPT ![t] = 0]
                 /\ nread' = [nread EXCEPT ![t] = 0]
                 /\ Goto(t, "unlock_end")
                 /\ UNCHANGED offset
           /\ UNCHANGED <<rmutex, total_size, reg, ret, main, faults>>

\* EINTR: goto re_try, with the mutex held.
Retry(t) == /\ At(t, "read")
            /\ faults < MaxFaults
            /\ faults' = faults + 1
            /\ UNCHANGED <<rmutex, offset, total_size, pthr, nread, reg, pc, ret, main>>

\* Any other error: goto err.
ReadFails(t) == /\ At(t, "read")
                /\ faults < MaxFaults
                /\ faults' = faults + 1
                /\ Goto(t, "unlock_err")
                /\ UNCHANGED <<rmutex, offset, total_size, pthr, nread, reg, ret, main>>

\* total_size += nread reads the sum ...
Load(t) == /\ At(t, "load")
           /\ reg' = [reg EXCEPT ![t] = total_size]
           /\ Goto(t, "store")
           /\ UNCHANGED <<rmutex, offset, total_size, pthr, nread, ret, main, faults>>

\* ... and writes it.
Store(t) == /\ At(t, "store")
            /\ total_size' = Wrap(reg[t] + nread[t])
            /\ Goto(t, "unlock")
            /\ UNCHANGED <<rmutex, offset, pthr, nread, reg, ret, main, faults>>

\* Mutant: the error path returns with the mutex held.
UnlockNotOnError(t) == /\ pc[t] \in {"unlock", "unlock_end", "unlock_err"} /\ main # "exit"
                       /\ rmutex' = IF pc[t] = "unlock_err" THEN rmutex ELSE Nobody
                       /\ Goto(t, IF pc[t] = "unlock" THEN "lock" ELSE "done")
                       /\ ret' = [ret EXCEPT ![t] = IF pc[t] = "unlock_err" THEN -1 ELSE 0]
                       /\ UNCHANGED <<offset, total_size, pthr, nread, reg, main, faults>>

\* pthread_mutex_unlock in the loop, after it, and at err.
Unlock(t) == /\ pc[t] \in {"unlock", "unlock_end", "unlock_err"} /\ main # "exit"
             /\ rmutex' = Nobody
             /\ Goto(t, IF pc[t] = "unlock" THEN "lock" ELSE "done")
             /\ ret' = [ret EXCEPT ![t] = IF pc[t] = "unlock_err" THEN -1 ELSE 0]
             /\ UNCHANGED <<offset, total_size, pthr, nread, reg, main, faults>>

thr_read_file(t) == Lock(t) \/ Read(t) \/ Load(t) \/ Store(t) \/ Unlock(t)

----------------------------------------------------------------------------
(* main(): creates the threads in turn, each running at once, joins them all *)

Create(t) == /\ main = "create"
             /\ pc[t] = "absent"
             /\ \/ /\ Goto(t, "lock")
                   /\ main' = IF \A u \in Threads \ {t} : pc[u] # "absent"
                                 THEN "join" ELSE "create"
                \/ /\ main' = "exit"
                   /\ UNCHANGED pc
             /\ UNCHANGED <<rmutex, offset, total_size, pthr, nread, reg, ret, faults>>

Join == /\ main = "join"
        /\ \A t \in Threads : pc[t] = "done"
        /\ main' = "end"
        /\ UNCHANGED <<rmutex, offset, total_size, pthr, nread, reg, pc, ret, faults>>

Next == \/ Join
        \/ \E t \in Threads : Create(t) \/ thr_read_file(t) \/ Retry(t) \/ ReadFails(t)

\* Threads are scheduled and reads are not interrupted for ever.
Fairness == /\ WF_vars(Join) /\ WF_vars(\E t \in Threads : Create(t))
            /\ \A t \in Threads : WF_vars(thr_read_file(t))

Spec == Init /\ [][Next]_vars /\ Fairness

----------------------------------------------------------------------------
(* Properties *)

\* Types of the variables.
TypeOK == /\ rmutex \in Threads \cup {Nobody}
          /\ offset \in 0..FileSize
          /\ total_size \in (-Half)..(Half - 1)
          /\ pthr \in [Threads -> 0..BUF_SIZE] /\ nread \in [Threads -> 0..BUF_SIZE]
          /\ reg \in [Threads -> (-Half)..(Half - 1)]
          /\ pc \in [Threads -> {"absent", "lock", "read", "load", "store", "unlock",
                                 "unlock_end", "unlock_err", "done"}]
          /\ ret \in [Threads -> {0, -1}]
          /\ main \in {"create", "join", "end", "exit"} /\ faults \in 0..MaxFaults

\* Between two critical sections total_size is what was read from the file so
\* far, in the arithmetic of an int: no read is lost or counted twice, also
\* when a thread left on an error.
Accounted == rmutex = Nobody => total_size = Wrap(offset)

\* The mutex is held by the one thread that is in the critical section.
Holds == \A t \in Threads :
            pc[t] \in {"read", "load", "store", "unlock", "unlock_end", "unlock_err"}
                <=> rmutex = t

\* The sum at the end: unless every thread failed the whole file was read.
CompleteAtEnd == main = "end" /\ (\E t \in Threads : ret[t] = 0) => total_size = Wrap(FileSize)

\* What Accounted needs to be inductive: only a thread about to add what it read
\* has a total_size that lacks it, and the value that it loaded is not stale;
\* and CompleteAtEnd: a thread returns 0 only at the end of the file.
IInv == /\ TypeOK /\ Holds
        /\ \A t \in Threads :
              /\ pc[t] \in {"load", "store"} => total_size = Wrap(offset - nread[t])
              /\ pc[t] = "store" => reg[t] = total_size
              /\ pc[t] = "unlock_end" \/ (pc[t] = "done" /\ ret[t] = 0) => offset = FileSize
        /\ main = "end" => \A t \in Threads : pc[t] = "done"
        /\ (\A t \in Threads : pc[t] \notin {"load", "store"}) => total_size = Wrap(offset)

\* The program ends: no thread returns with the mutex held.  And unless every
\* thread failed the whole file was read by then: the others took over from the
\* threads that failed.
ReadersEnd == <>(main = "exit" \/ (main = "end" /\ CompleteAtEnd))

=============================================================================
