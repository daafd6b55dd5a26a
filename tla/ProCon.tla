------------------------------- MODULE ProCon -------------------------------
(***************************************************************************)
(* Producer and consumer threads of                                        *)
(* src/03NetPro_thread/05Pthread/06test_pro_con.c.                         *)
(*                                                                         *)
(* One producer adds ProRounds items to the store `data`, one at a time;   *)
(* one consumer makes ConRounds rounds, each waiting on the condition      *)
(* variable until the store is not empty and then draining it.  `++data`   *)
(* and `--data` are a load and a store, so that it is the mutex, and not   *)
(* the model, that makes them atomic.  main() creates the threads, joins   *)
(* them and destroys the mutex, on its error paths as well.                *)
(***************************************************************************)
EXTENDS Integers

CONSTANTS ProRounds,    \* iterations of pro_handler (100 in the code)
          ConRounds,    \* iterations of con_handler (100 in the code)
          DataMax,      \* DATA_MAX
          MaxSpurious   \* bound: spurious wakeups of one run

ASSUME RoundsAssumption == /\ ProRounds \in Nat
                           /\ ConRounds \in Nat
                           /\ DataMax \in Nat
                           /\ MaxSpurious \in Nat

ConInitVal == DataMax - (DataMax \div 2)      \* CON_INIT_VAL

VARIABLES data,         \* the store
          mutex,        \* its holder: "pro", "con" or "free"
          main,         \* where main() is
          pro,          \* where pro_handler is
          con,          \* where con_handler is
          proI, conI,   \* the loop counters i, counting down
          reg,          \* what each thread loaded from data
          spurious,     \* spurious wakeups so far
          produced,     \* history: stores of ++data
          taken,        \* history: stores of --data
          got           \* history: stores of --data in the consumer's round

vars == <<data, mutex, main, pro, con, proI, conI, reg, spurious, produced, taken,
          got>>

ProPcs == {"absent", "lock", "load", "store", "unlock", "signal", "done"}
ConPcs == {"absent", "lock", "test", "waiting", "woken", "load", "store",
           "unlock", "done"}
MainPcs == {"create_pro", "create_con", "join_pro", "join_con", "err_join",
            "destroy", "end"}

Init == /\ data = ConInitVal
        /\ mutex = "free"
        /\ main = "create_pro"
        /\ pro = "absent"
        /\ con = "absent"
        /\ proI = ProRounds
        /\ conI = ConRounds
        /\ reg = [t \in {"pro", "con"} |-> 0]
        /\ spurious = 0
        /\ produced = 0
        /\ taken = 0
        /\ got = 0

----------------------------------------------------------------------------
(* pro_handler *)

ProLock == /\ pro = "lock" /\ proI > 0
           /\ mutex = "free"
           /\ mutex' = "pro"
           /\ pro' = "load"
           /\ UNCHANGED <<data, main, con, proI, conI, reg, spurious, produced, taken, got>>

ProLoad == /\ pro = "load"
           /\ reg' = [reg EXCEPT !["pro"] = data]
           /\ pro' = "store"
           /\ UNCHANGED <<data, mutex, main, con, proI, conI, spurious, produced, taken, got>>

ProStore == /\ pro = "store"
            /\ data' = reg["pro"] + 1
            /\ produced' = produced + 1
            /\ pro' = "unlock"
            /\ UNCHANGED <<mutex, main, con, proI, conI, reg, spurious, taken, got>>

\* Mutant: the producer forgets to unlock.
ProUnlockForgotten == /\ pro = "unlock"
                      /\ pro' = "signal"
                      /\ UNCHANGED <<data, mutex, main, con, proI, conI, reg, spurious, produced, taken, got>>

ProUnlock == /\ pro = "unlock"
             /\ mutex' = "free"
             /\ pro' = "signal"
             /\ UNCHANGED <<data, main, con, proI, conI, reg, spurious, produced, taken, got>>

\* Mutant: pthread_cond_signal is forgotten.
ProSignalForgotten == /\ pro = "signal"
                      /\ proI' = proI - 1
                      /\ pro' = "lock"
                      /\ UNCHANGED <<data, mutex, main, con, conI, reg, spurious, produced, taken, got>>

\* The signal is sent after the unlock; it wakes the consumer if it waits and
\* is lost otherwise.  The loop then decrements i.
ProSignal == /\ pro = "signal"
             /\ con' = IF con = "waiting" THEN "woken" ELSE con
             /\ proI' = proI - 1
             /\ pro' = "lock"
             /\ UNCHANGED <<data, mutex, main, conI, reg, spurious, produced, taken, got>>

ProReturn == /\ pro = "lock" /\ proI = 0
             /\ pro' = "done"
             /\ UNCHANGED <<data, mutex, main, con, proI, conI, reg, spurious, produced, taken, got>>

pro_handler == \/ ProLock \/ ProLoad \/ ProStore
               \/ ProUnlock \/ ProSignal \/ ProReturn

----------------------------------------------------------------------------
(* con_handler *)

ConLock == /\ con = "lock" /\ conI > 0
           /\ mutex = "free"
           /\ mutex' = "con"
           /\ con' = "test"
           /\ got' = 0
           /\ UNCHANGED <<data, main, pro, proI, conI, reg, spurious, produced, taken>>

\* while (data == 0) pthread_cond_wait(&cond, &mutex): the wait releases the
\* mutex and starts waiting in one step.
ConTest == /\ con = "test"
           /\ \/ /\ data = 0
                 /\ mutex' = "free"
                 /\ con' = "waiting"
              \/ /\ data # 0
                 /\ con' = "load"
                 /\ UNCHANGED mutex
           /\ UNCHANGED <<data, main, pro, proI, conI, reg, spurious, produced, taken, got>>

\* POSIX lets pthread_cond_wait return without a signal.
ConSpurious == /\ con = "waiting"
               /\ spurious < MaxSpurious
               /\ spurious' = spurious + 1
               /\ con' = "woken"
               /\ UNCHANGED <<data, mutex, main, pro, proI, conI, reg, produced, taken, got>>

\* Mutant: `if (data == 0) pthread_cond_wait(...)' instead of `while'.
ConRelockNoRecheck == /\ con = "woken"
                      /\ mutex = "free"
                      /\ mutex' = "con"
                      /\ con' = "load"
                      /\ UNCHANGED <<data, main, pro, proI, conI, reg, spurious, produced, taken, got>>

\* pthread_cond_wait returns with the mutex locked again, to the loop test.
ConRelock == /\ con = "woken"
             /\ mutex = "free"
             /\ mutex' = "con"
             /\ con' = "test"
             /\ UNCHANGED <<data, main, pro, proI, conI, reg, spurious, produced, taken, got>>

\* while (data > 0) --data
ConLoad == /\ con = "load"
           /\ \/ /\ data > 0
                 /\ reg' = [reg EXCEPT !["con"] = data]
                 /\ con' = "store"
              \/ /\ data <= 0
                 /\ con' = "unlock"
                 /\ UNCHANGED reg
           /\ UNCHANGED <<data, mutex, main, pro, proI, conI, spurious, produced, taken, got>>

ConStore == /\ con = "store"
            /\ data' = reg["con"] - 1
            /\ taken' = taken + 1
            /\ got' = got + 1
            /\ con' = "load"
            /\ UNCHANGED <<mutex, main, pro, proI, conI, reg, spurious, produced>>

ConUnlock == /\ con = "unlock"
             /\ mutex' = "free"
             /\ conI' = conI - 1
             /\ con' = "lock"
             /\ UNCHANGED <<data, main, pro, proI, reg, spurious, produced, taken, got>>

ConReturn == /\ con = "lock" /\ conI = 0
             /\ con' = "done"
             /\ UNCHANGED <<data, mutex, main, pro, proI, conI, reg, spurious, produced, taken, got>>

con_handler == \/ ConLock \/ ConTest \/ ConRelock \/ ConLoad
               \/ ConStore \/ ConUnlock \/ ConReturn

----------------------------------------------------------------------------
(* main: either pthread_create may fail *)

MainCreatePro == /\ main = "create_pro"
                 /\ \/ pro' = "lock" /\ main' = "create_con"
                    \/ UNCHANGED pro /\ main' = "destroy"
                 /\ UNCHANGED <<data, mutex, con, proI, conI, reg, spurious, produced, taken, got>>

\* Mutant: when the consumer cannot be created the producer is not joined.
MainCreateConNoJoin == /\ main = "create_con"
                       /\ \/ con' = "lock" /\ main' = "join_pro"
                          \/ UNCHANGED con /\ main' = "destroy"
                       /\ UNCHANGED <<data, mutex, pro, proI, conI, reg, spurious, produced, taken, got>>

MainCreateCon == /\ main = "create_con"
                 /\ \/ con' = "lock" /\ main' = "join_pro"
                    \/ UNCHANGED con /\ main' = "err_join"
                 /\ UNCHANGED <<data, mutex, pro, proI, conI, reg, spurious, produced, taken, got>>

MainJoin == /\ \/ main = "join_pro" /\ pro = "done" /\ main' = "join_con"
               \/ main = "join_con" /\ con = "done" /\ main' = "destroy"
               \/ main = "err_join" /\ pro = "done" /\ main' = "destroy"
            /\ UNCHANGED <<data, mutex, pro, con, proI, conI, reg, spurious, produced, taken, got>>

MainDestroy == /\ main = "destroy"
               /\ main' = "end"
               /\ UNCHANGED <<data, mutex, pro, con, proI, conI, reg, spurious, produced, taken, got>>

main_thread == MainCreatePro \/ MainCreateCon \/ MainJoin \/ MainDestroy

Next == pro_handler \/ con_handler \/ ConSpurious \/ main_thread

\* The kernel runs every runnable thread.  A spurious wakeup may never come,
\* and there are finitely many of them: a storm of them could keep the mutex
\* from the producer for ever.
Fairness == WF_vars(pro_handler) /\ WF_vars(con_handler) /\ WF_vars(main_thread)

Spec == Init /\ [][Next]_vars /\ Fairness

----------------------------------------------------------------------------
(* Properties *)

\* Types of all variables of the two threads and of main().
TypeOK == /\ data \in Nat
          /\ mutex \in {"free", "pro", "con"}
          /\ main \in MainPcs
          /\ pro \in ProPcs
          /\ con \in ConPcs
          /\ proI \in 0..ProRounds
          /\ conI \in 0..ConRounds
          /\ reg \in [{"pro", "con"} -> Int]
          /\ spurious \in 0..MaxSpurious
          /\ produced \in Nat
          /\ taken \in Nat
          /\ got \in Nat

\* No update of data is lost: although ++data and --data are not atomic, the
\* store holds what it held at the start plus what was produced minus what was
\* taken, whatever the interleaving of pro_handler and con_handler.
Conservation == data + taken = ConInitVal + produced

\* No lost wakeup: whenever the consumer sleeps in pthread_cond_wait although
\* the store is not empty, the producer has stored and still has its
\* pthread_cond_signal to send, even though it signals after the unlock.
NoLostWakeup == con = "waiting" /\ data > 0 => pro \in {"unlock", "signal"}

\* No round of the consumer ends empty handed: when con_handler unlocks at the
\* end of a round, that very round has taken an item, in spite of spurious
\* wakeups (the `while' around the wait), and it never takes one from an empty
\* store.
NoEmptyRound == /\ con = "unlock" => got > 0
                /\ con = "store" => data > 0

\* The mutex is destroyed only once no thread can touch it again, on the two
\* error paths of main() too.
DestroyedUnused == main \in {"destroy", "end"} => /\ pro \in {"absent", "done"}
                                                  /\ con \in {"absent", "done"}
                                                  /\ mutex = "free"

\* The inductive invariant behind the four invariants above: who holds the
\* mutex is where the two handlers say so, a loaded value is still current
\* when it is stored, and main() joins before it destroys.
IInv == /\ TypeOK
        /\ mutex = "pro" <=> pro \in {"load", "store", "unlock"}
        /\ mutex = "con" <=> con \in {"test", "load", "store", "unlock"}
        /\ pro = "store" => reg["pro"] = data
        /\ con = "store" => reg["con"] = data /\ data > 0
        /\ pro \in {"load", "store", "unlock", "signal"} => proI > 0
        /\ con \notin {"absent", "lock", "done"} => conI > 0
        /\ Conservation
        /\ NoLostWakeup
        /\ NoEmptyRound
        /\ con = "load" => data > 0 \/ got > 0
        /\ main = "create_pro" => pro = "absent"
        /\ main \in {"create_pro", "create_con", "err_join"} => con = "absent"
        /\ main = "join_con" => pro = "done"
        /\ main \in {"destroy", "end"} => /\ pro \in {"absent", "done"}
                                         /\ con \in {"absent", "done"}

\* Items do not stay in the store for ever while the consumer has rounds left:
\* con_handler empties it or returns.
Drained == (con # "absent" /\ data > 0) ~> (data = 0 \/ con = "done")

\* How a run can end: main() returns, or the consumer (which drains the store
\* in batches and so can have more rounds than there are batches) waits for
\* ever on the empty store of a producer that has returned.
Outcome == <>[](\/ main = "end"
                \/ /\ con = "waiting"
                   /\ pro = "done" /\ data = 0 /\ conI > 0)

=============================================================================
