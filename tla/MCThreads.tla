------------------------------ MODULE MCThreads ------------------------------
(* The programs of src/03NetPro_thread/05Pthread: a behaviour is a run of    *)
(* one of them.                                                              *)
(*                                                                           *)
(* 06test_pro_con: three rounds of each handler on a store of two items, and *)
(* two spurious wakeups.  02test: the numbers that it has.  05test_homework: *)
(* two threads on a file of five bytes, reads of at most two, two failed     *)
(* reads, and an int of -4..3, which five bytes overflow.                    *)
EXTENDS ProCon

CONSTANTS Arg, Ret, ReaderIds, Nobody, FileSize, BUF_SIZE, Half, MaxFaults

VARIABLES program,
          jmutex, arg, i_gloabl_n, jmain, jpc, max, i, jreg,
          rmutex, offset, total_size, pthr, nread, rreg, rpc, ret, rmain, faults

joinVars == <<jmutex, arg, i_gloabl_n, jmain, jpc, max, i, jreg>>
readersVars == <<rmutex, offset, total_size, pthr, nread, rreg, rpc, ret, rmain, faults>>

Join == INSTANCE ThreadJoin WITH mutex <- jmutex, main <- jmain, pc <- jpc, reg <- jreg
Readers == INSTANCE FileReaders WITH Threads <- ReaderIds, reg <- rreg, pc <- rpc, main <- rmain

ASSUME ThreadsAssumption == Join!ArgAssumption /\ Readers!SizeAssumption

MCInit == /\ program \in {"06test_pro_con", "02test", "05test_homework"}
          /\ Init /\ Join!Init /\ Readers!Init

MCNext == \/ /\ program = "06test_pro_con" /\ Next
             /\ UNCHANGED <<program, joinVars, readersVars>>
          \/ /\ program = "02test" /\ Join!Next
             /\ UNCHANGED <<program, vars, readersVars>>
          \/ /\ program = "05test_homework" /\ Readers!Next
             /\ UNCHANGED <<program, vars, joinVars>>

MCSpec == /\ MCInit /\ [][MCNext]_<<program, vars, joinVars, readersVars>>
          /\ program = "06test_pro_con" => Fairness
          /\ program = "02test" => Join!Fairness
          /\ program = "05test_homework" => Readers!Fairness

----------------------------------------------------------------------------

\* Outcome of ProCon, for its runs: main() returns, or the consumer waits for
\* ever on the empty store of a producer that has returned.
ProConOutcome == program = "06test_pro_con" => Outcome

\* EndsOrHangs of ThreadJoin: 02test ends, after thr_demo made the rounds that
\* arg asked for and thr_demo2 those that the first join wrote over it, or it
\* hangs in the one way of ThreadJoin's Hang.
EndsOrHangs == program = "02test" => Join!EndsOrHangs

\* Accounted of FileReaders: between critical sections of 05test_homework
\* total_size is what was read so far, in the arithmetic of an int.
Accounted == Readers!Accounted

\* ReadersEnd of FileReaders: 05test_homework ends, and when one thread returned
\* without an error the whole file was read.
ReadersEnd == program = "05test_homework" => Readers!ReadersEnd

=============================================================================
