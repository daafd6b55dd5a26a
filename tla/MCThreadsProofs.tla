--------------------------- MODULE MCThreadsProofs ---------------------------
(***************************************************************************)
(* Proofs about the programs of threads: 06test_pro_con for every number   *)
(* of rounds, every DATA_MAX and every number of spurious wakeups, 02test  *)
(* for every initial value of arg and every value that the threads return, *)
(* and 05test_homework for every number of threads, every size of the file *)
(* and of a read, every number of failed reads and every width of an int.  *)
(* The inductive invariants are the IInv of their modules.                 *)
(***************************************************************************)
EXTENDS MCThreads, TLAPS

----------------------------------------------------------------------------
(* 06test_pro_con *)

\* The initial states satisfy the inductive invariant: the store starts with
\* CON_INIT_VAL items, which is not negative.
LEMMA InitIInv == Init => IInv
<1> SUFFICES ASSUME Init PROVE IInv
    OBVIOUS
<1>1. ConInitVal \in Nat
    BY RoundsAssumption DEF ConInitVal
<1> QED
    BY <1>1, RoundsAssumption
    DEF Init, IInv, TypeOK, Conservation, NoLostWakeup, NoEmptyRound, MainPcs, ProPcs, ConPcs

\* Every step of pro_handler preserves the inductive invariant.
LEMMA ProStep == IInv /\ pro_handler => IInv'
<1> SUFFICES ASSUME IInv, pro_handler PROVE IInv'
    OBVIOUS
<1> USE RoundsAssumption DEF IInv, TypeOK, Conservation, NoLostWakeup, NoEmptyRound,
                             MainPcs, ProPcs, ConPcs
<1>0. ConInitVal \in Int
    BY DEF ConInitVal
<1>1. CASE ProLock
    BY <1>0, <1>1 DEF ProLock
<1>2. CASE ProLoad
    BY <1>0, <1>2 DEF ProLoad
<1>3. CASE ProStore
    BY <1>0, <1>3 DEF ProStore
<1>4. CASE ProUnlock
    BY <1>0, <1>4 DEF ProUnlock
<1>5. CASE ProSignal
    BY <1>0, <1>5 DEF ProSignal
<1>6. CASE ProReturn
    BY <1>0, <1>6 DEF ProReturn
<1> QED
    BY <1>1, <1>2, <1>3, <1>4, <1>5, <1>6 DEF pro_handler

\* Every step of con_handler, and a spurious wakeup, preserves it.
LEMMA ConStep == IInv /\ (con_handler \/ ConSpurious) => IInv'
<1> SUFFICES ASSUME IInv, con_handler \/ ConSpurious PROVE IInv'
    OBVIOUS
<1> USE RoundsAssumption DEF IInv, TypeOK, Conservation, NoLostWakeup, NoEmptyRound,
                             MainPcs, ProPcs, ConPcs
<1>0. ConInitVal \in Int
    BY DEF ConInitVal
<1>1. CASE ConLock
    BY <1>0, <1>1 DEF ConLock
<1>2. CASE ConTest
    BY <1>0, <1>2 DEF ConTest
<1>3. CASE ConSpurious
    BY <1>0, <1>3 DEF ConSpurious
<1>4. CASE ConRelock
    BY <1>0, <1>4 DEF ConRelock
<1>5. CASE ConLoad
    BY <1>0, <1>5 DEF ConLoad
<1>6. CASE ConStore
    BY <1>0, <1>6 DEF ConStore
<1>7. CASE ConUnlock
    BY <1>0, <1>7 DEF ConUnlock
<1>8. CASE ConReturn
    BY <1>0, <1>8 DEF ConReturn
<1> QED
    BY <1>1, <1>2, <1>3, <1>4, <1>5, <1>6, <1>7, <1>8 DEF con_handler

\* Every step of main(), its error paths included, preserves it.
LEMMA MainStep == IInv /\ main_thread => IInv'
<1> SUFFICES ASSUME IInv, main_thread PROVE IInv'
    OBVIOUS
<1> USE RoundsAssumption DEF IInv, TypeOK, Conservation, NoLostWakeup, NoEmptyRound,
                             MainPcs, ProPcs, ConPcs
<1>0. ConInitVal \in Int
    BY DEF ConInitVal
<1>1. CASE MainCreatePro
    BY <1>0, <1>1 DEF MainCreatePro
<1>2. CASE MainCreateCon
    BY <1>0, <1>2 DEF MainCreateCon
<1>3. CASE MainJoin
    BY <1>0, <1>3 DEF MainJoin
<1>4. CASE MainDestroy
    BY <1>0, <1>4 DEF MainDestroy
<1> QED
    BY <1>1, <1>2, <1>3, <1>4 DEF main_thread

\* The inductive invariant holds in every reachable state of the program.
THEOREM Invariance == Spec => []IInv
<1>1. IInv /\ UNCHANGED vars => IInv'
    BY DEF IInv, TypeOK, Conservation, NoLostWakeup, NoEmptyRound, vars
<1>2. IInv /\ [Next]_vars => IInv'
    BY <1>1, ProStep, ConStep, MainStep DEF Next
<1> QED
    BY <1>2, InitIInv, PTL DEF Spec

\* Type correctness of the two threads' and main()'s state.
THEOREM TypeCorrect == Spec => []TypeOK
<1>1. IInv => TypeOK
    BY DEF IInv
<1> QED
    BY <1>1, Invariance, PTL

\* No update of the store is lost: pro_handler and con_handler keep
\* data + taken = CON_INIT_VAL + produced.
THEOREM ConservationHolds == Spec => []Conservation
<1>1. IInv => Conservation
    BY DEF IInv
<1> QED
    BY <1>1, Invariance, PTL

\* A consumer asleep beside a non-empty store has a signal on its way.
THEOREM NoLostWakeupHolds == Spec => []NoLostWakeup
<1>1. IInv => NoLostWakeup
    BY DEF IInv
<1> QED
    BY <1>1, Invariance, PTL

\* No round of con_handler ends without an item taken in that round, and none is
\* taken from an empty store.
THEOREM NoEmptyRoundHolds == Spec => []NoEmptyRound
<1>1. IInv => NoEmptyRound
    BY DEF IInv
<1> QED
    BY <1>1, Invariance, PTL

\* The mutex is destroyed only when no thread will use it again.
THEOREM DestroyedUnusedHolds == Spec => []DestroyedUnused
<1>1. IInv => DestroyedUnused
    BY DEF IInv, DestroyedUnused, TypeOK
<1> QED
    BY <1>1, Invariance, PTL

----------------------------------------------------------------------------
(* 02test *)

\* The initial states satisfy the inductive invariant.
LEMMA JoinInit == Join!Init => Join!IInv
BY ThreadsAssumption
DEF Join!ArgAssumption, Join!Init, Join!IInv, Join!TypeOK, Join!Exclusive, Join!Threads,
    Join!pt1, Join!pt2, Join!Free, Join!HasLocked, Join!Holding

\* Every step of a thread preserves it.
LEMMA JoinThreadStep == ASSUME NEW t \in Join!Threads, Join!IInv, Join!Thread(t) PROVE Join!IInv'
<1> USE ThreadsAssumption
    DEF Join!ArgAssumption, Join!IInv, Join!TypeOK, Join!Exclusive, Join!Threads,
        Join!pt1, Join!pt2, Join!Free, Join!HasLocked, Join!Holding, Join!Runs
<1>1. CASE Join!Lock(t)
    BY <1>1 DEF Join!Lock
<1>2. CASE Join!ReadArgs(t)
    BY <1>2 DEF Join!ReadArgs
<1>3. CASE Join!Load(t)
    BY <1>3 DEF Join!Load
<1>4. CASE Join!Store(t)
    BY <1>4 DEF Join!Store
<1>5. CASE Join!Return(t)
    BY <1>5 DEF Join!Return
<1> QED
    BY <1>1, <1>2, <1>3, <1>4, <1>5 DEF Join!Thread

\* Every step of main() preserves it.
LEMMA JoinMainStep == ASSUME Join!IInv, Join!Main PROVE Join!IInv'
<1> USE ThreadsAssumption
    DEF Join!ArgAssumption, Join!IInv, Join!TypeOK, Join!Exclusive, Join!Threads,
        Join!pt1, Join!pt2, Join!Free, Join!HasLocked, Join!Holding
<1>1. CASE Join!Create(Join!pt1, "create1", "create2")
    BY <1>1 DEF Join!Create
<1>2. CASE Join!Create(Join!pt2, "create2", "join1")
    BY <1>2 DEF Join!Create
<1>3. CASE Join!Join(Join!pt1, "join1", "unlock1")
    BY <1>3 DEF Join!Join
<1>4. CASE Join!Unlock("unlock1", "join2")
    BY <1>4 DEF Join!Unlock
<1>5. CASE Join!Join(Join!pt2, "join2", "unlock2")
    BY <1>5 DEF Join!Join
<1>6. CASE Join!Unlock("unlock2", "end")
    BY <1>6 DEF Join!Unlock
<1> QED
    BY <1>1, <1>2, <1>3, <1>4, <1>5, <1>6 DEF Join!Main

\* The inductive invariant holds in every reachable state.
THEOREM JoinInvariance == MCSpec => []Join!IInv
<1>1. MCInit => Join!IInv
    BY JoinInit DEF MCInit
<1>2. Join!IInv /\ [MCNext]_<<program, vars, joinVars, readersVars>> => Join!IInv'
    <2> SUFFICES ASSUME Join!IInv, [MCNext]_<<program, vars, joinVars, readersVars>>
                 PROVE  Join!IInv'
        OBVIOUS
    <2>1. CASE Join!Next
        BY <2>1, JoinMainStep, JoinThreadStep DEF Join!Next
    <2>2. CASE UNCHANGED joinVars
        BY <2>2 DEF joinVars, Join!IInv, Join!TypeOK, Join!Exclusive, Join!HasLocked
    <2> QED
        BY <2>1, <2>2 DEF MCNext
<1> QED
    BY <1>1, <1>2, PTL DEF MCSpec

\* The two threads are never between their lock and their return at the same
\* time, although neither of them unlocks the mutex.
THEOREM ExclusiveHolds == MCSpec => []Join!Exclusive
<1>1. Join!IInv => Join!Exclusive
    BY DEF Join!IInv, Join!TypeOK, Join!Exclusive, Join!Threads, Join!pt1, Join!pt2,
           Join!Free, Join!HasLocked, Join!Holding
<1> QED
    BY JoinInvariance, <1>1, PTL

\* When the program ends the counter is Arg + Ret: thr_demo2 finds in arg what
\* the join of pt1 stored there.
THEOREM FinalCountHolds == MCSpec => []Join!FinalCount
<1>1. Join!IInv => Join!FinalCount
    BY DEF Join!IInv, Join!TypeOK, Join!FinalCount, Join!Threads, Join!pt1, Join!pt2, Join!HasLocked
<1> QED
    BY JoinInvariance, <1>1, PTL

----------------------------------------------------------------------------
(* 05test_homework: the arithmetic of an int *)

\* A quotient and a remainder give the number back.
LEMMA DivMod == ASSUME NEW a \in Int, NEW d \in Nat \ {0}
                PROVE  /\ a \div d \in Int /\ a % d \in 0..(d - 1)
                       /\ a = d * (a \div d) + (a % d)
BY SMT

\* A positive multiple of d is not below d.
LEMMA Multiple == ASSUME NEW x \in Int, NEW d \in Nat \ {0}, x > 0 PROVE d * x >= d
BY SMT

\* The remainder is the only one.
LEMMA OneRemainder == ASSUME NEW d \in Nat \ {0}, NEW q \in Int, NEW p \in Int,
                             NEW r \in 0..(d - 1), NEW s \in 0..(d - 1),
                             d * q + r = d * p + s
                      PROVE  r = s
<1>1. d * (q - p) = s - r /\ d * (p - q) = r - s
    BY SMT
<1>2. CASE q > p
    BY <1>1, <1>2, Multiple
<1>3. CASE q < p
    BY <1>1, <1>3, Multiple
<1>4. CASE q = p
    BY <1>1, <1>4
<1> QED
    BY <1>2, <1>3, <1>4

\* Multiples of the divisor do not change a remainder.
LEMMA ModShift == ASSUME NEW d \in Nat \ {0}, NEW a \in Int, NEW q \in Int
                  PROVE  (a - d * q) % d = a % d
<1> DEFINE b == a - d * q
<1>1. b \in Int /\ d * q \in Int
    BY SMT
<1>2. a = d * (a \div d) + (a % d) /\ a \div d \in Int /\ a % d \in 0..(d - 1)
    BY DivMod
<1>3. b = d * (b \div d) + (b % d) /\ b \div d \in Int /\ b % d \in 0..(d - 1)
    BY DivMod, <1>1
<1>4. d * (q + (b \div d)) + (b % d) = d * (a \div d) + (a % d) /\ q + (b \div d) \in Int
    <2>1. b = a - d * q
        OBVIOUS
    <2> HIDE DEF b
    <2>2. d * (q + (b \div d)) = d * q + d * (b \div d)
        BY <1>3, SMT
    <2> QED
        BY <2>1, <2>2, <1>1, <1>2, <1>3
<1> QED
    BY <1>2, <1>3, <1>4, OneRemainder

\* An int that wrapped around before an addition gives the same sum as one that
\* wraps around after it.
LEMMA WrapAdd == ASSUME Readers!SizeAssumption, NEW m \in Int, NEW k \in Int
                 PROVE  /\ Readers!Wrap(m) \in (-Half)..(Half - 1)
                        /\ Readers!Wrap(Readers!Wrap(m) + k) = Readers!Wrap(m + k)
<1>0. Half \in Nat \ {0}
    BY DEF Readers!SizeAssumption
<1> DEFINE d == 2 * Half
           n == m + Half
           q == n \div d
<1>1. d \in Nat \ {0} /\ n \in Int /\ n = m + Half /\ d = 2 * Half
    BY <1>0
<1> HIDE DEF d, n
<1>2. q \in Int /\ n % d \in 0..(d - 1) /\ n = d * q + (n % d)
    BY <1>1, DivMod
<1> HIDE DEF q
<1>3. d * q \in Int
    BY <1>1, <1>2, SMT
<1>4. Readers!Wrap(m) = (n % d) - Half
    BY <1>1 DEF Readers!Wrap
<1> DEFINE e == m + k + Half
<1>5. e \in Int /\ (Readers!Wrap(m) + k) + Half = e - d * q
    BY <1>0, <1>1, <1>2, <1>3, <1>4
<1>6. ((Readers!Wrap(m) + k) + Half) % d = e % d
    BY <1>1, <1>2, <1>5, ModShift
<1> QED
    BY <1>0, <1>1, <1>2, <1>4, <1>6 DEF Readers!Wrap

----------------------------------------------------------------------------
(* 05test_homework: the threads *)

\* The initial states satisfy the inductive invariant.
LEMMA ReadersInit == Readers!Init => Readers!IInv
<1> SUFFICES ASSUME Readers!Init PROVE Readers!IInv
    OBVIOUS
<1>1. Readers!Wrap(0) = 0
    BY ThreadsAssumption DEF Readers!Wrap, Readers!SizeAssumption
<1> QED
    BY ThreadsAssumption, <1>1
    DEF Readers!Init, Readers!IInv, Readers!TypeOK, Readers!Holds, Readers!SizeAssumption

\* Every step of a thread preserves it.
LEMMA ReaderStep == ASSUME NEW t \in ReaderIds, Readers!IInv,
                           Readers!thr_read_file(t) \/ Readers!Retry(t) \/ Readers!ReadFails(t)
                    PROVE  Readers!IInv'
<1> USE ThreadsAssumption
    DEF Readers!SizeAssumption, Readers!IInv, Readers!TypeOK, Readers!Holds, Readers!At, Readers!Goto
<1>1. CASE Readers!Lock(t)
    BY <1>1 DEF Readers!Lock
<1>2. CASE Readers!Read(t)
    BY <1>2 DEF Readers!Read
<1>3. CASE Readers!Load(t)
    BY <1>3 DEF Readers!Load
<1>4. CASE Readers!Store(t)
    <2>1. pthr' = pthr /\ nread' = nread /\ offset' = offset /\ rreg' = rreg
          /\ rmutex' = rmutex /\ rpc' = [rpc EXCEPT ![t] = "unlock"] /\ rpc[t] = "store"
          /\ ret' = ret /\ rmain' = rmain /\ faults' = faults
        BY <1>4 DEF Readers!Store
    <2>2. nread[t] \in Int /\ offset - nread[t] \in Int /\ (offset - nread[t]) + nread[t] = offset
        OBVIOUS
    <2>3. rreg[t] = Readers!Wrap(offset - nread[t])
        BY <2>1
    <2>4. Readers!Wrap(rreg[t] + nread[t]) = Readers!Wrap(offset)
        BY <2>2, <2>3, WrapAdd
    <2>5. total_size' = Readers!Wrap(offset)
        BY <1>4, <2>4 DEF Readers!Store
    <2>6. Readers!Wrap(offset) \in (-Half)..(Half - 1)
        BY <2>2, WrapAdd
    <2>7. \A u \in ReaderIds : rpc'[u] \notin {"load", "store"}
        BY <2>1
    <2> QED
        BY <2>1, <2>5, <2>6, <2>7
<1>5. CASE Readers!Unlock(t)
    BY <1>5 DEF Readers!Unlock
<1>6. CASE Readers!Retry(t)
    BY <1>6 DEF Readers!Retry
<1>7. CASE Readers!ReadFails(t)
    BY <1>7 DEF Readers!ReadFails
<1> QED
    BY <1>1, <1>2, <1>3, <1>4, <1>5, <1>6, <1>7 DEF Readers!thr_read_file

\* Every step of main() preserves it.
LEMMA ReadersMainStep == ASSUME Readers!IInv,
                                Readers!Join \/ \E t \in ReaderIds : Readers!Create(t)
                         PROVE  Readers!IInv'
<1> USE ThreadsAssumption
    DEF Readers!SizeAssumption, Readers!IInv, Readers!TypeOK, Readers!Holds, Readers!Goto
<1>1. CASE Readers!Join
    BY <1>1 DEF Readers!Join
<1>2. ASSUME NEW t \in ReaderIds, Readers!Create(t) PROVE Readers!IInv'
    BY <1>2 DEF Readers!Create
<1> QED
    BY <1>1, <1>2

\* The inductive invariant holds in every reachable state, whichever program
\* of the three runs.
THEOREM ReadersInvariance == MCSpec => []Readers!IInv
<1>1. MCInit => Readers!IInv
    BY ReadersInit DEF MCInit
<1>2. Readers!IInv /\ [MCNext]_<<program, vars, joinVars, readersVars>> => Readers!IInv'
    <2> SUFFICES ASSUME Readers!IInv, [MCNext]_<<program, vars, joinVars, readersVars>>
                 PROVE  Readers!IInv'
        OBVIOUS
    <2>1. CASE Readers!Next
        BY <2>1, ReaderStep, ReadersMainStep DEF Readers!Next
    <2>2. CASE UNCHANGED readersVars
        BY <2>2 DEF readersVars, Readers!IInv, Readers!TypeOK, Readers!Holds, Readers!Wrap
    <2> QED
        BY <2>1, <2>2 DEF MCNext
<1> QED
    BY <1>1, <1>2, PTL DEF MCSpec

\* Between two critical sections of 05test_homework total_size is what was read
\* from the file so far, in the arithmetic of an int, whatever the threads,
\* failed reads and retries before: no read is lost or counted twice.
THEOREM AccountedHolds == MCSpec => []Accounted
<1>1. Readers!IInv => Accounted
    BY ThreadsAssumption
    DEF Accounted, Readers!Accounted, Readers!IInv, Readers!TypeOK, Readers!Holds, Readers!SizeAssumption
<1> QED
    BY ReadersInvariance, <1>1, PTL

\* When 05test_homework ends and not every thread failed, total_size is the size
\* of the file: the threads that go on read what is left, and none returns 0
\* before the end of the file.
THEOREM CompleteAtEndHolds == MCSpec => []Readers!CompleteAtEnd
<1>1. Readers!IInv => Readers!CompleteAtEnd
    BY DEF Readers!CompleteAtEnd, Readers!IInv, Readers!TypeOK
<1> QED
    BY ReadersInvariance, <1>1, PTL

=============================================================================
