-------------------------- MODULE MCProcessesProofs --------------------------
(***************************************************************************)
(* Proofs about the programs of several processes, for every number of     *)
(* clients, instances and children and every size of a queue.  The         *)
(* inductive invariants are the IInv of their modules.                     *)
(***************************************************************************)
EXTENDS MCProcesses, SysVMsgProofs

----------------------------------------------------------------------------
(* 02Tcp_loop *)

\* Every step preserves the inductive invariant: a child that ends adds a
\* zombie and at most one pending signal, a delivery turns the pending signal
\* into a running handler, and waitpid takes both away.
LEMMA StepIInv == IInv /\ [Next]_vars => IInv'
<1> SUFFICES ASSUME IInv, [Next]_vars PROVE IInv'
    OBVIOUS
<1> USE ClientsAssumption
        DEF IInv, TypeOK, HandlerNeverBlocks, NoDescriptorLeak, Handling, MainAt
<1>1. CASE Connect
    BY <1>1 DEF Connect
<1>2. CASE Accept
    BY <1>2 DEF Accept
<1>3. CASE Fork
    BY <1>3 DEF Fork
<1>4. CASE Close
    BY <1>4 DEF Close
<1>5. CASE ChildExit
    BY <1>5 DEF ChildExit
<1>6. CASE Deliver
    BY <1>6 DEF Deliver
<1>7. CASE Wait
    BY <1>7 DEF Wait
<1>8. CASE UNCHANGED vars
    BY <1>8 DEF vars
<1>9. CASE AcceptFails
    BY <1>9 DEF AcceptFails
<1> QED
    BY <1>1, <1>2, <1>3, <1>4, <1>5, <1>6, <1>7, <1>8, <1>9 DEF Next

\* The inductive invariant holds in every reachable state.
THEOREM Invariance == Spec => []IInv
<1>1. Init => IInv
    BY DEF Init, IInv, TypeOK, HandlerNeverBlocks, NoDescriptorLeak, Handling
<1> QED
    BY <1>1, StepIInv, PTL DEF Spec

\* The waitpid of sig_handler never blocks, for any number of clients and any
\* order of the ends of children and the deliveries of SIGCHLD.
THEOREM HandlerNeverBlocksHolds == Spec => []HandlerNeverBlocks
<1>1. IInv => HandlerNeverBlocks
    BY DEF IInv
<1> QED
    BY Invariance, <1>1, PTL

\* The parent never has more connections open than the one it just accepted.
THEOREM NoDescriptorLeakHolds == Spec => []NoDescriptorLeak
<1>1. IInv => NoDescriptorLeak
    BY DEF IInv
<1> QED
    BY Invariance, <1>1, PTL

----------------------------------------------------------------------------
(* fork_exec2 *)

\* The initial states satisfy the inductive invariant.
LEMMA PoolInit == Pool!Init => Pool!IInv
BY ProgramsAssumption
DEF Pool!Init, Pool!IInv, Pool!TypeOK, Pool!AllWaited, Pool!PoolAssumption

\* Every step preserves it: `count' counts the children in the first loops, and
\* what is left to wait for in the last.
LEMMA PoolNext == Pool!IInv /\ Pool!Next => Pool!IInv'
<1> SUFFICES ASSUME Pool!IInv, Pool!Next PROVE Pool!IInv'
    OBVIOUS
<1> USE ProgramsAssumption DEF Pool!IInv, Pool!TypeOK, Pool!AllWaited, Pool!PoolAssumption
<1>1. CASE Pool!Fork
    BY <1>1 DEF Pool!Fork
<1>2. CASE Pool!Wait
    BY <1>2 DEF Pool!Wait
<1>3. CASE Pool!Drain
    BY <1>3 DEF Pool!Drain
<1>4. CASE Pool!ChildExit
    BY <1>4 DEF Pool!ChildExit
<1> QED
    BY <1>1, <1>2, <1>3, <1>4 DEF Pool!Next, Pool!Main

\* The inductive invariant holds in every reachable state, whichever program
\* of the four runs.
THEOREM PoolInvariance == MCSpec => []Pool!IInv
<1>1. MCInit => Pool!IInv
    BY PoolInit DEF MCInit
<1>2. Pool!IInv /\ [MCNext]_MCVars => Pool!IInv'
    <2> SUFFICES ASSUME Pool!IInv, [MCNext]_MCVars PROVE Pool!IInv'
        OBVIOUS
    <2>1. CASE Pool!Next
        BY <2>1, PoolNext
    <2>2. CASE UNCHANGED poolVars
        BY <2>2 DEF poolVars, Pool!IInv, Pool!TypeOK, Pool!AllWaited
    <2> QED
        BY <2>1, <2>2 DEF MCNext, MCVars, ForkServerStep, EchoStep, SemStep
<1> QED
    BY <1>1, <1>2, PTL DEF MCSpec

\* main() of fork_exec2 never has more than CHILD_NUM children, and has waited
\* for all of them when it ends: its two loops share `count' and leave neither
\* a zombie nor a child that runs on.
THEOREM PoolSafe == MCSpec => [](Pool!Bounded /\ Pool!AllWaited)
<1>1. Pool!IInv => Pool!Bounded /\ Pool!AllWaited
    BY ProgramsAssumption
    DEF Pool!IInv, Pool!TypeOK, Pool!Bounded, Pool!AllWaited, Pool!PoolAssumption
<1> QED
    BY PoolInvariance, <1>1, PTL

----------------------------------------------------------------------------
(* semaphores *)

\* No process has an adjustment.
LEMMA NoAdjustmentIs == /\ Sem!NoAdjustment \in [Sem!Procs -> Int]
                        /\ \A x \in Sem!Procs : Sem!NoAdjustment[x] = 0
BY DEF Sem!NoAdjustment

\* The types of the variables.
SemTypes == /\ spc \in [Sem!Procs -> Sem!Labels] /\ adj \in [Sem!Procs -> Int] /\ val \in Nat
            /\ semid \in [Pids -> Int] /\ id \in Int /\ lastId \in Int

\* Every step preserves the types, whatever the program.
LEMMA SemTyped == ASSUME SemTypes, Sem!Next PROVE SemTypes'
<1> USE NoAdjustmentIs
        DEF SemTypes, Sem!Labels, Sem!Goto, Sem!AfterInit, Sem!AfterP, Sem!AfterV, Sem!AfterError
<1>1. \A p \in Pids : <<p, "main">> \in Sem!Procs /\ <<p, "child">> \in Sem!Procs
    BY DEF Sem!Procs
<1>2. ASSUME NEW p \in Pids, Sem!Main(p) PROVE SemTypes'
    <2>1. CASE Sem!semget(p)
        BY <1>1, <2>1 DEF Sem!semget
    <2>2. CASE Sem!setval(p)
        <3>1. adj' \in {Sem!NoAdjustment, adj}
            BY <2>2 DEF Sem!setval
        <3>2. val' \in {Sem!InitVal, val} /\ id' = id /\ lastId' = lastId
            BY <2>2, Zenon DEF Sem!setval
        <3>3. spc' \in [Sem!Procs -> Sem!Labels]
            BY <1>1, <2>2 DEF Sem!setval
        <3>4. semid' \in {semid, [semid EXCEPT ![p] = 0]}
            BY <2>2, Zenon DEF Sem!setval
        <3> QED
            BY <3>1, <3>2, <3>3, <3>4 DEF Sem!InitVal
    <2>3. CASE Sem!fork(p)
        BY <1>1, <2>3 DEF Sem!fork
    <2>4. CASE Sem!wait(p)
        BY <1>1, <2>4 DEF Sem!wait
    <2>5. CASE Sem!rmid(p)
        <3>1. adj' \in {Sem!NoAdjustment, adj}
            BY <2>5 DEF Sem!rmid
        <3>2. val' \in Nat /\ id' \in Int /\ lastId' = lastId /\ semid' = semid
            BY <2>5 DEF Sem!rmid
        <3>3. spc' \in [Sem!Procs -> Sem!Labels]
            BY <1>1, <2>5 DEF Sem!rmid
        <3> QED
            BY <3>1, <3>2, <3>3
    <2> QED
        BY <1>2, <2>1, <2>2, <2>3, <2>4, <2>5 DEF Sem!Main
<1>3. ASSUME NEW x \in Sem!Procs, Sem!Proc(x) \/ Sem!Interrupted(x) \/ Sem!Kill(x)
      PROVE  SemTypes'
    <2>1. CASE Sem!P(x)
        BY <2>1 DEF Sem!P, Sem!semop
    <2>2. CASE Sem!V(x)
        BY <2>2 DEF Sem!V, Sem!semop
    <2>3. CASE Sem!Exit(x)
        BY <2>3 DEF Sem!Exit, Sem!Undo
    <2>4. CASE Sem!Interrupted(x)
        BY <2>4 DEF Sem!Interrupted
    <2>5. CASE Sem!Kill(x)
        BY <2>5 DEF Sem!Kill, Sem!Undo
    <2> QED
        BY <1>3, <2>1, <2>2, <2>3, <2>4, <2>5 DEF Sem!Proc
<1> QED
    BY <1>2, <1>3 DEF Sem!Next

\* The part of the inductive invariant that is about semaphore.c.
SemInside == prog = "semaphore" =>
    /\ \A p \in Pids :
          /\ spc[<<p, "child">>] = "none"
          /\ spc[<<p, "main">>] \in {"semget", "setval", "p", "inside", "exit", "ended"}
          /\ Sem!Inside(p) => Sem!Valid(<<p, "main">>)
    /\ ~disturbed => Sem!Undisturbed

\* Every step of main() before P preserves it: a SETVAL that finds nobody
\* inside leaves the value 1 and no adjustment.
LEMMA SemMainStep == ASSUME SemTypes, SemInside, NEW p \in Pids, Sem!Main(p) PROVE SemInside'
<1> SUFFICES ASSUME prog' = "semaphore" PROVE SemInside'
    BY DEF SemInside
<1>1. \A q \in Pids : <<q, "main">> \in Sem!Procs /\ <<q, "child">> \in Sem!Procs
    BY DEF Sem!Procs
<1>2. prog = "semaphore"
    BY DEF Sem!Main, Sem!semget, Sem!setval, Sem!fork, Sem!wait, Sem!rmid
<1> USE DEF SemTypes, SemInside, Sem!Undisturbed, Sem!Inside, Sem!Valid, Sem!Goto
<1>3. CASE Sem!semget(p)
    BY <1>1, <1>2, <1>3 DEF Sem!semget
<1>4. CASE Sem!setval(p)
    <2>1. /\ spc' = [spc EXCEPT ![<<p, "main">>] = "p"] /\ spc[<<p, "main">>] = "setval"
          /\ prog' = prog /\ id' = id
          /\ \A q \in Pids : q # p => semid'[q] = semid[q]
        BY <1>2, <1>4 DEF Sem!setval, Sem!AfterInit
    <2>2. \A q \in Pids : /\ spc'[<<q, "child">>] = "none"
                          /\ spc'[<<q, "main">>] = IF q = p THEN "p" ELSE spc[<<q, "main">>]
        BY <1>1, <1>2, <2>1
    <2>3. CASE UNCHANGED <<val, adj, disturbed>>
        BY <1>1, <1>2, <2>1, <2>2, <2>3
    <2>4. CASE /\ val' = 1 /\ adj' = Sem!NoAdjustment
               /\ disturbed' = \E q \in Pids : Sem!Underway(q)
        <3>1. \A q \in Pids : adj'[<<q, "main">>] = 0
            BY <1>1, <2>4, NoAdjustmentIs
        <3>2. ~disturbed' => \A q \in Pids : spc[<<q, "main">>] # "inside"
            BY <1>2, <2>4 DEF Sem!Underway
        <3> QED
            BY <1>2, <2>1, <2>2, <2>4, <3>1, <3>2
    <2> QED
        BY <1>2, <1>4, <2>3, <2>4 DEF Sem!setval, Sem!InitVal
<1>5. ~Sem!fork(p) /\ ~Sem!wait(p) /\ ~Sem!rmid(p)
    BY <1>1, <1>2 DEF Sem!fork, Sem!wait, Sem!rmid
<1> QED
    BY <1>3, <1>4, <1>5 DEF Sem!Main

\* Every step of P, V and the end of a process preserves it: what a process
\* took is in its adjustment, which V or its end gives back.
LEMMA SemProcStep == ASSUME SemTypes, SemInside, NEW x \in Sem!Procs,
                            Sem!Proc(x) \/ Sem!Interrupted(x) \/ Sem!Kill(x)
                     PROVE  SemInside'
<1> SUFFICES ASSUME prog' = "semaphore" PROVE SemInside'
    BY DEF SemInside
<1>1. prog = "semaphore"
    BY DEF Sem!Proc, Sem!P, Sem!V, Sem!Exit, Sem!Interrupted, Sem!Kill
<1>2. PICK p \in Pids : x = <<p, "main">>
    <2>1. spc[x] # "none"
        BY DEF Sem!Proc, Sem!P, Sem!V, Sem!Exit, Sem!Interrupted, Sem!Kill, Sem!Ended
    <2> QED
        <3>1. PICK p \in Pids, l \in {"main", "child"} : x = <<p, l>>
            BY DEF Sem!Procs
        <3> QED
            BY <1>1, <2>1, <3>1 DEF SemInside
<1>3. \A q \in Pids : /\ <<q, "main">> \in Sem!Procs /\ <<q, "child">> \in Sem!Procs
                      /\ (<<q, "main">> = x) = (q = p) /\ <<q, "child">> # x
    BY <1>2 DEF Sem!Procs
<1> USE DEF SemTypes, SemInside, Sem!Undisturbed, Sem!Inside, Sem!Valid, Sem!Goto
<1>4. CASE Sem!P(x)
    <2>1. CASE Sem!semop(x, -1)
        <3>1. /\ spc' = [spc EXCEPT ![x] = "inside"] /\ spc[x] = "p"
              /\ prog' = prog /\ id' = id /\ semid' = semid /\ disturbed' = disturbed
              /\ Sem!Valid(x) /\ val + (-1) >= 0 /\ val' = val + (-1)
              /\ adj' = [adj EXCEPT ![x] = @ - (-1)]
            BY <1>1, <1>4, <2>1 DEF Sem!P, Sem!semop, Sem!AfterP
        <3> QED
            BY <1>1, <1>2, <1>3, <3>1
    <2>2. CASE UNCHANGED <<val, adj>> /\ Sem!Goto(x, "exit")
        BY <1>1, <1>2, <1>3, <1>4, <2>2 DEF Sem!P
    <2> QED
        BY <1>1, <1>4, <2>1, <2>2 DEF Sem!P, Sem!AfterError
<1>5. CASE Sem!V(x)
    <2>1. spc[x] = "inside" /\ Sem!Valid(x)
        BY <1>1, <1>2, <1>5 DEF Sem!V
    <2>2. /\ spc' = [spc EXCEPT ![x] = "exit"]
          /\ prog' = prog /\ id' = id /\ semid' = semid /\ disturbed' = disturbed
          /\ val' = val + 1 /\ adj' = [adj EXCEPT ![x] = @ - 1]
        BY <1>1, <1>5, <2>1 DEF Sem!V, Sem!semop, Sem!AfterV
    <2> QED
        BY <1>1, <1>2, <1>3, <2>1, <2>2
<1>6. CASE Sem!Exit(x) \/ Sem!Kill(x)
    <2>1. /\ spc' = [spc EXCEPT ![x] = "ended"]
          /\ prog' = prog /\ id' = id /\ semid' = semid /\ disturbed' = disturbed
          /\ val' = IF val + adj[x] < 0 THEN 0 ELSE val + adj[x]
          /\ adj' = [adj EXCEPT ![x] = 0]
        BY <1>6 DEF Sem!Exit, Sem!Kill, Sem!Undo
    <2> QED
        BY <1>1, <1>2, <1>3, <2>1
<1>7. ~Sem!Interrupted(x)
    BY <1>1 DEF Sem!Interrupted
<1> QED
    BY <1>4, <1>5, <1>6, <1>7 DEF Sem!Proc

\* The inductive invariant holds in every reachable state.
THEOREM SemInvariance == MCSpec => []Sem!IInv
<1>1. MCInit => Sem!IInv
    <2> SUFFICES ASSUME Sem!Init PROVE Sem!IInv
        BY DEF MCInit
    <2>1. \A p \in Pids : <<p, "main">> \in Sem!Procs /\ <<p, "child">> \in Sem!Procs
        BY DEF Sem!Procs
    <2> QED
        <3>1. adj = Sem!NoAdjustment /\ val \in {0, 1} /\ id \in Int /\ lastId \in Int
            BY DEF Sem!Init
        <3>2. semid \in [Pids -> Int]
            BY DEF Sem!Init
        <3>3. spc \in [Sem!Procs -> Sem!Labels]
            BY DEF Sem!Init, Sem!Labels
        <3>4. prog = "semaphore" => \A p \in Pids : /\ spc[<<p, "child">>] = "none"
                                                   /\ spc[<<p, "main">>] = "semget"
            BY <2>1 DEF Sem!Init
        <3>5. adj \in [Sem!Procs -> Int] /\ \A p \in Pids : adj[<<p, "main">>] = 0
            BY <2>1, <3>1, NoAdjustmentIs
        <3>6. \A p \in Pids : ~Sem!Inside(p)
            BY <3>4 DEF Sem!Inside
        <3> QED
            BY <3>1, <3>2, <3>3, <3>4, <3>5, <3>6 DEF Sem!IInv, Sem!Undisturbed
<1>2. Sem!IInv <=> SemTypes /\ SemInside
    BY DEF Sem!IInv, SemTypes, SemInside
<1>3. Sem!IInv' <=> SemTypes' /\ SemInside'
    BY DEF Sem!IInv, SemTypes, SemInside
<1>4. Sem!IInv /\ [MCNext]_MCVars => Sem!IInv'
    <2> SUFFICES ASSUME Sem!IInv, [MCNext]_MCVars PROVE Sem!IInv'
        OBVIOUS
    <2>1. CASE Sem!Next
        BY <1>2, <1>3, <2>1, SemTyped, SemMainStep, SemProcStep DEF Sem!Next
    <2>2. CASE UNCHANGED semVars
        BY <2>2 DEF semVars, Sem!IInv, Sem!Undisturbed, Sem!Inside, Sem!Valid
    <2> QED
        BY <2>1, <2>2 DEF MCNext, MCVars, ForkServerStep, EchoStep, PoolStep
<1> QED
    BY <1>1, <1>4, PTL DEF MCSpec

\* One instance of semaphore.c at a time is between P and V, for every number of
\* instances and of kills, unless one started while another was there.
THEOREM SemExclusiveHolds == MCSpec => []SemExclusive
<1>1. Sem!IInv => SemExclusive
    BY DEF Sem!IInv, SemExclusive, Sem!SemExclusive, Sem!Undisturbed, Sem!Inside
<1> QED
    BY SemInvariance, <1>1, PTL

----------------------------------------------------------------------------
(* echo_server *)

\* The operators of SysVMsg and FiniteSets that EchoServer uses.
LEMMA EchoOperators == ASSUME NEW q, NEW S, NEW t
                       PROVE  /\ Echo!Places(q, S) = Places(q, S)
                              /\ Echo!CanReceive(q, t) = CanReceive(q, t)
                              /\ Echo!Received(q, t) = Received(q, t)
                              /\ Echo!AfterReceive(q, t) = AfterReceive(q, t)
                              /\ Echo!CanSend(q, t) = CanSend(q, t)
                              /\ Echo!Cardinality(S) = Cardinality(S)
<1>1. Echo!Places(q, S) = Places(q, S)
    BY DEF Echo!Places, Places
<1>2. Echo!CanReceive(q, t) = CanReceive(q, t)
    BY DEF Echo!CanReceive, CanReceive, Echo!Matches, Matches
<1>3. Echo!FirstMatch(q, t) = FirstMatch(q, t)
    BY DEF Echo!FirstMatch, FirstMatch, Echo!Matches, Matches
<1>4. Echo!Received(q, t) = Received(q, t)
    BY <1>3 DEF Echo!Received, Received
<1>5. Echo!AfterReceive(q, t) = AfterReceive(q, t)
    BY <1>3 DEF Echo!AfterReceive, AfterReceive, Echo!RemoveAt, RemoveAt
<1>6. Echo!CanSend(q, t) = CanSend(q, t)
    BY DEF Echo!CanSend, CanSend
<1>7. Echo!Cardinality(S) = Cardinality(S)
    BY DEF Echo!Cardinality, Cardinality
<1> QED
    BY <1>1, <1>2, <1>4, <1>5, <1>6, <1>7

\* What is assumed of the constants.
LEMMA EchoConstants == /\ IsFiniteSet(Pids) /\ MTypeOf \in [Pids -> Nat \ {0}] /\ QMax \in Nat \ {0}
                       /\ None \notin Echo!Message
BY PidsAssumption, ProgramsAssumption DEF Echo!QueueAssumption

ClientStates == {"input", "wait", "gone"}

\* The clients that wait for a message of type t.
Waiters(f, t) == {c \in Pids : f[c] = "wait" /\ MTypeOf[c] = t}

\* How their number changes when client c begins to wait, or goes on without.
LEMMA WaitersCount ==
    ASSUME NEW f \in [Pids -> ClientStates], NEW c \in Pids, NEW l \in ClientStates, NEW t
    PROVE  /\ Cardinality(Waiters(f, t)) \in Nat
           /\ l = "wait" /\ f[c] # "wait" =>
                 Cardinality(Waiters([f EXCEPT ![c] = l], t))
                     = Cardinality(Waiters(f, t)) + (IF MTypeOf[c] = t THEN 1 ELSE 0)
           /\ l # "wait" /\ f[c] # "wait" => Waiters([f EXCEPT ![c] = l], t) = Waiters(f, t)
<1> DEFINE W == Waiters(f, t)
           X == Waiters([f EXCEPT ![c] = l], t)
<1>1. IsFiniteSet(W) /\ Cardinality(W) \in Nat
    <2>1. W \in SUBSET Pids
        BY DEF Waiters
    <2> QED
        BY <2>1, EchoConstants, FS_Subset, FS_CardinalityType
<1>2. (c \in W) = (f[c] = "wait" /\ MTypeOf[c] = t)
    BY DEF Waiters
<1>3. l = "wait" /\ f[c] # "wait" => X = IF MTypeOf[c] = t THEN W \cup {c} ELSE W
    BY DEF Waiters
<1>5. l # "wait" /\ f[c] # "wait" => X = W
    BY DEF Waiters
<1>6. Cardinality(W \cup {c}) = IF c \in W THEN Cardinality(W) ELSE Cardinality(W) + 1
    BY <1>1, FS_AddElement
<1> HIDE DEF W, X
<1>7. l = "wait" /\ f[c] # "wait" =>
          Cardinality(X) = Cardinality(W) + (IF MTypeOf[c] = t THEN 1 ELSE 0)
    BY <1>1, <1>2, <1>3, <1>6
<1> QED
    BY <1>1, <1>5, <1>7 DEF W, X

\* One of a set of clients less.
LEMMA OneLess ==
    ASSUME NEW W \in SUBSET Pids, NEW c
    PROVE  /\ Cardinality(W) \in Nat
           /\ Cardinality(W \ {c}) = IF c \in W THEN Cardinality(W) - 1 ELSE Cardinality(W)
<1>1. IsFiniteSet(W)
    BY EchoConstants, FS_Subset
<1> QED
    BY <1>1, FS_CardinalityType, FS_RemoveElement

\* The types that there are, and the messages of a type on their way.
MTypes == {MTypeOf[c] : c \in Pids}
OnTheWay(q, h, t) == Cardinality(Places(q, Echo!OfType(t))) + (IF h \in Echo!OfType(t) THEN 1 ELSE 0)

\* The two parts of the inductive invariant in these terms.
EchoTypes == /\ queue \in Seq(Echo!Message) /\ Len(queue) <= QMax
             /\ client \in [Pids -> ClientStates]
             /\ got \in [Pids -> Echo!Message \cup {None}]
             /\ inhand \in Echo!Message \cup {None}
Balanced == \A t \in MTypes : Cardinality(Waiters(client, t)) = OnTheWay(queue, inhand, t)

\* Echo!IInv says the same.
LEMMA EchoIInvIs == /\ Echo!IInv <=> EchoTypes /\ Balanced
                    /\ Echo!IInv' <=> EchoTypes' /\ Balanced'
<1>1. Echo!TypeOK <=> EchoTypes
    BY DEF Echo!TypeOK, EchoTypes, ClientStates
<1>2. Echo!TypeOK' <=> EchoTypes'
    BY DEF Echo!TypeOK, EchoTypes, ClientStates
<1>3. Echo!OneEach <=> Balanced
    BY EchoOperators
    DEF Echo!OneEach, Echo!Waiting, Echo!Pending, Balanced, MTypes, Waiters, OnTheWay
<1>4. Echo!OneEach' <=> Balanced'
    BY EchoOperators
    DEF Echo!OneEach, Echo!Waiting, Echo!Pending, Balanced, MTypes, Waiters, OnTheWay
<1> QED
    BY <1>1, <1>2, <1>3, <1>4 DEF Echo!IInv

\* No client waits and no message is on its way at the start.
LEMMA EchoInit == Echo!Init => Echo!IInv
<1> SUFFICES ASSUME Echo!Init PROVE EchoTypes /\ Balanced
    BY EchoIInvIs
<1>1. EchoTypes
    BY EchoConstants DEF Echo!Init, EchoTypes, ClientStates
<1>2. ASSUME NEW t \in MTypes
      PROVE  Cardinality(Waiters(client, t)) = OnTheWay(queue, inhand, t)
    <2>1. Waiters(client, t) = {}
        BY DEF Echo!Init, Waiters
    <2>2. queue = <<>> /\ inhand \notin Echo!OfType(t)
        BY EchoConstants DEF Echo!Init, Echo!OfType
    <2>3. Cardinality(Places(queue, Echo!OfType(t))) = 0
        BY <2>2, PlacesEmpty
    <2> QED
        BY <2>1, <2>2, <2>3, FS_EmptySet DEF OnTheWay
<1> QED
    BY <1>1, <1>2 DEF Balanced

\* A client that sends starts to wait, and one that receives takes a message of
\* its own type, whether a request or an answer.
LEMMA EchoClientStep ==
    ASSUME EchoTypes, Balanced, NEW c \in Pids,
           Echo!Exit(c) \/ Echo!ClientSend(c) \/ Echo!ClientReceive(c)
    PROVE  EchoTypes' /\ Balanced'
<1> USE DEF EchoTypes
<1>1. CASE Echo!Exit(c)
    <2>1. /\ client' = [client EXCEPT ![c] = "gone"] /\ client[c] # "wait"
          /\ UNCHANGED <<queue, got, inhand>>
        BY <1>1 DEF Echo!Exit
    <2>2. EchoTypes'
        BY <2>1 DEF ClientStates
    <2>3. \A t \in MTypes : Waiters(client', t) = Waiters(client, t)
        BY <2>1, WaitersCount DEF ClientStates
    <2> QED
        BY <2>1, <2>2, <2>3 DEF Balanced
<1>2. CASE Echo!ClientSend(c)
    <2> DEFINE m == [mtype |-> MTypeOf[c], from |-> c, case |-> "lower"]
    <2>1. /\ client' = [client EXCEPT ![c] = "wait"] /\ client[c] # "wait"
          /\ queue' = Append(queue, m) /\ Len(queue) < QMax
          /\ UNCHANGED <<got, inhand>>
        BY <1>2 DEF Echo!ClientSend, Echo!CanSend
    <2>2. m \in Echo!Message /\ m.mtype = MTypeOf[c]
        BY EchoConstants DEF Echo!Message
    <2> HIDE DEF m
    <2>3. EchoTypes'
        BY <2>1, <2>2, EchoConstants DEF ClientStates
    <2>4. ASSUME NEW t \in MTypes
          PROVE  Cardinality(Waiters(client', t)) = OnTheWay(queue', inhand', t)
        <3>1. /\ Cardinality(Waiters(client, t)) \in Nat
              /\ Cardinality(Waiters(client', t))
                     = Cardinality(Waiters(client, t)) + (IF MTypeOf[c] = t THEN 1 ELSE 0)
            BY <2>1, WaitersCount DEF ClientStates
        <3>2. (m \in Echo!OfType(t)) = (MTypeOf[c] = t)
            BY <2>2 DEF Echo!OfType
        <3>3. Cardinality(Places(queue', Echo!OfType(t)))
                  = Cardinality(Places(queue, Echo!OfType(t)))
                        + (IF m \in Echo!OfType(t) THEN 1 ELSE 0)
            BY <2>1, <2>2, PlacesAppend
        <3>4. Cardinality(Places(queue, Echo!OfType(t))) \in Nat
            BY PlacesFinite
        <3>5. Cardinality(Waiters(client, t)) = OnTheWay(queue, inhand, t)
            BY DEF Balanced
        <3> QED
            BY <2>1, <3>1, <3>2, <3>3, <3>4, <3>5 DEF OnTheWay
    <2> QED
        BY <2>3, <2>4 DEF Balanced, MTypes
<1>3. CASE Echo!ClientReceive(c)
    <2> DEFINE m == Received(queue, MTypeOf[c])
               q == AfterReceive(queue, MTypeOf[c])
    <2>1. MTypeOf[c] \in Nat /\ MTypeOf[c] # 0
        BY EchoConstants
    <2>2. /\ client' = [client EXCEPT ![c] = "input"] /\ client[c] = "wait"
          /\ CanReceive(queue, MTypeOf[c])
          /\ queue' = q /\ got' = [got EXCEPT ![c] = m] /\ inhand' = inhand
        BY <1>3, EchoOperators DEF Echo!ClientReceive
    <2>3. /\ m \in Echo!Message /\ Matches(m, MTypeOf[c])
          /\ q \in Seq(Echo!Message) /\ Len(q) = Len(queue) - 1
        BY <2>1, <2>2, ReceiveIs
    <2>4. \A S : Cardinality(Places(q, S))
                     = Cardinality(Places(queue, S)) - (IF m \in S THEN 1 ELSE 0)
        BY <2>1, <2>2, ReceiveCounts
    <2> HIDE DEF m, q
    <2>5. EchoTypes'
        BY <2>2, <2>3, EchoConstants DEF ClientStates
    <2>6. ASSUME NEW t \in MTypes
          PROVE  Cardinality(Waiters(client', t)) = OnTheWay(queue', inhand', t)
        <3>1. /\ Cardinality(Waiters(client, t)) \in Nat
              /\ Cardinality(Waiters(client', t))
                     = Cardinality(Waiters(client, t)) - (IF MTypeOf[c] = t THEN 1 ELSE 0)
            <4> DEFINE W == Waiters(client, t)
            <4>1. client \in [Pids -> ClientStates]
                OBVIOUS
            <4>2. W \in SUBSET Pids /\ (c \in W) = (MTypeOf[c] = t)
                BY <2>2 DEF Waiters
            <4>3. Waiters(client', t) = W \ {c}
                BY <2>2, <4>1 DEF Waiters
            <4> HIDE DEF W
            <4>4. /\ Cardinality(W) \in Nat
                  /\ Cardinality(W \ {c}) = IF c \in W THEN Cardinality(W) - 1 ELSE Cardinality(W)
                BY <4>2, OneLess
            <4>5. Cardinality(W \ {c}) = Cardinality(W) - (IF MTypeOf[c] = t THEN 1 ELSE 0)
                BY <4>2, <4>4
            <4> QED
                BY <4>3, <4>4, <4>5 DEF W
        <3>2. (m \in Echo!OfType(t)) = (MTypeOf[c] = t)
            BY <2>1, <2>3 DEF Echo!OfType, Matches
        <3>3. Cardinality(Places(queue', Echo!OfType(t)))
                  = Cardinality(Places(queue, Echo!OfType(t)))
                        - (IF m \in Echo!OfType(t) THEN 1 ELSE 0)
            BY <2>2, <2>4
        <3>4. Cardinality(Places(queue, Echo!OfType(t))) \in Nat
            BY PlacesFinite
        <3>5. Cardinality(Waiters(client, t)) = OnTheWay(queue, inhand, t)
            BY DEF Balanced
        <3> QED
            BY <2>2, <3>1, <3>2, <3>3, <3>4, <3>5 DEF OnTheWay
    <2> QED
        BY <2>5, <2>6 DEF Balanced, MTypes
<1> QED
    BY <1>1, <1>2, <1>3

\* The server takes a message and sends it back under the same type.
LEMMA EchoServerStep ==
    ASSUME EchoTypes, Balanced, Echo!ServerReceive \/ Echo!ServerSend
    PROVE  EchoTypes' /\ Balanced'
<1> USE DEF EchoTypes
<1>1. CASE Echo!ServerReceive
    <2> DEFINE m == Received(queue, 0)
               q == AfterReceive(queue, 0)
    <2>1. /\ inhand = None /\ CanReceive(queue, 0)
          /\ queue' = q /\ inhand' = [m EXCEPT !.case = "upper"] /\ UNCHANGED <<client, got>>
        BY <1>1, EchoOperators DEF Echo!ServerReceive, Echo!ToUpper
    <2>2. m \in Echo!Message /\ q \in Seq(Echo!Message) /\ Len(q) = Len(queue) - 1
        BY <2>1, ReceiveIs
    <2>3. \A S : Cardinality(Places(q, S))
                     = Cardinality(Places(queue, S)) - (IF m \in S THEN 1 ELSE 0)
        BY <2>1, ReceiveCounts
    <2> HIDE DEF m, q
    <2>4. inhand' \in Echo!Message /\ inhand'.mtype = m.mtype
        BY <2>1, <2>2 DEF Echo!Message
    <2>5. EchoTypes'
        BY <2>1, <2>2, <2>4, EchoConstants
    <2>6. ASSUME NEW t \in MTypes
          PROVE  Cardinality(Waiters(client', t)) = OnTheWay(queue', inhand', t)
        <3>1. /\ inhand' \in Echo!OfType(t) <=> m \in Echo!OfType(t)
              /\ inhand \notin Echo!OfType(t)
            <4>1. inhand' \in Echo!OfType(t) <=> m \in Echo!OfType(t)
                BY <2>2, <2>4 DEF Echo!OfType
            <4>2. inhand \notin Echo!OfType(t)
                BY <2>1, EchoConstants DEF Echo!OfType
            <4> QED
                BY <4>1, <4>2
        <3>2. Cardinality(Places(queue', Echo!OfType(t)))
                  = Cardinality(Places(queue, Echo!OfType(t)))
                        - (IF m \in Echo!OfType(t) THEN 1 ELSE 0)
            BY <2>1, <2>3
        <3>3. Cardinality(Places(queue, Echo!OfType(t))) \in Nat
            BY PlacesFinite
        <3>4. Cardinality(Waiters(client, t)) = OnTheWay(queue, inhand, t)
            BY DEF Balanced
        <3> QED
            BY <2>1, <3>1, <3>2, <3>3, <3>4 DEF OnTheWay
    <2> QED
        BY <2>5, <2>6 DEF Balanced, MTypes
<1>2. CASE Echo!ServerSend
    <2>1. /\ inhand # None /\ Len(queue) < QMax
          /\ queue' = Append(queue, inhand) /\ inhand' = None /\ UNCHANGED <<client, got>>
        BY <1>2 DEF Echo!ServerSend, Echo!CanSend
    <2>2. inhand \in Echo!Message
        BY <2>1
    <2>3. EchoTypes'
        BY <2>1, <2>2, EchoConstants
    <2>4. ASSUME NEW t \in MTypes
          PROVE  Cardinality(Waiters(client', t)) = OnTheWay(queue', inhand', t)
        <3>1. inhand' \notin Echo!OfType(t)
            BY <2>1, EchoConstants DEF Echo!OfType
        <3>2. Cardinality(Places(queue', Echo!OfType(t)))
                  = Cardinality(Places(queue, Echo!OfType(t)))
                        + (IF inhand \in Echo!OfType(t) THEN 1 ELSE 0)
            BY <2>1, <2>2, PlacesAppend
        <3>3. Cardinality(Places(queue, Echo!OfType(t))) \in Nat
            BY PlacesFinite
        <3>4. Cardinality(Waiters(client, t)) = OnTheWay(queue, inhand, t)
            BY DEF Balanced
        <3> QED
            BY <2>1, <3>1, <3>2, <3>3, <3>4 DEF OnTheWay
    <2> QED
        BY <2>3, <2>4 DEF Balanced, MTypes
<1> QED
    BY <1>1, <1>2

\* The inductive invariant holds in every reachable state.
THEOREM EchoInvariance == MCSpec => []Echo!IInv
<1>1. MCInit => Echo!IInv
    BY EchoInit DEF MCInit
<1>2. Echo!IInv /\ [MCNext]_MCVars => Echo!IInv'
    <2> SUFFICES ASSUME EchoTypes, Balanced, [MCNext]_MCVars PROVE EchoTypes' /\ Balanced'
        BY EchoIInvIs
    <2>1. CASE Echo!Next
        BY <2>1, EchoClientStep, EchoServerStep DEF Echo!Next
    <2>2. CASE UNCHANGED echoVars
        BY <2>2 DEF echoVars, EchoTypes, Balanced, MTypes
    <2> QED
        BY <2>1, <2>2 DEF MCNext, MCVars, ForkServerStep, SemStep, PoolStep
<1> QED
    BY <1>1, <1>2, PTL DEF MCSpec

\* For every mtype there are exactly as many messages on their way as clients
\* that wait for one, for every number of clients, also with the same mtype, and
\* every capacity of the queue: the server answers each message once, also when
\* it is an answer of its own that comes round again.
THEOREM OneEachHolds == MCSpec => []OneEach
<1>1. Echo!IInv => OneEach
    BY DEF Echo!IInv, OneEach
<1> QED
    BY EchoInvariance, <1>1, PTL

=============================================================================
