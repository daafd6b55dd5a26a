------------------------- MODULE SelectServerProofs -------------------------
(***************************************************************************)
(* Proofs about SelectServer for every number of clients, slots and lines. *)
(* The inductive invariant is IInv of module SelectServer: the descriptors *)
(* in the slots are different, so that the end of a connection frees one   *)
(* slot, and what select() found readable stays so until its slot is       *)
(* handled, since nobody but the server takes input away.                  *)
(***************************************************************************)
EXTENDS SelectServer, FiniteSetTheorems, TLAPS

----------------------------------------------------------------------------
(* Sets of numbers, slots and descriptors *)

\* The lowest number of a set that is not empty is one of its members.
LEMMA MinIsMember == ASSUME NEW S \in SUBSET Nat, S # {} PROVE Min(S) \in S
<1>1. PICK x \in S : \A y \in S : ~(<<y, x>> \in OpToRel(<, Nat))
    BY NatLessThanWellFounded, WFMin
<1>2. \A y \in S : ~(y < x)
    BY <1>1 DEF OpToRel
<1>3. \A y \in S : x <= y
    BY <1>2
<1> QED
    BY <1>3 DEF Min

\* There are MAX_CLI_NUM slots, and one descriptor more.
LEMMA Sizes == /\ IsFiniteSet(Slots) /\ Cardinality(Slots) = MAX_CLI_NUM
               /\ IsFiniteSet(Fds) /\ Cardinality(Fds) = MAX_CLI_NUM + 1
<1>1. MAX_CLI_NUM \in Nat /\ MAX_CLI_NUM > 0
    BY SlotsAssumption
<1>2. IsFiniteSet(0..(MAX_CLI_NUM - 1)) /\ Cardinality(0..(MAX_CLI_NUM - 1)) = MAX_CLI_NUM
    BY <1>1, FS_Interval
<1>3. IsFiniteSet(4..(4 + MAX_CLI_NUM)) /\ Cardinality(4..(4 + MAX_CLI_NUM)) = MAX_CLI_NUM + 1
    BY <1>1, FS_Interval
<1> QED
    BY <1>2, <1>3 DEF Slots, Fds

\* accept() finds a free descriptor: each connection has a slot of its own.
LEMMA FreeDescriptor == ASSUME IInv PROVE \E f \in Fds : conn[f] = None
<1> SUFFICES ASSUME \A f \in Fds : conn[f] # None PROVE FALSE
    OBVIOUS
<1> DEFINE g == [f \in Fds |-> CHOOSE s \in Slots : cli_fds[s] = f]
<1>1. \A f \in Fds : g[f] \in Slots /\ cli_fds[g[f]] = f
    BY DEF IInv, OneSlot
<1>2. g \in [Fds -> Slots]
    BY <1>1
<1>3. Cardinality(Slots) < Cardinality(Fds)
    BY Sizes, SlotsAssumption
<1> HIDE DEF g
<1>4. \E x, y \in Fds : x # y /\ g[x] = g[y]
    BY <1>2, <1>3, Sizes, FS_PigeonHole
<1> QED
    BY <1>1, <1>4

\* The slots in use.
Used(cf) == {s \in Slots : cf[s] >= 0}

\* They can be counted.
LEMMA UsedFinite == ASSUME NEW cf PROVE IsFiniteSet(Used(cf)) /\ Cardinality(Used(cf)) \in Nat
BY Sizes, FS_Subset, FS_CardinalityType DEF Used

\* There is a free slot unless the server is full.
LEMMA FreeSlot == ASSUME IInv, ~Full PROVE FreeSlots # {}
<1> SUFFICES ASSUME FreeSlots = {} PROVE FALSE
    OBVIOUS
<1>1. \A s \in Slots : cli_fds[s] >= 0
    BY DEF IInv, TypeOK, FreeSlots, Fds
<1>2. Used(cli_fds) = Slots
    BY <1>1 DEF Used
<1>3. ol_con = Cardinality(Used(cli_fds))
    BY DEF IInv, OneSlot, Used
<1> QED
    BY <1>2, <1>3, Sizes DEF Full

----------------------------------------------------------------------------
(* The invariant *)

\* The initial states satisfy the inductive invariant.
LEMMA InitIInv == Init => IInv
<1> SUFFICES ASSUME Init PROVE IInv
    OBVIOUS
<1>1. Used(cli_fds) = {}
    BY DEF Init, Used
<1>2. Cardinality({s \in Slots : cli_fds[s] >= 0}) = 0
    BY <1>1, FS_EmptySet DEF Used
<1>3. TypeOK
    BY SlotsAssumption DEF Init, TypeOK
<1> QED
    BY <1>2, <1>3, SlotsAssumption
    DEF Init, IInv, OneSlot, OneConnection, Selected

\* What select() left in rd_set is sock_fd or the descriptor of a connection,
\* never that of a free slot.
LEMMA InRdSet == ASSUME TypeOK
                 PROVE  /\ \A f \in rd_set \ {sock_fd} : f \in Fds
                        /\ \A s \in Slots : cli_fds[s] \in rd_set => cli_fds[s] \in Fds
BY SlotsAssumption DEF TypeOK, Fds, sock_fd

\* Input that is not taken away is still there.
LEMMA InputStays == ASSUME TypeOK, conn' = conn, \A d \in Clients : Readable(d) => Readable(d)'
                    PROVE  \A f \in Fds : HasInput(f) => HasInput(f)'
BY DEF TypeOK, HasInput

\* Every step of a client preserves it: no input is taken away and no place in
\* the backlog is lost.
LEMMA ClientStep ==
    ASSUME IInv, NEW c \in Clients, Connect(c) \/ SendLine(c) \/ SeeAnswer(c) \/ Leave(c)
    PROVE  IInv'
<1> USE SlotsAssumption
<1>0. UNCHANGED serverVars
    BY DEF Connect, SendLine, SeeAnswer, Leave
<1>1. CASE Connect(c)
    <2>0. /\ client[c] = "out" /\ client' = [client EXCEPT ![c] = "waiting"]
          /\ backlog' = Append(backlog, c)
          /\ UNCHANGED <<lines, unread, owed, unseen, peer>>
        BY <1>1 DEF Connect
    <2>1. TypeOK'
        BY <1>0, <2>0 DEF IInv, TypeOK, serverVars
    <2>2. OneSlot'
        BY <1>0 DEF IInv, OneSlot, serverVars
    <2>3. OneConnection'
        BY <1>0, <2>0 DEF IInv, TypeOK, OneConnection, serverVars
    <2>4. Selected'
        BY <1>0, <2>0 DEF IInv, TypeOK, Selected, HasInput, Readable, serverVars
    <2> QED
        BY <2>0, <2>1, <2>2, <2>3, <2>4 DEF IInv
<1>2. CASE SendLine(c)
    <2>0. /\ lines < MaxLines /\ lines' = lines + 1 /\ unread' = [unread EXCEPT ![c] = @ + 1]
          /\ owed' = [owed EXCEPT ![c] = @ + 1]
          /\ UNCHANGED <<backlog, client, unseen, peer>>
        BY <1>2 DEF SendLine
    <2>1. TypeOK' /\ \A d \in Clients : unread'[d] <= lines' /\ owed'[d] <= lines'
        <3>1. lines' \in 0..MaxLines /\ lines <= lines' /\ MaxLines \in Nat /\ lines \in Nat
            BY <2>0 DEF IInv, TypeOK
        <3>2. ASSUME NEW d \in Clients
              PROVE  /\ unread'[d] \in 0..MaxLines /\ unread'[d] <= lines'
                     /\ owed'[d] \in 0..MaxLines /\ owed'[d] <= lines'
            <4>1. /\ unread[d] \in 0..MaxLines /\ unread[d] <= lines
                  /\ owed[d] \in 0..MaxLines /\ owed[d] <= lines
                BY DEF IInv, TypeOK
            <4>2. /\ unread'[d] = IF d = c THEN unread[d] + 1 ELSE unread[d]
                  /\ owed'[d] = IF d = c THEN owed[d] + 1 ELSE owed[d]
                BY <2>0 DEF IInv, TypeOK
            <4> QED
                BY <2>0, <3>1, <4>1, <4>2
        <3>3. unread' \in [Clients -> 0..MaxLines] /\ owed' \in [Clients -> 0..MaxLines]
            BY <2>0, <3>2 DEF IInv, TypeOK
        <3> QED
            BY <1>0, <2>0, <3>1, <3>2, <3>3 DEF IInv, TypeOK, serverVars
    <2>2. OneSlot'
        BY <1>0 DEF IInv, OneSlot, serverVars
    <2>3. OneConnection'
        BY <1>0, <2>0 DEF IInv, OneConnection, serverVars
    <2>4. Selected'
        BY <1>0, <2>0 DEF IInv, TypeOK, Selected, HasInput, Readable, serverVars
    <2> QED
        BY <2>1, <2>2, <2>3, <2>4 DEF IInv
<1>3. CASE SeeAnswer(c)
    <2>0. unseen' = [unseen EXCEPT ![c] = FALSE] /\ UNCHANGED <<backlog, client, lines, unread, owed, peer>>
        BY <1>3 DEF SeeAnswer
    <2>1. unseen' \in [Clients -> BOOLEAN]
        BY <2>0 DEF IInv, TypeOK
    <2>2. TypeOK'
        BY <1>0, <2>0, <2>1 DEF IInv, TypeOK, serverVars
    <2> QED
        BY <1>0, <2>0, <2>2
        DEF IInv, OneSlot, OneConnection, Selected, HasInput, Readable, serverVars
<1>4. CASE Leave(c)
    <2>0. /\ peer' = [peer EXCEPT ![c] = IF unseen[c] THEN "reset" ELSE "eof"]
          /\ UNCHANGED <<backlog, client, lines, unread, owed, unseen>>
        BY <1>4 DEF Leave
    <2>1. TypeOK'
        BY <1>0, <2>0 DEF IInv, TypeOK, serverVars
    <2>2. \A d \in Clients : Readable(d) => Readable(d)'
        BY <2>0 DEF IInv, TypeOK, Readable
    <2>3. \A f \in Fds : HasInput(f) => HasInput(f)'
        BY <1>0, <2>2, InputStays DEF IInv, serverVars
    <2>4. Selected'
        BY <1>0, <2>0, <2>3, InRdSet DEF IInv, Selected, serverVars
    <2> QED
        BY <1>0, <2>0, <2>1, <2>4
        DEF IInv, OneSlot, OneConnection, serverVars
<1> QED
    BY <1>1, <1>2, <1>3, <1>4

\* select() preserves it.
LEMMA SelectStep == ASSUME IInv, Select PROVE IInv'
<1> USE SlotsAssumption
<1>0. UNCHANGED <<cli_fds, ol_con, i, conn, backlog, client, lines, unread, owed, unseen, peer>>
    BY DEF Select
<1>1. rd_set' \subseteq Fds \cup {sock_fd} /\ server' \in {"select_failed", "accept"}
    BY DEF Select, Ready, InUse, IInv, TypeOK
<1>2. TypeOK'
    BY <1>0, <1>1 DEF IInv, TypeOK, Ends
<1>3. Selected'
    <2>1. CASE server' = "select_failed"
        BY <2>1 DEF Selected
    <2>2. CASE server' = "accept"
        <3>1. /\ \A f \in InUse : conn[f] # None
              /\ rd_set' = Ready
            BY <2>2 DEF Select
        <3>2. \A s \in Slots : cli_fds[s] # -1 => conn[cli_fds[s]] # None
            BY <3>1 DEF InUse
        <3>3. \A f \in rd_set' \ {sock_fd} : HasInput(f)
            BY <3>1 DEF Ready, HasInput
        <3>4. sock_fd \in rd_set' => backlog # <<>>
            BY <3>1 DEF Ready, InUse, IInv, TypeOK, Fds, sock_fd
        <3> QED
            BY <1>0, <2>2, <3>2, <3>3, <3>4 DEF Selected, HasInput, Readable
    <2> QED
        BY <1>1, <2>1, <2>2
<1> QED
    BY <1>0, <1>2, <1>3 DEF IInv, OneSlot, OneConnection

\* accept() preserves it: the new descriptor is in no slot and not in rd_set, and
\* there is a slot for it.
LEMMA AcceptStep == ASSUME IInv, Accept PROVE IInv'
<1> USE SlotsAssumption
<1> DEFINE c == Head(backlog)
           fd == Min({f \in Fds : conn[f] = None})
           slot == Min(FreeSlots)
<1>0. /\ server = "accept" /\ i' = 0
      /\ UNCHANGED <<rd_set, lines, unread, owed, unseen, peer>>
    BY DEF Accept
<1>1. /\ \A s \in Slots : cli_fds[s] # -1 => conn[cli_fds[s]] # None
      /\ \A f \in rd_set \ {sock_fd} : HasInput(f)
      /\ sock_fd \in rd_set => backlog # <<>>
    BY <1>0 DEF IInv, Selected
<1>2. CASE server' = "dispatch" /\ UNCHANGED <<cli_fds, ol_con, conn, backlog, client>>
    <2>1. TypeOK'
        BY <1>0, <1>2 DEF IInv, TypeOK
    <2>2. \A s \in Slots : cli_fds[s] \in rd_set => HasInput(cli_fds[s])
        BY <1>1, InRdSet DEF IInv, Fds, sock_fd
    <2>3. Selected'
        BY <1>0, <1>2, <2>2 DEF Selected, HasInput, Readable
    <2> QED
        BY <1>0, <1>2, <2>1, <2>3 DEF IInv, OneSlot, OneConnection
<1>3. ASSUME sock_fd \in rd_set
      PROVE  /\ c \in Clients /\ client[c] = "waiting" /\ Tail(backlog) \in Seq(Clients)
             /\ \A k \in 1..Len(Tail(backlog)) : Tail(backlog)[k] = backlog[k + 1] /\ Tail(backlog)[k] # c
             /\ \A f \in Fds : conn[f] # c
    <2>1. backlog \in Seq(Clients) /\ backlog # <<>>
        BY <1>1, <1>3 DEF IInv, TypeOK
    <2>2. 1 \in 1..Len(backlog) /\ c = backlog[1] /\ c \in Clients /\ Tail(backlog) \in Seq(Clients)
        BY <2>1
    <2>3. client[c] = "waiting"
        BY <2>2 DEF IInv, OneConnection
    <2>4. \A k \in 1..Len(Tail(backlog)) : /\ Tail(backlog)[k] = backlog[k + 1]
                                            /\ k + 1 \in 1..Len(backlog) /\ k + 1 # 1
        BY <2>1
    <2> HIDE DEF c
    <2>5. \A k \in 1..Len(Tail(backlog)) : Tail(backlog)[k] # c
        BY <2>2, <2>4 DEF IInv, OneConnection
    <2>6. \A f \in Fds : conn[f] # c
        BY <2>2, <2>3 DEF IInv, OneConnection
    <2> QED
        BY <2>2, <2>3, <2>4, <2>5, <2>6
<1>4. CASE server' = "accept_failed" /\ UNCHANGED <<cli_fds, ol_con, conn, backlog, client>>
    <2>1. TypeOK'
        BY <1>0, <1>4 DEF IInv, TypeOK, Ends
    <2> QED
        BY <1>0, <1>4, <2>1 DEF IInv, OneSlot, OneConnection, Selected
<1>5. CASE /\ sock_fd \in rd_set /\ backlog' = Tail(backlog) /\ server' = "dispatch"
           /\ client' = [client EXCEPT ![c] = "refused"]
           /\ UNCHANGED <<cli_fds, ol_con, conn>>
    <2> HIDE DEF c
    <2>1. TypeOK'
        BY <1>0, <1>3, <1>5 DEF IInv, TypeOK
    <2>2. \A s \in Slots : cli_fds[s] \in rd_set => HasInput(cli_fds[s])
        BY <1>1, InRdSet DEF IInv, Fds, sock_fd
    <2>3. Selected'
        BY <1>0, <1>5, <2>2 DEF Selected, HasInput, Readable
    <2>4. OneConnection'
        BY <1>3, <1>5 DEF IInv, TypeOK, OneConnection
    <2> QED
        BY <1>0, <1>5, <2>1, <2>3, <2>4 DEF IInv, OneSlot

<1>6. CASE /\ sock_fd \in rd_set /\ backlog' = Tail(backlog) /\ ~Full /\ server' = "dispatch"
           /\ client' = [client EXCEPT ![c] = "connected"]
           /\ conn' = [conn EXCEPT ![fd] = c]
           /\ cli_fds' = IF FreeSlots = {} THEN cli_fds ELSE [cli_fds EXCEPT ![slot] = fd]
           /\ ol_con' = ol_con + 1
    <2>1. fd \in Fds /\ conn[fd] = None
        <3> DEFINE F == {f \in Fds : conn[f] = None}
        <3>1. F \in SUBSET Nat /\ F # {}
            BY FreeDescriptor DEF Fds
        <3>2. Min(F) \in F
            <4> HIDE DEF F
            <4> QED
                BY <3>1, MinIsMember
        <3> QED
            BY <3>2
    <2>2. slot \in Slots /\ cli_fds[slot] < 0
        <3>1. FreeSlots \in SUBSET Nat /\ FreeSlots # {}
            BY <1>6, FreeSlot DEF FreeSlots, Slots
        <3> QED
            BY <3>1, MinIsMember DEF FreeSlots
    <2>3. cli_fds' = [cli_fds EXCEPT ![slot] = fd]
        BY <1>6, FreeSlot
    <2> HIDE DEF c, fd, slot
    <2>4. fd \notin rd_set /\ \A s \in Slots : cli_fds[s] # fd
        <3>1. fd # sock_fd /\ fd # -1
            BY <2>1 DEF Fds, sock_fd
        <3> QED
            BY <1>1, <2>1, <3>1 DEF HasInput
    <2>5. cli_fds' \in [Slots -> Fds \cup {-1}]
        BY <2>1, <2>2, <2>3 DEF IInv, TypeOK
    <2>6. ol_con' \in 0..MAX_CLI_NUM
        BY <1>6 DEF IInv, TypeOK, Full
    <2>7. TypeOK'
        BY <1>0, <1>3, <1>6, <2>1, <2>5, <2>6 DEF IInv, TypeOK
    <2>8. OneSlot'
        <3>1. Used(cli_fds') = Used(cli_fds) \cup {slot} /\ slot \notin Used(cli_fds)
            <4>1. cli_fds \in [Slots -> Int] /\ fd \in Int /\ fd >= 0
                BY <2>1 DEF IInv, TypeOK, Fds
            <4>2. cli_fds'[slot] = fd /\ \A s \in Slots \ {slot} : cli_fds'[s] = cli_fds[s]
                BY <2>2, <2>3, <4>1
            <4> QED
                BY <2>2, <4>1, <4>2 DEF Used
        <3>2. Cardinality(Used(cli_fds')) = Cardinality(Used(cli_fds)) + 1
            BY <3>1, UsedFinite, FS_AddElement
        <3>3. ol_con' = Cardinality({s \in Slots : cli_fds'[s] >= 0})
            BY <1>6, <3>2 DEF Used, IInv, OneSlot
        <3>4. \A f \in Fds : conn'[f] # None => \E s \in Slots : cli_fds'[s] = f
            <4> SUFFICES ASSUME NEW f \in Fds, conn'[f] # None PROVE \E s \in Slots : cli_fds'[s] = f
                OBVIOUS
            <4>1. CASE f = fd
                BY <2>2, <2>3, <4>1 DEF IInv, TypeOK
            <4>2. CASE f # fd
                <5>1. PICK s \in Slots : cli_fds[s] = f
                    BY <1>6, <4>2 DEF IInv, TypeOK, OneSlot
                <5>2. s # slot
                    BY <2>2, <5>1 DEF Fds
                <5> QED
                    BY <2>3, <5>1, <5>2 DEF IInv, TypeOK
            <4> QED
                BY <4>1, <4>2
        <3>5. \A s, t \in Slots : cli_fds'[s] = cli_fds'[t] /\ cli_fds'[s] # -1 => s = t
            BY <2>3, <2>4 DEF IInv, TypeOK, OneSlot
        <3> QED
            BY <3>3, <3>4, <3>5 DEF OneSlot
    <2>9. OneConnection'
        BY <1>3, <1>6, <2>1 DEF IInv, TypeOK, OneConnection
    <2>10. Selected'
        <3>1. \A s \in Slots : cli_fds'[s] \in rd_set =>
                 cli_fds[s] = cli_fds'[s] /\ HasInput(cli_fds[s]) /\ cli_fds[s] \in Fds /\ cli_fds[s] # fd
            BY <1>1, <2>3, <2>4, InRdSet DEF IInv, TypeOK, Fds, sock_fd
        <3>2. \A s \in Slots : cli_fds'[s] \in rd_set => conn'[cli_fds'[s]] = conn[cli_fds[s]]
            BY <1>6, <3>1 DEF IInv, TypeOK
        <3> QED
            BY <1>0, <1>6, <3>1, <3>2 DEF Selected, HasInput, Readable
    <2> QED
        BY <1>0, <2>7, <2>8, <2>9, <2>10 DEF IInv
<1> QED
    BY <1>2, <1>4, <1>5, <1>6 DEF Accept

\* Reading the lines of the client in slot i preserves it: the client has no
\* other slot.
LEMMA ReadLinesStep ==
    ASSUME IInv, server = "dispatch", i < ol_con, cli_fds[i] \in rd_set,
           NEW c \in Clients, c = conn[cli_fds[i]], ReadLines(c),
           UNCHANGED <<rd_set, backlog, lines, owed, unseen, peer>>
    PROVE  IInv'
<1> USE SlotsAssumption
<1>0. /\ unread' = [unread EXCEPT ![c] = 0] /\ server' = "write"
      /\ UNCHANGED <<cli_fds, ol_con, i, conn, client>>
    BY DEF ReadLines
<1>1. i \in Slots /\ cli_fds[i] \in Fds
    <2>1. i \in Slots
        BY DEF IInv, TypeOK, Slots
    <2> QED
        BY <2>1, InRdSet DEF IInv
<1>2. TypeOK' /\ \A d \in Clients : unread'[d] <= lines' /\ owed'[d] <= lines'
    BY <1>0 DEF IInv, TypeOK
<1>3. \A s \in Slots : s > i /\ cli_fds[s] \in rd_set => HasInput(cli_fds[s])'
    <2> SUFFICES ASSUME NEW s \in Slots, s > i, cli_fds[s] \in rd_set PROVE HasInput(cli_fds[s])'
        BY <1>0
    <2>1. cli_fds[s] \in Fds /\ HasInput(cli_fds[s])
        BY InRdSet DEF IInv, Selected
    <2>2. cli_fds[s] # cli_fds[i]
        <3>1. s # i /\ cli_fds[s] # -1
            BY <1>1, <2>1 DEF Slots, Fds
        <3> QED
            BY <1>1, <3>1 DEF IInv, OneSlot
    <2>3. conn[cli_fds[s]] # c /\ conn[cli_fds[s]] \in Clients
        BY <1>1, <2>1, <2>2 DEF IInv, TypeOK, OneConnection, HasInput
    <2> QED
        BY <1>0, <2>1, <2>3 DEF HasInput, Readable, IInv, TypeOK
<1>4. Selected'
    <2>1. conn[cli_fds[i]] # None
        OBVIOUS
    <2> QED
        BY <1>0, <1>1, <1>3, <2>1 DEF Selected
<1> QED
    BY <1>0, <1>2, <1>4 DEF IInv, OneSlot, OneConnection

\* A client whose connection is closed has no other one and does not wait.
LEMMA Closed ==
    ASSUME IInv, NEW fd \in Fds, NEW c \in Clients, c = conn[fd],
           conn' = [conn EXCEPT ![fd] = None], client' = [client EXCEPT ![c] = "left"],
           backlog' = backlog
    PROVE  OneConnection'
<1> USE SlotsAssumption
<1>1. conn'[fd] = None /\ \A f \in Fds \ {fd} : conn'[f] = conn[f] /\ conn[f] # c
    BY DEF IInv, TypeOK, OneConnection
<1>2. \A k \in 1..Len(backlog) : backlog[k] # c /\ backlog[k] \in Clients
    BY DEF IInv, TypeOK, OneConnection
<1>3. \A d \in Clients \ {c} : client'[d] = client[d]
    BY DEF IInv, TypeOK
<1>4. \A f \in Fds : conn'[f] # None => client'[conn'[f]] = "connected"
    <2> SUFFICES ASSUME NEW f \in Fds, conn'[f] # None PROVE client'[conn'[f]] = "connected"
        OBVIOUS
    <2>1. f # fd
        BY <1>1
    <2>2. conn'[f] = conn[f] /\ conn[f] # c /\ conn[f] \in Clients
        BY <1>1, <2>1 DEF IInv, TypeOK
    <2>3. client[conn[f]] = "connected"
        BY <2>2 DEF IInv, OneConnection
    <2> QED
        BY <1>3, <2>2, <2>3
<1>5. \A k \in 1..Len(backlog) : client'[backlog[k]] = "waiting"
    BY <1>2, <1>3 DEF IInv, OneConnection
<1>6. \A f, g \in Fds : conn'[f] = conn'[g] /\ conn'[f] # None => f = g
    BY <1>1 DEF IInv, OneConnection
<1>7. \A j, k \in 1..Len(backlog) : backlog[j] = backlog[k] => j = k
    BY DEF IInv, OneConnection
<1> QED
    BY <1>4, <1>5, <1>6, <1>7 DEF OneConnection

\* The end of the connection in slot i preserves it: its descriptor is found in
\* that slot, below ol_con, and in no other.
LEMMA EndOfFileStep ==
    ASSUME IInv, server = "dispatch", i < ol_con, cli_fds[i] \in rd_set,
           NEW c \in Clients, c = conn[cli_fds[i]], EndOfFile(cli_fds[i], c),
           UNCHANGED <<rd_set, backlog, lines, owed, unseen, peer>>
    PROVE  IInv'
<1> USE SlotsAssumption
<1> DEFINE fd == cli_fds[i]
<1>0. /\ cli_fds' = [s \in Slots |-> IF s <= ol_con /\ cli_fds[s] = fd THEN -1 ELSE cli_fds[s]]
      /\ ol_con' = ol_con - 1 /\ conn' = [conn EXCEPT ![fd] = None]
      /\ client' = [client EXCEPT ![c] = "left"] /\ unread' = unread
      /\ i' = i + 1 /\ server' = server
    BY DEF EndOfFile, NextSlot
<1>1. i \in Slots /\ fd \in Fds /\ ol_con \in 0..MAX_CLI_NUM /\ cli_fds \in [Slots -> Fds \cup {-1}]
    <2>1. i \in Slots
        BY DEF IInv, TypeOK, Slots
    <2> QED
        BY <2>1, InRdSet DEF IInv, TypeOK
<1>2. cli_fds' = [cli_fds EXCEPT ![i] = -1]
    <2>1. \A s \in Slots : s <= ol_con /\ cli_fds[s] = fd <=> s = i
        <3>1. fd # -1 /\ i <= ol_con
            BY <1>1 DEF Fds, Slots
        <3> QED
            BY <1>1, <3>1 DEF IInv, OneSlot
    <2> QED
        BY <1>0, <1>1, <2>1
<1>3. \A s \in Slots \ {i} : cli_fds'[s] = cli_fds[s] /\ cli_fds[s] # fd
    <2>1. fd # -1
        BY <1>1 DEF Fds
    <2> QED
        BY <1>1, <1>2, <2>1 DEF IInv, OneSlot
<1>4. cli_fds'[i] = -1
    BY <1>1, <1>2
<1> HIDE DEF fd
<1>5. TypeOK'
    <2>1. i' \in 0..MAX_CLI_NUM /\ ol_con' \in 0..MAX_CLI_NUM
        BY <1>0, <1>1 DEF Slots
    <2>2. cli_fds' \in [Slots -> Fds \cup {-1}]
        BY <1>1, <1>2
    <2> QED
        BY <1>0, <1>1, <2>1, <2>2 DEF IInv, TypeOK
<1>6. OneSlot'
    <2>1. Used(cli_fds') = Used(cli_fds) \ {i} /\ i \in Used(cli_fds)
        <3>1. cli_fds[i] >= 0
            BY <1>1 DEF Fds, fd
        <3> QED
            BY <1>1, <1>3, <1>4, <3>1 DEF Used
    <2>2. Cardinality(Used(cli_fds')) = Cardinality(Used(cli_fds)) - 1
        BY <2>1, UsedFinite, FS_RemoveElement
    <2>3. ol_con' = Cardinality({s \in Slots : cli_fds'[s] >= 0})
        BY <1>0, <2>2 DEF Used, IInv, OneSlot
    <2>4. \A f \in Fds : conn'[f] # None => \E s \in Slots : cli_fds'[s] = f
        <3> SUFFICES ASSUME NEW f \in Fds, conn'[f] # None PROVE \E s \in Slots : cli_fds'[s] = f
            OBVIOUS
        <3>1. f # fd /\ conn[f] # None
            BY <1>0, <1>1 DEF IInv, TypeOK
        <3>2. PICK s \in Slots : cli_fds[s] = f
            BY <3>1 DEF IInv, OneSlot
        <3>3. s # i
            BY <3>1, <3>2 DEF fd
        <3> QED
            BY <1>3, <3>2, <3>3
    <2>5. \A s, t \in Slots : cli_fds'[s] = cli_fds'[t] /\ cli_fds'[s] # -1 => s = t
        BY <1>3, <1>4 DEF IInv, OneSlot
    <2> QED
        BY <2>3, <2>4, <2>5 DEF OneSlot
<1>7. OneConnection'
    BY <1>0, <1>1, Closed DEF fd
<1>8. Selected'
    <2>1. \A s \in Slots : s >= i' /\ cli_fds'[s] \in rd_set => HasInput(cli_fds[s])'
        <3> SUFFICES ASSUME NEW s \in Slots, s >= i + 1, cli_fds'[s] \in rd_set
                     PROVE  HasInput(cli_fds[s])'
            BY <1>0
        <3>1. s # i /\ s > i
            BY <1>1 DEF Slots
        <3>2. cli_fds'[s] = cli_fds[s] /\ cli_fds[s] # fd
            BY <1>3, <3>1
        <3>3. HasInput(cli_fds[s]) /\ cli_fds[s] \in Fds
            BY <3>1, <3>2, InRdSet DEF IInv, Selected
        <3>4. conn'[cli_fds[s]] = conn[cli_fds[s]]
            BY <1>0, <3>2, <3>3 DEF IInv, TypeOK
        <3> QED
            BY <1>0, <3>2, <3>3, <3>4 DEF HasInput, Readable
    <2>2. \A s \in Slots : s \in Int
        BY DEF Slots
    <2>3. i' \in Int
        BY <1>0, <1>1 DEF Slots
    <2>4. server' = "dispatch" /\ rd_set' = rd_set
        BY <1>0
    <2> QED
        BY <2>1, <2>2, <2>3, <2>4 DEF Selected
<1> QED
    BY <1>0, <1>5, <1>6, <1>7, <1>8 DEF IInv

\* An error of read() in slot i preserves it: the slot keeps a descriptor that is
\* closed and that no other slot has.
LEMMA ReadErrorStep ==
    ASSUME IInv, server = "dispatch", i < ol_con, cli_fds[i] \in rd_set,
           NEW c \in Clients, c = conn[cli_fds[i]], ReadError(cli_fds[i], c),
           UNCHANGED <<rd_set, backlog, lines, owed, unseen, peer>>
    PROVE  IInv'
<1> USE SlotsAssumption
<1> DEFINE fd == cli_fds[i]
<1>0. /\ conn' = [conn EXCEPT ![fd] = None] /\ client' = [client EXCEPT ![c] = "left"]
      /\ UNCHANGED <<cli_fds, ol_con, unread, server>> /\ i' = i + 1
    BY DEF ReadError, NextSlot
<1>1. i \in Slots /\ fd \in Fds
    <2>1. i \in Slots
        BY DEF IInv, TypeOK, Slots
    <2> QED
        BY <2>1, InRdSet DEF IInv, TypeOK
<1>2. \A s \in Slots \ {i} : cli_fds[s] # fd
    <2>1. fd # -1
        BY <1>1 DEF Fds
    <2> QED
        BY <1>1, <2>1 DEF IInv, OneSlot
<1> HIDE DEF fd
<1>3. i' \in 0..MAX_CLI_NUM
    BY <1>0, <1>1 DEF Slots
<1>4. TypeOK'
    BY <1>0, <1>1, <1>3 DEF IInv, TypeOK
<1>5. OneSlot'
    BY <1>0, <1>1 DEF IInv, TypeOK, OneSlot
<1>6. OneConnection'
    BY <1>0, <1>1, Closed DEF fd
<1>7. Selected'
    <2>1. \A s \in Slots : s >= i' /\ cli_fds'[s] \in rd_set => HasInput(cli_fds[s])'
        <3> SUFFICES ASSUME NEW s \in Slots, s >= i + 1, cli_fds[s] \in rd_set
                     PROVE  HasInput(cli_fds[s])'
            BY <1>0
        <3>1. s # i /\ s > i
            BY <1>1 DEF Slots
        <3>2. HasInput(cli_fds[s]) /\ cli_fds[s] \in Fds /\ cli_fds[s] # fd
            BY <1>2, <3>1, InRdSet DEF IInv, Selected
        <3>3. conn'[cli_fds[s]] = conn[cli_fds[s]]
            BY <1>0, <3>2 DEF IInv, TypeOK
        <3> QED
            BY <1>0, <3>2, <3>3 DEF HasInput, Readable
    <2>2. \A s \in Slots : s \in Int
        BY DEF Slots
    <2>3. i' \in Int
        BY <1>3
    <2>4. server' = "dispatch" /\ rd_set' = rd_set
        BY <1>0
    <2> QED
        BY <2>1, <2>2, <2>3, <2>4 DEF Selected
<1> QED
    BY <1>0, <1>4, <1>5, <1>6, <1>7 DEF IInv

\* Every round of the loop over the slots preserves it.
LEMMA DispatchStep == ASSUME IInv, Dispatch PROVE IInv'
<1> USE SlotsAssumption
<1>0. server = "dispatch" /\ UNCHANGED <<rd_set, backlog, lines, owed, unseen, peer>>
    BY DEF Dispatch
<1>1. CASE i < ol_con /\ cli_fds[i] \in rd_set /\ client_handler(cli_fds[i])
    BY <1>0, <1>1, ReadLinesStep, EndOfFileStep, ReadErrorStep DEF client_handler
<1>2. CASE i < ol_con /\ cli_fds[i] \notin rd_set /\ Skip(i + 1)
    <2>1. i' = i + 1 /\ UNCHANGED <<cli_fds, ol_con, server, conn, client, unread>>
        BY <1>2 DEF Skip
    <2>2. i' \in 0..MAX_CLI_NUM
        BY <1>2, <2>1 DEF IInv, TypeOK
    <2>3. TypeOK'
        BY <1>0, <2>1, <2>2 DEF IInv, TypeOK
    <2>4. \A s \in Slots : s >= i + 1 => s > i
        BY DEF IInv, TypeOK, Slots
    <2>5. \A s \in Slots : s > i + 1 \/ s = i + 1 => s >= i + 1
        BY DEF IInv, TypeOK, Slots
    <2>6. Selected'
        BY <1>0, <2>1, <2>4, <2>5 DEF IInv, Selected, HasInput, Readable
    <2> QED
        BY <1>0, <2>1, <2>3, <2>6 DEF IInv, OneSlot, OneConnection
<1>3. CASE server' = "select" /\ UNCHANGED <<cli_fds, ol_con, i, conn, client, unread>>
    <2>1. TypeOK'
        BY <1>0, <1>3 DEF IInv, TypeOK
    <2> QED
        BY <1>0, <1>3, <2>1 DEF IInv, OneSlot, OneConnection, Selected
<1> QED
    BY <1>1, <1>2, <1>3 DEF Dispatch

\* The answer to the client of slot i preserves it: a connection that breaks is
\* still readable.
LEMMA WriteStep == ASSUME IInv, Write PROVE IInv'
<1> USE SlotsAssumption
<1> DEFINE c == conn[cli_fds[i]]
<1>0. server = "write" /\ UNCHANGED <<cli_fds, ol_con, rd_set, conn, backlog, client, lines, unread>>
    BY DEF Write
<1>1. i < ol_con /\ c \in Clients
    BY <1>0 DEF IInv, TypeOK, Selected
<1>2. CASE server' = "sigpipe" /\ UNCHANGED <<i, owed, unseen, peer>>
    <2>1. TypeOK'
        BY <1>0, <1>2 DEF IInv, TypeOK, Ends
    <2> QED
        BY <1>0, <1>2, <2>1 DEF IInv, OneSlot, OneConnection, Selected
<1> HIDE DEF c
<1>3. ASSUME unseen' = [unseen EXCEPT ![c] = TRUE], owed' = [owed EXCEPT ![c] = unread[c]],
             server' = "dispatch", i' = i + 1,
             NEW p \in {"open", "eof", "broken"}, peer' = [peer EXCEPT ![c] = p],
             peer[c] = "open" \/ p # "open"
      PROVE  IInv'
    <2>1. i' \in 0..MAX_CLI_NUM
        BY <1>1, <1>3 DEF IInv, TypeOK
    <2>2. /\ unseen' \in [Clients -> BOOLEAN] /\ owed' \in [Clients -> 0..MaxLines]
          /\ \A d \in Clients : owed'[d] <= lines
        BY <1>1, <1>3 DEF IInv, TypeOK
    <2>3. TypeOK'
        BY <1>0, <1>3, <2>1, <2>2 DEF IInv, TypeOK
    <2>4. \A d \in Clients : Readable(d) => Readable(d)'
        BY <1>0, <1>3 DEF IInv, TypeOK, Readable
    <2>5. \A f \in Fds : HasInput(f) => HasInput(f)'
        BY <1>0, <2>4, InputStays DEF IInv
    <2>6. \A s \in Slots : s >= i + 1 => s > i
        BY DEF IInv, TypeOK, Slots
    <2>7. \A s \in Slots : s > i + 1 \/ s = i + 1 => s >= i + 1
        BY DEF IInv, TypeOK, Slots
    <2>8. Selected'
        BY <1>0, <1>3, <2>5, <2>6, <2>7, InRdSet DEF IInv, Selected
    <2> QED
        BY <1>0, <2>2, <2>3, <2>8 DEF IInv, OneSlot, OneConnection
<1> QED
    BY <1>2, <1>3 DEF Write, c

----------------------------------------------------------------------------
(* The theorems *)

\* The inductive invariant holds in every reachable state.
THEOREM Invariance == Spec => []IInv
<1>1. IInv /\ [Next]_vars => IInv'
    <2> SUFFICES ASSUME IInv, [Next]_vars PROVE IInv'
        OBVIOUS
    <2>1. CASE UNCHANGED vars
        BY <2>1 DEF vars, serverVars, IInv, TypeOK, OneSlot, OneConnection, Selected, HasInput, Readable
    <2> QED
        BY <2>1, ClientStep, SelectStep, AcceptStep, DispatchStep, WriteStep DEF Next, Server
<1> QED
    BY InitIInv, <1>1, PTL DEF Spec

\* Every connection is in exactly one slot and ol_con is the number of slots in
\* use, whatever the order in which clients come, leave and fail.
THEOREM TrackedHolds == Spec => []Tracked
<1>1. IInv => Tracked
    <2> SUFFICES ASSUME IInv, NEW f \in Fds, conn[f] # None
                 PROVE  Cardinality({s \in Slots : cli_fds[s] = f}) = 1
        BY DEF IInv, OneSlot, Tracked
    <2>1. PICK s \in Slots : cli_fds[s] = f
        BY DEF IInv, OneSlot
    <2>2. f # -1
        BY DEF Fds
    <2>3. {t \in Slots : cli_fds[t] = f} = {s}
        BY <2>1, <2>2 DEF IInv, OneSlot
    <2> QED
        BY <2>3, FS_Singleton
<1> QED
    BY Invariance, <1>1, PTL

\* The server never blocks in read(): the connection that it handles has lines
\* to read, has ended or has failed.
THEOREM ReadNeverBlocksHolds == Spec => []ReadNeverBlocks
<1>1. IInv => ReadNeverBlocks
    BY DEF IInv, Selected, HasInput, ReadNeverBlocks
<1> QED
    BY Invariance, <1>1, PTL

=============================================================================
