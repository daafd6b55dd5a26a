---------------------------- MODULE SysVMsgProofs ----------------------------
(***************************************************************************)
(* Lemmas about the operators of SysVMsg: what msgrcv takes, and how many  *)
(* messages of a set a queue holds after a message was added or taken.     *)
(***************************************************************************)
EXTENDS SysVMsg, FiniteSetTheorems, SequenceTheorems, TLAPS

\* A set of numbers that is not empty has a least element.
LEMMA Least == ASSUME NEW S \in SUBSET Nat, S # {}
               PROVE  \E x \in S : \A y \in S : x <= y
<1>1. PICK x \in S : \A y \in S : ~(<<y, x>> \in OpToRel(<, Nat))
    BY NatLessThanWellFounded, WFMin
<1>2. \A y \in S : ~(y < x)
    BY <1>1 DEF OpToRel
<1> QED
    BY <1>2

\* When there is a message for msgrcv, it takes the first one that matches.
LEMMA FirstMatchIs ==
    ASSUME NEW T, NEW q \in Seq(T), NEW type \in Nat, CanReceive(q, type)
    PROVE  /\ FirstMatch(q, type) \in 1..Len(q)
           /\ Matches(q[FirstMatch(q, type)], type)
<1> DEFINE Hit(i) == Matches(q[i], type)
<1>1. PICK i \in 1..Len(q) : Hit(i)
    BY DEF CanReceive
<1>2. \E j \in 1..Len(q) : Hit(j) /\ \A k \in 1..(j - 1) : ~Hit(k)
    <2> DEFINE H == {j \in 1..Len(q) : Hit(j)}
    <2> SUFFICES \E j \in H : \A k \in H : j <= k
        OBVIOUS
    <2>1. H \in SUBSET Nat /\ H # {}
        BY <1>1
    <2> HIDE DEF H
    <2> QED
        BY <2>1, Least
<1> QED
    BY <1>2 DEF FirstMatch

----------------------------------------------------------------------------
(* Counting messages *)

\* The places in a queue can be counted.
LEMMA PlacesFinite == ASSUME NEW T, NEW q \in Seq(T), NEW S
                      PROVE  IsFiniteSet(Places(q, S)) /\ Cardinality(Places(q, S)) \in Nat
<1>1. Places(q, S) \in SUBSET (1..Len(q)) /\ Len(q) \in Nat
    BY DEF Places
<1>2. IsFiniteSet(1..Len(q))
    BY <1>1, FS_Interval
<1> QED
    BY <1>1, <1>2, FS_Subset, FS_CardinalityType

\* An empty queue holds nothing.
LEMMA PlacesEmpty == ASSUME NEW S PROVE Cardinality(Places(<<>>, S)) = 0
<1>1. Places(<<>>, S) = {}
    BY DEF Places
<1> QED
    BY <1>1, FS_EmptySet

\* msgsnd adds one message to those that it belongs to.
LEMMA PlacesAppend ==
    ASSUME NEW T, NEW q \in Seq(T), NEW m \in T, NEW S
    PROVE  Cardinality(Places(Append(q, m), S))
               = Cardinality(Places(q, S)) + (IF m \in S THEN 1 ELSE 0)
<1> DEFINE n == Len(q) + 1
<1>1. n \notin Places(q, S)
    BY DEF Places
<1>2. CASE m \in S
    <2>1. Places(Append(q, m), S) = Places(q, S) \cup {n}
        BY <1>2 DEF Places
    <2> QED
        BY <1>1, <1>2, <2>1, PlacesFinite, FS_AddElement
<1>3. CASE m \notin S
    <2>1. Places(Append(q, m), S) = Places(q, S)
        BY <1>3 DEF Places
    <2> QED
        BY <1>3, <2>1, PlacesFinite
<1> QED
    BY <1>2, <1>3

\* A queue of one message.
LEMMA PlacesOne == ASSUME NEW m, NEW S
                   PROVE  Cardinality(Places(<<m>>, S)) = IF m \in S THEN 1 ELSE 0
<1>1. Places(<<m>>, S) = IF m \in S THEN {1} ELSE {}
    BY DEF Places
<1> QED
    BY <1>1, FS_EmptySet, FS_Singleton

\* What is left when the message at place k is taken from a queue.
LEMMA RemoveAtIs ==
    ASSUME NEW T, NEW q \in Seq(T), NEW k \in 1..Len(q)
    PROVE  /\ RemoveAt(q, k) \in Seq(T)
           /\ Len(RemoveAt(q, k)) = Len(q) - 1
           /\ \A i \in 1..(Len(q) - 1) :
                 RemoveAt(q, k)[i] = IF i < k THEN q[i] ELSE q[i + 1]
<1>0. k \in Int /\ Len(q) \in Nat
    OBVIOUS
<1> DEFINE a == SubSeq(q, 1, k - 1)
           b == SubSeq(q, k + 1, Len(q))
<1>1. a \in Seq(T) /\ Len(a) = k - 1 /\ \A i \in 1..(k - 1) : a[i] = q[i]
    OBVIOUS
<1>2. b \in Seq(T) /\ Len(b) = Len(q) - k /\ \A i \in 1..(Len(q) - k) : b[i] = q[k + i]
    OBVIOUS
<1>3. RemoveAt(q, k) = a \o b
    BY DEF RemoveAt
<1> HIDE DEF a, b
<1>4. a \o b \in Seq(T) /\ Len(a \o b) = Len(q) - 1
    <2>1. a \o b \in Seq(T) /\ Len(a \o b) = Len(a) + Len(b)
        BY <1>1, <1>2, ConcatProperties
    <2> QED
        BY <1>0, <1>1, <1>2, <2>1
<1>5. ASSUME NEW i \in 1..(Len(q) - 1)
      PROVE  (a \o b)[i] = IF i < k THEN q[i] ELSE q[i + 1]
    <2>1. CASE i < k
        BY <1>1, <1>2, <2>1
    <2>2. CASE i >= k
        <3>1. (a \o b)[i] = b[i - Len(a)]
            BY <1>1, <1>2, <2>2
        <3>2. i - Len(a) = i - k + 1 /\ i - k + 1 \in 1..(Len(q) - k) /\ k + (i - k + 1) = i + 1
            BY <1>1, <2>2
        <3> QED
            BY <1>2, <2>2, <3>1, <3>2
    <2>3. i < k \/ i >= k
        BY <1>0
    <2> QED
        BY <2>1, <2>2, <2>3, Zenon
<1> QED
    BY <1>3, <1>4, <1>5

\* msgrcv takes one message from those that it belongs to: the other places
\* correspond to those of what is left.
LEMMA PlacesRemoveAt ==
    ASSUME NEW T, NEW q \in Seq(T), NEW k \in 1..Len(q), NEW S
    PROVE  Cardinality(Places(RemoveAt(q, k), S))
               = Cardinality(Places(q, S)) - (IF q[k] \in S THEN 1 ELSE 0)
<1> DEFINE r == RemoveAt(q, k)
           A == Places(r, S)
           B == Places(q, S) \ {k}
           f == [i \in A |-> IF i < k THEN i ELSE i + 1]
<1>1. /\ r \in Seq(T) /\ Len(r) = Len(q) - 1
      /\ \A i \in 1..(Len(q) - 1) : r[i] = IF i < k THEN q[i] ELSE q[i + 1]
    BY RemoveAtIs
<1> HIDE DEF r
<1>2. f \in [A -> B]
    BY <1>1 DEF Places
<1>3. \A i, j \in A : f[i] = f[j] => i = j
    BY <1>1 DEF Places
<1>4. \A j \in B : \E i \in A : f[i] = j
    <2> SUFFICES ASSUME NEW j \in B PROVE \E i \in A : f[i] = j
        OBVIOUS
    <2>1. CASE j < k
        <3>1. j \in A
            BY <1>1, <2>1 DEF Places
        <3> QED
            BY <2>1, <3>1
    <2>2. CASE j > k
        <3>1. j - 1 \in A /\ j \in Int /\ ~(j - 1 < k) /\ (j - 1) + 1 = j
            BY <1>1, <2>2 DEF Places
        <3> QED
            BY <3>1
    <2>3. j \in Int /\ k \in Int /\ j # k
        BY DEF Places
    <2> QED
        BY <2>1, <2>2, <2>3
<1>5. ExistsBijection(A, B)
    <2> HIDE DEF A, B, f
    <2> QED
        BY <1>2, <1>3, <1>4 DEF ExistsBijection, Bijection, Injection, Surjection, IsInjective
<1>6. IsFiniteSet(A) /\ IsFiniteSet(Places(q, S)) /\ Cardinality(Places(q, S)) \in Nat
    BY <1>1, PlacesFinite
<1>7. Cardinality(A) = Cardinality(B)
    BY <1>5, <1>6, FS_Bijection
<1>8. Cardinality(B) = IF k \in Places(q, S) THEN Cardinality(Places(q, S)) - 1
                                            ELSE Cardinality(Places(q, S))
    BY <1>6, FS_RemoveElement
<1> QED
    BY <1>6, <1>7, <1>8 DEF Places, r

\* The same for the first message of a queue.
LEMMA PlacesTail ==
    ASSUME NEW T, NEW q \in Seq(T), q # <<>>, NEW S
    PROVE  Cardinality(Places(Tail(q), S))
               = Cardinality(Places(q, S)) - (IF Head(q) \in S THEN 1 ELSE 0)
<1>1. 1 \in 1..Len(q) /\ Head(q) = q[1]
    OBVIOUS
<1>2. Tail(q) = RemoveAt(q, 1)
    <2>1. /\ RemoveAt(q, 1) \in Seq(T) /\ Len(RemoveAt(q, 1)) = Len(q) - 1
          /\ \A i \in 1..(Len(q) - 1) : RemoveAt(q, 1)[i] = q[i + 1]
        BY <1>1, RemoveAtIs
    <2> QED
        BY <2>1
<1>3. Cardinality(Places(RemoveAt(q, 1), S))
          = Cardinality(Places(q, S)) - (IF q[1] \in S THEN 1 ELSE 0)
    BY <1>1, PlacesRemoveAt
<1> QED
    BY <1>1, <1>2, <1>3, Zenon

\* What msgrcv does, for the proofs about the programs: the message that it
\* returns and the queue that it leaves.
LEMMA ReceiveIs ==
    ASSUME NEW T, NEW q \in Seq(T), NEW type \in Nat, CanReceive(q, type)
    PROVE  /\ Received(q, type) \in T /\ Matches(Received(q, type), type)
           /\ \E i \in 1..Len(q) : Received(q, type) = q[i]
           /\ AfterReceive(q, type) \in Seq(T)
           /\ Len(AfterReceive(q, type)) = Len(q) - 1
           /\ \A i \in 1..Len(AfterReceive(q, type)) :
                 \E j \in 1..Len(q) : AfterReceive(q, type)[i] = q[j]
<1> DEFINE k == FirstMatch(q, type)
<1>1. k \in 1..Len(q) /\ Matches(q[k], type)
    BY FirstMatchIs
<1>2. Received(q, type) = q[k] /\ AfterReceive(q, type) = RemoveAt(q, k)
    BY DEF Received, AfterReceive
<1> HIDE DEF k
<1>3. /\ RemoveAt(q, k) \in Seq(T) /\ Len(RemoveAt(q, k)) = Len(q) - 1
      /\ \A i \in 1..(Len(q) - 1) : RemoveAt(q, k)[i] = IF i < k THEN q[i] ELSE q[i + 1]
    BY <1>1, RemoveAtIs
<1>4. q[k] \in T
    BY <1>1
<1>5. ASSUME NEW i \in 1..(Len(q) - 1) PROVE \E j \in 1..Len(q) : RemoveAt(q, k)[i] = q[j]
    <2>1. i \in 1..Len(q) /\ i + 1 \in 1..Len(q)
        OBVIOUS
    <2> QED
        BY <1>3, <2>1
<1> QED
    BY <1>1, <1>2, <1>3, <1>4, <1>5

\* And how many messages of a set are left.
LEMMA ReceiveCounts ==
    ASSUME NEW T, NEW q \in Seq(T), NEW type \in Nat, CanReceive(q, type), NEW S
    PROVE  Cardinality(Places(AfterReceive(q, type), S))
               = Cardinality(Places(q, S)) - (IF Received(q, type) \in S THEN 1 ELSE 0)
<1>1. FirstMatch(q, type) \in 1..Len(q)
    BY FirstMatchIs
<1> QED
    BY <1>1, PlacesRemoveAt DEF Received, AfterReceive

=============================================================================
