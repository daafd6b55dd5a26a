---------------------------- MODULE ListOpsProofs ----------------------------
(***************************************************************************)
(* Lemmas about linked lists: what the assignments of ListOps do to a ring *)
(* of nodes, to several rings, and what those of the singly linked lists   *)
(* do to their links; how a loop goes over a list; the sequences that a    *)
(* list stands for.  They name no variable, and serve the proofs about     *)
(* list.h, dlist.c, the hash table, the address book and 01Slist.          *)
(***************************************************************************)
EXTENDS ListOps, Integers, Sequences, SequenceTheorems, FiniteSetTheorems,
        WellFoundedInduction, TLAPS

\* list_add puts the node in front: the elements move up by one.
LEMMA ConsFacts ==
    ASSUME NEW S, NEW s \in Seq(S), NEW nd \in S
    PROVE  /\ <<nd>> \o s \in Seq(S)
           /\ Len(<<nd>> \o s) = Len(s) + 1
           /\ \A i \in 1..(Len(s) + 1) :
                 (<<nd>> \o s)[i] = IF i = 1 THEN nd ELSE s[i - 1]
  OBVIOUS

\* list_add_tail appends.
LEMMA AppendFacts ==
    ASSUME NEW S, NEW s \in Seq(S), NEW nd \in S
    PROVE  /\ Append(s, nd) \in Seq(S)
           /\ Len(Append(s, nd)) = Len(s) + 1
           /\ \A i \in 1..(Len(s) + 1) :
                 Append(s, nd)[i] = IF i = Len(s) + 1 THEN nd ELSE s[i]
  OBVIOUS

\* What is left of s without its i-th element.
Cut(s, i) == SubSeq(s, 1, i - 1) \o SubSeq(s, i + 1, Len(s))

\* list_del removes the i-th element: the later ones move down by one.
LEMMA CutFacts ==
    ASSUME NEW S, NEW s \in Seq(S), NEW i \in 1..Len(s)
    PROVE  /\ Cut(s, i) \in Seq(S)
           /\ Len(Cut(s, i)) = Len(s) - 1
           /\ \A j \in 1..(Len(s) - 1) :
                 Cut(s, i)[j] = IF j < i THEN s[j] ELSE s[j + 1]
<1> DEFINE a == SubSeq(s, 1, i - 1)
           b == SubSeq(s, i + 1, Len(s))
<1>1. /\ a \in Seq(S) /\ Len(a) = i - 1
      /\ \A j \in 1..(i - 1) : a[j] = s[j]
    BY SubSeqProperties
<1>2. /\ b \in Seq(S) /\ Len(b) = Len(s) - i
      /\ \A j \in 1..(Len(s) - i) : b[j] = s[i + j]
    BY SubSeqProperties
<1>3. /\ a \o b \in Seq(S)
      /\ Len(a \o b) = Len(s) - 1
      /\ \A j \in 1..(Len(s) - 1) :
            (a \o b)[j] = IF j < i THEN a[j] ELSE b[j - (i - 1)]
  <2> HIDE DEF a, b
  <2>1. /\ a \o b \in Seq(S)
        /\ Len(a \o b) = Len(a) + Len(b)
        /\ \A j \in 1..(Len(a) + Len(b)) :
              (a \o b)[j] = IF j <= Len(a) THEN a[j] ELSE b[j - Len(a)]
    BY <1>1, <1>2, ConcatProperties
  <2> QED
    BY <1>1, <1>2, <2>1
<1>4. \A j \in 1..(Len(s) - 1) : (a \o b)[j] = IF j < i THEN s[j] ELSE s[j + 1]
  <2> HIDE DEF a, b
  <2> QED
    BY <1>1, <1>2, <1>3
<1> QED
    BY <1>3, <1>4 DEF Cut

\* The links nx and pv lead from each list_head of S to the next and back.
Leads(L, S, nx, pv) ==
    \A i \in 0..L : nx[S[i]] = S[i + 1] /\ pv[S[i + 1]] = S[i]

\* S is a ring of L nodes: the head is at 0 and at L + 1, the list_heads in
\* between are different, and the links lead from each to the next.
Ring(A, L, S, nx, pv) ==
    /\ S \in [0..(L + 1) -> A]
    /\ \A i, j \in 0..L : S[i] = S[j] => i = j
    /\ \A i, j \in 1..(L + 1) : S[i] = S[j] => i = j
    /\ Leads(L, S, nx, pv)

\* Between nx and nx1 only the links of nd and p change, between pv and pv1
\* only those of nd and q.
Writes(A, nd, p, q, nx, pv, nx1, pv1) ==
    /\ \A x \in A : x # nd /\ x # p => nx1[x] = nx[x]
    /\ \A x \in A : x # nd /\ x # q => pv1[x] = pv[x]

\* T is S with nd after the k-th list_head.
Inserted(A, L, S, k, nd, T) ==
    /\ T \in [0..(L + 2) -> A]
    /\ \A i \in 0..(L + 1) : S[i] # nd
    /\ \A i \in 0..(L + 2) : T[i] = IF i <= k THEN S[i]
                                    ELSE IF i = k + 1 THEN nd ELSE S[i - 1]

\* T is S without its k-th list_head.
Deleted(A, L, S, k, T) ==
    /\ T \in [0..L -> A]
    /\ \A i \in 0..L : T[i] = IF i < k THEN S[i] ELSE S[i + 1]

\* Inserting nd after the k-th list_head of a ring makes a ring.
LEMMA RingInsert ==
    ASSUME NEW A, NEW L \in Nat, NEW k \in 0..L, NEW nd \in A, NEW S, NEW T,
           NEW nx, NEW pv, NEW nx1, NEW pv1,
           Ring(A, L, S, nx, pv), Inserted(A, L, S, k, nd, T),
           Writes(A, nd, S[k], S[k + 1], nx, pv, nx1, pv1),
           nx1[nd] = S[k + 1], nx1[S[k]] = nd, pv1[nd] = S[k], pv1[S[k + 1]] = nd
    PROVE  Leads(L + 1, T, nx1, pv1)
<1> SUFFICES ASSUME NEW i \in 0..(L + 1)
             PROVE  nx1[T[i]] = T[i + 1] /\ pv1[T[i + 1]] = T[i]
    BY DEF Leads
<1>1. CASE i < k
  <2>1. /\ i \in 0..L /\ i + 1 \in 1..(L + 1) /\ k \in 0..L /\ k + 1 \in 1..(L + 1)
        /\ i # k /\ i + 1 # k + 1
    BY <1>1
  <2>2. T[i] = S[i] /\ T[i + 1] = S[i + 1] /\ S[i] # S[k] /\ S[i + 1] # S[k + 1]
    BY <1>1, <2>1 DEF Ring, Inserted
  <2>3. nx[S[i]] = S[i + 1] /\ pv[S[i + 1]] = S[i]
    BY <2>1 DEF Ring, Leads
  <2>4. S[i] \in A /\ S[i + 1] \in A /\ S[i] # nd /\ S[i + 1] # nd
    BY <2>1 DEF Ring, Inserted
  <2> QED
    BY <2>2, <2>3, <2>4 DEF Writes
<1>2. CASE i = k
  <2>1. T[i] = S[k] /\ T[i + 1] = nd
    BY <1>2 DEF Inserted
  <2> QED
    BY <2>1
<1>3. CASE i = k + 1
  <2>1. T[i] = nd /\ T[i + 1] = S[k + 1]
    BY <1>3 DEF Inserted
  <2> QED
    BY <2>1
<1>4. CASE i > k + 1
  <2>1. /\ i - 1 \in 0..L /\ i \in 1..(L + 1) /\ k \in 0..L /\ k + 1 \in 1..(L + 1)
        /\ i - 1 # k /\ i # k + 1
    BY <1>4
  <2>2. T[i] = S[i - 1] /\ T[i + 1] = S[i] /\ S[i - 1] # S[k] /\ S[i] # S[k + 1]
    BY <1>4, <2>1 DEF Ring, Inserted
  <2>3. nx[S[i - 1]] = S[i] /\ pv[S[i]] = S[i - 1]
    BY <2>1 DEF Ring, Leads
  <2>4. S[i - 1] \in A /\ S[i] \in A /\ S[i - 1] # nd /\ S[i] # nd
    BY <2>1 DEF Ring, Inserted
  <2> QED
    BY <2>2, <2>3, <2>4 DEF Writes
<1> QED
    BY <1>1, <1>2, <1>3, <1>4

\* Taking the k-th node out of a ring leaves a ring.
LEMMA RingDelete ==
    ASSUME NEW A, NEW L \in Nat, NEW k \in 1..L, NEW S, NEW T,
           NEW nx, NEW pv, NEW nx1, NEW pv1,
           Ring(A, L, S, nx, pv), Deleted(A, L, S, k, T),
           Writes(A, S[k], S[k - 1], S[k + 1], nx, pv, nx1, pv1),
           nx1[S[k - 1]] = S[k + 1], pv1[S[k + 1]] = S[k - 1]
    PROVE  Leads(L - 1, T, nx1, pv1)
<1> SUFFICES ASSUME NEW i \in 0..(L - 1)
             PROVE  nx1[T[i]] = T[i + 1] /\ pv1[T[i + 1]] = T[i]
    BY DEF Leads
<1>1. CASE i < k - 1
  <2>1. /\ i \in 0..L /\ i + 1 \in 1..(L + 1) /\ k - 1 \in 0..L /\ k + 1 \in 1..(L + 1)
        /\ k \in 0..L /\ k \in 1..(L + 1)
        /\ i # k - 1 /\ i # k /\ i + 1 # k /\ i + 1 # k + 1
    BY <1>1
  <2>2. /\ T[i] = S[i] /\ T[i + 1] = S[i + 1]
        /\ S[i] # S[k - 1] /\ S[i] # S[k] /\ S[i + 1] # S[k + 1] /\ S[i + 1] # S[k]
    BY <1>1, <2>1 DEF Ring, Deleted
  <2>3. nx[S[i]] = S[i + 1] /\ pv[S[i + 1]] = S[i] /\ S[i] \in A /\ S[i + 1] \in A
    <3>1. S[i] \in A /\ S[i + 1] \in A
      BY <2>1 DEF Ring
    <3>2. \A m \in 0..L : nx[S[m]] = S[m + 1] /\ pv[S[m + 1]] = S[m]
      BY DEF Ring, Leads
    <3> QED
      BY <2>1, <3>1, <3>2
  <2> QED
    BY <2>2, <2>3 DEF Writes
<1>2. CASE i = k - 1
  <2>1. T[i] = S[k - 1] /\ T[i + 1] = S[k + 1]
    BY <1>2 DEF Deleted
  <2> QED
    BY <2>1
<1>3. CASE i > k - 1
  <2>1. /\ i + 1 \in 0..L /\ i + 2 \in 1..(L + 1) /\ k - 1 \in 0..L /\ k + 1 \in 1..(L + 1)
        /\ k \in 0..L /\ k \in 1..(L + 1) /\ i + 1 \in 0..L
        /\ i + 1 # k - 1 /\ i + 1 # k /\ i + 2 # k /\ i + 2 # k + 1
    BY <1>3
  <2>2. /\ T[i] = S[i + 1] /\ T[i + 1] = S[i + 2]
        /\ S[i + 1] # S[k - 1] /\ S[i + 1] # S[k] /\ S[i + 2] # S[k + 1] /\ S[i + 2] # S[k]
    BY <1>3, <2>1 DEF Ring, Deleted
  <2>3. /\ nx[S[i + 1]] = S[i + 2] /\ pv[S[i + 2]] = S[i + 1]
        /\ S[i + 1] \in A /\ S[i + 2] \in A
    <3>1. S[i + 1] \in A /\ S[i + 2] \in A
      BY <2>1 DEF Ring
    <3>2. \A m \in 0..L : nx[S[m]] = S[m + 1] /\ pv[S[m + 1]] = S[m]
      BY DEF Ring, Leads
    <3>3. nx[S[i + 1]] = S[(i + 1) + 1] /\ pv[S[(i + 1) + 1]] = S[i + 1]
      BY <2>1, <3>2
    <3>4. (i + 1) + 1 = i + 2
      OBVIOUS
    <3> QED
      BY <3>1, <3>3, <3>4
  <2> QED
    BY <2>2, <2>3 DEF Writes
<1> QED
    BY <1>1, <1>2, <1>3

\* The assignments of __list_add.
LEMMA LinkFacts ==
    ASSUME NEW A, NEW nx \in [A -> A], NEW pv \in [A -> A],
           NEW nd \in A, NEW p \in A, NEW q \in A, nd # p, nd # q,
           NEW nx1, nx1 = LinkNext(nx, nd, p, q),
           NEW pv1, pv1 = LinkPrev(pv, nd, p, q)
    PROVE  /\ nx1 \in [A -> A] /\ pv1 \in [A -> A]
           /\ nx1[nd] = q /\ nx1[p] = nd /\ pv1[nd] = p /\ pv1[q] = nd
           /\ Writes(A, nd, p, q, nx, pv, nx1, pv1)
  BY DEF LinkNext, LinkPrev, Writes

\* The assignments of list_del, for a node nd between p and q.
LEMMA UnlinkFacts ==
    ASSUME NEW A, NEW nx \in [A -> A], NEW pv \in [A -> A],
           NEW nd \in A, NEW p \in A, NEW q \in A, nd # p, nd # q,
           pv[nd] = p, nx[nd] = q,
           NEW nx1, nx1 = DelNext(nx, pv, nd),
           NEW pv1, pv1 = DelPrev(nx, pv, nd)
    PROVE  /\ nx1 \in [A -> A] /\ pv1 \in [A -> A]
           /\ nx1[p] = q /\ pv1[q] = p
           /\ Writes(A, nd, p, q, nx, pv, nx1, pv1)
  BY DEF DelNext, DelPrev, Writes

\* The way round list h with contents s.
Way(s, h) == [i \in 0..(Len(s) + 1) |-> IF i \in 1..Len(s) THEN s[i] ELSE h]

\* t is s with nd after its first k elements.
InsertedSeq(s, k, nd, t) ==
    /\ Len(t) = Len(s) + 1
    /\ \A i \in 1..(Len(s) + 1) : t[i] = IF i <= k THEN s[i]
                                         ELSE IF i = k + 1 THEN nd ELSE s[i - 1]

\* The way round a list after an insertion.
LEMMA WayInsert ==
    ASSUME NEW N, NEW A, NEW s \in Seq(N), NEW t \in Seq(N), NEW h \in A, NEW nd \in A,
           NEW k \in 0..Len(s), InsertedSeq(s, k, nd, t),
           Way(s, h) \in [0..(Len(s) + 1) -> A],
           \A i \in 0..(Len(s) + 1) : Way(s, h)[i] # nd
    PROVE  Inserted(A, Len(s), Way(s, h), k, nd, Way(t, h))
<1> DEFINE S == Way(s, h)
           T == Way(t, h)
           L == Len(s)
<1>1. /\ L \in Nat /\ k \in 0..L /\ Len(t) = L + 1
      /\ \A i \in 1..(L + 1) : t[i] = IF i <= k THEN s[i]
                                      ELSE IF i = k + 1 THEN nd ELSE s[i - 1]
    BY DEF InsertedSeq
<1>2. \A i \in 0..(L + 2) : T[i] = IF i \in 1..(L + 1) THEN t[i] ELSE h
    BY <1>1 DEF Way
<1>3. \A i \in 0..(L + 1) : S[i] = IF i \in 1..L THEN s[i] ELSE h
    BY <1>1 DEF Way
<1>4. T = [i \in 0..(L + 2) |-> T[i]]
    BY <1>1 DEF Way
<1>5. \A i \in 0..(L + 1) : S[i] \in A /\ S[i] # nd
    OBVIOUS
<1> HIDE DEF S, T, L
<1>6. \A i \in 0..(L + 2) : T[i] = IF i <= k THEN S[i]
                                   ELSE IF i = k + 1 THEN nd ELSE S[i - 1]
  <2> SUFFICES ASSUME NEW i \in 0..(L + 2)
               PROVE  T[i] = IF i <= k THEN S[i]
                             ELSE IF i = k + 1 THEN nd ELSE S[i - 1]
    OBVIOUS
  <2>1. CASE i <= k
    BY <2>1, <1>1, <1>2, <1>3
  <2>2. CASE i = k + 1
    BY <2>2, <1>1, <1>2
  <2>3. CASE i > k + 1
    BY <2>3, <1>1, <1>2, <1>3
  <2> QED
    BY <2>1, <2>2, <2>3, <1>1
<1>7. ASSUME NEW i \in 0..(L + 2) PROVE T[i] \in A
  <2>1. CASE i <= k
    <3>1. i \in 0..(L + 1)
      BY <2>1, <1>1
    <3> QED
      BY <2>1, <3>1, <1>5, <1>6
  <2>2. CASE i = k + 1
    BY <2>2, <1>1, <1>6
  <2>3. CASE i > k + 1
    <3>1. i - 1 \in 0..(L + 1) /\ ~(i <= k) /\ i # k + 1
      BY <2>3, <1>1
    <3> QED
      BY <3>1, <1>5, <1>6
  <2> QED
    BY <2>1, <2>2, <2>3, <1>1
<1>8. T \in [0..(L + 2) -> A]
    BY <1>4, <1>7
<1>9. Inserted(A, L, S, k, nd, T)
    BY <1>5, <1>6, <1>8 DEF Inserted
<1> QED
    BY <1>9 DEF S, T, L

\* The elements of s are different.
AllDifferent(s) == \A i, j \in 1..Len(s) : s[i] = s[j] => i = j

\* None of the elements of s is nd.
Avoids(s, nd) == \A i \in 1..Len(s) : s[i] # nd

\* An insertion of a new element keeps the elements of a sequence different.
LEMMA InsertInjective ==
    ASSUME NEW N, NEW s \in Seq(N), NEW t \in Seq(N), NEW nd,
           NEW k \in 0..Len(s), InsertedSeq(s, k, nd, t),
           AllDifferent(s), Avoids(s, nd)
    PROVE  AllDifferent(t)
<1> DEFINE from(i) == IF i <= k THEN i ELSE i - 1
<1>1. Len(s) \in Nat /\ k \in Nat /\ Len(t) = Len(s) + 1
    BY DEF InsertedSeq
<1>2. \A i \in 1..Len(t) : i = k + 1 => t[i] = nd
    BY <1>1 DEF InsertedSeq
<1>3. \A i \in 1..Len(t) : i # k + 1 => from(i) \in 1..Len(s) /\ t[i] = s[from(i)]
    BY <1>1 DEF InsertedSeq
<1>4. \A i, j \in 1..Len(t) : i # k + 1 /\ j # k + 1 /\ from(i) = from(j) => i = j
    BY <1>1
<1>5. \A i \in 1..Len(t) : i # k + 1 => t[i] # nd
  <2> HIDE DEF from
  <2> QED
    BY <1>3 DEF Avoids
<1> HIDE DEF from
<1> SUFFICES ASSUME NEW i \in 1..Len(t), NEW j \in 1..Len(t), t[i] = t[j]
             PROVE  i = j
    BY DEF AllDifferent
<1>6. CASE i = k + 1
    BY <1>6, <1>2, <1>5
<1>7. CASE j = k + 1
    BY <1>7, <1>2, <1>5
<1>8. CASE i # k + 1 /\ j # k + 1
  <2>1. s[from(i)] = s[from(j)] /\ from(i) \in 1..Len(s) /\ from(j) \in 1..Len(s)
    BY <1>8, <1>3
  <2>2. from(i) = from(j)
    BY <2>1 DEF AllDifferent
  <2> QED
    BY <2>2, <1>8, <1>4
<1> QED
    BY <1>6, <1>7, <1>8

\* t is s without its k-th element.
DeletedSeq(s, k, t) ==
    /\ Len(t) = Len(s) - 1
    /\ \A i \in 1..(Len(s) - 1) : t[i] = IF i < k THEN s[i] ELSE s[i + 1]

\* The way round a list after a deletion.
LEMMA WayDelete ==
    ASSUME NEW N, NEW A, NEW s \in Seq(N), NEW t \in Seq(N), NEW h \in A,
           NEW k \in 1..Len(s), DeletedSeq(s, k, t),
           Way(s, h) \in [0..(Len(s) + 1) -> A]
    PROVE  Deleted(A, Len(s), Way(s, h), k, Way(t, h))
<1> DEFINE S == Way(s, h)
           T == Way(t, h)
           L == Len(s)
<1>1. /\ L \in Nat /\ k \in 1..L /\ Len(t) = L - 1
      /\ \A i \in 1..(L - 1) : t[i] = IF i < k THEN s[i] ELSE s[i + 1]
    BY DEF DeletedSeq
<1>2. \A i \in 0..L : T[i] = IF i \in 1..(L - 1) THEN t[i] ELSE h
    BY <1>1 DEF Way
<1>3. \A i \in 0..(L + 1) : S[i] = IF i \in 1..L THEN s[i] ELSE h
    BY <1>1 DEF Way
<1>4. T = [i \in 0..L |-> T[i]]
    BY <1>1 DEF Way
<1>5. \A i \in 0..(L + 1) : S[i] \in A
    OBVIOUS
<1> HIDE DEF S, T, L
<1>6. \A i \in 0..L : T[i] = IF i < k THEN S[i] ELSE S[i + 1]
  <2> SUFFICES ASSUME NEW i \in 0..L
               PROVE  T[i] = IF i < k THEN S[i] ELSE S[i + 1]
    OBVIOUS
  <2>1. CASE i < k
    BY <2>1, <1>1, <1>2, <1>3
  <2>2. CASE i >= k
    BY <2>2, <1>1, <1>2, <1>3
  <2> QED
    BY <2>1, <2>2, <1>1
<1>7. ASSUME NEW i \in 0..L PROVE T[i] \in A
  <2>1. i \in 0..(L + 1) /\ i + 1 \in 0..(L + 1)
    BY <1>1
  <2> QED
    BY <2>1, <1>5, <1>6
<1>8. T \in [0..L -> A]
    BY <1>4, <1>7
<1>9. Deleted(A, L, S, k, T)
    BY <1>6, <1>8 DEF Deleted
<1> QED
    BY <1>9 DEF S, T, L

\* The elements of t are elements of s.
Drawn(t, s) == \A i \in 1..Len(t) : \E j \in 1..Len(s) : t[i] = s[j]

\* A deletion keeps the elements of a sequence different and adds none.
LEMMA DeleteInjective ==
    ASSUME NEW N, NEW s \in Seq(N), NEW t \in Seq(N),
           NEW k \in 1..Len(s), DeletedSeq(s, k, t),
           AllDifferent(s)
    PROVE  /\ AllDifferent(t)
           /\ Drawn(t, s)
<1> USE DEF AllDifferent, Drawn
<1> DEFINE from(i) == IF i < k THEN i ELSE i + 1
<1>1. Len(s) \in Nat /\ k \in Nat /\ Len(t) = Len(s) - 1
    BY DEF DeletedSeq
<1>2. \A i \in 1..Len(t) : from(i) \in 1..Len(s) /\ t[i] = s[from(i)]
    BY <1>1 DEF DeletedSeq
<1>3. \A i, j \in 1..Len(t) : from(i) = from(j) => i = j
    BY <1>1
<1> HIDE DEF from
<1> QED
    BY <1>2, <1>3

----------------------------------------------------------------------------
(* Loops round a list *)

\* A set of numbers that is not empty has a least element: what holds for 0 and
\* for every successor has no least counterexample.
LEMMA Least == ASSUME NEW S \in SUBSET Nat, S # {}
               PROVE  \E x \in S : \A y \in S : x <= y
<1>1. PICK x \in S : \A y \in S : ~(<<y, x>> \in OpToRel(<, Nat))
    BY NatLessThanWellFounded, WFMin
<1>2. \A y \in S : ~(y < x)
    BY <1>1 DEF OpToRel
<1> QED
    BY <1>2

\* f holds the nodes that a loop from h along nx reaches in its first N steps.
IsWalk(f, N, h, nx) == f = [i \in 0..N |-> IF i = 0 THEN h ELSE nx[f[i - 1]]]

\* There is such an f, so that the recursive functions of the models are defined.
LEMMA WalkExists == ASSUME NEW h, NEW nx, NEW N \in Nat PROVE \E f : IsWalk(f, N, h, nx)
<1> DEFINE Bad == {m \in Nat : ~\E f : IsWalk(f, m, h, nx)}
<1> SUFFICES ASSUME Bad # {} PROVE FALSE
    OBVIOUS
<1>1. PICK m \in Bad : \A k \in Bad : m <= k
    <2>1. Bad \in SUBSET Nat
        OBVIOUS
    <2> HIDE DEF Bad
    <2> QED
        BY <2>1, Least
<1>2. m # 0
    <2> DEFINE g == [i \in 0..0 |-> h]
    <2>1. g = [i \in 0..0 |-> IF i = 0 THEN h ELSE nx[g[i - 1]]]
        OBVIOUS
    <2>2. IsWalk(g, 0, h, nx)
        BY <2>1 DEF IsWalk
    <2> HIDE DEF g
    <2> QED
        BY <2>2
<1>3. m - 1 \in Nat /\ m - 1 \notin Bad
    BY <1>1, <1>2
<1>4. PICK f : IsWalk(f, m - 1, h, nx)
    BY <1>3
<1> DEFINE g == [i \in 0..m |-> IF i = m THEN nx[f[m - 1]] ELSE f[i]]
<1>5. /\ \A i \in 0..(m - 1) : g[i] = f[i] /\ f[i] = IF i = 0 THEN h ELSE nx[f[i - 1]]
      /\ g[m] = nx[f[m - 1]]
    <2>1. m \in Nat /\ \A i \in 0..(m - 1) : i \in 0..m /\ i # m
        BY <1>3
    <2>2. \A i \in 0..(m - 1) : g[i] = f[i]
        BY <2>1
    <2>3. m \in 0..m /\ g[m] = nx[f[m - 1]]
        BY <2>1
    <2>4. \A i \in 0..(m - 1) : f[i] = IF i = 0 THEN h ELSE nx[f[i - 1]]
        BY <1>4 DEF IsWalk
    <2> HIDE DEF g
    <2> QED
        BY <2>2, <2>3, <2>4
<1>6. \A i \in 0..m : g[i] = IF i = 0 THEN h ELSE nx[g[i - 1]]
    <2> HIDE DEF g
    <2> QED
        BY <1>2, <1>3, <1>5
<1>7. g = [i \in 0..m |-> IF i = 0 THEN h ELSE nx[g[i - 1]]]
    <2>1. g = [i \in 0..m |-> g[i]]
        OBVIOUS
    <2> HIDE DEF g
    <2> QED
        BY <1>6, <2>1
<1> QED
    BY <1>7 DEF IsWalk

\* A loop from the head of a ring goes through it.
LEMMA WalkIsWay ==
    ASSUME NEW f, NEW N \in Nat, NEW L \in Nat, L + 1 <= N, NEW S, NEW nx, NEW pv,
           IsWalk(f, N, S[0], nx), Leads(L, S, nx, pv)
    PROVE  \A i \in 0..(L + 1) : f[i] = S[i]
<1> DEFINE Bad == {i \in 0..(L + 1) : f[i] # S[i]}
<1> SUFFICES ASSUME Bad # {} PROVE FALSE
    OBVIOUS
<1>1. PICK i \in Bad : \A k \in Bad : i <= k
    <2>1. Bad \in SUBSET Nat
        OBVIOUS
    <2> HIDE DEF Bad
    <2> QED
        BY <2>1, Least
<1>2. \A k \in 0..N : f[k] = IF k = 0 THEN S[0] ELSE nx[f[k - 1]]
    BY DEF IsWalk
<1>3. i # 0
    BY <1>2
<1>4. i - 1 \in 0..L /\ i - 1 \notin Bad /\ i \in 0..N /\ (i - 1) + 1 = i
    BY <1>1, <1>3
<1>5. f[i - 1] = S[i - 1]
    BY <1>4
<1>6. nx[S[i - 1]] = S[(i - 1) + 1]
    BY <1>4 DEF Leads
<1> QED
    BY <1>2, <1>3, <1>4, <1>5, <1>6

\* The same for a loop without a bound.
IsEndlessWalk(f, h, nx) == f = [i \in Nat |-> IF i = 0 THEN h ELSE nx[f[i - 1]]]

\* Loops of different length from the same head agree.
LEMMA WalksAgree ==
    ASSUME NEW h, NEW nx, NEW M \in Nat, NEW N \in Nat, M <= N,
           NEW f, IsWalk(f, M, h, nx), NEW g, IsWalk(g, N, h, nx)
    PROVE  \A i \in 0..M : f[i] = g[i]
<1> DEFINE Bad == {i \in 0..M : f[i] # g[i]}
<1> SUFFICES ASSUME Bad # {} PROVE FALSE
    OBVIOUS
<1>1. PICK i \in Bad : \A k \in Bad : i <= k
    <2>1. Bad \in SUBSET Nat
        OBVIOUS
    <2> HIDE DEF Bad
    <2> QED
        BY <2>1, Least
<1>2. /\ \A k \in 0..M : f[k] = IF k = 0 THEN h ELSE nx[f[k - 1]]
      /\ \A k \in 0..N : g[k] = IF k = 0 THEN h ELSE nx[g[k - 1]]
    BY DEF IsWalk
<1>3. i # 0
    BY <1>2
<1>4. i - 1 \in 0..M /\ i - 1 \notin Bad /\ i \in 0..N
    BY <1>1, <1>3
<1>5. f[i - 1] = g[i - 1]
    BY <1>4
<1> QED
    BY <1>2, <1>3, <1>4, <1>5

\* There is one, and its beginnings are the loops above.
LEMMA EndlessWalkExists == ASSUME NEW h, NEW nx PROVE \E f : IsEndlessWalk(f, h, nx)
<1> DEFINE W(m) == CHOOSE g : IsWalk(g, m, h, nx)
           f == [m \in Nat |-> W(m)[m]]
<1>1. \A m \in Nat : IsWalk(W(m), m, h, nx)
    BY WalkExists
<1>2. \A m \in Nat : f[m] = W(m)[m]
    OBVIOUS
<1> HIDE DEF W
<1>3. ASSUME NEW m \in Nat PROVE f[m] = IF m = 0 THEN h ELSE nx[f[m - 1]]
    <2>1. W(m)[m] = IF m = 0 THEN h ELSE nx[W(m)[m - 1]]
        <3>1. \A k \in 0..m : W(m)[k] = IF k = 0 THEN h ELSE nx[W(m)[k - 1]]
            BY <1>1 DEF IsWalk
        <3> QED
            BY <3>1
    <2>2. CASE m = 0
        BY <1>2, <2>1, <2>2
    <2>3. CASE m # 0
        <3>1. m - 1 \in Nat /\ m - 1 <= m /\ m - 1 \in 0..(m - 1)
            BY <2>3
        <3>2. IsWalk(W(m - 1), m - 1, h, nx) /\ IsWalk(W(m), m, h, nx)
            BY <1>1, <3>1
        <3>3. W(m - 1)[m - 1] = W(m)[m - 1]
            BY <3>1, <3>2, WalksAgree
        <3> HIDE DEF f
        <3> QED
            BY <1>2, <2>1, <2>3, <3>1, <3>3
    <2> QED
        BY <2>2, <2>3
<1>4. f = [m \in Nat |-> f[m]]
    OBVIOUS
<1> HIDE DEF f
<1> QED
    BY <1>3, <1>4 DEF IsEndlessWalk

\* An endless loop from the head of a ring goes through it once.
LEMMA EndlessWalkIsWay ==
    ASSUME NEW f, NEW L \in Nat, NEW S, NEW nx, NEW pv,
           IsEndlessWalk(f, S[0], nx), Leads(L, S, nx, pv)
    PROVE  \A i \in 0..(L + 1) : f[i] = S[i]
<1> DEFINE g == [i \in 0..(L + 1) |-> f[i]]
<1>1. \A i \in Nat : f[i] = IF i = 0 THEN S[0] ELSE nx[f[i - 1]]
    BY DEF IsEndlessWalk
<1>2. \A i \in 0..(L + 1) : g[i] = f[i]
    OBVIOUS
<1>3. g = [i \in 0..(L + 1) |-> g[i]]
    OBVIOUS
<1> HIDE DEF g
<1>4. \A i \in 0..(L + 1) : g[i] = IF i = 0 THEN S[0] ELSE nx[g[i - 1]]
    BY <1>1, <1>2
<1>5. IsWalk(g, L + 1, S[0], nx)
    BY <1>3, <1>4 DEF IsWalk
<1>6. L + 1 \in Nat /\ L + 1 <= L + 1
    OBVIOUS
<1> QED
    BY <1>2, <1>5, <1>6, WalkIsWay


\* A sequence without repetitions is not longer than the set of its elements.
LEMMA NotLonger ==
    ASSUME NEW A, IsFiniteSet(A), NEW s \in Seq(A), AllDifferent(s)
    PROVE  Len(s) <= Cardinality(A) /\ Cardinality(A) \in Nat
<1>1. s \in [1..Len(s) -> A] /\ Len(s) \in Nat
    OBVIOUS
<1>2. s \in Injection(1..Len(s), A)
    BY <1>1 DEF Injection, IsInjective, AllDifferent
<1>3. Cardinality(1..Len(s)) <= Cardinality(A)
    BY <1>2, FS_Injection
<1>4. Cardinality(1..Len(s)) = IF 1 > Len(s) THEN 0 ELSE Len(s) - 1 + 1
    <2>1. 1 \in Int /\ Len(s) \in Int
        BY <1>1
    <2> QED
        BY <2>1, FS_Interval, Zenon
<1>5. Cardinality(A) \in Nat
    BY FS_CardinalityType
<1> QED
    BY <1>1, <1>3, <1>4, <1>5

\* The operators on sequences that the abstract specifications use.
LEMMA SequenceForms ==
    ASSUME NEW V, NEW c \in Seq(V), NEW d \in Seq(V), NEW v \in V
    PROVE  /\ InsertedSeq(c, 0, v, d) => d = <<v>> \o c
           /\ InsertedSeq(c, Len(c), v, d) => d = Append(c, v)
           /\ \A k \in 1..Len(c) : DeletedSeq(c, k, d) => d = Cut(c, k)
           /\ Len(c) > 0 /\ DeletedSeq(c, 1, d) => d = Tail(c)
<1>1. Len(c) \in Nat
    OBVIOUS
<1>2. ASSUME InsertedSeq(c, 0, v, d) PROVE d = <<v>> \o c
    <2> DEFINE e == <<v>> \o c
    <2>1. /\ e \in Seq(V) /\ Len(e) = Len(c) + 1
          /\ \A i \in 1..(Len(c) + 1) : e[i] = IF i = 1 THEN v ELSE c[i - 1]
        BY ConsFacts
    <2>2. \A i \in 1..(Len(c) + 1) : d[i] = IF i = 1 THEN v ELSE c[i - 1]
        BY <1>1, <1>2 DEF InsertedSeq
    <2>3. Len(d) = Len(c) + 1
        BY <1>2 DEF InsertedSeq
    <2> HIDE DEF e
    <2>4. Len(d) = Len(e) /\ \A j \in 1..Len(d) : d[j] = e[j]
        BY <2>1, <2>2, <2>3
    <2>5. d = e
        BY <2>1, <2>4, SeqEqual
    <2> QED
        BY <2>5 DEF e
<1>3. ASSUME InsertedSeq(c, Len(c), v, d) PROVE d = Append(c, v)
    <2> DEFINE e == Append(c, v)
    <2>1. /\ e \in Seq(V) /\ Len(e) = Len(c) + 1
          /\ \A i \in 1..(Len(c) + 1) : e[i] = IF i = Len(c) + 1 THEN v ELSE c[i]
        BY AppendFacts
    <2>2. \A i \in 1..(Len(c) + 1) : d[i] = IF i = Len(c) + 1 THEN v ELSE c[i]
        BY <1>1, <1>3 DEF InsertedSeq
    <2>3. Len(d) = Len(c) + 1
        BY <1>3 DEF InsertedSeq
    <2> HIDE DEF e
    <2>4. Len(d) = Len(e) /\ \A j \in 1..Len(d) : d[j] = e[j]
        BY <2>1, <2>2, <2>3
    <2>5. d = e
        BY <2>1, <2>4, SeqEqual
    <2> QED
        BY <2>5 DEF e
<1>4. ASSUME NEW k \in 1..Len(c), DeletedSeq(c, k, d) PROVE d = Cut(c, k)
    <2> DEFINE e == Cut(c, k)
    <2>1. /\ e \in Seq(V) /\ Len(e) = Len(c) - 1
          /\ \A j \in 1..(Len(c) - 1) : e[j] = IF j < k THEN c[j] ELSE c[j + 1]
        BY CutFacts
    <2> HIDE DEF e
    <2>2. d = e
        BY <1>1, <1>4, <2>1, SeqEqual DEF DeletedSeq
    <2> QED
        BY <2>2 DEF e
<1>5. ASSUME Len(c) > 0, DeletedSeq(c, 1, d) PROVE d = Tail(c)
    <2> DEFINE e == Tail(c)
    <2>1. e \in Seq(V) /\ Len(e) = Len(c) - 1 /\ \A j \in 1..Len(e) : e[j] = c[j + 1]
        <3>1. c # <<>>
            BY <1>5
        <3> QED
            BY <3>1, HeadTailProperties
    <2>2. \A j \in 1..(Len(c) - 1) : d[j] = c[j + 1]
        BY <1>1, <1>5 DEF DeletedSeq
    <2>3. Len(d) = Len(c) - 1
        BY <1>5 DEF DeletedSeq
    <2> HIDE DEF e
    <2>4. Len(d) = Len(e) /\ \A j \in 1..Len(d) : d[j] = e[j]
        BY <2>1, <2>2, <2>3
    <2>5. d = e
        BY <2>1, <2>4, SeqEqual
    <2> QED
        BY <2>5 DEF e
<1> QED
    BY <1>2, <1>3, <1>4, <1>5

----------------------------------------------------------------------------
(* Several lists *)

\* The links lead round each of the lists.
Chains(Hs, ls, nx, pv) == \A h \in Hs : Leads(Len(ls[h]), Way(ls[h], h), nx, pv)

\* No node is at two places.
Apart(Hs, ls) == \A g, h \in Hs : \A i \in 1..Len(ls[g]), j \in 1..Len(ls[h]) :
                     ls[g][i] = ls[h][j] => g = h /\ i = j

\* The lists ls with heads Hs and nodes Ns; links that are not in a list are in B.
Several(Hs, Ns, B, ls, nx, pv) ==
    /\ Hs \cap Ns = {} /\ Hs \cup Ns \subseteq B
    /\ nx \in [Hs \cup Ns -> B] /\ pv \in [Hs \cup Ns -> B]
    /\ ls \in [Hs -> Seq(Ns)] /\ Apart(Hs, ls) /\ Chains(Hs, ls, nx, pv)

\* s are the nodes of the list with head h.
IsList(Hs, Ns, s, h, nx, pv) ==
    LET S == Way(s, h)
    IN  /\ s \in Seq(Ns) /\ Len(s) \in Nat /\ AllDifferent(s)
        /\ \A i \in 1..Len(s) : s[i] \in Ns /\ S[i] = s[i]
        /\ S[0] = h /\ S[Len(s) + 1] = h
        /\ Ring(Hs \cup Ns, Len(s), S, nx, pv)

\* The way round one of several lists.
LEMMA ChainFacts ==
    ASSUME NEW Hs, NEW Ns, Hs \cap Ns = {}, NEW ls \in [Hs -> Seq(Ns)], Apart(Hs, ls),
           NEW nx, NEW pv, Chains(Hs, ls, nx, pv), NEW h \in Hs
    PROVE  IsList(Hs, Ns, ls[h], h, nx, pv)
<1> DEFINE s == ls[h]
           S == Way(s, h)
           L == Len(s)
<1>1. s \in Seq(Ns) /\ L \in Nat /\ \A i \in 1..L : s[i] \in Ns
    OBVIOUS
<1>2. \A i, j \in 1..L : s[i] = s[j] => i = j
    BY DEF Apart
<1>3. \A i \in 1..L : S[i] = s[i]
    BY <1>1 DEF Way
<1>4. S[0] = h /\ S[L + 1] = h
    BY <1>1 DEF Way
<1>5. Leads(L, S, nx, pv)
    BY DEF Chains
<1>6. S = [i \in 0..(L + 1) |-> S[i]]
    BY DEF Way
<1>7. AllDifferent(s)
    BY <1>2 DEF AllDifferent
<1> HIDE DEF s, S, L
<1>8. /\ \A i \in 0..L : i = 0 \/ i \in 1..L
      /\ \A i \in 1..(L + 1) : i = L + 1 \/ i \in 1..L
      /\ \A i \in 0..(L + 1) : i = 0 \/ i = L + 1 \/ i \in 1..L
    BY <1>1
<1>9. \A i \in 1..L : S[i] \in Ns /\ S[i] # h
    BY <1>1, <1>3
<1>10. \A i, j \in 0..L : S[i] = S[j] => i = j
    BY <1>2, <1>3, <1>4, <1>8, <1>9
<1>11. \A i, j \in 1..(L + 1) : S[i] = S[j] => i = j
    BY <1>2, <1>3, <1>4, <1>8, <1>9
<1>12. \A i \in 0..(L + 1) : S[i] \in Hs \cup Ns
    BY <1>4, <1>8, <1>9
<1>13. S \in [0..(L + 1) -> Hs \cup Ns]
    BY <1>6, <1>12
<1>14. Ring(Hs \cup Ns, L, S, nx, pv)
    BY <1>5, <1>10, <1>11, <1>13 DEF Ring
<1> QED
    BY <1>1, <1>3, <1>4, <1>7, <1>14 DEF IsList, s, S, L

\* list_add_tail of a new node to one of several lists.
LEMMA ChainsAppend ==
    ASSUME NEW Hs, NEW Ns, NEW B, NEW ls, NEW nx, NEW pv, Several(Hs, Ns, B, ls, nx, pv),
           NEW h \in Hs, NEW nd \in Ns, \A g \in Hs : Avoids(ls[g], nd),
           NEW ls1, ls1 = [ls EXCEPT ![h] = Append(ls[h], nd)],
           NEW nx1, nx1 = AddTailNext(nx, pv, h, nd),
           NEW pv1, pv1 = AddTailPrev(nx, pv, h, nd)
    PROVE  Several(Hs, Ns, B, ls1, nx1, pv1)
<1> USE DEF Several
<1> DEFINE s == ls[h]
           t == Append(s, nd)
           L == Len(s)
           S == Way(s, h)
           T == Way(t, h)
           A == Hs \cup Ns
<1>1. /\ s \in Seq(Ns) /\ L \in Nat /\ AllDifferent(s)
      /\ \A i \in 1..L : s[i] \in Ns /\ S[i] = s[i]
      /\ S[0] = h /\ S[L + 1] = h
      /\ Ring(A, L, S, nx, pv)
    BY ChainFacts DEF IsList
<1>2. /\ t \in Seq(Ns) /\ Len(t) = L + 1
      /\ \A i \in 1..(L + 1) : t[i] = IF i = L + 1 THEN nd ELSE s[i]
    BY <1>1, AppendFacts
<1>3. /\ ls1[h] = t /\ \A g \in Hs : g # h => ls1[g] = ls[g]
      /\ ls1 \in [Hs -> Seq(Ns)]
    BY <1>2
<1>4. Avoids(s, nd) /\ nd # h /\ nd \in A /\ h \in A
    OBVIOUS
<1> HIDE DEF s, t, L, S, T
<1>17. \A g \in Hs : IsList(Hs, Ns, ls[g], g, nx, pv) /\ g \in A
    BY ChainFacts
<1>18. A \subseteq B /\ nx \in [A -> B] /\ pv \in [A -> B]
    OBVIOUS
<1> HIDE DEF A
<1>5. pv[h] = S[L] /\ S[L] \in A /\ nx[S[L]] = h
    <2>1. L \in 0..L /\ L \in 0..(L + 1)
        BY <1>1
    <2>2. S[L] \in A
        BY <1>1, <2>1 DEF Ring
    <2>3. pv[S[L + 1]] = S[L] /\ nx[S[L]] = S[L + 1]
        BY <1>1, <2>1 DEF Ring, Leads
    <2> QED
        BY <1>1, <2>2, <2>3
<1>6. \A i \in 0..(L + 1) : S[i] # nd
    <2>1. \A i \in 0..(L + 1) : i = 0 \/ i = L + 1 \/ i \in 1..L
        BY <1>1
    <2>2. \A i \in 1..L : S[i] # nd
        BY <1>1, <1>4 DEF Avoids, L
    <2> QED
        BY <1>1, <1>4, <2>1, <2>2
<1>7. S[L] # nd
    BY <1>1, <1>6
<1>8. nx1 = LinkNext(nx, nd, S[L], h) /\ pv1 = LinkPrev(pv, nd, S[L], h)
    BY <1>5 DEF AddTailNext, AddTailPrev
<1>9. /\ nx1 \in [A -> B] /\ pv1 \in [A -> B]
      /\ nx1[nd] = h /\ nx1[S[L]] = nd /\ pv1[nd] = S[L] /\ pv1[h] = nd
      /\ Writes(A, nd, S[L], h, nx, pv, nx1, pv1)
    <2> DEFINE p == S[L]
    <2>1. p \in A /\ p # nd /\ nx1 = LinkNext(nx, nd, p, h) /\ pv1 = LinkPrev(pv, nd, p, h)
        BY <1>5, <1>7, <1>8
    <2> HIDE DEF p
    <2>2. /\ nx1 \in [A -> B] /\ pv1 \in [A -> B]
          /\ nx1[nd] = h /\ nx1[p] = nd /\ pv1[nd] = p /\ pv1[h] = nd
          /\ Writes(A, nd, p, h, nx, pv, nx1, pv1)
        BY <1>4, <1>18, <2>1 DEF LinkNext, LinkPrev, Writes
    <2> QED
        BY <2>2 DEF p
<1>10. L \in 0..L /\ InsertedSeq(s, L, nd, t)
    BY <1>1, <1>2 DEF InsertedSeq, L
<1>11. Inserted(A, L, S, L, nd, T)
    <2>1. S \in [0..(L + 1) -> A]
        BY <1>1 DEF Ring
    <2> QED
        BY <1>1, <1>2, <1>4, <1>6, <1>10, <2>1, WayInsert DEF S, T, L
<1>12. Leads(Len(t), T, nx1, pv1)
    <2>1. /\ nx1[nd] = S[L + 1] /\ nx1[S[L]] = nd /\ pv1[nd] = S[L] /\ pv1[S[L + 1]] = nd
          /\ Writes(A, nd, S[L], S[L + 1], nx, pv, nx1, pv1)
        BY <1>1, <1>9
    <2>2. Leads(L + 1, T, nx1, pv1)
        BY <1>1, <1>4, <1>10, <1>11, <2>1, RingInsert
    <2> QED
        BY <1>2, <2>2
<1>13. ASSUME NEW g \in Hs, g # h PROVE Leads(Len(ls[g]), Way(ls[g], g), nx1, pv1)
    <2> DEFINE s2 == ls[g]
               M == Len(s2)
               S2 == Way(s2, g)
    <2>1. /\ s2 \in Seq(Ns) /\ M \in Nat
          /\ \A i \in 1..M : s2[i] \in Ns /\ S2[i] = s2[i]
          /\ S2[0] = g /\ S2[M + 1] = g
          /\ Ring(A, M, S2, nx, pv)
        BY <1>17 DEF IsList, A
    <2>2. \A i \in 1..M : s2[i] # nd
        BY DEF Avoids
    <2>3. \A i \in 1..M, j \in 1..L : s2[i] # s[j]
        BY <1>13 DEF Apart, s, L
    <2> HIDE DEF s2, M, S2
    <2>4. \A i \in 0..(M + 1) : i = 0 \/ i = M + 1 \/ i \in 1..M
        BY <2>1
    <2>5. S[L] = h \/ \E j \in 1..L : S[L] = s[j]
        <3>1. L = 0 \/ L \in 1..L
            BY <1>1
        <3> QED
            BY <1>1, <3>1
    <2>6. S[L] # g /\ nd # g
        BY <1>1, <1>13, <2>5
    <2>7. \A i \in 1..M : S2[i] # nd /\ S2[i] # S[L] /\ S2[i] # h
        BY <2>1, <2>2, <2>3, <2>5
    <2>8. \A i \in 0..(M + 1) : S2[i] \in A /\ S2[i] # nd /\ S2[i] # S[L] /\ S2[i] # h
        BY <1>13, <1>17, <2>1, <2>4, <2>6, <2>7 DEF Ring
    <2>9. \A i \in 0..(M + 1) : nx1[S2[i]] = nx[S2[i]] /\ pv1[S2[i]] = pv[S2[i]]
        BY <1>9, <2>8 DEF Writes
    <2>10. \A i \in 0..M : nx[S2[i]] = S2[i + 1] /\ pv[S2[i + 1]] = S2[i]
        BY <2>1 DEF Ring, Leads
    <2>11. \A i \in 0..M : i \in 0..(M + 1) /\ i + 1 \in 0..(M + 1)
        BY <2>1
    <2>12. Leads(M, S2, nx1, pv1)
        BY <2>9, <2>10, <2>11 DEF Leads
    <2> QED
        BY <2>12 DEF s2, M, S2
<1>14. Chains(Hs, ls1, nx1, pv1)
    <2> SUFFICES ASSUME NEW g \in Hs PROVE Leads(Len(ls1[g]), Way(ls1[g], g), nx1, pv1)
        BY DEF Chains
    <2>1. CASE g = h
        BY <1>3, <1>12, <2>1 DEF T
    <2>2. CASE g # h
        BY <1>3, <1>13, <2>2
    <2> QED
        BY <2>1, <2>2
<1>15. AllDifferent(t)
    BY <1>1, <1>2, <1>4, <1>10, InsertInjective DEF L
<1>16. Apart(Hs, ls1)
    <2> SUFFICES ASSUME NEW g \in Hs, NEW k \in Hs,
                        NEW i \in 1..Len(ls1[g]), NEW j \in 1..Len(ls1[k]), ls1[g][i] = ls1[k][j]
                 PROVE  g = k /\ i = j
        BY DEF Apart
    <2>1. ASSUME NEW g2 \in Hs, g2 # h, NEW i2 \in 1..Len(t), NEW j2 \in 1..Len(ls[g2])
          PROVE  t[i2] # ls[g2][j2]
        <3>1. t[i2] = nd \/ (i2 \in 1..L /\ t[i2] = s[i2])
            BY <1>1, <1>2
        <3>2. ls[g2][j2] # nd
            BY DEF Avoids
        <3>3. ASSUME NEW i3 \in 1..L PROVE s[i3] # ls[g2][j2]
            BY <2>1 DEF Apart, s, L
        <3> QED
            BY <3>1, <3>2, <3>3
    <2>2. CASE g = h /\ k = h
        BY <1>3, <1>15, <2>2 DEF AllDifferent
    <2>3. CASE g = h /\ k # h
        <3>1. i \in 1..Len(t) /\ j \in 1..Len(ls[k]) /\ t[i] = ls[k][j]
            BY <1>3, <2>3
        <3> QED
            BY <2>1, <2>3, <3>1
    <2>4. CASE g # h /\ k = h
        <3>1. j \in 1..Len(t) /\ i \in 1..Len(ls[g]) /\ t[j] = ls[g][i]
            BY <1>3, <2>4
        <3> QED
            BY <2>1, <2>4, <3>1
    <2>5. CASE g # h /\ k # h
        BY <1>3, <2>5 DEF Apart
    <2> QED
        BY <2>2, <2>3, <2>4, <2>5
<1> QED
    BY <1>3, <1>9, <1>14, <1>16 DEF A

----------------------------------------------------------------------------
(* Lists with one link *)

\* A function on 1..N is a sequence.
LEMMA FunctionIsSeq ==
    ASSUME NEW V, NEW N \in Nat, NEW f \in [1..N -> V] PROVE f \in Seq(V) /\ Len(f) = N
    BY SMTT(20)

\* The links nx lead from b through s to e.
LineAt(s, e, k) == IF k \in 1..Len(s) THEN s[k] ELSE e
Line(s, b, e, nx) == b = LineAt(s, e, 1) /\ \A k \in 1..Len(s) : nx[s[k]] = LineAt(s, e, k + 1)

\* A loop from b goes through s.
LEMMA LineWalk ==
    ASSUME NEW Ns, NEW s \in Seq(Ns), NEW C \in Nat, Len(s) <= C, NEW b, NEW e, NEW nx,
           Line(s, b, e, nx), NEW f, IsWalk(f, C, b, nx)
    PROVE  \A k \in 0..Len(s) : f[k] = LineAt(s, e, k + 1)
<1> DEFINE Bad == {k \in 0..Len(s) : f[k] # LineAt(s, e, k + 1)}
<1> SUFFICES ASSUME Bad # {} PROVE FALSE
    OBVIOUS
<1>0. Len(s) \in Nat
    OBVIOUS
<1>1. PICK k \in Bad : \A j \in Bad : k <= j
    <2>1. Bad \in SUBSET Nat
        OBVIOUS
    <2> HIDE DEF Bad
    <2> QED
        BY <2>1, Least
<1>2. k \in 0..Len(s) /\ f[k] # LineAt(s, e, k + 1)
    BY <1>1
<1>3. k # 0
    <2>1. f[0] = b
        BY DEF IsWalk
    <2> QED
        BY <1>2, <2>1 DEF Line
<1>4. k \in 1..Len(s) /\ k - 1 \in 0..Len(s) /\ k - 1 \notin Bad
    BY <1>0, <1>1, <1>3
<1>5. f[k - 1] = LineAt(s, e, (k - 1) + 1) /\ (k - 1) + 1 = k
    BY <1>4
<1>6. f[k - 1] = s[k]
    BY <1>4, <1>5 DEF LineAt
<1>7. k \in 0..C
    BY <1>0, <1>4
<1>8. f[k] = nx[f[k - 1]]
    BY <1>3, <1>7 DEF IsWalk
<1>9. nx[s[k]] = LineAt(s, e, k + 1)
    BY <1>4 DEF Line
<1> QED
    BY <1>2, <1>6, <1>8, <1>9

\* The links nx lead from the head h through s to e.
PathAt(s, h, e, k) == IF k = 0 THEN h ELSE LineAt(s, e, k)
Path(s, h, e, nx) == \A k \in 0..Len(s) : nx[PathAt(s, h, e, k)] = PathAt(s, h, e, k + 1)

LEMMA PathIsLine ==
    ASSUME NEW Ns, NEW s \in Seq(Ns), NEW h, NEW e, NEW nx
    PROVE  Path(s, h, e, nx) <=> Line(s, nx[h], e, nx)
<1>1. Len(s) \in Nat
    OBVIOUS
<1>2. /\ \A k \in 0..Len(s) : k = 0 \/ k \in 1..Len(s)
      /\ \A k \in 1..Len(s) : k \in 0..Len(s) /\ k # 0 /\ k + 1 # 0
      /\ 0 \in 0..Len(s) /\ 0 + 1 = 1 /\ 1 # 0
    BY <1>1
<1>3. \A k \in 1..Len(s) : PathAt(s, h, e, k) = s[k] /\ PathAt(s, h, e, k + 1) = LineAt(s, e, k + 1)
    BY <1>2 DEF PathAt, LineAt
<1>4. PathAt(s, h, e, 0) = h /\ PathAt(s, h, e, 1) = LineAt(s, e, 1)
    BY DEF PathAt
<1> QED
    BY <1>2, <1>3, <1>4 DEF Path, Line

\* The node nd linked in after p.
LinkedIn(A, p, nd, nx, nx1) ==
    /\ nx1[nd] = nx[p] /\ nx1[p] = nd
    /\ \A x \in A : x # nd /\ x # p => nx1[x] = nx[x]

LEMMA PathInsert ==
    ASSUME NEW Ns, NEW s \in Seq(Ns), NEW t \in Seq(Ns), NEW h, h \notin Ns, NEW e,
           AllDifferent(s), NEW nd \in Ns, Avoids(s, nd), NEW j \in 0..Len(s),
           InsertedSeq(s, j, nd, t), NEW nx, NEW nx1, Path(s, h, e, nx),
           LinkedIn(Ns \cup {h}, PathAt(s, h, e, j), nd, nx, nx1)
    PROVE  Path(t, h, e, nx1)
<1> DEFINE L == Len(s)
           S(k) == PathAt(s, h, e, k)
           T(k) == PathAt(t, h, e, k)
<1>1. /\ L \in Nat /\ j \in 0..L /\ Len(t) = L + 1
      /\ \A i \in 1..(L + 1) : t[i] = IF i <= j THEN s[i] ELSE IF i = j + 1 THEN nd ELSE s[i - 1]
    BY DEF InsertedSeq
<1>2. /\ S(0) = h /\ S(L + 1) = e /\ T(0) = h /\ T(L + 2) = e
      /\ \A k \in 1..L : S(k) = s[k] /\ S(k) \in Ns /\ S(k) # nd
      /\ \A k \in 1..(L + 1) : T(k) = t[k]
    BY <1>1 DEF PathAt, LineAt, Avoids
<1>3. \A k \in 0..L : nx[S(k)] = S(k + 1)
    BY DEF Path
<1>4. /\ nx1[nd] = nx[S(j)] /\ nx1[S(j)] = nd
      /\ \A x \in Ns \cup {h} : x # nd /\ x # S(j) => nx1[x] = nx[x]
    BY DEF LinkedIn
<1>5. \A i, k \in 1..L : s[i] = s[k] => i = k
    BY DEF AllDifferent
<1> HIDE DEF L, S, T
<1>6. \A k \in 0..L : k = 0 \/ k \in 1..L
    BY <1>1
<1>7. \A k \in 0..L : S(k) \in Ns \cup {h} /\ S(k) # nd
    BY <1>2, <1>6
<1>8. \A i, k \in 0..L : S(i) = S(k) => i = k
    BY <1>2, <1>5, <1>6
<1>9. \A k \in 0..(L + 2) : T(k) = IF k <= j THEN S(k) ELSE IF k = j + 1 THEN nd ELSE S(k - 1)
    <2> SUFFICES ASSUME NEW k \in 0..(L + 2)
                 PROVE  T(k) = IF k <= j THEN S(k) ELSE IF k = j + 1 THEN nd ELSE S(k - 1)
        OBVIOUS
    <2>1. CASE k = 0
        BY <1>1, <1>2, <2>1
    <2>2. CASE k = L + 2
        <3>1. ~(k <= j) /\ k # j + 1 /\ k - 1 = L + 1
            BY <1>1, <2>2
        <3> QED
            BY <1>2, <2>2, <3>1
    <2>3. CASE k \in 1..(L + 1)
        <3>1. T(k) = IF k <= j THEN s[k] ELSE IF k = j + 1 THEN nd ELSE s[k - 1]
            BY <1>1, <1>2, <2>3
        <3>2. (k <= j => k \in 1..L) /\ (~(k <= j) /\ k # j + 1 => k - 1 \in 1..L)
            BY <1>1, <2>3
        <3> QED
            BY <1>2, <3>1, <3>2
    <2> QED
        BY <1>1, <2>1, <2>2, <2>3
<1>10. ASSUME NEW k \in 0..(L + 1) PROVE nx1[T(k)] = T(k + 1)
    <2>1. k \in 0..(L + 2) /\ k + 1 \in 0..(L + 2)
        BY <1>1
    <2>2. CASE k < j
        <3>1. k \in 0..L /\ k # j /\ k <= j /\ k + 1 <= j
            BY <1>1, <2>2
        <3>2. T(k) = S(k) /\ T(k + 1) = S(k + 1)
            BY <1>9, <2>1, <3>1
        <3>3. S(k) # S(j)
            BY <1>1, <1>8, <3>1
        <3> QED
            BY <1>3, <1>4, <1>7, <3>1, <3>2, <3>3
    <2>3. CASE k = j
        <3>1. T(k) = S(j) /\ T(k + 1) = nd
            BY <1>1, <1>9, <2>1, <2>3
        <3> QED
            BY <1>4, <3>1
    <2>4. CASE k = j + 1
        <3>1. T(k) = nd /\ T(k + 1) = S(j + 1)
            <4>1. ~(k <= j) /\ ~(k + 1 <= j) /\ k + 1 # j + 1 /\ (k + 1) - 1 = j + 1
                BY <1>1, <2>4
            <4> QED
                BY <1>9, <2>1, <2>4, <4>1
        <3> QED
            BY <1>1, <1>3, <1>4, <3>1
    <2>5. CASE k > j + 1
        <3>1. /\ ~(k <= j) /\ k # j + 1 /\ ~(k + 1 <= j) /\ k + 1 # j + 1 /\ (k + 1) - 1 = k
              /\ k - 1 \in 0..L /\ k - 1 # j /\ (k - 1) + 1 = k
            BY <1>1, <2>5
        <3>2. T(k) = S(k - 1) /\ T(k + 1) = S(k)
            BY <1>9, <2>1, <3>1
        <3>3. S(k - 1) # S(j)
            BY <1>1, <1>8, <3>1
        <3>4. nx[S(k - 1)] = S(k)
            BY <1>3, <3>1
        <3> QED
            BY <1>4, <1>7, <3>1, <3>2, <3>3, <3>4
    <2> QED
        BY <1>1, <2>2, <2>3, <2>4, <2>5
<1> QED
    BY <1>1, <1>10 DEF Path, T

\* The node nd, which follows p, taken out and left with any link.
TakenOut(A, p, nd, nx, nx1) ==
    /\ nx1[p] = nx[nd]
    /\ \A x \in A : x # nd /\ x # p => nx1[x] = nx[x]

LEMMA PathDelete ==
    ASSUME NEW Ns, NEW s \in Seq(Ns), NEW t \in Seq(Ns), NEW h, h \notin Ns, NEW e,
           AllDifferent(s), NEW j \in 1..Len(s), DeletedSeq(s, j, t),
           NEW nx, NEW nx1, Path(s, h, e, nx),
           TakenOut(Ns \cup {h}, PathAt(s, h, e, j - 1), s[j], nx, nx1)
    PROVE  Path(t, h, e, nx1)
<1> DEFINE L == Len(s)
           S(k) == PathAt(s, h, e, k)
           T(k) == PathAt(t, h, e, k)
<1>1. /\ L \in Nat /\ j \in 1..L /\ Len(t) = L - 1
      /\ \A i \in 1..(L - 1) : t[i] = IF i < j THEN s[i] ELSE s[i + 1]
    BY DEF DeletedSeq
<1>2. /\ S(0) = h /\ S(L + 1) = e /\ T(0) = h /\ T(L) = e
      /\ \A k \in 1..L : S(k) = s[k] /\ S(k) \in Ns
      /\ \A k \in 1..(L - 1) : T(k) = t[k]
    BY <1>1 DEF PathAt, LineAt
<1>3. \A k \in 0..L : nx[S(k)] = S(k + 1)
    BY DEF Path
<1>4. /\ nx1[S(j - 1)] = nx[s[j]]
      /\ \A x \in Ns \cup {h} : x # s[j] /\ x # S(j - 1) => nx1[x] = nx[x]
    BY DEF TakenOut
<1>5. \A i, k \in 1..L : s[i] = s[k] => i = k
    BY DEF AllDifferent
<1> HIDE DEF L, S, T
<1>6. \A k \in 0..L : k = 0 \/ k \in 1..L
    BY <1>1
<1>7. \A k \in 0..L : S(k) \in Ns \cup {h}
    BY <1>2, <1>6
<1>8. \A i, k \in 0..L : S(i) = S(k) => i = k
    BY <1>2, <1>5, <1>6
<1>9. \A k \in 0..L : T(k) = IF k < j THEN S(k) ELSE S(k + 1)
    <2> SUFFICES ASSUME NEW k \in 0..L PROVE T(k) = IF k < j THEN S(k) ELSE S(k + 1)
        OBVIOUS
    <2>1. CASE k = 0
        BY <1>1, <1>2, <2>1
    <2>2. CASE k = L
        BY <1>1, <1>2, <2>2
    <2>3. CASE k \in 1..(L - 1)
        <3>1. k \in 1..L /\ k + 1 \in 1..L
            BY <1>1, <2>3
        <3> QED
            BY <1>1, <1>2, <2>3, <3>1
    <2> QED
        BY <1>1, <2>1, <2>2, <2>3
<1>10. ASSUME NEW k \in 0..(L - 1) PROVE nx1[T(k)] = T(k + 1)
    <2>1. k \in 0..L /\ k + 1 \in 0..L /\ j \in 0..L /\ j - 1 \in 0..L /\ S(j) = s[j]
        BY <1>1, <1>2
    <2>2. CASE k < j - 1
        <3>1. k # j /\ k # j - 1 /\ k < j /\ k + 1 < j
            BY <1>1, <2>1, <2>2
        <3>2. T(k) = S(k) /\ T(k + 1) = S(k + 1) /\ S(k) # S(j) /\ S(k) # S(j - 1)
            BY <1>8, <1>9, <2>1, <3>1
        <3> QED
            BY <1>3, <1>4, <1>7, <2>1, <3>2
    <2>3. CASE k = j - 1
        <3>1. k < j /\ ~(k + 1 < j) /\ (k + 1) + 1 = j + 1
            BY <1>1, <2>3
        <3>2. T(k) = S(j - 1) /\ T(k + 1) = S(j + 1)
            BY <1>9, <2>1, <2>3, <3>1
        <3> QED
            BY <1>3, <1>4, <2>1, <3>2
    <2>4. CASE k >= j
        <3>1. ~(k < j) /\ ~(k + 1 < j) /\ k + 1 # j /\ k + 1 # j - 1
            BY <1>1, <2>1, <2>4
        <3>2. T(k) = S(k + 1) /\ T(k + 1) = S((k + 1) + 1) /\ S(k + 1) # S(j) /\ S(k + 1) # S(j - 1)
            BY <1>8, <1>9, <2>1, <3>1
        <3> QED
            BY <1>3, <1>4, <1>7, <2>1, <3>2
    <2> QED
        BY <1>1, <2>2, <2>3, <2>4
<1> QED
    BY <1>1, <1>10 DEF Path, T

\* The elements of s, and of what an insertion or a deletion makes of it.
Members(s) == {s[k] : k \in DOMAIN s}

LEMMA InsertedSet ==
    ASSUME NEW Ns, NEW s \in Seq(Ns), NEW t \in Seq(Ns), NEW nd \in Ns, NEW j \in 0..Len(s),
           InsertedSeq(s, j, nd, t)
    PROVE  Members(t) = Members(s) \cup {nd}
<1> DEFINE L == Len(s)
<1>1. /\ L \in Nat /\ j \in 0..L /\ DOMAIN t = 1..(L + 1) /\ DOMAIN s = 1..L
      /\ \A i \in 1..(L + 1) : t[i] = IF i <= j THEN s[i] ELSE IF i = j + 1 THEN nd ELSE s[i - 1]
    BY DEF InsertedSeq
<1>2. Members(t) = {t[i] : i \in 1..(L + 1)} /\ Members(s) = {s[i] : i \in 1..L}
    BY <1>1 DEF Members
<1> HIDE DEF L
<1>3. \A i \in 1..(L + 1) : t[i] = nd \/ \E k \in 1..L : t[i] = s[k]
    <2> SUFFICES ASSUME NEW i \in 1..(L + 1) PROVE t[i] = nd \/ \E k \in 1..L : t[i] = s[k]
        OBVIOUS
    <2>1. (i <= j => i \in 1..L) /\ (~(i <= j) /\ i # j + 1 => i - 1 \in 1..L)
        BY <1>1
    <2> QED
        BY <1>1, <2>1
<1>4. \A k \in 1..L : \E i \in 1..(L + 1) : s[k] = t[i]
    <2> SUFFICES ASSUME NEW k \in 1..L PROVE \E i \in 1..(L + 1) : s[k] = t[i]
        OBVIOUS
    <2>1. CASE k <= j
        <3>1. k \in 1..(L + 1) /\ t[k] = s[k]
            BY <1>1, <2>1
        <3> QED
            BY <3>1
    <2>2. CASE ~(k <= j)
        <3>1. k + 1 \in 1..(L + 1) /\ ~(k + 1 <= j) /\ k + 1 # j + 1 /\ (k + 1) - 1 = k
            BY <1>1, <2>2
        <3>2. t[k + 1] = s[k]
            BY <1>1, <3>1
        <3> QED
            BY <3>1, <3>2
    <2> QED
        BY <2>1, <2>2
<1>5. j + 1 \in 1..(L + 1) /\ t[j + 1] = nd
    BY <1>1
<1> QED
    BY <1>2, <1>3, <1>4, <1>5

LEMMA DeletedSet ==
    ASSUME NEW Ns, NEW s \in Seq(Ns), NEW t \in Seq(Ns), AllDifferent(s), NEW j \in 1..Len(s),
           DeletedSeq(s, j, t)
    PROVE  Members(t) = Members(s) \ {s[j]}
<1> DEFINE L == Len(s)
<1>1. /\ L \in Nat /\ j \in 1..L /\ DOMAIN t = 1..(L - 1) /\ DOMAIN s = 1..L
      /\ \A i \in 1..(L - 1) : t[i] = IF i < j THEN s[i] ELSE s[i + 1]
    BY DEF DeletedSeq
<1>2. Members(t) = {t[i] : i \in 1..(L - 1)} /\ Members(s) = {s[i] : i \in 1..L}
    BY <1>1 DEF Members
<1>3. \A i, k \in 1..L : s[i] = s[k] => i = k
    BY DEF AllDifferent
<1> HIDE DEF L
<1>4. \A i \in 1..(L - 1) : t[i] # s[j] /\ \E k \in 1..L : t[i] = s[k]
    <2> SUFFICES ASSUME NEW i \in 1..(L - 1) PROVE t[i] # s[j] /\ \E k \in 1..L : t[i] = s[k]
        OBVIOUS
    <2>1. CASE i < j
        <3>1. i \in 1..L /\ i # j /\ t[i] = s[i]
            BY <1>1, <2>1
        <3> QED
            BY <1>1, <1>3, <3>1
    <2>2. CASE ~(i < j)
        <3>1. i + 1 \in 1..L /\ i + 1 # j /\ t[i] = s[i + 1]
            BY <1>1, <2>2
        <3> QED
            BY <1>1, <1>3, <3>1
    <2> QED
        BY <2>1, <2>2
<1>5. \A k \in 1..L : k # j => \E i \in 1..(L - 1) : s[k] = t[i]
    <2> SUFFICES ASSUME NEW k \in 1..L, k # j PROVE \E i \in 1..(L - 1) : s[k] = t[i]
        OBVIOUS
    <2>1. CASE k < j
        <3>1. k \in 1..(L - 1) /\ t[k] = s[k]
            BY <1>1, <2>1
        <3> QED
            BY <3>1
    <2>2. CASE ~(k < j)
        <3>1. k - 1 \in 1..(L - 1) /\ ~(k - 1 < j) /\ (k - 1) + 1 = k
            BY <1>1, <2>2
        <3>2. t[k - 1] = s[k]
            BY <1>1, <3>1
        <3> QED
            BY <3>1, <3>2
    <2> QED
        BY <2>1, <2>2
<1>6. ASSUME NEW x PROVE x \in Members(t) <=> x \in Members(s) /\ x # s[j]
    <2>1. CASE x \in Members(t)
        <3>1. PICK i \in 1..(L - 1) : x = t[i]
            BY <1>2, <2>1
        <3> QED
            BY <1>2, <1>4, <2>1, <3>1
    <2>2. CASE x \in Members(s) /\ x # s[j]
        <3>1. PICK k \in 1..L : x = s[k]
            BY <1>2, <2>2
        <3> QED
            BY <1>2, <1>5, <2>2, <3>1
    <2> QED
        BY <2>1, <2>2
<1> QED
    BY <1>6

\* s from its end.
Backwards(s) == [i \in 1..Len(s) |-> s[(Len(s) - i) + 1]]

\* For each k up to Len(d), f[k] are the last k elements of d, in reverse order.
IsPrinted(f, d) == f = [k \in 0..Len(d) |-> IF k = 0 THEN <<>> ELSE Append(f[k - 1], d[Len(d) - k + 1])]

LEMMA PrintedInReverse ==
    ASSUME NEW V, NEW d \in Seq(V)
    PROVE  /\ \E f : IsPrinted(f, d)
           /\ \A f : IsPrinted(f, d) => f[Len(d)] = Backwards(d)
<1> DEFINE L == Len(d)
           R(k) == [i \in 1..k |-> d[(L - i) + 1]]
           g == [k \in 0..L |-> R(k)]
<1>1. L \in Nat /\ \A i \in 1..L : d[i] \in V
    OBVIOUS
<1> HIDE DEF L
<1>2. \A k \in 0..L : R(k) \in Seq(V) /\ Len(R(k)) = k /\ \A i \in 1..k : R(k)[i] = d[(L - i) + 1]
    <2> TAKE k \in 0..L
    <2>1. \A i \in 1..k : (L - i) + 1 \in 1..L
        BY <1>1
    <2>2. R(k) \in [1..k -> V] /\ k \in Nat
        BY <1>1, <2>1
    <2>3. \A i \in 1..k : R(k)[i] = d[(L - i) + 1]
        OBVIOUS
    <2> HIDE DEF R
    <2> QED
        BY <2>2, <2>3, FunctionIsSeq
<1>3. R(0) = <<>>
    <2>1. R(0) \in Seq(V) /\ Len(R(0)) = 0
        BY <1>1, <1>2
    <2> HIDE DEF R
    <2> QED
        BY <2>1, EmptySeq
<1>4. \A k \in 1..L : R(k) = Append(R(k - 1), d[(L - k) + 1])
    <2> TAKE k \in 1..L
    <2> DEFINE r == R(k)
               q == R(k - 1)
               v == d[(L - k) + 1]
    <2>1. k \in 0..L /\ k - 1 \in 0..L /\ k \in Nat /\ (L - k) + 1 \in 1..L /\ k \in 1..k
        BY <1>1
    <2>2. r \in Seq(V) /\ Len(r) = k /\ \A i \in 1..k : r[i] = d[(L - i) + 1]
        BY <1>2, <2>1
    <2>3. q \in Seq(V) /\ Len(q) = k - 1 /\ \A i \in 1..(k - 1) : q[i] = d[(L - i) + 1]
        BY <1>2, <2>1
    <2>4. v \in V
        BY <1>1, <2>1
    <2>5. r[k] = v
        BY <2>1, <2>2
    <2> HIDE DEF r, q, v
    <2>6. /\ Append(q, v) \in Seq(V) /\ Len(Append(q, v)) = k
          /\ \A i \in 1..k : Append(q, v)[i] = IF i = k THEN v ELSE q[i]
        <3>1. /\ Append(q, v) \in Seq(V) /\ Len(Append(q, v)) = Len(q) + 1
              /\ \A i \in 1..(Len(q) + 1) : Append(q, v)[i] = IF i = Len(q) + 1 THEN v ELSE q[i]
            BY <2>3, <2>4, AppendFacts
        <3>2. Len(q) + 1 = k
            BY <2>1, <2>3
        <3> QED
            BY <3>1, <3>2
    <2>7. \A i \in 1..k : i = k \/ i \in 1..(k - 1)
        BY <2>1
    <2>8. Len(r) = Len(Append(q, v)) /\ \A i \in 1..Len(r) : r[i] = Append(q, v)[i]
        BY <2>2, <2>3, <2>5, <2>6, <2>7
    <2>9. r = Append(q, v)
        BY <2>2, <2>6, <2>8, SeqEqual
    <2> QED
        BY <2>9 DEF r, q, v
<1>5. R(L) = Backwards(d)
    BY DEF Backwards, L
<1>6. \A k \in 0..L : g[k] = R(k)
    OBVIOUS
<1>7. \A k \in 0..L : k = 0 \/ (k \in 1..L /\ k - 1 \in 0..L /\ (L - k) + 1 = L - k + 1)
    BY <1>1
<1> HIDE DEF R
<1>8. \A k \in 0..L : g[k] = IF k = 0 THEN <<>> ELSE Append(g[k - 1], d[L - k + 1])
    BY <1>3, <1>4, <1>6, <1>7
<1>9. IsPrinted(g, d)
    <2>1. g = [k \in 0..L |-> g[k]]
        OBVIOUS
    <2> HIDE DEF g
    <2>2. g = [k \in 0..L |-> IF k = 0 THEN <<>> ELSE Append(g[k - 1], d[L - k + 1])]
        BY <1>8, <2>1
    <2> QED
        BY <2>2 DEF IsPrinted, L
<1>10. ASSUME NEW f, IsPrinted(f, d) PROVE f[L] = R(L)
    <2> DEFINE Bad == {k \in 0..L : f[k] # R(k)}
    <2>1. \A k \in 0..L : f[k] = IF k = 0 THEN <<>> ELSE Append(f[k - 1], d[L - k + 1])
        BY <1>10 DEF IsPrinted, L
    <2>2. Bad = {}
        <3> SUFFICES ASSUME Bad # {} PROVE FALSE
            OBVIOUS
        <3>1. Bad \in SUBSET Nat
            BY <1>1
        <3>2. PICK k \in Bad : \A j \in Bad : k <= j
            <4> HIDE DEF Bad
            <4> QED
                BY <3>1, Least
        <3>3. k \in 0..L /\ f[k] # R(k) /\ k - 1 \notin Bad
            BY <1>1, <3>2
        <3>4. k = 0 \/ (k \in 1..L /\ k # 0 /\ k - 1 \in 0..L /\ (L - k) + 1 = L - k + 1)
            BY <1>1, <3>3
        <3>5. k \in 1..L => f[k - 1] = R(k - 1)
            BY <3>3, <3>4
        <3> QED
            BY <1>3, <1>4, <2>1, <3>3, <3>4, <3>5
    <2>3. L \in 0..L
        BY <1>1
    <2> QED
        BY <2>2, <2>3
<1> QED
    BY <1>5, <1>9, <1>10 DEF L

\* The links of the first m nodes of s are turned round, and those of the others not.
TurnedTo(s, m, h, p, c, nx) ==
    /\ p = LineAt(s, h, m) /\ c = LineAt(s, h, m + 1)
    /\ \A k \in 1..m : nx[s[k]] = LineAt(s, h, k - 1)
    /\ \A k \in (m + 1)..Len(s) : nx[s[k]] = LineAt(s, h, k + 1)

\* The nodes that are turned round, from the last one back, and the others, are
\* lists of their own.
LEMMA TurnedLines ==
    ASSUME NEW Ns, NEW s \in Seq(Ns), AllDifferent(s), NEW m \in 0..Len(s), NEW e, NEW p, NEW c,
           NEW nx, TurnedTo(s, m, e, p, c, nx)
    PROVE  \E r, q \in Seq(Ns) : /\ AllDifferent(r) /\ Line(r, p, e, nx)
                                 /\ AllDifferent(q) /\ Line(q, c, e, nx)
                                 /\ Backwards(r) \o q = s
<1> DEFINE L == Len(s)
           r == [k \in 1..m |-> s[(m - k) + 1]]
           q == [k \in 1..(L - m) |-> s[m + k]]
<1>1. L \in Nat /\ m \in 0..L /\ \A k \in 1..L : s[k] \in Ns
    OBVIOUS
<1>2. /\ p = LineAt(s, e, m) /\ c = LineAt(s, e, m + 1)
      /\ \A k \in 1..m : nx[s[k]] = LineAt(s, e, k - 1)
      /\ \A k \in (m + 1)..L : nx[s[k]] = LineAt(s, e, k + 1)
    BY DEF TurnedTo
<1>4. /\ \A k \in 1..L : LineAt(s, e, k) = s[k]
      /\ LineAt(s, e, 0) = e /\ LineAt(s, e, L + 1) = e
    BY <1>1 DEF LineAt
<1>5. \A j, k \in 1..L : s[j] = s[k] => j = k
    BY DEF AllDifferent
<1> HIDE DEF L
<1>6. /\ r \in Seq(Ns) /\ Len(r) = m /\ \A k \in 1..m : r[k] = s[(m - k) + 1]
    <2>1. \A k \in 1..m : (m - k) + 1 \in 1..L
        BY <1>1
    <2>2. r \in [1..m -> Ns] /\ m \in Nat
        BY <1>1, <2>1
    <2> QED
        BY <2>2, FunctionIsSeq
<1>7. /\ q \in Seq(Ns) /\ Len(q) = L - m /\ \A k \in 1..(L - m) : q[k] = s[m + k]
    <2>1. \A k \in 1..(L - m) : m + k \in 1..L
        BY <1>1
    <2>2. q \in [1..(L - m) -> Ns] /\ L - m \in Nat
        BY <1>1, <2>1
    <2> QED
        BY <2>2, FunctionIsSeq
<1> HIDE DEF r, q
<1>8. AllDifferent(r)
    <2> SUFFICES ASSUME NEW j \in 1..m, NEW k \in 1..m, r[j] = r[k] PROVE j = k
        BY <1>6 DEF AllDifferent
    <2>1. (m - j) + 1 \in 1..L /\ (m - k) + 1 \in 1..L
        BY <1>1
    <2>2. s[(m - j) + 1] = s[(m - k) + 1]
        BY <1>6
    <2>3. (m - j) + 1 = (m - k) + 1
        BY <1>5, <2>1, <2>2
    <2> QED
        BY <1>1, <2>3
<1>9. AllDifferent(q)
    <2> SUFFICES ASSUME NEW j \in 1..(L - m), NEW k \in 1..(L - m), q[j] = q[k] PROVE j = k
        BY <1>7 DEF AllDifferent
    <2>1. m + j \in 1..L /\ m + k \in 1..L
        BY <1>1
    <2>2. s[m + j] = s[m + k]
        BY <1>7
    <2>3. m + j = m + k
        BY <1>5, <2>1, <2>2
    <2> QED
        BY <1>1, <2>3
<1>10. Line(r, p, e, nx)
    <2>1. \A k \in 1..m : LineAt(r, e, k) = LineAt(s, e, (m - k) + 1)
        <3>1. \A k \in 1..m : (m - k) + 1 \in 1..L
            BY <1>1
        <3> QED
            BY <1>4, <1>6, <3>1 DEF LineAt
    <2>2. LineAt(r, e, m + 1) = e
        BY <1>1, <1>6 DEF LineAt
    <2>3. p = LineAt(r, e, 1)
        <3>1. CASE m = 0
            BY <1>2, <1>4, <2>2, <3>1
        <3>2. CASE m # 0
            <4>1. 1 \in 1..m /\ (m - 1) + 1 = m
                BY <1>1, <3>2
            <4> QED
                BY <1>2, <2>1, <4>1
        <3> QED
            BY <3>1, <3>2
    <2>4. ASSUME NEW k \in 1..m PROVE nx[r[k]] = LineAt(r, e, k + 1)
        <3>1. (m - k) + 1 \in 1..m /\ ((m - k) + 1) - 1 = m - k
            BY <1>1
        <3>2. nx[r[k]] = LineAt(s, e, m - k)
            BY <1>2, <1>6, <3>1
        <3>3. CASE k = m
            BY <1>1, <1>4, <2>2, <3>2, <3>3
        <3>4. CASE k # m
            <4>1. k + 1 \in 1..m /\ (m - (k + 1)) + 1 = m - k
                BY <1>1, <3>4
            <4> QED
                BY <2>1, <3>2, <4>1
        <3> QED
            BY <3>3, <3>4
    <2> QED
        BY <1>6, <2>3, <2>4 DEF Line
<1>11. Line(q, c, e, nx)
    <2>1. \A k \in 1..(L - m) : LineAt(q, e, k) = LineAt(s, e, m + k)
        <3>1. \A k \in 1..(L - m) : m + k \in 1..L
            BY <1>1
        <3> QED
            BY <1>4, <1>7, <3>1 DEF LineAt
    <2>2. LineAt(q, e, (L - m) + 1) = e
        BY <1>1, <1>7 DEF LineAt
    <2>3. c = LineAt(q, e, 1)
        <3>1. CASE m = L
            BY <1>1, <1>2, <1>4, <2>2, <3>1
        <3>2. CASE m # L
            <4>1. 1 \in 1..(L - m)
                BY <1>1, <3>2
            <4> QED
                BY <1>2, <2>1, <4>1
        <3> QED
            BY <3>1, <3>2
    <2>4. ASSUME NEW k \in 1..(L - m) PROVE nx[q[k]] = LineAt(q, e, k + 1)
        <3>1. m + k \in (m + 1)..L /\ (m + k) + 1 = m + (k + 1)
            BY <1>1
        <3>2. nx[q[k]] = LineAt(s, e, m + (k + 1))
            BY <1>2, <1>7, <3>1
        <3>3. CASE k = L - m
            <4>1. m + (k + 1) = L + 1 /\ k + 1 = (L - m) + 1
                BY <1>1, <3>3
            <4> QED
                BY <1>4, <2>2, <3>2, <4>1
        <3>4. CASE k # L - m
            <4>1. k + 1 \in 1..(L - m)
                BY <1>1, <3>4
            <4> QED
                BY <2>1, <3>2, <4>1
        <3> QED
            BY <3>3, <3>4
    <2> QED
        BY <1>7, <2>3, <2>4 DEF Line
<1> DEFINE v == Backwards(r)
<1>14. v \in Seq(Ns) /\ Len(v) = m /\ \A k \in 1..m : v[k] = s[k]
    <2>1. v = [k \in 1..m |-> r[(m - k) + 1]]
        BY <1>6 DEF Backwards
    <2>2. \A k \in 1..m : (m - k) + 1 \in 1..m /\ (m - ((m - k) + 1)) + 1 = k /\ k \in 1..L
        BY <1>1
    <2>3. \A k \in 1..m : r[(m - k) + 1] = s[k] /\ s[k] \in Ns
        BY <1>1, <1>6, <2>2
    <2> HIDE DEF v
    <2>4. v \in [1..m -> Ns] /\ m \in Nat /\ \A k \in 1..m : v[k] = s[k]
        BY <1>1, <2>1, <2>3
    <2> QED
        BY <2>4, FunctionIsSeq
<1> HIDE DEF v
<1>15. /\ v \o q \in Seq(Ns) /\ Len(v \o q) = L
       /\ \A k \in 1..L : (v \o q)[k] = IF k <= m THEN v[k] ELSE q[k - m]
    <2>1. /\ v \o q \in Seq(Ns) /\ Len(v \o q) = Len(v) + Len(q)
          /\ \A k \in 1..(Len(v) + Len(q)) : (v \o q)[k] = IF k <= Len(v) THEN v[k] ELSE q[k - Len(v)]
        BY <1>7, <1>14, ConcatProperties
    <2>2. Len(v) = m /\ Len(v) + Len(q) = L
        BY <1>1, <1>7, <1>14
    <2> QED
        BY <2>1, <2>2
<1>16. \A k \in 1..L : (v \o q)[k] = s[k]
    <2>1. ASSUME NEW k \in 1..L, k <= m PROVE v[k] = s[k]
        BY <1>1, <1>14, <2>1
    <2>2. ASSUME NEW k \in 1..L, ~(k <= m) PROVE q[k - m] = s[k]
        <3>1. k - m \in 1..(L - m) /\ m + (k - m) = k
            BY <1>1, <2>2
        <3> QED
            BY <1>7, <3>1
    <2> QED
        BY <1>15, <2>1, <2>2
<1>17. v \o q = s
    BY <1>15, <1>16, SeqEqual DEF L
<1> QED
    BY <1>6, <1>7, <1>8, <1>9, <1>10, <1>11, <1>17 DEF v

\* Of the links of nodes and of c, that of c now leads to p.
Relinked(Ns, c, p, nx, nx1) == nx1[c] = p /\ \A x \in Ns : x # c => nx1[x] = nx[x]

\* One more node is turned round.
LEMMA TurnedOneMore ==
    ASSUME NEW Ns, NEW s \in Seq(Ns), AllDifferent(s), NEW m \in 0..Len(s), NEW h, h \notin Ns,
           NEW p, NEW c, c # h, NEW nx, TurnedTo(s, m, h, p, c, nx),
           NEW nx1, Relinked(Ns, c, p, nx, nx1)
    PROVE  m + 1 \in 0..Len(s) /\ c \in Ns /\ TurnedTo(s, m + 1, h, c, nx[c], nx1)
<1> DEFINE L == Len(s)
           A(k) == LineAt(s, h, k)
<1>1. L \in Nat /\ m \in 0..L /\ \A k \in 1..L : s[k] \in Ns
    OBVIOUS
<1> HIDE DEF L
<1>2. /\ p = A(m) /\ c = A(m + 1)
      /\ \A k \in 1..m : nx[s[k]] = A(k - 1)
      /\ \A k \in (m + 1)..L : nx[s[k]] = A(k + 1)
    BY DEF TurnedTo, L
<1>0. nx1[c] = p /\ \A x \in Ns : x # c => nx1[x] = nx[x]
    BY DEF Relinked
<1>3. m + 1 \in 1..L /\ c = s[m + 1]
    BY <1>2 DEF LineAt, L
<1> HIDE DEF A
<1>4. \A k \in 1..L : nx1[s[k]] = IF k = m + 1 THEN A(m) ELSE nx[s[k]]
    <2> TAKE k \in 1..L
    <2>1. k # m + 1 => s[k] # s[m + 1]
        BY <1>3 DEF AllDifferent, L
    <2> QED
        BY <1>0, <1>1, <1>2, <1>3, <2>1
<1>5. \A k \in 1..(m + 1) : nx1[s[k]] = A(k - 1)
    <2> TAKE k \in 1..(m + 1)
    <2>1. k \in 1..L /\ (k = m + 1 \/ (k # m + 1 /\ k \in 1..m)) /\ (m + 1) - 1 = m
        BY <1>1, <1>3
    <2> QED
        BY <1>2, <1>4, <2>1
<1>6. \A k \in ((m + 1) + 1)..L : nx1[s[k]] = A(k + 1)
    <2> TAKE k \in ((m + 1) + 1)..L
    <2>1. k \in 1..L /\ k # m + 1 /\ k \in (m + 1)..L
        BY <1>1
    <2> QED
        BY <1>2, <1>4, <2>1
<1>7. m + 1 \in (m + 1)..L /\ m + 1 \in 0..L
    BY <1>1, <1>3
<1>8. nx[c] = A((m + 1) + 1)
    BY <1>2, <1>3, <1>7
<1> QED
    BY <1>1, <1>2, <1>3, <1>5, <1>6, <1>7, <1>8 DEF TurnedTo, A, L

\* All nodes are turned round, and the head is linked to the last one.
LEMMA TurnedAll ==
    ASSUME NEW Ns, NEW s \in Seq(Ns), AllDifferent(s), NEW m \in 0..Len(s), NEW h, h \notin Ns,
           NEW p, NEW nx, TurnedTo(s, m, h, p, h, nx), NEW nx1, Relinked(Ns, h, p, nx, nx1),
           NEW t, t = Backwards(s)
    PROVE  /\ t \in Seq(Ns) /\ Len(t) = Len(s) /\ \A k \in 1..Len(s) : t[k] = s[(Len(s) - k) + 1]
           /\ AllDifferent(t) /\ Members(t) = Members(s) /\ Path(t, h, h, nx1)
<1> DEFINE L == Len(s)
           A(k) == LineAt(s, h, k)
           T(k) == PathAt(t, h, h, k)
<1>1. L \in Nat /\ m \in 0..L /\ \A k \in 1..L : s[k] \in Ns
    OBVIOUS
<1>0. t = [k \in 1..L |-> s[(L - k) + 1]]
    BY DEF Backwards
<1> HIDE DEF L
<1>15. nx1[h] = p /\ \A x \in Ns : nx1[x] = nx[x]
    BY DEF Relinked
<1>2. \A k : (k \in 1..L => A(k) = s[k]) /\ (k \notin 1..L => A(k) = h)
    BY DEF LineAt, L
<1>3. m = L
    <2>1. h = A(m + 1)
        BY DEF TurnedTo
    <2>2. m + 1 \notin 1..L
        BY <1>1, <1>2, <2>1
    <2> QED
        BY <1>1, <2>2
<1>4. p = A(L) /\ \A k \in 1..L : nx[s[k]] = A(k - 1)
    BY <1>3 DEF TurnedTo
<1> HIDE DEF A
<1>5. \A k \in 1..L : (L - k) + 1 \in 1..L
    BY <1>1
<1>6. t \in Seq(Ns) /\ Len(t) = L /\ \A k \in 1..L : t[k] = s[(L - k) + 1]
    <2>1. t \in [1..L -> Ns] /\ \A k \in 1..L : t[k] = s[(L - k) + 1]
        BY <1>0, <1>1, <1>5
    <2> QED
        BY <1>1, <2>1, FunctionIsSeq
<1>7. AllDifferent(t)
    <2> SUFFICES ASSUME NEW j \in 1..L, NEW k \in 1..L, t[j] = t[k] PROVE j = k
        BY <1>6 DEF AllDifferent
    <2>1. s[(L - j) + 1] = s[(L - k) + 1] /\ (L - j) + 1 \in 1..L /\ (L - k) + 1 \in 1..L
        BY <1>5, <1>6
    <2>2. (L - j) + 1 = (L - k) + 1
        BY <2>1 DEF AllDifferent, L
    <2> QED
        BY <1>1, <2>2
<1>8. Members(t) = Members(s)
    <2>1. Members(s) = {s[k] : k \in 1..L} /\ Members(t) = {t[k] : k \in 1..L}
        <3>1. DOMAIN s = 1..L /\ DOMAIN t = 1..L
            BY <1>6 DEF L
        <3> QED
            BY <3>1 DEF Members
    <2>2. \A k \in 1..L : s[k] = t[(L - k) + 1]
        <3> TAKE k \in 1..L
        <3>1. (L - ((L - k) + 1)) + 1 = k
            BY <1>1
        <3>2. t[(L - k) + 1] = s[(L - ((L - k) + 1)) + 1]
            BY <1>5, <1>6
        <3> QED
            BY <3>1, <3>2
    <2>3. \A k \in 1..L : t[k] \in Members(s)
        BY <1>5, <1>6, <2>1
    <2>4. Members(s) \subseteq Members(t)
        BY <1>5, <2>1, <2>2
    <2> QED
        BY <2>1, <2>3, <2>4
<1>9. \A k \in 0..L : T(k) = A((L - k) + 1)
    <2> TAKE k \in 0..L
    <2>1. k = 0 \/ (k \in 1..L /\ k # 0 /\ (L - k) + 1 \in 1..L)
        BY <1>1
    <2>2. (L - 0) + 1 \notin 1..L
        BY <1>1
    <2> QED
        BY <1>2, <1>6, <2>1, <2>2 DEF PathAt, LineAt
<1>10. T(L + 1) = A(0)
    <2>1. L + 1 \notin 1..L /\ 0 \notin 1..L /\ L + 1 # 0
        BY <1>1
    <2> QED
        BY <1>2, <1>6, <2>1 DEF PathAt, LineAt
<1>11. T(0) = h
    BY DEF PathAt
<1> HIDE DEF T
<1>12. \A k \in 1..L : nx1[s[k]] = A(k - 1)
    BY <1>1, <1>4, <1>15
<1>13. \A k \in 0..L : nx1[T(k)] = T(k + 1)
    <2> TAKE k \in 0..L
    <2>1. T(k + 1) = A(L - k)
        <3>1. k = L \/ (k + 1 \in 0..L /\ (L - (k + 1)) + 1 = L - k)
            BY <1>1
        <3>2. k = L => L - k = 0
            BY <1>1
        <3> QED
            BY <1>9, <1>10, <3>1, <3>2
    <2>2. k = 0 \/ ((L - k) + 1 \in 1..L /\ ((L - k) + 1) - 1 = L - k)
        BY <1>1
    <2>3. CASE k = 0
        <3>1. L - 0 = L
            BY <1>1
        <3> QED
            BY <1>4, <1>11, <1>15, <2>1, <2>3, <3>1
    <2>4. CASE (L - k) + 1 \in 1..L /\ ((L - k) + 1) - 1 = L - k
        <3>1. T(k) = s[(L - k) + 1]
            BY <1>2, <1>9, <2>4
        <3>2. nx1[s[(L - k) + 1]] = A(((L - k) + 1) - 1)
            BY <1>12, <2>4
        <3> QED
            BY <2>1, <2>4, <3>1, <3>2
    <2> QED
        BY <2>2, <2>3, <2>4
<1>14. Path(t, h, h, nx1)
    BY <1>6, <1>13 DEF Path, T
<1> QED
    BY <1>6, <1>7, <1>8, <1>14 DEF L

=============================================================================
