----------------------------- MODULE DlistProofs -----------------------------
(***************************************************************************)
(* Proofs about Dlist, for every heap and every set of values: no link and *)
(* no cursor leads to a node that was freed, and the list implements the   *)
(* double-ended queue of module Deque.                                     *)
(***************************************************************************)
EXTENDS Dlist, ListOpsProofs

\* The allocated nodes are the head and those of s, and the links lead through
\* them in this order and back.
Holds(s) == /\ head \in Addr /\ AllDifferent(s) /\ Avoids(s, head)
            /\ \A a \in Addr : a \in alive <=> a = head \/ \E i \in 1..Len(s) : s[i] = a
            /\ Leads(Len(s), Way(s, head), next, prev)

\* The inductive invariant.  dlist_destroy always deletes the first node.
IInv == /\ TypeOK
        /\ pc \in {"fresh", "gone"} => alive = {} /\ head = NULL
        /\ pc \in {"ready", "destroying"} => \E s \in Seq(Addr) : Holds(s)
        /\ pc = "destroying" => cur = next[head]

----------------------------------------------------------------------------
(* The ring of a list *)

\* What Holds says about the way round the list.
LEMMA HoldsFacts ==
    ASSUME NEW s \in Seq(Addr), Holds(s)
    PROVE  LET S == Way(s, head)
               L == Len(s)
           IN  /\ L \in Nat /\ S[0] = head /\ S[L + 1] = head
               /\ \A i \in 1..L : S[i] = s[i] /\ s[i] \in Addr
               /\ \A i \in 0..(L + 1) : S[i] \in Addr /\ S[i] \in alive
               /\ \A a \in alive : a \in Addr => /\ \E i \in 0..L : a = S[i]
                                                 /\ \E i \in 1..(L + 1) : a = S[i]
               /\ Ring(Addr, L, S, next, prev)
<1> DEFINE S == Way(s, head)
           L == Len(s)
<1>1. L \in Nat /\ S[0] = head /\ S[L + 1] = head
    BY DEF Way
<1>2. \A i \in 1..L : S[i] = s[i] /\ s[i] \in Addr /\ s[i] # head
    BY DEF Way, Holds, Avoids
<1>3. S = [i \in 0..(L + 1) |-> S[i]]
    BY DEF Way
<1>4. /\ \A i, j \in 1..L : s[i] = s[j] => i = j
      /\ head \in Addr
      /\ \A a \in Addr : a \in alive <=> a = head \/ \E i \in 1..L : s[i] = a
      /\ Leads(L, S, next, prev)
    BY DEF Holds, AllDifferent
<1> HIDE DEF S, L
<1>5. \A i \in 0..(L + 1) : i = 0 \/ i = L + 1 \/ i \in 1..L
    BY <1>1
<1>6. \A i \in 0..(L + 1) : S[i] \in Addr /\ S[i] \in alive
    BY <1>1, <1>2, <1>4, <1>5
<1>7. \A a \in alive : a \in Addr => (\E i \in 0..L : a = S[i]) /\ \E i \in 1..(L + 1) : a = S[i]
    <2> SUFFICES ASSUME NEW a \in alive, a \in Addr
                 PROVE  (\E i \in 0..L : a = S[i]) /\ \E i \in 1..(L + 1) : a = S[i]
        OBVIOUS
    <2>1. CASE a = head
        <3>1. 0 \in 0..L /\ L + 1 \in 1..(L + 1)
            BY <1>1
        <3> QED
            BY <1>1, <2>1, <3>1
    <2>2. CASE a # head
        <3>1. PICK i \in 1..L : s[i] = a
            BY <1>4, <2>2
        <3>2. i \in 0..L /\ i \in 1..(L + 1) /\ S[i] = a
            BY <1>1, <1>2, <3>1
        <3> QED
            BY <3>2
    <2> QED
        BY <2>1, <2>2
<1>8. /\ \A i, j \in 0..L : S[i] = S[j] => i = j
      /\ \A i, j \in 1..(L + 1) : S[i] = S[j] => i = j
    BY <1>1, <1>2, <1>4
<1>9. Ring(Addr, L, S, next, prev)
    <2>1. S \in [0..(L + 1) -> Addr]
        BY <1>3, <1>6
    <2> QED
        BY <1>4, <1>8, <2>1 DEF Ring
<1> QED
    BY <1>1, <1>2, <1>6, <1>7, <1>9 DEF S, L

\* A node that is linked after the k-th node of the way.
LEMMA InsertHolds ==
    ASSUME TypeOK, NEW s \in Seq(Addr), Holds(s), NEW k \in 0..Len(s),
           NEW a \in Addr \ alive, NEW t \in Seq(Addr), InsertedSeq(s, k, a, t),
           alive' = alive \cup {a}, head' = head,
           next' = LinkNext(next, a, Way(s, head)[k], Way(s, head)[k + 1]),
           prev' = LinkPrev(prev, a, Way(s, head)[k], Way(s, head)[k + 1])
    PROVE  /\ Holds(t)'
           /\ next' \in [Addr -> Addr \cup {NULL}] /\ prev' \in [Addr -> Addr \cup {NULL}]
<1> DEFINE S == Way(s, head)
           T == Way(t, head)
           L == Len(s)
<1>1. /\ L \in Nat /\ Ring(Addr, L, S, next, prev) /\ S \in [0..(L + 1) -> Addr]
      /\ \A i \in 0..(L + 1) : S[i] \in Addr /\ S[i] \in alive
    BY HoldsFacts DEF Ring
<1>2. k \in 0..L /\ k \in 0..(L + 1) /\ k + 1 \in 0..(L + 1) /\ Len(t) = L + 1
    BY <1>1 DEF InsertedSeq
<1>3. next' = LinkNext(next, a, S[k], S[k + 1]) /\ prev' = LinkPrev(prev, a, S[k], S[k + 1])
    OBVIOUS
<1>4. Inserted(Addr, L, S, k, a, T)
    <2>1. \A i \in 0..(Len(s) + 1) : Way(s, head)[i] # a
        BY <1>1
    <2>2. head \in Addr /\ Way(s, head) \in [0..(Len(s) + 1) -> Addr]
        BY <1>1 DEF Holds
    <2> QED
        BY <2>1, <2>2, WayInsert
<1> HIDE DEF S, T, L
<1>5. S[k] \in Addr /\ S[k + 1] \in Addr /\ S[k] # a /\ S[k + 1] # a
    BY <1>1, <1>2
<1>6. /\ next' \in [Addr -> Addr \cup {NULL}] /\ prev' \in [Addr -> Addr \cup {NULL}]
      /\ next'[a] = S[k + 1] /\ next'[S[k]] = a /\ prev'[a] = S[k] /\ prev'[S[k + 1]] = a
      /\ Writes(Addr, a, S[k], S[k + 1], next, prev, next', prev')
    <2>1. /\ next \in [Addr -> Addr \cup {NULL}] /\ prev \in [Addr -> Addr \cup {NULL}]
          /\ next' = [next EXCEPT ![a] = S[k + 1], ![S[k]] = a]
          /\ prev' = [prev EXCEPT ![a] = S[k], ![S[k + 1]] = a]
        BY <1>3 DEF TypeOK, LinkNext, LinkPrev
    <2>2. next' \in [Addr -> Addr \cup {NULL}] /\ prev' \in [Addr -> Addr \cup {NULL}]
        BY <1>5, <2>1
    <2>3. next'[a] = S[k + 1] /\ next'[S[k]] = a /\ prev'[a] = S[k] /\ prev'[S[k + 1]] = a
        BY <1>5, <2>1
    <2>4. Writes(Addr, a, S[k], S[k + 1], next, prev, next', prev')
        BY <1>5, <2>1 DEF Writes
    <2> QED
        BY <2>2, <2>3, <2>4
<1>7. Leads(L + 1, T, next', prev')
    BY <1>1, <1>2, <1>4, <1>6, RingInsert
<1>8. AllDifferent(t) /\ Avoids(t, head)
    <2>1. Avoids(s, a)
        BY DEF Holds, Avoids
    <2>2. AllDifferent(t)
        BY <2>1, InsertInjective DEF Holds
    <2>3. head # a
        BY DEF Holds
    <2>4. ASSUME NEW i \in 1..Len(t) PROVE t[i] # head
        <3>1. L \in Nat /\ k \in 0..L /\ Len(t) = L + 1
              /\ t[i] = IF i <= k THEN s[i] ELSE IF i = k + 1 THEN a ELSE s[i - 1]
            BY <1>1, <1>2 DEF InsertedSeq, L
        <3>2. \A j \in 1..L : s[j] # head
            BY DEF Holds, Avoids, L
        <3>3. i <= k => i \in 1..L
            BY <3>1
        <3>4. ~(i <= k) /\ i # k + 1 => i - 1 \in 1..L
            BY <3>1
        <3> QED
            BY <2>3, <3>1, <3>2, <3>3, <3>4
    <2> QED
        BY <2>2, <2>4 DEF Avoids
<1>9. ASSUME NEW x \in Addr
      PROVE  x \in alive' <=> x = head \/ \E i \in 1..Len(t) : t[i] = x
    <2>1. k + 1 \in 1..Len(t) /\ t[k + 1] = a
        BY <1>1, <1>2 DEF InsertedSeq, L
    <2>2. ASSUME NEW i \in 1..L PROVE \E j \in 1..Len(t) : t[j] = s[i]
        <3>1. CASE i <= k
            BY <1>1, <1>2, <3>1 DEF InsertedSeq, L
        <3>2. CASE i > k
            <4>1. i + 1 \in 1..Len(t) /\ ~(i + 1 <= k) /\ i + 1 # k + 1 /\ (i + 1) - 1 = i
                BY <1>1, <1>2, <3>2
            <4>2. t[i + 1] = s[i]
                BY <1>2, <4>1 DEF InsertedSeq, L
            <4> QED
                BY <4>1, <4>2
        <3> QED
            BY <1>1, <1>2, <3>1, <3>2
    <2>3. ASSUME NEW j \in 1..Len(t) PROVE t[j] = a \/ \E i \in 1..L : t[j] = s[i]
        BY <1>1, <1>2 DEF InsertedSeq, L
    <2> QED
        BY <2>1, <2>2, <2>3 DEF Holds, L
<1> QED
    BY <1>2, <1>6, <1>7, <1>8, <1>9 DEF Holds, T

\* dlist_del of the k-th node.
LEMMA DeleteHolds ==
    ASSUME TypeOK, NEW s \in Seq(Addr), Holds(s), NEW k \in 1..Len(s),
           dlist_del(s[k]), head' = head
    PROVE  /\ Holds(Cut(s, k))' /\ Cut(s, k) \in Seq(Addr)
           /\ next' \in [Addr -> Addr \cup {NULL}] /\ prev' \in [Addr -> Addr \cup {NULL}]
           /\ alive' \subseteq Addr
<1> DEFINE S == Way(s, head)
           L == Len(s)
           t == Cut(s, k)
           T == Way(t, head)
           n == s[k]
<1>1. /\ L \in Nat /\ Ring(Addr, L, S, next, prev) /\ S \in [0..(L + 1) -> Addr]
      /\ S[k] = n /\ n \in Addr /\ head \in Addr /\ n # head
    BY HoldsFacts DEF Ring, Holds, Avoids
<1>2. t \in Seq(Addr) /\ DeletedSeq(s, k, t)
    BY CutFacts DEF DeletedSeq
<1>3. Deleted(Addr, L, S, k, T)
    <2> HIDE DEF t
    <2> QED
        BY <1>1, <1>2, WayDelete
<1>4. /\ next' = [next EXCEPT ![prev[n]] = next[n], ![n] = NULL]
      /\ prev' = [prev EXCEPT ![next[n]] = prev[n], ![n] = NULL]
      /\ alive' = alive \ {n}
    BY DEF dlist_del
<1>5. AllDifferent(t) /\ Drawn(t, s)
    <2> HIDE DEF t
    <2> QED
        BY <1>2, DeleteInjective DEF Holds
<1>6. k \in 1..L /\ Len(t) = L - 1
    BY <1>2 DEF DeletedSeq
<1> HIDE DEF S, T, L, n, t
<1>7. /\ k - 1 \in 0..L /\ k \in 0..L /\ k \in 1..(L + 1) /\ k + 1 \in 1..(L + 1)
      /\ k - 1 \in 0..(L + 1) /\ k + 1 \in 0..(L + 1)
      /\ k - 1 # k /\ k # k + 1 /\ (k - 1) + 1 = k
    BY <1>1, <1>6
<1>8. /\ S[k - 1] \in Addr /\ S[k + 1] \in Addr /\ S[k] # S[k - 1] /\ S[k] # S[k + 1]
      /\ prev[n] = S[k - 1] /\ next[n] = S[k + 1]
    <2>1. S[k - 1] \in Addr /\ S[k + 1] \in Addr /\ S[k] # S[k - 1] /\ S[k] # S[k + 1]
        BY <1>1, <1>7 DEF Ring
    <2>2. \A i \in 0..L : next[S[i]] = S[i + 1] /\ prev[S[i + 1]] = S[i]
        BY <1>1 DEF Ring, Leads
    <2> QED
        BY <1>1, <1>7, <2>1, <2>2
<1>9. /\ next' \in [Addr -> Addr \cup {NULL}] /\ prev' \in [Addr -> Addr \cup {NULL}]
      /\ next'[S[k - 1]] = S[k + 1] /\ prev'[S[k + 1]] = S[k - 1]
      /\ Writes(Addr, S[k], S[k - 1], S[k + 1], next, prev, next', prev')
    BY <1>1, <1>4, <1>8 DEF TypeOK, Writes
<1>10. Leads(L - 1, T, next', prev')
    BY <1>1, <1>3, <1>6, <1>9, RingDelete
<1>11. Avoids(t, head)
    BY <1>5 DEF Holds, Avoids, Drawn
<1>12. ASSUME NEW x \in Addr
       PROVE  x \in alive' <=> x = head \/ \E i \in 1..Len(t) : t[i] = x
    <2>1. ASSUME NEW i \in 1..L, i # k PROVE \E j \in 1..Len(t) : t[j] = s[i]
        <3>1. CASE i < k
            BY <1>1, <1>2, <1>6, <3>1 DEF DeletedSeq, L
        <3>2. CASE i > k
            <4>1. i - 1 \in 1..Len(t) /\ ~(i - 1 < k) /\ (i - 1) + 1 = i
                BY <1>1, <1>6, <3>2
            <4>2. t[i - 1] = s[i]
                BY <1>2, <1>6, <4>1 DEF DeletedSeq, L
            <4> QED
                BY <4>1, <4>2
        <3> QED
            BY <1>1, <1>6, <2>1, <3>1, <3>2
    <2>2. ASSUME NEW j \in 1..Len(t) PROVE \E i \in 1..L : i # k /\ t[j] = s[i]
        BY <1>1, <1>2, <1>6 DEF DeletedSeq, L
    <2>3. \A i \in 1..L : i # k => s[i] # n
        BY <1>6 DEF Holds, AllDifferent, L, n
    <2>4. x \in alive <=> x = head \/ \E i \in 1..L : s[i] = x
        BY DEF Holds, L
    <2>5. n = s[k]
        BY DEF n
    <2> QED
        BY <1>1, <1>4, <2>1, <2>2, <2>3, <2>4, <2>5
<1> QED
    BY <1>1, <1>2, <1>4, <1>5, <1>6, <1>9, <1>10, <1>11, <1>12 DEF Holds, TypeOK, T, t

----------------------------------------------------------------------------
(* The refinement mapping *)

\* The payloads of the nodes of s.
Payload(s) == [i \in 1..Len(s) |-> priv[s[i]]]

\* The loop of dlist_find goes through the nodes of s, and the refinement
\* mapping yields their payloads.
LEMMA ContentsIs ==
    TypeOK => \A s \in Seq(Addr) : Holds(s) =>
                  /\ Len(s) <= Cardinality(Addr) /\ Cardinality(Addr) \in Nat
                  /\ \A i \in 0..(Len(s) + 1) : Step[i] = Way(s, head)[i]
                  /\ Contents = Payload(s)
<1> SUFFICES ASSUME TypeOK, NEW s \in Seq(Addr), Holds(s)
             PROVE  /\ Len(s) <= Cardinality(Addr) /\ Cardinality(Addr) \in Nat
                    /\ \A i \in 0..(Len(s) + 1) : Step[i] = Way(s, head)[i]
                    /\ Contents = Payload(s)
    OBVIOUS
<1> DEFINE L == Len(s)
           N == Cardinality(Addr) + 1
           S == Way(s, head)
           IsSize(n) == Step[n + 1] = head /\ \A i \in 1..n : Step[i] # head
<1>1. L <= Cardinality(Addr) /\ Cardinality(Addr) \in Nat /\ L \in Nat
    BY NotLonger, AddrAssumption DEF Holds
<1>2. N \in Nat /\ L + 1 <= N
    BY <1>1
<1>3. IsWalk(Step, N, head, next)
    <2>0. \E f : IsWalk(f, N, head, next)
        <3> HIDE DEF N
        <3> QED
            BY <1>2, WalkExists
    <2>1. \E f : f = [i \in 0..N |-> IF i = 0 THEN head ELSE next[f[i - 1]]]
        BY <2>0 DEF IsWalk
    <2>2. Step = [i \in 0..N |-> IF i = 0 THEN head ELSE next[Step[i - 1]]]
        BY <2>1 DEF Step
    <2> QED
        BY <2>2 DEF IsWalk
<1>4. S[0] = head /\ Leads(L, S, next, prev)
    BY <1>1 DEF Way, Holds
<1>5. \A i \in 0..(L + 1) : Step[i] = S[i]
    <2> HIDE DEF S, L, N
    <2> QED
        BY <1>1, <1>2, <1>3, <1>4, WalkIsWay
<1>6. S[L + 1] = head /\ \A i \in 1..L : S[i] = s[i] /\ s[i] # head
    BY HoldsFacts DEF Holds, Avoids
<1>7. Step[L + 1] = head /\ \A i \in 1..L : Step[i] = s[i] /\ Step[i] # head
    <2> HIDE DEF S, L
    <2> QED
        BY <1>1, <1>5, <1>6
<1>8. Size = L
    <2>1. L \in 0..Cardinality(Addr) /\ IsSize(L)
        <3> HIDE DEF L
        <3> QED
            BY <1>1, <1>7
    <2>2. ASSUME NEW n \in 0..Cardinality(Addr), IsSize(n) PROVE n = L
        <3>1. CASE n < L
            <4>1. n + 1 \in 1..L
                BY <1>1, <3>1
            <4> QED
                BY <1>7, <2>2, <4>1
        <3>2. CASE L < n
            <4>1. L + 1 \in 1..n
                BY <1>1, <3>2
            <4> QED
                BY <1>7, <2>2, <4>1
        <3> QED
            BY <1>1, <3>1, <3>2
    <2>3. Size = CHOOSE n \in 0..Cardinality(Addr) : IsSize(n)
        BY DEF Size
    <2> HIDE DEF IsSize, L
    <2> QED
        BY <2>1, <2>2, <2>3
<1>9. head # NULL
    BY AddrAssumption DEF Holds
<1>10. Contents = [i \in 1..L |-> priv[Step[i]]]
    BY <1>8, <1>9 DEF Contents
<1> QED
    BY <1>1, <1>5, <1>7, <1>10 DEF Payload

\* What the values in a list are.
Payloads == Values \cup {0}

LEMMA PayloadType ==
    TypeOK => \A s \in Seq(Addr) :
                  /\ Payload(s) \in Seq(Payloads) /\ Len(Payload(s)) = Len(s)
                  /\ \A i \in 1..Len(s) : Payload(s)[i] = priv[s[i]]
<1> SUFFICES ASSUME TypeOK, NEW s \in Seq(Addr)
             PROVE  /\ Payload(s) \in Seq(Payloads) /\ Len(Payload(s)) = Len(s)
                    /\ \A i \in 1..Len(s) : Payload(s)[i] = priv[s[i]]
    OBVIOUS
<1>1. Len(s) \in Nat /\ \A i \in 1..Len(s) : s[i] \in Addr
    OBVIOUS
<1>2. \A i \in 1..Len(s) : priv[s[i]] \in Payloads
    BY <1>1 DEF TypeOK, Payloads
<1>3. Payload(s) \in [1..Len(s) -> Payloads]
    BY <1>2 DEF Payload
<1> QED
    BY <1>1, <1>3, LenProperties DEF Payload

\* The contents of a list and their length.
ContentsAre == \A s \in Seq(Addr) : Holds(s) =>
                   /\ Contents \in Seq(Payloads) /\ Len(Contents) = Len(s)
                   /\ \A i \in 1..Len(s) : Contents[i] = priv[s[i]]

LEMMA ContentsType == TypeOK => ContentsAre
  BY ContentsIs, PayloadType DEF ContentsAre

\* The same after a step.
LEMMA ContentsTypeNext == TypeOK' => ContentsAre'
<1>1. TypeOK => ContentsAre
    BY ContentsType
<1> QED
    BY <1>1, PTL

\* A node added after the k-th adds its payload after the k-th value.
LEMMA InsertContents ==
    ASSUME TypeOK, TypeOK', NEW s \in Seq(Addr), Holds(s), NEW k \in 0..Len(s),
           NEW a \in Addr \ alive, NEW t \in Seq(Addr), InsertedSeq(s, k, a, t), Holds(t)',
           NEW v \in Values, priv' = [priv EXCEPT ![a] = v]
    PROVE  /\ Contents \in Seq(Payloads) /\ Contents' \in Seq(Payloads)
           /\ v \in Payloads /\ Len(Contents) = Len(s)
           /\ InsertedSeq(Contents, k, v, Contents')
<1>1. /\ Contents \in Seq(Payloads) /\ Len(Contents) = Len(s)
      /\ \A i \in 1..Len(s) : Contents[i] = priv[s[i]]
    BY ContentsType DEF ContentsAre
<1>2. ContentsAre'
    BY ContentsTypeNext
<1>3. /\ Contents' \in Seq(Payloads) /\ Len(Contents') = Len(t)
      /\ \A i \in 1..Len(t) : Contents'[i] = priv'[t[i]]
    BY <1>2 DEF ContentsAre
<1>4. /\ \A i \in 1..Len(s) : s[i] \in Addr /\ s[i] # a
      /\ Len(s) \in Nat /\ k \in 0..Len(s)
    BY DEF Holds
<1>5. priv'[a] = v /\ \A i \in 1..Len(s) : priv'[s[i]] = priv[s[i]]
    BY <1>4 DEF TypeOK
<1>6. /\ Len(t) = Len(s) + 1
      /\ \A i \in 1..(Len(s) + 1) : t[i] = IF i <= k THEN s[i]
                                           ELSE IF i = k + 1 THEN a ELSE s[i - 1]
    BY DEF InsertedSeq
<1>7. ASSUME NEW i \in 1..(Len(s) + 1)
      PROVE  Contents'[i] = IF i <= k THEN Contents[i]
                            ELSE IF i = k + 1 THEN v ELSE Contents[i - 1]
    <2>1. Contents'[i] = priv'[t[i]]
        BY <1>3, <1>6
    <2>2. CASE i <= k
        <3>1. i \in 1..Len(s) /\ t[i] = s[i]
            BY <1>4, <1>6, <2>2
        <3> QED
            BY <1>1, <1>5, <2>1, <2>2, <3>1
    <2>3. CASE i = k + 1
        <3>1. ~(i <= k) /\ t[i] = a
            BY <1>4, <1>6, <2>3
        <3> QED
            BY <1>5, <2>1, <2>3, <3>1
    <2>4. CASE i > k + 1
        <3>1. i - 1 \in 1..Len(s) /\ t[i] = s[i - 1] /\ ~(i <= k) /\ i # k + 1
            BY <1>4, <1>6, <2>4
        <3> QED
            BY <1>1, <1>5, <2>1, <3>1
    <2> QED
        BY <1>4, <2>2, <2>3, <2>4
<1> QED
    BY <1>1, <1>3, <1>6, <1>7 DEF InsertedSeq, Payloads

\* Deleting the k-th node takes the k-th value away.
LEMMA DeleteContents ==
    ASSUME TypeOK, TypeOK', NEW s \in Seq(Addr), Holds(s), NEW k \in 1..Len(s),
           Holds(Cut(s, k))', priv' = priv
    PROVE  /\ Contents \in Seq(Payloads) /\ Len(Contents) = Len(s)
           /\ Contents[k] = priv[s[k]]
           /\ Contents' = Cut(Contents, k)
           /\ k = 1 => Contents # <<>> /\ Contents' = Tail(Contents)
                       /\ priv[s[k]] = Head(Contents)
<1> DEFINE t == Cut(s, k)
<1>1. /\ Contents \in Seq(Payloads) /\ Len(Contents) = Len(s)
      /\ \A i \in 1..Len(s) : Contents[i] = priv[s[i]]
    BY ContentsType DEF ContentsAre
<1>2. ContentsAre'
    BY ContentsTypeNext
<1>3. /\ t \in Seq(Addr) /\ Len(t) = Len(s) - 1
      /\ \A j \in 1..(Len(s) - 1) : t[j] = IF j < k THEN s[j] ELSE s[j + 1]
    BY CutFacts
<1>4. Holds(t)' /\ Len(s) \in Nat /\ k \in 1..Len(s)
    OBVIOUS
<1> HIDE DEF t
<1>5. /\ Contents' \in Seq(Payloads) /\ Len(Contents') = Len(t)
      /\ \A i \in 1..Len(t) : Contents'[i] = priv[t[i]]
    BY <1>2, <1>3, <1>4 DEF ContentsAre
<1>6. ASSUME NEW j \in 1..(Len(s) - 1)
      PROVE  Contents'[j] = IF j < k THEN Contents[j] ELSE Contents[j + 1]
    <2>1. Contents'[j] = priv[t[j]]
        BY <1>3, <1>5
    <2>2. j \in 1..Len(s) /\ j + 1 \in 1..Len(s)
        BY <1>4
    <2> QED
        BY <1>1, <1>3, <2>1, <2>2
<1>7. DeletedSeq(Contents, k, Contents')
    BY <1>1, <1>3, <1>5, <1>6 DEF DeletedSeq
<1>8. Payloads # {} /\ 0 \in Payloads
    BY DEF Payloads
<1>9. Contents' = Cut(Contents, k)
    BY <1>1, <1>4, <1>5, <1>7, <1>8, SequenceForms
<1>10. ASSUME k = 1
       PROVE  Contents # <<>> /\ Contents' = Tail(Contents) /\ priv[s[k]] = Head(Contents)
    <2>1. Len(Contents) > 0
        BY <1>1, <1>4
    <2>2. Contents # <<>> /\ Head(Contents) = Contents[1]
        BY <1>1, <2>1
    <2>3. Contents' = Tail(Contents)
        BY <1>1, <1>5, <1>7, <1>8, <1>10, <2>1, SequenceForms
    <2> QED
        BY <1>1, <1>4, <1>10, <2>2, <2>3
<1> QED
    BY <1>1, <1>4, <1>9, <1>10

----------------------------------------------------------------------------
(* The operations *)

\* Between dlist_init and the end of dlist_destroy there is a list; the first
\* node is the head's successor, and an empty list is the head alone.
LEMMA FirstNode ==
    ASSUME NEW s \in Seq(Addr), Holds(s)
    PROVE  /\ head \in Addr /\ Len(s) \in Nat
           /\ Len(s) = 0 => dlist_is_empty /\ next[head] = head
           /\ Len(s) # 0 => 1 \in 1..Len(s) /\ next[head] = s[1] /\ s[1] # head
                            /\ prev[s[1]] = head
           /\ next[head] = Way(s, head)[1] /\ prev[head] = Way(s, head)[Len(s)]
<1> DEFINE S == Way(s, head)
           L == Len(s)
<1>1. /\ L \in Nat /\ S[0] = head /\ S[L + 1] = head
      /\ \A i \in 1..L : S[i] = s[i] /\ s[i] # head
      /\ head \in Addr
    BY HoldsFacts DEF Holds, Avoids
<1>2. \A i \in 0..L : next[S[i]] = S[i + 1] /\ prev[S[i + 1]] = S[i]
    BY DEF Holds, Leads
<1> HIDE DEF S
<1>3. next[head] = S[1] /\ prev[S[1]] = head
    <2>1. 0 \in 0..L /\ 0 + 1 = 1
        BY <1>1
    <2> QED
        BY <1>1, <1>2, <2>1
<1>4. prev[head] = S[L]
    <2>1. L \in 0..L
        BY <1>1
    <2> QED
        BY <1>1, <1>2, <2>1
<1>5. L = 0 => dlist_is_empty /\ next[head] = head
    BY <1>1, <1>3, <1>4 DEF dlist_is_empty
<1>6. L # 0 => 1 \in 1..L /\ next[head] = s[1] /\ s[1] # head /\ prev[s[1]] = head
    <2>1. L # 0 => 1 \in 1..L
        BY <1>1
    <2> QED
        BY <1>1, <1>3, <2>1
<1> QED
    BY <1>1, <1>3, <1>4, <1>5, <1>6 DEF S

\* What a step must do: keep the invariant, and be a step of Deque or leave the
\* contents alone.
Simulates == IInv' /\ [Abstract!Next]_<<Contents, out>>

\* dlist_init makes an empty list.
LEMMA InitStep == ASSUME IInv, dlist_init PROVE Simulates
<1>1. PICK a \in Addr : /\ Malloc(a) /\ head' = a
                        /\ next' = [next EXCEPT ![a] = a] /\ prev' = [prev EXCEPT ![a] = a]
    BY DEF dlist_init
<1>2. pc' = "ready" /\ priv' = priv /\ cur' = cur /\ out' = out /\ alive' = {a}
    BY <1>1 DEF dlist_init, Malloc, IInv
<1>3. TypeOK'
    BY <1>1, <1>2 DEF IInv, TypeOK
<1>4. <<>> \in Seq(Addr) /\ Len(<<>>) = 0
    OBVIOUS
<1>5. Holds(<<>>)'
    <2>1. next'[a] = a /\ prev'[a] = a
        BY <1>1 DEF IInv, TypeOK
    <2>2. Way(<<>>, a)[0] = a /\ Way(<<>>, a)[1] = a
        BY <1>4 DEF Way
    <2>3. Leads(0, Way(<<>>, a), next', prev')
        <3>1. \A i \in 0..0 : i = 0 /\ i + 1 = 1
            OBVIOUS
        <3> QED
            BY <2>1, <2>2, <3>1 DEF Leads
    <2> QED
        BY <1>1, <1>2, <1>4, <2>3 DEF Holds, AllDifferent, Avoids
<1>6. IInv'
    BY <1>2, <1>3, <1>4, <1>5 DEF IInv
<1>7. Contents = <<>>
    BY DEF IInv, dlist_init, Contents
<1>8. Contents' = <<>>
    <2>1. Contents' \in Seq(Payloads) /\ Len(Contents') = 0
        BY <1>3, <1>4, <1>5, ContentsTypeNext DEF ContentsAre
    <2> QED
        BY <2>1
<1> QED
    BY <1>2, <1>6, <1>7, <1>8 DEF Simulates

\* A node linked after the k-th one, with payload v.
LEMMA AddStep ==
    ASSUME IInv, pc = "ready", NEW v \in Values, NEW s \in Seq(Addr), Holds(s),
           NEW k \in 0..Len(s), NEW a \in Addr, Malloc(a),
           NEW t \in Seq(Addr), InsertedSeq(s, k, a, t),
           next' = LinkNext(next, a, Way(s, head)[k], Way(s, head)[k + 1]),
           prev' = LinkPrev(prev, a, Way(s, head)[k], Way(s, head)[k + 1]),
           priv' = [priv EXCEPT ![a] = v],
           UNCHANGED <<head, pc, cur, out>>
    PROVE  /\ IInv'
           /\ Contents \in Seq(Payloads) /\ Contents' \in Seq(Payloads)
           /\ v \in Payloads /\ Len(Contents) = Len(s)
           /\ InsertedSeq(Contents, k, v, Contents')
<1>1. a \in Addr \ alive /\ alive' = alive \cup {a}
    BY DEF Malloc
<1>2. /\ Holds(t)' /\ next' \in [Addr -> Addr \cup {NULL}]
      /\ prev' \in [Addr -> Addr \cup {NULL}]
    BY <1>1, InsertHolds DEF IInv
<1>3. priv' \in [Addr -> Values \cup {0}]
    BY DEF IInv, TypeOK
<1>4. TypeOK'
    BY <1>1, <1>2, <1>3 DEF IInv, TypeOK
<1>5. IInv'
    BY <1>2, <1>4 DEF IInv
<1> QED
    BY <1>1, <1>2, <1>4, <1>5, InsertContents DEF IInv

\* stack_push adds in front.
LEMMA PushStep == ASSUME IInv, NEW v \in Values, dlist_add(v) PROVE Simulates
<1>1. PICK s \in Seq(Addr) : Holds(s)
    BY DEF IInv, dlist_add
<1>2. PICK a \in Addr : /\ Malloc(a)
                        /\ next' = [next EXCEPT ![a] = next[head], ![head] = a]
                        /\ prev' = [prev EXCEPT ![a] = head, ![next[head]] = a]
                        /\ priv' = [priv EXCEPT ![a] = v]
    BY DEF dlist_add
<1>3. Len(s) \in Nat /\ 0 \in 0..Len(s) /\ 0 + 1 = 1
    OBVIOUS
<1>4. Way(s, head)[0] = head /\ next[head] = Way(s, head)[1]
    BY <1>1, FirstNode, HoldsFacts
<1>5. /\ next' = LinkNext(next, a, Way(s, head)[0], Way(s, head)[0 + 1])
      /\ prev' = LinkPrev(prev, a, Way(s, head)[0], Way(s, head)[0 + 1])
    BY <1>2, <1>3, <1>4 DEF LinkNext, LinkPrev
<1>6. <<a>> \o s \in Seq(Addr) /\ InsertedSeq(s, 0, a, <<a>> \o s)
    <2>1. /\ <<a>> \o s \in Seq(Addr) /\ Len(<<a>> \o s) = Len(s) + 1
          /\ \A i \in 1..(Len(s) + 1) : (<<a>> \o s)[i] = IF i = 1 THEN a ELSE s[i - 1]
        BY ConsFacts
    <2>2. \A i \in 1..(Len(s) + 1) : ~(i <= 0) /\ (i = 0 + 1 <=> i = 1)
        BY <1>3
    <2> QED
        BY <2>1, <2>2 DEF InsertedSeq
<1>7. pc = "ready" /\ UNCHANGED <<head, pc, cur, out>>
    BY DEF dlist_add
<1>8. /\ IInv' /\ Contents \in Seq(Payloads) /\ Contents' \in Seq(Payloads)
      /\ v \in Payloads /\ InsertedSeq(Contents, 0, v, Contents')
    BY <1>1, <1>2, <1>3, <1>5, <1>6, <1>7, AddStep
<1>9. Contents' = <<v>> \o Contents
    BY <1>8, SequenceForms
<1> QED
    BY <1>7, <1>8, <1>9 DEF Simulates, Abstract!Next, Abstract!PushFront

\* queue_push adds at the end.
LEMMA PushTailStep == ASSUME IInv, NEW v \in Values, dlist_add_tail(v) PROVE Simulates
<1>1. PICK s \in Seq(Addr) : Holds(s)
    BY DEF IInv, dlist_add_tail
<1>2. PICK a \in Addr : /\ Malloc(a)
                        /\ next' = [next EXCEPT ![a] = head, ![prev[head]] = a]
                        /\ prev' = [prev EXCEPT ![a] = prev[head], ![head] = a]
                        /\ priv' = [priv EXCEPT ![a] = v]
    BY DEF dlist_add_tail
<1>3. Len(s) \in Nat /\ Len(s) \in 0..Len(s)
    OBVIOUS
<1>4. Way(s, head)[Len(s) + 1] = head /\ prev[head] = Way(s, head)[Len(s)]
    BY <1>1, FirstNode, HoldsFacts
<1>5. /\ next' = LinkNext(next, a, Way(s, head)[Len(s)], Way(s, head)[Len(s) + 1])
      /\ prev' = LinkPrev(prev, a, Way(s, head)[Len(s)], Way(s, head)[Len(s) + 1])
    BY <1>2, <1>4 DEF LinkNext, LinkPrev
<1>6. Append(s, a) \in Seq(Addr) /\ InsertedSeq(s, Len(s), a, Append(s, a))
    <2>1. /\ Append(s, a) \in Seq(Addr) /\ Len(Append(s, a)) = Len(s) + 1
          /\ \A i \in 1..(Len(s) + 1) : Append(s, a)[i] = IF i = Len(s) + 1 THEN a ELSE s[i]
        BY AppendFacts
    <2>2. \A i \in 1..(Len(s) + 1) : ~(i <= Len(s)) <=> i = Len(s) + 1
        BY <1>3
    <2> QED
        BY <2>1, <2>2 DEF InsertedSeq
<1>7. pc = "ready" /\ UNCHANGED <<head, pc, cur, out>>
    BY DEF dlist_add_tail
<1>8. /\ IInv' /\ Contents \in Seq(Payloads) /\ Contents' \in Seq(Payloads)
      /\ v \in Payloads /\ Len(Contents) = Len(s)
      /\ InsertedSeq(Contents, Len(s), v, Contents')
    BY <1>1, <1>2, <1>3, <1>5, <1>6, <1>7, AddStep
<1>9. Contents' = Append(Contents, v)
    BY <1>8, SequenceForms
<1> QED
    BY <1>7, <1>8, <1>9 DEF Simulates, Abstract!Next, Abstract!PushBack

\* dlist_del of the k-th node, in a list that is used or being destroyed.
LEMMA DelStep ==
    ASSUME IInv, NEW s \in Seq(Addr), Holds(s), NEW k \in 1..Len(s), dlist_del(s[k]),
           UNCHANGED <<head, priv, pc>>, out' \in Values \cup {0}, cur' \in Addr \cup {NULL},
           pc \in {"ready", "destroying"}, pc = "destroying" => cur' = next'[head]
    PROVE  /\ IInv'
           /\ Contents \in Seq(Payloads) /\ Len(Contents) = Len(s)
           /\ Contents[k] = priv[s[k]]
           /\ Contents' = Cut(Contents, k)
           /\ k = 1 => Contents # <<>> /\ Contents' = Tail(Contents)
                       /\ priv[s[k]] = Head(Contents)
<1>1. TypeOK
    BY DEF IInv
<1>2. /\ Holds(Cut(s, k))' /\ Cut(s, k) \in Seq(Addr)
      /\ next' \in [Addr -> Addr \cup {NULL}] /\ prev' \in [Addr -> Addr \cup {NULL}]
      /\ alive' \subseteq Addr
    BY <1>1, DeleteHolds
<1>3. TypeOK'
    BY <1>1, <1>2 DEF TypeOK
<1>4. IInv'
    BY <1>2, <1>3 DEF IInv
<1> QED
    BY <1>1, <1>2, <1>3, <1>4, DeleteContents

\* stack_pop and queue_pop take the first value.
LEMMA PopStep == ASSUME IInv, pop PROVE Simulates
<1>1. PICK s \in Seq(Addr) : Holds(s)
    BY DEF IInv, pop
<1>2. 1 \in 1..Len(s) /\ next[head] = s[1] /\ s[1] \in Addr
    BY <1>1, FirstNode DEF pop
<1>3. /\ out' = priv[s[1]] /\ dlist_del(s[1]) /\ UNCHANGED <<head, priv, pc, cur>>
      /\ pc = "ready"
    BY <1>2 DEF pop
<1>4. out' \in Values \cup {0} /\ cur' \in Addr \cup {NULL}
    BY <1>2, <1>3 DEF IInv, TypeOK
<1>5. /\ IInv' /\ Contents # <<>> /\ Contents' = Tail(Contents)
      /\ priv[s[1]] = Head(Contents)
    BY <1>1, <1>2, <1>3, <1>4, DelStep
<1> QED
    BY <1>3, <1>5 DEF Simulates, Abstract!Next, Abstract!PopFront

\* The list stays as it is.
LEMMA SameList ==
    ASSUME UNCHANGED <<alive, head, next, prev, priv>>
    PROVE  Contents' = Contents /\ \A s \in Seq(Addr) : Holds(s)' <=> Holds(s)
  BY DEF Contents, Size, Step, Holds

\* stack_top and queue_top read the first value.
LEMMA TopStep == ASSUME IInv, top PROVE Simulates
<1>1. PICK s \in Seq(Addr) : Holds(s)
    BY DEF IInv, top
<1>2. 1 \in 1..Len(s) /\ next[head] = s[1] /\ s[1] \in Addr
    BY <1>1, FirstNode DEF top
<1>3. /\ out' = priv[s[1]] /\ UNCHANGED <<alive, head, next, prev, priv, pc, cur>>
      /\ pc = "ready"
    BY <1>2 DEF top
<1>4. Contents' = Contents /\ Holds(s)'
    BY <1>1, <1>3, SameList
<1>5. TypeOK'
    BY <1>2, <1>3 DEF IInv, TypeOK
<1>6. IInv'
    BY <1>3, <1>4, <1>5 DEF IInv
<1>7. Contents # <<>> /\ Head(Contents) = priv[s[1]]
    <2>1. Contents \in Seq(Payloads) /\ Len(Contents) = Len(s) /\ Contents[1] = priv[s[1]]
        BY <1>1, <1>2, ContentsType DEF IInv, ContentsAre
    <2> QED
        BY <1>2, <2>1
<1> QED
    BY <1>3, <1>4, <1>6, <1>7 DEF Simulates, Abstract!Next, Abstract!Top

\* dlist_find and dlist_del remove the first occurrence of a value.
LEMMA FindDelStep == ASSUME IInv, NEW v \in Values, FindDel(v) PROVE Simulates
<1>1. PICK s \in Seq(Addr) : Holds(s)
    BY DEF IInv, FindDel
<1>2. PICK i \in 1..Cardinality(Addr) : /\ \A j \in 1..i : Step[j] # head
                                        /\ priv[Step[i]] = v
                                        /\ \A j \in 1..(i - 1) : priv[Step[j]] # v
                                        /\ dlist_del(Step[i])
    BY DEF FindDel
<1>3. pc = "ready" /\ UNCHANGED <<head, priv, pc, cur, out>>
    BY DEF FindDel
<1>4. /\ Len(s) \in Nat /\ Cardinality(Addr) \in Nat
      /\ \A j \in 0..(Len(s) + 1) : Step[j] = Way(s, head)[j]
      /\ Way(s, head)[Len(s) + 1] = head
      /\ \A j \in 1..Len(s) : Way(s, head)[j] = s[j]
    BY <1>1, ContentsIs, HoldsFacts DEF IInv
<1>5. i <= Len(s)
    <2>1. i > Len(s) => Len(s) + 1 \in 1..i
        BY <1>4
    <2>2. Step[Len(s) + 1] = head
        BY <1>4
    <2> QED
        BY <1>2, <1>4, <2>1, <2>2
<1>6. i \in 1..Len(s) /\ \A j \in 1..i : j \in 1..Len(s) /\ Step[j] = s[j]
    BY <1>4, <1>5
<1>7. i \in 1..i /\ \A j \in 1..(i - 1) : j \in 1..i
    BY <1>4
<1>8. Step[i] = s[i]
    BY <1>6, <1>7
<1>9. dlist_del(s[i]) /\ priv[s[i]] = v /\ \A j \in 1..(i - 1) : priv[s[j]] # v
    BY <1>2, <1>6, <1>7, <1>8
<1>10. out' \in Values \cup {0} /\ cur' \in Addr \cup {NULL}
    BY <1>3 DEF IInv, TypeOK
<1>11. /\ IInv' /\ Len(Contents) = Len(s) /\ Contents[i] = priv[s[i]]
       /\ Contents' = Cut(Contents, i)
    BY <1>1, <1>3, <1>6, <1>9, <1>10, DelStep
<1>12. \A j \in 1..(i - 1) : Contents[j] # v
    <2>1. \A j \in 1..Len(s) : Contents[j] = priv[s[j]]
        BY <1>1, ContentsType DEF IInv, ContentsAre
    <2> QED
        BY <1>6, <1>7, <1>9, <2>1
<1>13. Abstract!RemoveFirst(v)
    BY <1>3, <1>6, <1>9, <1>11, <1>12 DEF Abstract!RemoveFirst, Cut
<1> QED
    BY <1>11, <1>13 DEF Simulates, Abstract!Next

\* dlist_destroy starts at the first node.
LEMMA DestroyStartStep == ASSUME IInv, DestroyStart PROVE Simulates
<1>1. PICK s \in Seq(Addr) : Holds(s)
    BY DEF IInv, DestroyStart
<1>2. /\ UNCHANGED <<alive, head, next, prev, priv, out>> /\ pc' = "destroying"
      /\ cur' = next[head] /\ pc = "ready"
    BY DEF DestroyStart
<1>3. Contents' = Contents /\ Holds(s)'
    BY <1>1, <1>2, SameList
<1>4. TypeOK'
    BY <1>1, <1>2, FirstNode DEF IInv, TypeOK
<1>5. IInv'
    BY <1>2, <1>3, <1>4 DEF IInv
<1> QED
    BY <1>2, <1>3, <1>5 DEF Simulates

\* dlist_for_each_safe deletes the first node and goes on behind it.
LEMMA DestroyStepStep == ASSUME IInv, DestroyStep PROVE Simulates
<1>1. PICK s \in Seq(Addr) : Holds(s)
    BY DEF IInv, DestroyStep
<1>2. /\ pc = "destroying" /\ cur # head /\ cur = next[head] /\ cur' = next[cur]
      /\ dlist_del(cur) /\ UNCHANGED <<head, priv, pc, out>>
    BY DEF IInv, DestroyStep
<1>3. /\ 1 \in 1..Len(s) /\ cur = s[1] /\ s[1] # head /\ prev[s[1]] = head
      /\ head \in Addr /\ s[1] \in Addr
    BY <1>1, <1>2, FirstNode
<1>4. cur' = next'[head]
    <2>1. next' = [next EXCEPT ![head] = next[cur], ![cur] = NULL]
        BY <1>2, <1>3 DEF dlist_del
    <2> QED
        BY <1>2, <1>3, <2>1 DEF IInv, TypeOK
<1>5. out' \in Values \cup {0} /\ cur' \in Addr \cup {NULL} /\ dlist_del(s[1])
    BY <1>2, <1>3 DEF IInv, TypeOK
<1>6. IInv' /\ Contents # <<>> /\ Contents' = Tail(Contents)
    BY <1>1, <1>2, <1>3, <1>4, <1>5, DelStep
<1> QED
    BY <1>2, <1>6 DEF Simulates, Abstract!Next, Abstract!Discard

\* The head goes last, when the list is empty.
LEMMA DestroyEndStep == ASSUME IInv, DestroyEnd PROVE Simulates
<1>1. PICK s \in Seq(Addr) : Holds(s)
    BY DEF IInv, DestroyEnd
<1>2. /\ pc = "destroying" /\ cur = head /\ cur = next[head] /\ pc' = "gone"
      /\ alive' = alive \ {head} /\ head' = NULL /\ cur' = NULL
      /\ UNCHANGED <<next, prev, priv, out>>
    BY DEF IInv, DestroyEnd
<1>3. Len(s) = 0
    BY <1>1, <1>2, FirstNode
<1>4. alive' = {}
    <2>1. \A a \in Addr : a \in alive => a = head
        BY <1>1, <1>3 DEF Holds
    <2> QED
        BY <1>2, <2>1 DEF IInv, TypeOK
<1>5. IInv'
    BY <1>2, <1>4 DEF IInv, TypeOK
<1>6. Contents = <<>>
    <2>1. Contents \in Seq(Payloads) /\ Len(Contents) = 0
        BY <1>1, <1>3, ContentsType DEF IInv, ContentsAre
    <2> QED
        BY <2>1
<1>7. Contents' = <<>>
    BY <1>2 DEF Contents
<1> QED
    BY <1>2, <1>5, <1>6, <1>7 DEF Simulates

----------------------------------------------------------------------------
(* The theorems *)

\* Initially nothing is allocated, and the contents are empty.
LEMMA InitIInv == Init => IInv /\ Abstract!Init
  BY DEF Init, IInv, TypeOK, Abstract!Init, Contents

\* Every step of the list.
LEMMA StepSimulates == IInv /\ [Next]_vars => Simulates
<1> SUFFICES ASSUME IInv, [Next]_vars PROVE Simulates
    OBVIOUS
<1>1. CASE dlist_init
    BY <1>1, InitStep
<1>2. CASE pop
    BY <1>2, PopStep
<1>3. CASE top
    BY <1>3, TopStep
<1>4. ASSUME NEW v \in Values, dlist_add(v) \/ dlist_add_tail(v) \/ FindDel(v)
      PROVE  Simulates
    BY <1>4, PushStep, PushTailStep, FindDelStep
<1>5. CASE DestroyStart
    BY <1>5, DestroyStartStep
<1>6. CASE DestroyStep
    BY <1>6, DestroyStepStep
<1>7. CASE DestroyEnd
    BY <1>7, DestroyEndStep
<1>8. CASE UNCHANGED vars
    <2>1. UNCHANGED <<alive, head, next, prev, priv, pc, cur, out>>
        BY <1>8 DEF vars
    <2>2. Contents' = Contents /\ \A s \in Seq(Addr) : Holds(s)' <=> Holds(s)
        BY <2>1, SameList
    <2>3. TypeOK'
        BY <2>1 DEF IInv, TypeOK
    <2>4. pc \in {"ready", "destroying"} => \E s \in Seq(Addr) : Holds(s)'
        BY <2>2 DEF IInv
    <2>5. IInv'
        BY <2>1, <2>3, <2>4 DEF IInv
    <2> QED
        BY <2>1, <2>2, <2>5 DEF Simulates
<1> QED
    BY <1>1, <1>2, <1>3, <1>4, <1>5, <1>6, <1>7, <1>8 DEF Next

\* In every state of dlist.c the allocated nodes are those of one ring from the
\* head on, and dlist_destroy is at its first node.
THEOREM Invariance == Spec => []IInv
<1>1. Init => IInv
    BY InitIInv
<1>2. IInv /\ [Next]_vars => IInv'
    BY StepSimulates DEF Simulates
<1> QED
    BY <1>1, <1>2, PTL DEF Spec

\* No operation, in whatever order they are called, leaves a link or the cursor
\* of dlist_for_each_safe to a freed node.
THEOREM NoDanglingHolds == Spec => []NoDangling
<1>1. IInv => NoDangling
    <2> SUFFICES ASSUME IInv PROVE NoDangling
        OBVIOUS
    <2>1. CASE pc \in {"fresh", "gone"}
        BY <2>1 DEF IInv, NoDangling
    <2>2. CASE pc \in {"ready", "destroying"}
        <3>1. PICK s \in Seq(Addr) : Holds(s)
            BY <2>2 DEF IInv
        <3> DEFINE S == Way(s, head)
                   L == Len(s)
        <3>2. /\ L \in Nat /\ S[0] = head /\ S[L + 1] = head
              /\ \A i \in 0..(L + 1) : S[i] \in Addr /\ S[i] \in alive
              /\ \A a \in alive : a \in Addr => /\ \E i \in 0..L : a = S[i]
                                                /\ \E i \in 1..(L + 1) : a = S[i]
            BY <3>1, HoldsFacts
        <3>3. \A i \in 0..L : next[S[i]] = S[i + 1] /\ prev[S[i + 1]] = S[i]
            BY <3>1 DEF Holds, Leads
        <3> HIDE DEF S, L
        <3>4. head \in alive /\ next[head] \in alive
            <4>1. 0 \in 0..L /\ 0 \in 0..(L + 1) /\ 0 + 1 \in 0..(L + 1)
                BY <3>2
            <4> QED
                BY <3>2, <3>3, <4>1
        <3>5. ASSUME NEW a \in alive PROVE next[a] \in alive /\ prev[next[a]] = a
            <4>1. PICK i \in 0..L : a = S[i]
                BY <3>2 DEF IInv, TypeOK
            <4>2. i + 1 \in 0..(L + 1)
                BY <3>2
            <4> QED
                BY <3>2, <3>3, <4>1, <4>2
        <3>6. ASSUME NEW a \in alive PROVE prev[a] \in alive /\ next[prev[a]] = a
            <4>1. PICK i \in 1..(L + 1) : a = S[i]
                BY <3>2 DEF IInv, TypeOK
            <4>2. i - 1 \in 0..L /\ i - 1 \in 0..(L + 1) /\ (i - 1) + 1 = i
                BY <3>2
            <4>3. next[S[i - 1]] = S[(i - 1) + 1] /\ prev[S[(i - 1) + 1]] = S[i - 1]
                BY <3>3, <4>2
            <4> QED
                BY <3>2, <4>1, <4>2, <4>3
        <3> QED
            BY <3>4, <3>5, <3>6 DEF IInv, NoDangling
    <2> QED
        BY <2>1, <2>2 DEF IInv, TypeOK
<1> QED
    BY <1>1, Invariance, PTL

\* The list implements the sequence of values of Deque: every operation, and
\* every iteration of dlist_destroy, is one of its steps or leaves it alone.
THEOREM ImplementsDequeHolds == Spec => ImplementsDeque
<1>1. Init => Abstract!Init
    BY InitIInv
<1>2. IInv /\ [Next]_vars => [Abstract!Next]_<<Contents, out>>
    BY StepSimulates DEF Simulates
<1> QED
    BY <1>1, <1>2, Invariance, PTL DEF Spec, ImplementsDeque, Abstract!Spec

=============================================================================
