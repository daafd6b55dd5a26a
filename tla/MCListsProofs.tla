--------------------------- MODULE MCListsProofs ---------------------------
(***************************************************************************)
(* Proofs about the programs on lists.  list.h, for every set of heads and *)
(* of nodes: the links of every list represent its contents, and a call on *)
(* one list leaves the others alone.  The address book, for any memory and *)
(* texts: it keeps its contacts.  The hash table, for any chains, names    *)
(* and hash function: what was pushed is found in order.  The singly       *)
(* linked lists, for any nodes and values: they implement a sequence.      *)
(***************************************************************************)
EXTENDS MCLists, ListOpsProofs

\* A list that satisfies the invariant is a ring of its head and its nodes.
LEMMA ListFacts ==
    ASSUME IInv, NEW h \in Heads
    PROVE  LET s == lists[h]
               S == Way(s, h)
           IN  /\ s \in Seq(Nodes) /\ Len(s) \in Nat
               /\ \A i \in 1..Len(s) : s[i] \in Nodes /\ S[i] = s[i] /\ InList(s[i], h)
               /\ S[0] = h /\ S[Len(s) + 1] = h
               /\ \A i \in 0..(Len(s) + 1) : S[i] = h \/ InList(S[i], h)
               /\ Ring(Links, Len(s), S, next, prev)
<1> DEFINE s == lists[h]
           S == Way(s, h)
<1>1. s \in Seq(Nodes) /\ Len(s) \in Nat /\ \A i \in 1..Len(s) : s[i] \in Nodes
    BY DEF IInv, TypeOK
<1>2. \A i, j \in 1..Len(s) : s[i] = s[j] => i = j
    BY DEF IInv, Disjoint
<1>3. \A i \in 1..Len(s) : S[i] = s[i] /\ InList(s[i], h)
    BY <1>1 DEF At, InList, Way
<1>4. S[0] = h /\ S[Len(s) + 1] = h
    BY <1>1 DEF At, Way
<1>5. \A i \in 0..Len(s) : next[S[i]] = S[i + 1] /\ prev[S[i + 1]] = S[i]
    BY <1>1 DEF IInv, Represents, Chain, Way, At
<1>6. S = [i \in 0..(Len(s) + 1) |-> S[i]]
    BY DEF Way
<1> HIDE DEF s, S
<1>7. \A i \in 0..(Len(s) + 1) : S[i] \in Links /\ (S[i] = h \/ InList(S[i], h))
    BY <1>1, <1>3, <1>4 DEF Links
<1>8. \A i, j \in 0..Len(s) : S[i] = S[j] => i = j
    BY <1>1, <1>2, <1>3, <1>4, HeadsAssumption
<1>9. \A i, j \in 1..(Len(s) + 1) : S[i] = S[j] => i = j
    BY <1>1, <1>2, <1>3, <1>4, HeadsAssumption
<1>10. S \in [0..(Len(s) + 1) -> Links]
    BY <1>6, <1>7
<1>11. Ring(Links, Len(s), S, next, prev)
    BY <1>5, <1>8, <1>9, <1>10 DEF Ring, Leads
<1> QED
    BY <1>1, <1>3, <1>4, <1>7, <1>11 DEF s, S

\* Chain, in terms of the way round the list.
LEMMA ChainIsRing ==
    ASSUME NEW h \in Heads, NEW t \in Seq(Nodes), lists'[h] = t,
           Leads(Len(t), Way(t, h), next', prev')
    PROVE  Chain(h)'
<1>1. Len(t) \in Nat
    OBVIOUS
<1>2. \A i \in 0..(Len(t) + 1) : Way(t, h)[i] = At(t, h, i)
    BY DEF Way
<1>3. \A i \in 0..Len(t) : /\ next'[At(t, h, i)] = At(t, h, i + 1)
                           /\ prev'[At(t, h, i + 1)] = At(t, h, i)
    BY <1>1, <1>2 DEF Leads
<1> QED
    BY <1>3 DEF Chain, At

\* The links of list g keep their values.
Untouched(g) ==
    \A i \in 0..(Len(lists[g]) + 1) :
        /\ next'[Way(lists[g], g)[i]] = next[Way(lists[g], g)[i]]
        /\ prev'[Way(lists[g], g)[i]] = prev[Way(lists[g], g)[i]]

\* A call on list h writes links of nd, and of list_heads p and q of list h; nd
\* is in no list or in list h.  The other lists keep their links.
LEMMA Frame ==
    ASSUME IInv, NEW h \in Heads, NEW nd \in Nodes,
           NEW p \in Links, NEW q \in Links,
           ~Linked(nd) \/ InList(nd, h),
           p = h \/ InList(p, h), q = h \/ InList(q, h),
           Writes(Links, nd, p, q, next, prev, next', prev'),
           NEW g \in Heads, g # h, lists'[g] = lists[g]
    PROVE  Untouched(g) /\ Chain(g)'
<1> DEFINE S == Way(lists[g], g)
           L == Len(lists[g])
<1>1. \A x : InList(x, h) => ~InList(x, g)
    BY DEF IInv, Disjoint, InList
<1>2. ~InList(nd, g) /\ ~InList(p, g) /\ ~InList(q, g)
  <2>1. ~InList(h, g)
    BY ListFacts, HeadsAssumption DEF InList
  <2> QED
    BY <1>1, <2>1 DEF Linked
<1>3. g \in Links /\ g # nd /\ g # p /\ g # q
  <2>1. ~InList(g, h)
    BY ListFacts, HeadsAssumption DEF InList
  <2> QED
    BY <2>1, HeadsAssumption DEF Links
<1>4. /\ L \in Nat
      /\ \A i \in 0..(L + 1) : S[i] \in Links /\ (S[i] = g \/ InList(S[i], g))
      /\ \A i \in 0..L : next[S[i]] = S[i + 1] /\ prev[S[i + 1]] = S[i]
  <2>1. /\ L \in Nat /\ Ring(Links, L, S, next, prev)
        /\ \A i \in 0..(L + 1) : S[i] = g \/ InList(S[i], g)
    BY ListFacts
  <2> HIDE DEF S, L
  <2> QED
    BY <2>1 DEF Ring, Leads
<1> HIDE DEF S, L
<1>5. \A i \in 0..(L + 1) : S[i] \in Links /\ S[i] # nd /\ S[i] # p /\ S[i] # q
    BY <1>2, <1>3, <1>4
<1>6. \A i \in 0..(L + 1) : next'[S[i]] = next[S[i]] /\ prev'[S[i]] = prev[S[i]]
    BY <1>5 DEF Writes
<1>7. Leads(L, S, next', prev')
    BY <1>4, <1>6 DEF Leads
<1>8. Chain(g)'
  <2>1. lists[g] \in Seq(Nodes)
    BY ListFacts
  <2> QED
    BY <2>1, <1>7, ChainIsRing DEF S, L
<1> QED
    BY <1>6, <1>8 DEF Untouched, S, L

\* The history of list h becomes t, which differs from lists[h] in that nd is
\* new or missing: the lists stay disjoint.
LEMMA DisjointStep ==
    ASSUME IInv, NEW h \in Heads, NEW t \in Seq(Nodes),
           lists' = [lists EXCEPT ![h] = t],
           \A i, j \in 1..Len(t) : t[i] = t[j] => i = j,
           \A i \in 1..Len(t) : \A g \in Heads : g # h => ~InList(t[i], g)
    PROVE  Disjoint'
<1>1. lists'[h] = t /\ \A g \in Heads : g # h => lists'[g] = lists[g]
    BY DEF IInv, TypeOK
<1> SUFFICES ASSUME NEW g \in Heads, NEW k \in Heads,
                    NEW i \in 1..Len(lists'[g]), NEW j \in 1..Len(lists'[k]),
                    lists'[g][i] = lists'[k][j]
             PROVE  g = k /\ i = j
    BY DEF Disjoint
<1>2. CASE g = h /\ k = h
    BY <1>1, <1>2
<1>3. CASE g = h /\ k # h
    BY <1>1, <1>3 DEF InList
<1>4. CASE g # h /\ k = h
    BY <1>1, <1>4 DEF InList
<1>5. CASE g # h /\ k # h
    BY <1>1, <1>5 DEF IInv, Disjoint
<1> QED
    BY <1>2, <1>3, <1>4, <1>5

\* __list_add between the k-th list_head of list h and its successor, for a
\* node nd of no list.
LEMMA InsertStep ==
    ASSUME IInv, NEW h \in Heads, NEW nd \in Nodes, ~Linked(nd),
           NEW k \in 0..Len(lists[h]), NEW t \in Seq(Nodes),
           InsertedSeq(lists[h], k, nd, t),
           lists' = [lists EXCEPT ![h] = t],
           next' = LinkNext(next, nd, Way(lists[h], h)[k], Way(lists[h], h)[k + 1]),
           prev' = LinkPrev(prev, nd, Way(lists[h], h)[k], Way(lists[h], h)[k + 1])
    PROVE  IInv' /\ \A g \in Heads : g # h => Untouched(g)
<1> DEFINE s == lists[h]
           L == Len(s)
           S == Way(s, h)
           T == Way(t, h)
           p == S[k]
           q == S[k + 1]
<1>0. /\ s \in Seq(Nodes) /\ L \in Nat
      /\ \A i \in 1..L : InList(s[i], h)
      /\ \A i \in 0..(L + 1) : S[i] = h \/ InList(S[i], h)
      /\ Ring(Links, L, S, next, prev)
    BY ListFacts
<1>1. k \in 0..L /\ k \in 0..(L + 1) /\ k + 1 \in 0..(L + 1)
    BY <1>0
<1>2. /\ lists'[h] = t /\ \A g \in Heads : g # h => lists'[g] = lists[g]
      /\ lists' \in [Heads -> Seq(Nodes)]
    BY DEF IInv, TypeOK
<1>3. next \in [Links -> Links] /\ prev \in [Links -> Links]
    BY DEF IInv, TypeOK
<1>4. next' = LinkNext(next, nd, p, q) /\ prev' = LinkPrev(prev, nd, p, q)
    OBVIOUS
<1>5. nd \in Links /\ h \in Links /\ nd # h /\ ~InList(nd, h)
    BY HeadsAssumption DEF Linked, Links
<1>6. AllDifferent(s)
    BY DEF IInv, Disjoint, AllDifferent
<1>7. Len(t) = L + 1
    BY DEF InsertedSeq
<1> HIDE DEF s, L, S, T, p, q
<1>8. \A i \in 0..(L + 1) : S[i] \in Links /\ S[i] # nd
    BY <1>0, <1>5 DEF Ring
<1>9. p \in Links /\ q \in Links /\ p # nd /\ q # nd
    BY <1>1, <1>8 DEF p, q
<1>10. (p = h \/ InList(p, h)) /\ (q = h \/ InList(q, h))
    BY <1>0, <1>1 DEF p, q
<1>11. /\ next' \in [Links -> Links] /\ prev' \in [Links -> Links]
       /\ next'[nd] = q /\ next'[p] = nd /\ prev'[nd] = p /\ prev'[q] = nd
       /\ Writes(Links, nd, p, q, next, prev, next', prev')
    BY <1>3, <1>4, <1>5, <1>9, LinkFacts
<1>12. Inserted(Links, L, S, k, nd, T)
  <2>1. S \in [0..(L + 1) -> Links]
    BY <1>0 DEF Ring
  <2> QED
    BY <2>1, <1>0, <1>1, <1>5, <1>8, WayInsert DEF s, S, T, L
<1>13. Chain(h)'
  <2>1. Leads(L + 1, T, next', prev')
    <3>1. /\ next'[nd] = S[k + 1] /\ next'[S[k]] = nd
          /\ prev'[nd] = S[k] /\ prev'[S[k + 1]] = nd
          /\ Writes(Links, nd, S[k], S[k + 1], next, prev, next', prev')
      BY <1>11 DEF p, q
    <3> QED
      BY <1>0, <1>1, <1>5, <1>12, <3>1, RingInsert
  <2> QED
    BY <2>1, <1>2, <1>7, ChainIsRing DEF T
<1>14. \A g \in Heads : g # h => Untouched(g) /\ Chain(g)'
    BY <1>2, <1>9, <1>10, <1>11, Frame
<1>15. Disjoint'
  <2>1. Avoids(s, nd)
    BY <1>0, <1>5 DEF Avoids, L
  <2>2. \A i \in 1..Len(t) : t[i] = nd \/ InList(t[i], h)
    <3> SUFFICES ASSUME NEW i \in 1..Len(t) PROVE t[i] = nd \/ InList(t[i], h)
      OBVIOUS
    <3>1. /\ L \in Nat /\ k \in 0..L /\ Len(t) = L + 1
          /\ t[i] = IF i <= k THEN s[i] ELSE IF i = k + 1 THEN nd ELSE s[i - 1]
          /\ \A j \in 1..L : InList(s[j], h)
      BY <1>0, <1>1 DEF InsertedSeq, s, L
    <3>2. (i <= k => i \in 1..L) /\ (~(i <= k) /\ i # k + 1 => i - 1 \in 1..L)
      BY <3>1
    <3> QED
      BY <3>1, <3>2
  <2>3. InsertedSeq(s, k, nd, t) /\ k \in 0..Len(s)
    BY <1>1 DEF s, L
  <2>6. AllDifferent(t)
    BY <1>0, <1>6, <2>1, <2>3, InsertInjective
  <2>4. \A g \in Heads : g # h => \A x : InList(x, h) => ~InList(x, g)
    BY DEF IInv, Disjoint, InList
  <2>5. \A i \in 1..Len(t) : \A g \in Heads : g # h => ~InList(t[i], g)
    BY <2>2, <2>4 DEF Linked
  <2> QED
    BY <2>6, <2>5, DisjointStep DEF AllDifferent
<1>16. TypeOK'
    BY <1>2, <1>11 DEF TypeOK
<1> QED
    BY <1>13, <1>14, <1>15, <1>16 DEF IInv, Represents

\* In its list the k-th node has the neighbours that its links say, and it is
\* different from them.
LEMMA Neighbours ==
    ASSUME IInv, NEW h \in Heads, NEW k \in 1..Len(lists[h])
    PROVE  LET nd == lists[h][k]
               p == Way(lists[h], h)[k - 1]
               q == Way(lists[h], h)[k + 1]
           IN  /\ nd \in Nodes /\ InList(nd, h) /\ nd = Way(lists[h], h)[k]
               /\ nd \in Links /\ p \in Links /\ q \in Links /\ nd # p /\ nd # q
               /\ prev[nd] = p /\ next[nd] = q
               /\ p = h \/ InList(p, h)
               /\ q = h \/ InList(q, h)
<1> DEFINE L == Len(lists[h])
           S == Way(lists[h], h)
<1>1. /\ L \in Nat /\ Ring(Links, L, S, next, prev)
      /\ \A i \in 0..(L + 1) : S[i] = h \/ InList(S[i], h)
      /\ lists[h][k] \in Nodes /\ S[k] = lists[h][k] /\ InList(lists[h][k], h)
    BY ListFacts
<1> HIDE DEF S, L
<1>2. /\ k - 1 \in 0..L /\ k \in 0..L /\ k \in 1..(L + 1) /\ k + 1 \in 1..(L + 1)
      /\ k - 1 \in 0..(L + 1) /\ k \in 0..(L + 1) /\ k + 1 \in 0..(L + 1)
      /\ k - 1 # k /\ k # k + 1 /\ (k - 1) + 1 = k
    BY <1>1 DEF L
<1>3. S[k - 1] \in Links /\ S[k] \in Links /\ S[k + 1] \in Links
    BY <1>1, <1>2 DEF Ring
<1>4. S[k] # S[k - 1] /\ S[k] # S[k + 1]
    BY <1>1, <1>2 DEF Ring
<1>5. prev[S[k]] = S[k - 1] /\ next[S[k]] = S[k + 1]
  <2>1. /\ \A i \in 0..L : next[S[i]] = S[i + 1]
        /\ \A i \in 0..L : prev[S[i + 1]] = S[i]
    BY <1>1 DEF Ring, Leads
  <2> QED
    BY <2>1, <1>2
<1>6. (S[k - 1] = h \/ InList(S[k - 1], h)) /\ (S[k + 1] = h \/ InList(S[k + 1], h))
    BY <1>1, <1>2
<1> QED
    BY <1>1, <1>3, <1>4, <1>5, <1>6 DEF S, L

\* Taking the k-th node nd of list h out, whatever becomes of nd's own links.
LEMMA DeleteStep ==
    ASSUME IInv, NEW h \in Heads, NEW k \in 1..Len(lists[h]),
           lists' = [lists EXCEPT ![h] = Without(@, k)],
           next' \in [Links -> Links], prev' \in [Links -> Links],
           next'[Way(lists[h], h)[k - 1]] = Way(lists[h], h)[k + 1],
           prev'[Way(lists[h], h)[k + 1]] = Way(lists[h], h)[k - 1],
           Writes(Links, lists[h][k], Way(lists[h], h)[k - 1], Way(lists[h], h)[k + 1],
                  next, prev, next', prev')
    PROVE  IInv' /\ \A g \in Heads : g # h => Untouched(g)
<1> DEFINE s == lists[h]
           t == Without(s, k)
           L == Len(s)
           S == Way(s, h)
           T == Way(t, h)
<1>1. /\ s \in Seq(Nodes) /\ L \in Nat
      /\ \A i \in 1..L : InList(s[i], h)
      /\ Ring(Links, L, S, next, prev)
      /\ h \in Links
    BY ListFacts DEF Links
<1>2. t \in Seq(Nodes) /\ DeletedSeq(s, k, t)
    BY <1>1, CutFacts DEF DeletedSeq, Without, Cut
<1>3. /\ lists'[h] = t /\ \A g \in Heads : g # h => lists'[g] = lists[g]
      /\ lists' \in [Heads -> Seq(Nodes)]
    BY <1>2 DEF IInv, TypeOK
<1>4. /\ s[k] \in Nodes /\ InList(s[k], h) /\ s[k] = S[k]
      /\ S[k - 1] \in Links /\ S[k + 1] \in Links
      /\ S[k - 1] = h \/ InList(S[k - 1], h)
      /\ S[k + 1] = h \/ InList(S[k + 1], h)
    BY Neighbours
<1>5. /\ next'[S[k - 1]] = S[k + 1] /\ prev'[S[k + 1]] = S[k - 1]
      /\ Writes(Links, s[k], S[k - 1], S[k + 1], next, prev, next', prev')
    OBVIOUS
<1>6. AllDifferent(s)
    BY DEF IInv, Disjoint, AllDifferent
<1>7. Len(t) = L - 1 /\ k \in 1..L
    BY <1>2 DEF DeletedSeq
<1> HIDE DEF s, t, L, S, T
<1>8. Chain(h)'
  <2>1. S \in [0..(L + 1) -> Links]
    BY <1>1 DEF Ring
  <2>2. Deleted(Links, L, S, k, T)
    BY <2>1, <1>1, <1>2, <1>7, WayDelete DEF L, S, T
  <2>3. Writes(Links, S[k], S[k - 1], S[k + 1], next, prev, next', prev')
    BY <1>4, <1>5
  <2>4. Leads(L - 1, T, next', prev')
    BY <1>1, <1>5, <1>7, <2>2, <2>3, RingDelete
  <2> QED
    BY <2>4, <1>2, <1>3, <1>7, ChainIsRing DEF T
<1>9. \A g \in Heads : g # h => Untouched(g) /\ Chain(g)'
    BY <1>3, <1>4, <1>5, Frame
<1>10. Disjoint'
  <2>1. AllDifferent(t) /\ Drawn(t, s)
    <3>1. k \in 1..Len(s)
      BY <1>7 DEF L
    <3> QED
      BY <1>1, <1>2, <1>6, <3>1, DeleteInjective
  <2>2. \A i \in 1..Len(t) : InList(t[i], h)
    BY <1>1, <2>1 DEF Drawn, L
  <2>3. \A g \in Heads : g # h => \A x : InList(x, h) => ~InList(x, g)
    BY DEF IInv, Disjoint, InList
  <2>4. \A i \in 1..Len(t) : \A g \in Heads : g # h => ~InList(t[i], g)
    BY <2>2, <2>3
  <2> QED
    BY <2>1, <2>4, <1>2, DisjointStep DEF t, s, AllDifferent
<1>11. TypeOK'
    BY <1>3 DEF TypeOK
<1> QED
    BY <1>8, <1>9, <1>10, <1>11 DEF IInv, Represents

\* list_add.
LEMMA AddStep ==
    ASSUME IInv, NEW h \in Heads, NEW nd \in Nodes, list_add(h, nd)
    PROVE  IInv' /\ \A g \in Heads : g # h => Untouched(g)
<1> DEFINE s == lists[h]
           t == <<nd>> \o s
           S == Way(s, h)
<1>1. s \in Seq(Nodes) /\ Len(s) \in Nat /\ 0 \in 0..Len(s) /\ S[0] = h
    BY ListFacts
<1>2. t \in Seq(Nodes) /\ InsertedSeq(s, 0, nd, t)
    BY <1>1, ConsFacts DEF InsertedSeq
<1>3. S[0 + 1] = next[h]
  <2>1. Leads(Len(s), S, next, prev)
    BY ListFacts DEF Ring
  <2> HIDE DEF s, S
  <2> QED
    BY <2>1, <1>1 DEF Leads
<1>4. /\ ~Linked(nd)
      /\ lists' = [lists EXCEPT ![h] = t]
      /\ next' = LinkNext(next, nd, S[0], S[0 + 1])
      /\ prev' = LinkPrev(prev, nd, S[0], S[0 + 1])
    BY <1>1, <1>3 DEF list_add, AddNext, AddPrev
<1> HIDE DEF t
<1> QED
    BY <1>1, <1>2, <1>4, InsertStep

\* list_add_tail.
LEMMA AddTailStep ==
    ASSUME IInv, NEW h \in Heads, NEW nd \in Nodes, list_add_tail(h, nd)
    PROVE  IInv' /\ \A g \in Heads : g # h => Untouched(g)
<1> DEFINE s == lists[h]
           t == Append(s, nd)
           S == Way(s, h)
           L == Len(s)
<1>1. s \in Seq(Nodes) /\ L \in Nat /\ L \in 0..L /\ S[L + 1] = h
    BY ListFacts
<1>2. t \in Seq(Nodes) /\ InsertedSeq(s, L, nd, t)
    BY <1>1, AppendFacts DEF InsertedSeq
<1>3. S[L] = prev[h]
  <2>1. Leads(L, S, next, prev)
    BY ListFacts DEF Ring
  <2> HIDE DEF s, S, L
  <2> QED
    BY <2>1, <1>1 DEF Leads
<1>4. /\ ~Linked(nd)
      /\ lists' = [lists EXCEPT ![h] = t]
      /\ next' = LinkNext(next, nd, S[L], S[L + 1])
      /\ prev' = LinkPrev(prev, nd, S[L], S[L + 1])
    BY <1>1, <1>3 DEF list_add_tail, AddTailNext, AddTailPrev
<1> HIDE DEF t
<1> QED
    BY <1>1, <1>2, <1>4, InsertStep

\* list_del.
LEMMA DelStep ==
    ASSUME IInv, NEW h \in Heads, NEW k \in 1..Len(lists[h]), list_del(h, k)
    PROVE  IInv' /\ \A g \in Heads : g # h => Untouched(g)
<1> DEFINE nd == lists[h][k]
           p == Way(lists[h], h)[k - 1]
           q == Way(lists[h], h)[k + 1]
<1>1. /\ nd \in Links /\ p \in Links /\ q \in Links /\ nd # p /\ nd # q
      /\ prev[nd] = p /\ next[nd] = q
    BY Neighbours
<1>2. /\ next' = DelNext(next, prev, nd) /\ prev' = DelPrev(next, prev, nd)
      /\ lists' = [lists EXCEPT ![h] = Without(@, k)]
    BY DEF list_del
<1>3. next \in [Links -> Links] /\ prev \in [Links -> Links]
    BY DEF IInv, TypeOK
<1>4. /\ next' \in [Links -> Links] /\ prev' \in [Links -> Links]
      /\ next'[p] = q /\ prev'[q] = p
      /\ Writes(Links, nd, p, q, next, prev, next', prev')
  <2> HIDE DEF nd, p, q
  <2> QED
    BY <1>1, <1>2, <1>3, UnlinkFacts
<1> QED
    BY <1>2, <1>4, DeleteStep

\* list_del_init: list_del, and the node points to itself.
LEMMA DelInitStep ==
    ASSUME IInv, NEW h \in Heads, NEW k \in 1..Len(lists[h]), list_del_init(h, k)
    PROVE  IInv' /\ \A g \in Heads : g # h => Untouched(g)
<1> DEFINE nd == lists[h][k]
           p == Way(lists[h], h)[k - 1]
           q == Way(lists[h], h)[k + 1]
           nx == DelNext(next, prev, nd)
           pv == DelPrev(next, prev, nd)
<1>1. /\ nd \in Links /\ p \in Links /\ q \in Links /\ nd # p /\ nd # q
      /\ prev[nd] = p /\ next[nd] = q
    BY Neighbours
<1>2. /\ next' = InitLink(nx, nd) /\ prev' = InitLink(pv, nd)
      /\ lists' = [lists EXCEPT ![h] = Without(@, k)]
    BY DEF list_del_init
<1>3. next \in [Links -> Links] /\ prev \in [Links -> Links]
    BY DEF IInv, TypeOK
<1> HIDE DEF nd, p, q
<1>4. /\ nx \in [Links -> Links] /\ pv \in [Links -> Links]
      /\ nx[p] = q /\ pv[q] = p
      /\ Writes(Links, nd, p, q, next, prev, nx, pv)
    BY <1>1, <1>3, UnlinkFacts
<1> HIDE DEF nx, pv
<1>5. /\ next' \in [Links -> Links] /\ prev' \in [Links -> Links]
      /\ next'[p] = q /\ prev'[q] = p
      /\ Writes(Links, nd, p, q, next, prev, next', prev')
    BY <1>1, <1>2, <1>4 DEF InitLink, Writes
<1> QED
    BY <1>2, <1>5, DeleteStep DEF nd, p, q

\* The steps that only touch a node of no list: list_head_init, and a second
\* list_del_init of a node that points to itself.
LEMMA OutsideStep ==
    ASSUME IInv, NEW nd \in Nodes, list_head_init(nd) \/ DelSelfLinked(nd)
    PROVE  IInv' /\ \A g \in Heads : Untouched(g)
<1>1. nd \in Links /\ next \in [Links -> Links] /\ prev \in [Links -> Links]
    BY DEF IInv, TypeOK, Links
<1>2. ~Linked(nd) /\ UNCHANGED lists
    BY DEF list_head_init, DelSelfLinked
<1>3. /\ next' \in [Links -> Links] /\ prev' \in [Links -> Links]
      /\ \A x \in Links : x # nd => next'[x] = next[x] /\ prev'[x] = prev[x]
    BY <1>1 DEF list_head_init, DelSelfLinked, SelfLinked, InitLink, DelNext, DelPrev
<1>4. ASSUME NEW g \in Heads PROVE Untouched(g) /\ Chain(g)'
  <2> DEFINE S == Way(lists[g], g)
             L == Len(lists[g])
  <2>1. /\ L \in Nat /\ Ring(Links, L, S, next, prev) /\ lists[g] \in Seq(Nodes)
        /\ \A i \in 0..(L + 1) : S[i] = g \/ InList(S[i], g)
    BY ListFacts
  <2>2. ~InList(nd, g) /\ nd # g
    BY <1>2, HeadsAssumption DEF Linked
  <2> HIDE DEF S, L
  <2>3. \A i \in 0..(L + 1) : S[i] \in Links /\ S[i] # nd
    BY <2>1, <2>2 DEF Ring
  <2>4. \A i \in 0..(L + 1) : next'[S[i]] = next[S[i]] /\ prev'[S[i]] = prev[S[i]]
    BY <2>3, <1>3
  <2>5. Leads(L, S, next', prev')
    <3>1. \A i \in 0..L : next[S[i]] = S[i + 1] /\ prev[S[i + 1]] = S[i]
      BY <2>1 DEF Ring, Leads
    <3> QED
      BY <2>1, <2>4, <3>1 DEF Leads
  <2>6. Chain(g)'
    BY <2>1, <2>5, <1>2, ChainIsRing DEF S, L
  <2> QED
    BY <2>4, <2>6 DEF Untouched, S, L
<1>5. Disjoint'
    BY <1>2 DEF IInv, Disjoint
<1>6. TypeOK'
    BY <1>2, <1>3 DEF IInv, TypeOK
<1> QED
    BY <1>4, <1>5, <1>6 DEF IInv, Represents

\* Freshly initialised heads satisfy the inductive invariant, whatever the
\* links of the nodes hold.
LEMMA InitIInv == Init => IInv
<1> SUFFICES ASSUME Init PROVE IInv
    OBVIOUS
<1>1. \A h \in Heads : lists[h] = <<>> /\ next[h] = h /\ prev[h] = h
    BY DEF Init, Links
<1>2. TypeOK
    BY DEF Init, TypeOK, Links
<1>3. Disjoint
    BY <1>1 DEF Disjoint
<1>4. Represents
    BY <1>1 DEF Represents, Chain, At
<1> QED
    BY <1>2, <1>3, <1>4 DEF IInv

\* The links of every list represent its contents in every reachable state:
\* list_add, list_add_tail, list_del and list_del_init, in any order and on
\* any lists, keep the inductive invariant.
THEOREM Invariance == Spec => []IInv
<1>1. IInv /\ UNCHANGED vars => IInv'
    BY DEF IInv, TypeOK, Disjoint, Represents, Chain, At, vars
<1>2. IInv /\ Next => IInv'
  <2> SUFFICES ASSUME IInv, Next PROVE IInv'
    OBVIOUS
  <2>1. CASE \E nd \in Nodes : list_head_init(nd) \/ DelSelfLinked(nd)
    BY <2>1, OutsideStep
  <2>2. CASE \E h \in Heads, nd \in Nodes : list_add(h, nd) \/ list_add_tail(h, nd)
    BY <2>2, AddStep, AddTailStep
  <2>3. CASE \E h \in Heads : \E i \in 1..Len(lists[h]) :
                 list_del(h, i) \/ list_del_init(h, i)
    BY <2>3, DelStep, DelInitStep
  <2> QED
    BY <2>1, <2>2, <2>3 DEF Next
<1> QED
    BY <1>1, <1>2, InitIInv, PTL DEF Spec

\* Represents, the property list_for_each and list_for_each_reverse rely on,
\* for any number of lists and nodes.
THEOREM RepresentsHolds == Spec => []Represents
<1>1. IInv => Represents
    BY DEF IInv
<1> QED
    BY <1>1, Invariance, PTL

\* list_is_empty tells exactly the empty lists.
THEOREM EmptyIsEmptyHolds == Spec => []EmptyIsEmpty
<1>1. ASSUME IInv PROVE EmptyIsEmpty
  <2> SUFFICES ASSUME NEW h \in Heads
               PROVE  list_is_empty(next, prev, h) <=> lists[h] = <<>>
    BY DEF EmptyIsEmpty
  <2> DEFINE s == lists[h]
             S == Way(s, h)
  <2>1. /\ s \in Seq(Nodes) /\ Len(s) \in Nat
        /\ \A i \in 1..Len(s) : s[i] \in Nodes /\ S[i] = s[i]
        /\ S[0] = h /\ S[Len(s) + 1] = h
        /\ Leads(Len(s), S, next, prev)
    BY <1>1, ListFacts DEF Ring
  <2>2. s = <<>> <=> Len(s) = 0
    BY <2>1
  <2> HIDE DEF s, S
  <2>3. next[h] = S[1] /\ prev[h] = S[Len(s)]
    BY <2>1 DEF Leads
  <2>4. CASE Len(s) = 0
    BY <2>1, <2>2, <2>3, <2>4 DEF list_is_empty, s
  <2>5. CASE Len(s) # 0
    BY <2>1, <2>2, <2>3, <2>5, HeadsAssumption DEF list_is_empty, s
  <2> QED
    BY <2>4, <2>5
<1> QED
    BY <1>1, Invariance, PTL

\* A call on one list leaves the links of every other list alone.
THEOREM SeparationHolds == Spec => Separation
<1> DEFINE Sep == \A h \in Heads :
                    lists'[h] = lists[h] =>
                       /\ next'[h] = next[h] /\ prev'[h] = prev[h]
                       /\ \A x \in Nodes : InList(x, h) => /\ next'[x] = next[x]
                                                           /\ prev'[x] = prev[x]
<1>1. ASSUME IInv, NEW h \in Heads, Untouched(h)
      PROVE  /\ next'[h] = next[h] /\ prev'[h] = prev[h]
             /\ \A nd \in Nodes : InList(nd, h) => next'[nd] = next[nd] /\ prev'[nd] = prev[nd]
  <2> DEFINE s == lists[h]
             S == Way(s, h)
  <2>1. /\ Len(s) \in Nat /\ S[0] = h
        /\ \A i \in 1..Len(s) : S[i] = s[i]
    BY <1>1, ListFacts
  <2>2. \A i \in 0..(Len(s) + 1) : next'[S[i]] = next[S[i]] /\ prev'[S[i]] = prev[S[i]]
    BY <1>1 DEF Untouched
  <2>3. \A nd \in Nodes : InList(nd, h) => \E i \in 1..Len(s) : s[i] = nd
    BY DEF InList
  <2> HIDE DEF s, S
  <2> QED
    BY <2>1, <2>2, <2>3
<1>2. ASSUME IInv, Next, NEW h \in Heads, lists'[h] = lists[h]
      PROVE  Untouched(h)
  <2>1. CASE \E nd \in Nodes : list_head_init(nd) \/ DelSelfLinked(nd)
    BY <1>2, <2>1, OutsideStep
  <2>2. CASE \E g \in Heads, nd \in Nodes : list_add(g, nd) \/ list_add_tail(g, nd)
    <3>1. PICK g \in Heads, nd \in Nodes : list_add(g, nd) \/ list_add_tail(g, nd)
      BY <2>2
    <3>2. lists'[g] # lists[g]
      <4>1. lists[g] \in Seq(Nodes) /\ Len(lists[g]) \in Nat
        BY <1>2, ListFacts
      <4>2. lists'[g] = <<nd>> \o lists[g] \/ lists'[g] = Append(lists[g], nd)
        BY <1>2, <3>1 DEF list_add, list_add_tail, IInv, TypeOK
      <4>3. Len(lists'[g]) = Len(lists[g]) + 1
        BY <4>1, <4>2, ConsFacts, AppendFacts
      <4> QED
        BY <4>1, <4>3
    <3> QED
      BY <1>2, <3>1, <3>2, AddStep, AddTailStep
  <2>3. CASE \E g \in Heads : \E i \in 1..Len(lists[g]) :
                 list_del(g, i) \/ list_del_init(g, i)
    <3>1. PICK g \in Heads : \E i \in 1..Len(lists[g]) :
                 list_del(g, i) \/ list_del_init(g, i)
      BY <2>3
    <3>2. PICK i \in 1..Len(lists[g]) : list_del(g, i) \/ list_del_init(g, i)
      BY <3>1
    <3>3. lists'[g] # lists[g]
      <4>1. lists[g] \in Seq(Nodes) /\ Len(lists[g]) \in Nat
        BY <1>2, ListFacts
      <4>2. lists'[g] = Without(lists[g], i)
        BY <1>2, <3>2 DEF list_del, list_del_init, IInv, TypeOK
      <4>3. Len(lists'[g]) = Len(lists[g]) - 1
        BY <4>1, <4>2, CutFacts DEF Without, Cut
      <4> QED
        BY <4>1, <4>3
    <3> QED
      BY <1>2, <3>2, <3>3, DelStep, DelInitStep
  <2> QED
    BY <1>2, <2>1, <2>2, <2>3 DEF Next
<1>3. IInv /\ [Next]_vars => [Sep]_vars
  <2> SUFFICES ASSUME IInv, Next PROVE Sep
    OBVIOUS
  <2> QED
    BY <1>1, <1>2
<1> QED
    BY <1>3, Invariance, PTL DEF Spec, Separation

----------------------------------------------------------------------------
(* The address book *)

\* What the links of the address book join.
BookLinks == Addr \cup {address_list}

LEMMA BookConstants ==
    /\ address_list \notin Addr /\ NULL \notin Addr /\ MaxEdits \in Nat
    /\ \A f : Book!IsInjective(f) <=> \A x, y \in DOMAIN f : f[x] = f[y] => x = y
    /\ \A f : Book!ToSet(f) = {f[x] : x \in DOMAIN f}
  BY ProgramsAssumption DEF Book!BookAssumption, Book!IsInjective, Book!ToSet

\* A book that is kept is a ring of the head and its contacts.
LEMMA BookRing ==
    ASSUME Book!Kept
    PROVE  LET S == Way(book, address_list)
               L == Len(book)
           IN  /\ book \in Seq(Addr) /\ L \in Nat /\ AllDifferent(book)
               /\ S[0] = address_list /\ S[L + 1] = address_list
               /\ \A k \in 1..L : S[k] = book[k] /\ book[k] \in Addr
               /\ \A a : a \in Book!ToSet(book) <=> \E k \in 1..L : book[k] = a
               /\ Ring(BookLinks, L, S, anext, aprev)
<1> DEFINE S == Way(book, address_list)
           L == Len(book)
<1>1. book \in Seq(Addr) /\ L \in Nat /\ DOMAIN book = 1..L
    BY DEF Book!Kept, Book!TypeOK
<1>2. AllDifferent(book)
    BY <1>1, BookConstants DEF Book!Kept, AllDifferent
<1>3. S[0] = address_list /\ S[L + 1] = address_list
    BY <1>1 DEF Way
<1>4. \A k \in 1..L : S[k] = book[k] /\ book[k] \in Addr
    BY <1>1 DEF Way
<1>5. \A a : a \in Book!ToSet(book) <=> \E k \in 1..L : book[k] = a
    BY <1>1, BookConstants
<1>6. \A k \in 0..(L + 1) : S[k] = Book!Spot(k)
    BY <1>1 DEF Way, Book!Spot
<1>7. S = [k \in 0..(L + 1) |-> S[k]]
    BY DEF Way
<1>8. \A k \in 0..L : anext[Book!Spot(k)] = Book!Spot(k + 1) /\ aprev[Book!Spot(k + 1)] = Book!Spot(k)
    BY DEF Book!Kept
<1>9. \A j, k \in 1..L : book[j] = book[k] => j = k
    BY <1>2 DEF AllDifferent
<1> HIDE DEF S, L
<1>10. Leads(L, S, anext, aprev)
    BY <1>1, <1>6, <1>8 DEF Leads
<1>11. /\ \A j, k \in 0..L : S[j] = S[k] => j = k
       /\ \A j, k \in 1..(L + 1) : S[j] = S[k] => j = k
    <2>1. \A k \in 1..L : S[k] # address_list
        BY <1>4, BookConstants
    <2>2. \A j, k \in 1..L : S[j] = S[k] => j = k
        BY <1>4, <1>9
    <2>3. /\ \A k \in 0..L : k = 0 \/ k \in 1..L
          /\ \A k \in 1..(L + 1) : k = L + 1 \/ k \in 1..L
        BY <1>1
    <2> QED
        BY <1>3, <2>1, <2>2, <2>3
<1>12. S \in [0..(L + 1) -> BookLinks]
    <2>1. ASSUME NEW k \in 0..(L + 1) PROVE S[k] \in BookLinks
        <3>1. k = 0 \/ k = L + 1 \/ k \in 1..L
            BY <1>1
        <3> QED
            BY <1>3, <1>4, <3>1 DEF BookLinks
    <2> QED
        BY <1>7, <2>1
<1>13. Ring(BookLinks, L, S, anext, aprev)
    BY <1>10, <1>11, <1>12 DEF Ring
<1> QED
    BY <1>1, <1>2, <1>3, <1>4, <1>5, <1>13 DEF S, L

\* A loop over such a list ends, and visits the contacts of the book.
LEMMA BookWalk ==
    ASSUME Book!Kept
    PROVE  Book!Ends # {} /\ Book!Length = Len(book) /\ Book!Walk = book
<1> DEFINE S == Way(book, address_list)
           L == Len(book)
           at == CHOOSE at : at = [m \in Nat |-> IF m = 0 THEN address_list ELSE anext[at[m - 1]]]
<1>1. /\ book \in Seq(Addr) /\ L \in Nat
      /\ S[0] = address_list /\ S[L + 1] = address_list
      /\ \A k \in 1..L : S[k] = book[k] /\ book[k] # address_list
      /\ Leads(L, S, anext, aprev)
    BY BookRing, BookConstants DEF Ring
<1>2. \A k \in Nat : Book!At(k) = at[k]
    BY DEF Book!At
<1>3. IsEndlessWalk(at, address_list, anext)
    <2>0. \E f : IsEndlessWalk(f, address_list, anext)
        BY EndlessWalkExists
    <2>1. \E f : f = [m \in Nat |-> IF m = 0 THEN address_list ELSE anext[f[m - 1]]]
        BY <2>0 DEF IsEndlessWalk
    <2>2. at = [m \in Nat |-> IF m = 0 THEN address_list ELSE anext[at[m - 1]]]
        BY <2>1
    <2> HIDE DEF at
    <2> QED
        BY <2>2 DEF IsEndlessWalk
<1> HIDE DEF S, at
<1>4. \A k \in 0..(L + 1) : at[k] = S[k]
    <2> HIDE DEF L
    <2> QED
        BY <1>1, <1>3, EndlessWalkIsWay
<1>5. Book!At(L + 1) = address_list /\ \A k \in 1..L : Book!At(k) = book[k] /\ Book!At(k) # address_list
    <2> HIDE DEF L
    <2> QED
        BY <1>1, <1>2, <1>4
<1>6. L \in Book!Ends
    BY <1>1, <1>5 DEF Book!Ends
<1>7. \A k \in Book!Ends : k = L
    <2> SUFFICES ASSUME NEW k \in Book!Ends PROVE k = L
        OBVIOUS
    <2>1. k \in 0..L /\ Book!At(k + 1) = address_list
        BY DEF Book!Ends
    <2>2. k < L => k + 1 \in 1..L
        BY <1>1, <2>1
    <2> QED
        BY <1>1, <1>5, <2>1, <2>2
<1>8. Book!Length = L
    <2>1. L <= L
        BY <1>1
    <2>2. Book!Length = CHOOSE k \in Book!Ends : \A m \in Book!Ends : k <= m
        BY DEF Book!Length
    <2> HIDE DEF L
    <2> QED
        BY <1>6, <1>7, <2>1, <2>2
<1>9. Book!Walk = [k \in 1..L |-> book[k]]
    BY <1>5, <1>8 DEF Book!Walk
<1> QED
    BY <1>1, <1>6, <1>8, <1>9

\* The book after a call that leaves the links lead through it.
LEMMA BookLeads ==
    ASSUME NEW t \in Seq(Addr), book' = t, Leads(Len(t), Way(t, address_list), anext', aprev')
    PROVE  (\A k \in 0..Len(book) : /\ anext[Book!Spot(k)] = Book!Spot(k + 1)
                                    /\ aprev[Book!Spot(k + 1)] = Book!Spot(k))'
<1>1. \A k \in 0..(Len(t) + 1) : Way(t, address_list)[k] = IF k \in 1..Len(t) THEN t[k] ELSE address_list
    BY DEF Way
<1>2. Len(t) \in Nat
    OBVIOUS
<1>3. \A k \in 0..Len(t) : /\ anext'[Way(t, address_list)[k]] = Way(t, address_list)[k + 1]
                           /\ aprev'[Way(t, address_list)[k + 1]] = Way(t, address_list)[k]
    BY DEF Leads
<1> QED
    BY <1>1, <1>2, <1>3 DEF Book!Spot

\* A choice of the menu that leaves links, book and memory alone.
LEMMA BookSame ==
    ASSUME Book!Kept, UNCHANGED <<alloc, twice, anext, aprev, new, book>>,
           edits' \in 0..MaxEdits, reused' \in BOOLEAN,
           NEW from \in {"menu", "form"}, apc = from,
           apc' \in IF from = "menu" THEN {"menu", "destroy"} ELSE {"confirm"}
    PROVE  Book!Kept'
<1>1. Book!TypeOK'
    BY DEF Book!Kept, Book!TypeOK
<1>2. (\A k \in 0..Len(book) : /\ anext[Book!Spot(k)] = Book!Spot(k + 1)
                               /\ aprev[Book!Spot(k + 1)] = Book!Spot(k))'
    BY DEF Book!Kept, Book!Spot
<1>3. Book!IsInjective(book)' /\ Book!ToSet(book)' = Book!ToSet(book)
    BY DEF Book!Kept, Book!IsInjective, Book!ToSet
<1>4. apc' # "hang" /\ apc' # "exit"
    OBVIOUS
<1>5. IF apc' \in {"form", "confirm", "abort"}
      THEN new' \in Addr \ Book!ToSet(book)' /\ alloc' \ {new'} = Book!ToSet(book)'
      ELSE alloc' = Book!ToSet(book)'
    BY <1>3 DEF Book!Kept
<1> QED
    BY <1>1, <1>2, <1>3, <1>4, <1>5 DEF Book!Kept

\* malloc takes memory that no contact has.
LEMMA BookMalloc == ASSUME Book!Kept, Book!Malloc, reused' \in BOOLEAN PROVE Book!Kept'
<1>0. twice = {}
    BY DEF Book!Kept
<1>1. PICK a \in Addr \ alloc : alloc' = alloc \cup {a} /\ new' = a
    BY <1>0 DEF Book!Malloc
<1>2. apc = "menu" /\ apc' = "form" /\ UNCHANGED <<twice, anext, aprev, edits, book>>
    BY <1>0 DEF Book!Malloc, Book!list
<1>3. Book!TypeOK'
    BY <1>1, <1>2 DEF Book!Kept, Book!TypeOK
<1>4. (\A k \in 0..Len(book) : /\ anext[Book!Spot(k)] = Book!Spot(k + 1)
                               /\ aprev[Book!Spot(k + 1)] = Book!Spot(k))'
    BY <1>2 DEF Book!Kept, Book!Spot
<1>5. Book!IsInjective(book)' /\ Book!ToSet(book)' = Book!ToSet(book)
    BY <1>2 DEF Book!Kept, Book!IsInjective, Book!ToSet
<1>6. alloc = Book!ToSet(book)
    BY <1>2 DEF Book!Kept
<1>7. new' \in Addr \ Book!ToSet(book)' /\ alloc' \ {new'} = Book!ToSet(book)'
    BY <1>1, <1>5, <1>6
<1> QED
    BY <1>2, <1>3, <1>4, <1>5, <1>7 DEF Book!Kept

\* `Y' appends the contact that was allocated for it, unless that was freed.
LEMMA BookConfirm == ASSUME Book!Kept, Book!Confirm, reused' = FALSE PROVE Book!Kept'
<1> DEFINE S == Way(book, address_list)
           L == Len(book)
           t == Append(book, new)
           T == Way(t, address_list)
<1>1. /\ apc = "confirm" /\ apc' = "menu" /\ new' = NULL /\ book' = t
      /\ new \in alloc /\ UNCHANGED <<alloc, twice, edits>>
      /\ anext' = Book!AddTailNext(anext, aprev, address_list, new)
      /\ aprev' = Book!AddTailPrev(anext, aprev, address_list, new)
    BY DEF Book!Confirm
<1>2. /\ book \in Seq(Addr) /\ L \in Nat /\ AllDifferent(book)
      /\ S[0] = address_list /\ S[L + 1] = address_list
      /\ \A k \in 1..L : S[k] = book[k] /\ book[k] \in Addr
      /\ \A a : a \in Book!ToSet(book) <=> \E k \in 1..L : book[k] = a
      /\ Ring(BookLinks, L, S, anext, aprev) /\ S \in [0..(L + 1) -> BookLinks]
    BY BookRing DEF Ring
<1>3. /\ new \in Addr /\ new \notin Book!ToSet(book) /\ alloc \ {new} = Book!ToSet(book)
      /\ new # address_list /\ address_list \in BookLinks /\ new \in BookLinks
    BY <1>1, BookConstants DEF Book!Kept, BookLinks
<1>4. t \in Seq(Addr) /\ Len(t) = L + 1
      /\ \A k \in 1..(L + 1) : t[k] = IF k = L + 1 THEN new ELSE book[k]
    BY <1>2, <1>3, AppendFacts
<1>5. InsertedSeq(book, L, new, t) /\ L \in 0..L
    <2> HIDE DEF t
    <2>1. \A k \in 1..(L + 1) : ~(k <= L) <=> k = L + 1
        BY <1>2
    <2> QED
        BY <1>2, <1>4, <2>1 DEF InsertedSeq
<1>6. \A k \in 0..(L + 1) : S[k] # new
    <2> HIDE DEF S
    <2>1. \A k \in 0..(L + 1) : k = 0 \/ k = L + 1 \/ k \in 1..L
        BY <1>2
    <2> QED
        BY <1>2, <1>3, <2>1
<1>7. Inserted(BookLinks, L, S, L, new, T)
    <2> HIDE DEF t
    <2> QED
        BY <1>2, <1>3, <1>4, <1>5, <1>6, WayInsert
<1>8. aprev[address_list] = S[L]
    <2> HIDE DEF S
    <2>1. \A k \in 0..L : aprev[S[k + 1]] = S[k]
        BY <1>2 DEF Ring, Leads
    <2> QED
        BY <1>2, <1>5, <2>1
<1>9. AllDifferent(t) /\ book' = t
    <2>1. Avoids(book, new)
        BY <1>2, <1>3 DEF Avoids
    <2> HIDE DEF t
    <2> QED
        BY <1>1, <1>2, <1>4, <1>5, <2>1, InsertInjective
<1> HIDE DEF S, T, t
<1>10. /\ anext' = LinkNext(anext, new, S[L], S[L + 1])
       /\ aprev' = LinkPrev(aprev, new, S[L], S[L + 1])
    BY <1>1, <1>2, <1>8 DEF Book!AddTailNext, Book!AddTailPrev, Book!LinkNext, Book!LinkPrev,
                            LinkNext, LinkPrev
<1>11. /\ S[L] \in BookLinks /\ S[L + 1] \in BookLinks /\ new # S[L] /\ new # S[L + 1]
       /\ anext \in [BookLinks -> BookLinks] /\ aprev \in [BookLinks -> BookLinks]
    <2>1. L \in 0..(L + 1) /\ L + 1 \in 0..(L + 1)
        BY <1>2
    <2> QED
        BY <1>2, <1>6, <2>1 DEF Book!Kept, Book!TypeOK, BookLinks
<1>12. /\ anext' \in [BookLinks -> BookLinks] /\ aprev' \in [BookLinks -> BookLinks]
       /\ anext'[new] = S[L + 1] /\ anext'[S[L]] = new /\ aprev'[new] = S[L]
       /\ aprev'[S[L + 1]] = new
       /\ Writes(BookLinks, new, S[L], S[L + 1], anext, aprev, anext', aprev')
    <2> DEFINE p == S[L]
               q == S[L + 1]
    <2>1. /\ p \in BookLinks /\ q \in BookLinks /\ new # p /\ new # q
          /\ anext' = LinkNext(anext, new, p, q) /\ aprev' = LinkPrev(aprev, new, p, q)
        BY <1>10, <1>11
    <2> HIDE DEF p, q
    <2>2. /\ anext' \in [BookLinks -> BookLinks] /\ aprev' \in [BookLinks -> BookLinks]
          /\ anext'[new] = q /\ anext'[p] = new /\ aprev'[new] = p /\ aprev'[q] = new
          /\ Writes(BookLinks, new, p, q, anext, aprev, anext', aprev')
        BY <1>3, <1>11, <2>1, LinkFacts
    <2> QED
        BY <2>2 DEF p, q
<1>13. Leads(L + 1, T, anext', aprev')
    BY <1>2, <1>3, <1>5, <1>7, <1>12, RingInsert
<1>14. (\A k \in 0..Len(book) : /\ anext[Book!Spot(k)] = Book!Spot(k + 1)
                                /\ aprev[Book!Spot(k + 1)] = Book!Spot(k))'
    BY <1>4, <1>9, <1>13, BookLeads DEF T
<1>15. Book!TypeOK'
    BY <1>1, <1>4, <1>12 DEF Book!Kept, Book!TypeOK, BookLinks
<1>16. DOMAIN t = 1..(L + 1)
    BY <1>4
<1>17. Book!IsInjective(book)'
    <2>1. Book!IsInjective(t)
        BY <1>4, <1>9, <1>16, BookConstants DEF AllDifferent
    <2> QED
        BY <1>9, <2>1 DEF Book!IsInjective
<1>18. alloc' = Book!ToSet(book)'
    <2>1. Book!ToSet(t) = {t[k] : k \in 1..(L + 1)}
        BY <1>16, BookConstants
    <2>2. Book!ToSet(book)' = Book!ToSet(t)
        BY <1>9 DEF Book!ToSet
    <2>3. \A a : a \in Book!ToSet(t) <=> a = new \/ \E k \in 1..L : book[k] = a
        <3>1. L + 1 \in 1..(L + 1) /\ \A k \in 1..L : k \in 1..(L + 1) /\ k # L + 1
            BY <1>2
        <3>2. \A k \in 1..(L + 1) : k # L + 1 => k \in 1..L
            BY <1>2
        <3> QED
            BY <1>4, <2>1, <3>1, <3>2
    <2>4. \A a : a \in alloc <=> a = new \/ \E k \in 1..L : book[k] = a
        BY <1>1, <1>2, <1>3
    <2> QED
        BY <1>1, <2>2, <2>3, <2>4
<1> QED
    BY <1>1, <1>14, <1>15, <1>17, <1>18 DEF Book!Kept

\* `N' and other answers free the contact that was to be added, or abort.
LEMMA BookRefuse == ASSUME Book!Kept, Book!Refuse, reused' = FALSE PROVE Book!Kept'
<1>0. Book!free(new) => alloc' = alloc \ {new} /\ twice' = twice
    BY DEF Book!free
<1>1. /\ apc = "confirm" /\ alloc' = alloc \ {new}
      /\ UNCHANGED <<twice, anext, aprev, edits, book>>
      /\ \/ apc' \in {"form", "abort"} /\ new' = new
         \/ apc' = "menu" /\ new' = NULL
    BY <1>0 DEF Book!Refuse, Book!free_aborts, Book!list
<1>2. Book!TypeOK'
    BY <1>1 DEF Book!Kept, Book!TypeOK
<1>3. (\A k \in 0..Len(book) : /\ anext[Book!Spot(k)] = Book!Spot(k + 1)
                               /\ aprev[Book!Spot(k + 1)] = Book!Spot(k))'
    BY <1>1 DEF Book!Kept, Book!Spot
<1>4. Book!IsInjective(book)' /\ Book!ToSet(book)' = Book!ToSet(book)
    BY <1>1 DEF Book!Kept, Book!IsInjective, Book!ToSet
<1>5. new \in Addr \ Book!ToSet(book) /\ alloc' = Book!ToSet(book)
    BY <1>1 DEF Book!Kept
<1>6. alloc' \ {new} = Book!ToSet(book)
    BY <1>5
<1> QED
    BY <1>1, <1>2, <1>3, <1>4, <1>5, <1>6 DEF Book!Kept

\* node_del of the first contact.
LEMMA BookDel ==
    ASSUME Book!Kept, Len(book) # 0, NEW to \in {"menu", "destroy"}, apc = to,
           Book!node_del(book[1], to), UNCHANGED <<new, edits>>, reused' \in BOOLEAN
    PROVE  Book!Kept'
<1> DEFINE S == Way(book, address_list)
           L == Len(book)
           t == Cut(book, 1)
           T == Way(t, address_list)
           x == book[1]
<1>1. /\ book \in Seq(Addr) /\ L \in Nat /\ AllDifferent(book)
      /\ S[0] = address_list /\ S[L + 1] = address_list
      /\ \A k \in 1..L : S[k] = book[k] /\ book[k] \in Addr
      /\ \A a : a \in Book!ToSet(book) <=> \E k \in 1..L : book[k] = a
      /\ Ring(BookLinks, L, S, anext, aprev) /\ S \in [0..(L + 1) -> BookLinks]
    BY BookRing DEF Ring
<1>2. 1 \in 1..L /\ x \in Addr /\ S[1] = x /\ DOMAIN book = 1..L
    BY <1>1
<1>3. /\ anext' = Book!InitLink(Book!DelNext(anext, aprev, x), x)
      /\ aprev' = Book!InitLink(Book!DelPrev(anext, aprev, x), x)
      /\ (alloc' = alloc \ {x} /\ twice' = twice /\ apc' = to) \/ x \notin alloc
      /\ book' = IF x \in Book!ToSet(book)
                 THEN Book!RemoveAt(book, CHOOSE k \in DOMAIN book : book[k] = x) ELSE book
    BY DEF Book!node_del, Book!DelNode, Book!free, Book!free_aborts
<1>4. x \in Book!ToSet(book) /\ alloc = Book!ToSet(book)
    BY <1>1, <1>2 DEF Book!Kept
<1>5. (CHOOSE k \in DOMAIN book : book[k] = x) = 1
    BY <1>1, <1>2 DEF AllDifferent
<1>6. book' = t
    BY <1>3, <1>4, <1>5 DEF Book!RemoveAt, Cut
<1>7. /\ t \in Seq(Addr) /\ Len(t) = L - 1
      /\ \A k \in 1..(L - 1) : t[k] = IF k < 1 THEN book[k] ELSE book[k + 1]
    BY <1>1, <1>2, CutFacts
<1>8. DeletedSeq(book, 1, t)
    BY <1>7 DEF DeletedSeq
<1>9. Deleted(BookLinks, L, S, 1, T)
    <2>1. address_list \in BookLinks
        BY DEF BookLinks
    <2> HIDE DEF t
    <2> QED
        BY <1>1, <1>2, <1>7, <1>8, <2>1, WayDelete
<1>10. AllDifferent(t) /\ Drawn(t, book)
    <2> HIDE DEF t
    <2> QED
        BY <1>1, <1>2, <1>7, <1>8, DeleteInjective
<1> HIDE DEF S, T, t
<1>11. /\ S[0] \in BookLinks /\ S[2] \in BookLinks /\ x \in BookLinks /\ x # S[0] /\ x # S[2]
       /\ anext[x] = S[2] /\ aprev[x] = S[0]
       /\ anext \in [BookLinks -> BookLinks] /\ aprev \in [BookLinks -> BookLinks]
    <2>1. /\ 0 \in 0..(L + 1) /\ 2 \in 0..(L + 1) /\ 1 \in 0..L /\ 0 \in 0..L
          /\ 1 \in 1..(L + 1) /\ 2 \in 1..(L + 1)
        BY <1>2
    <2>2. S[0] # S[1] /\ S[1] # S[2]
        BY <1>1, <2>1 DEF Ring
    <2>3. anext[S[1]] = S[1 + 1] /\ aprev[S[0 + 1]] = S[0]
        BY <1>1, <2>1 DEF Ring, Leads
    <2> QED
        BY <1>1, <1>2, <2>1, <2>2, <2>3 DEF Book!Kept, Book!TypeOK, BookLinks
<1>12. /\ anext' \in [BookLinks -> BookLinks] /\ aprev' \in [BookLinks -> BookLinks]
       /\ anext'[S[0]] = S[2] /\ aprev'[S[2]] = S[0]
       /\ Writes(BookLinks, x, S[0], S[2], anext, aprev, anext', aprev')
    <2> DEFINE p == S[0]
               q == S[2]
    <2>1. /\ p \in BookLinks /\ q \in BookLinks /\ x # p /\ x # q /\ x \in BookLinks
          /\ anext' = [[anext EXCEPT ![p] = q] EXCEPT ![x] = x]
          /\ aprev' = [[aprev EXCEPT ![q] = p] EXCEPT ![x] = x]
        BY <1>3, <1>11 DEF Book!InitLink, Book!DelNext, Book!DelPrev
    <2> HIDE DEF p, q, x
    <2>2. /\ anext' \in [BookLinks -> BookLinks] /\ aprev' \in [BookLinks -> BookLinks]
          /\ anext'[p] = q /\ aprev'[q] = p
        BY <1>11, <2>1
    <2>3. Writes(BookLinks, x, p, q, anext, aprev, anext', aprev')
        BY <1>11, <2>1 DEF Writes
    <2> QED
        BY <2>2, <2>3 DEF p, q
<1>13. Leads(L - 1, T, anext', aprev')
    <2>1. 1 - 1 = 0 /\ 1 + 1 = 2
        OBVIOUS
    <2>2. /\ anext'[S[1 - 1]] = S[1 + 1] /\ aprev'[S[1 + 1]] = S[1 - 1]
          /\ Writes(BookLinks, S[1], S[1 - 1], S[1 + 1], anext, aprev, anext', aprev')
        BY <1>2, <1>12, <2>1
    <2> QED
        BY <1>1, <1>2, <1>9, <2>2, RingDelete
<1>14. (\A k \in 0..Len(book) : /\ anext[Book!Spot(k)] = Book!Spot(k + 1)
                                /\ aprev[Book!Spot(k + 1)] = Book!Spot(k))'
    BY <1>6, <1>7, <1>13, BookLeads DEF T
<1>15. alloc' = alloc \ {x} /\ twice' = twice /\ apc' = to
    BY <1>1, <1>2, <1>3, <1>4
<1>16. Book!TypeOK'
    BY <1>3, <1>6, <1>7, <1>12, <1>15 DEF Book!Kept, Book!TypeOK, BookLinks
<1>17. DOMAIN t = 1..(L - 1)
    BY <1>7
<1>18. Book!IsInjective(book)'
    <2>1. Book!IsInjective(t)
        BY <1>7, <1>10, <1>17, BookConstants DEF AllDifferent
    <2> QED
        BY <1>6, <2>1 DEF Book!IsInjective
<1>19. alloc' = Book!ToSet(book)'
    <2>1. Book!ToSet(t) = {t[k] : k \in 1..(L - 1)}
        BY <1>17, BookConstants
    <2>2. Book!ToSet(book)' = Book!ToSet(t)
        BY <1>6 DEF Book!ToSet
    <2>3. ASSUME NEW k \in 1..L, k # 1 PROVE book[k] \in Book!ToSet(t) /\ book[k] # x
        <3>1. k - 1 \in 1..(L - 1) /\ ~(k - 1 < 1) /\ (k - 1) + 1 = k
            BY <1>1, <2>3
        <3>2. t[k - 1] = book[k]
            BY <1>7, <3>1
        <3>3. book[k] # book[1]
            BY <1>1, <1>2, <2>3 DEF AllDifferent
        <3> QED
            BY <2>1, <3>1, <3>2, <3>3
    <2>4. ASSUME NEW k \in 1..(L - 1) PROVE t[k] \in Book!ToSet(book) /\ t[k] # x
        <3>1. k + 1 \in 1..L /\ k + 1 # 1 /\ ~(k < 1)
            BY <1>1
        <3>2. t[k] = book[k + 1]
            BY <1>7, <3>1
        <3>3. book[k + 1] # book[1]
            BY <1>1, <1>2, <3>1 DEF AllDifferent
        <3> QED
            BY <1>1, <3>1, <3>2, <3>3
    <2>5. ASSUME NEW a, a \in Book!ToSet(book), a # x PROVE a \in Book!ToSet(t)
        <3>1. PICK k \in 1..L : a = book[k]
            BY <1>1, <2>5
        <3>2. k # 1
            BY <2>5, <3>1
        <3> QED
            BY <2>3, <3>1, <3>2
    <2>6. ASSUME NEW a, a \in Book!ToSet(t) PROVE a \in Book!ToSet(book) /\ a # x
        <3>1. PICK k \in 1..(L - 1) : a = t[k]
            BY <2>1, <2>6
        <3> QED
            BY <2>4, <3>1
    <2>7. Book!ToSet(t) = Book!ToSet(book) \ {x}
        BY <2>5, <2>6
    <2> QED
        BY <1>4, <1>15, <2>2, <2>7
<1> QED
    BY <1>14, <1>15, <1>16, <1>18, <1>19 DEF Book!Kept

\* list_destory: the first contact, or the end of the program.
LEMMA BookDestroy == ASSUME Book!Kept, Book!list_destory, reused' \in BOOLEAN PROVE Book!Kept'
<1>1. /\ apc = "destroy" /\ UNCHANGED <<new, edits>>
      /\ \/ anext[address_list] # address_list /\ Book!node_del(anext[address_list], "destroy")
         \/ anext[address_list] = address_list /\ apc' = "exit"
            /\ UNCHANGED <<alloc, twice, anext, aprev, book>>
    BY DEF Book!list_destory, Book!list
<1>2. /\ book \in Seq(Addr) /\ Len(book) \in Nat
      /\ anext[address_list] = IF Len(book) = 0 THEN address_list ELSE book[1]
      /\ Len(book) # 0 => book[1] # address_list
    <2> DEFINE S == Way(book, address_list)
               L == Len(book)
    <2>1. /\ book \in Seq(Addr) /\ L \in Nat /\ S[0] = address_list /\ S[L + 1] = address_list
          /\ \A k \in 1..L : S[k] = book[k] /\ book[k] \in Addr
          /\ Leads(L, S, anext, aprev)
        BY BookRing DEF Ring
    <2> HIDE DEF S, L
    <2>2. 0 \in 0..L /\ 0 + 1 = 1 /\ (L # 0 => 1 \in 1..L)
        BY <2>1
    <2>3. anext[S[0]] = S[0 + 1]
        BY <2>1, <2>2 DEF Leads
    <2>4. anext[address_list] = S[1]
        BY <2>1, <2>2, <2>3
    <2> QED
        BY <2>1, <2>2, <2>4, BookConstants DEF L
<1>3. CASE Len(book) # 0
    <2>1. Book!node_del(book[1], "destroy")
        BY <1>1, <1>2, <1>3
    <2> QED
        BY <1>1, <1>3, <2>1, BookDel
<1>4. CASE Len(book) = 0
    <2>1. apc' = "exit" /\ UNCHANGED <<alloc, twice, anext, aprev, book, new, edits>>
        BY <1>1, <1>2, <1>4
    <2>2. book' = <<>>
        BY <1>2, <1>4, <2>1
    <2>3. Book!TypeOK'
        BY <2>1 DEF Book!Kept, Book!TypeOK
    <2>4. (\A k \in 0..Len(book) : /\ anext[Book!Spot(k)] = Book!Spot(k + 1)
                                   /\ aprev[Book!Spot(k + 1)] = Book!Spot(k))'
        BY <2>1 DEF Book!Kept, Book!Spot
    <2>5. Book!IsInjective(book)' /\ Book!ToSet(book)' = Book!ToSet(book)
        BY <2>1 DEF Book!Kept, Book!IsInjective, Book!ToSet
    <2>6. alloc' = Book!ToSet(book)'
        BY <1>1, <2>1, <2>5 DEF Book!Kept
    <2> QED
        BY <2>1, <2>2, <2>3, <2>4, <2>5, <2>6 DEF Book!Kept
<1> QED
    BY <1>3, <1>4

\* The deletion, which looks at the first contact.
LEMMA BookDelete ==
    ASSUME Book!Kept, NEW info, Book!Delete(info), reused' \in BOOLEAN
    PROVE  Book!Kept'
<1>1. /\ apc = "menu" /\ UNCHANGED <<new, edits>>
      /\ \/ Book!Length > 0 /\ Book!node_del(Book!Walk[1], "menu")
         \/ UNCHANGED <<alloc, twice, anext, aprev, book, apc>>
    BY DEF Book!Delete, Book!Loops, Book!list
<1>2. Book!Length = Len(book) /\ Book!Walk = book
    BY BookWalk
<1>3. CASE Book!Length > 0 /\ Book!node_del(Book!Walk[1], "menu")
    <2>1. Len(book) # 0 /\ Book!node_del(book[1], "menu")
        BY <1>2, <1>3
    <2> QED
        BY <1>1, <2>1, BookDel
<1>4. CASE UNCHANGED <<alloc, twice, anext, aprev, book, apc>>
    <2>1. edits' \in 0..MaxEdits /\ apc' = "menu"
        BY <1>1, <1>4 DEF Book!Kept, Book!TypeOK
    <2> QED
        BY <1>1, <1>4, <2>1, BookSame
<1> QED
    BY <1>1, <1>3, <1>4

\* Every step keeps the book, unless it links a contact that was freed or frees
\* it once more.
LEMMA BookNext == ASSUME Book!IInv, Book!Next PROVE Book!IInv'
<1> SUFFICES ASSUME ~reused' PROVE Book!Kept'
    BY DEF Book!IInv
<1>1. UNCHANGED reused \/ reused' = TRUE \/ Book!Confirm
    <2>1. CASE Book!add_link_man
        BY <2>1 DEF Book!add_link_man, Book!Malloc, Book!Form, Book!Refuse, Book!free, Book!free_aborts
    <2>2. CASE Book!save \/ Book!Quit \/ Book!Hang
        BY <2>2 DEF Book!save, Book!Quit, Book!Hang
    <2>3. \A node, after : Book!node_del(node, after) => UNCHANGED reused \/ reused' = TRUE
        BY DEF Book!node_del, Book!free, Book!free_aborts
    <2>4. CASE Book!list_destory
        BY <2>3, <2>4 DEF Book!list_destory
    <2>5. ASSUME NEW info, Book!Modify(info) \/ Book!Delete(info) \/ Book!find_link_man(info)
          PROVE  UNCHANGED reused \/ reused' = TRUE
        BY <2>3, <2>5 DEF Book!Modify, Book!Delete, Book!find_link_man
    <2> QED
        BY <2>1, <2>2, <2>4, <2>5 DEF Book!Next
<1>2. ~reused
    BY <1>1 DEF Book!Confirm
<1>3. Book!Kept /\ reused = FALSE
    BY <1>2 DEF Book!IInv, Book!Kept, Book!TypeOK
<1>4. reused' = FALSE
    BY <1>1, <1>3, Zenon DEF Book!Confirm
<1>5. edits \in 0..MaxEdits
    BY <1>3 DEF Book!Kept, Book!TypeOK
<1>6. CASE Book!Malloc
    BY <1>3, <1>4, <1>6, BookMalloc
<1>7. CASE Book!Form
    <2>1. apc = "form" /\ apc' = "confirm" /\ UNCHANGED <<alloc, twice, anext, aprev, new, book, edits>>
        BY <1>7 DEF Book!Form, Book!list
    <2> QED
        BY <1>3, <1>4, <1>5, <2>1, BookSame
<1>8. CASE Book!Confirm
    BY <1>3, <1>4, <1>8, BookConfirm
<1>9. CASE Book!Refuse
    BY <1>3, <1>4, <1>9, BookRefuse
<1>10. CASE Book!save
    <2>1. apc = "menu" /\ apc' = "menu" /\ UNCHANGED <<alloc, twice, anext, aprev, new, book, edits>>
        BY <1>10 DEF Book!save, Book!Loops, Book!list
    <2> QED
        BY <1>3, <1>4, <1>5, <2>1, BookSame
<1>11. CASE Book!Quit
    <2>1. apc = "menu" /\ apc' = "destroy" /\ UNCHANGED <<alloc, twice, anext, aprev, new, book, edits>>
        BY <1>11 DEF Book!Quit, Book!list
    <2> QED
        BY <1>3, <1>4, <1>5, <2>1, BookSame
<1>12. CASE Book!list_destory
    BY <1>3, <1>4, <1>12, BookDestroy
<1>13. CASE Book!Hang
    <2>1. Book!Ends = {}
        BY <1>13 DEF Book!Hang
    <2> QED
        BY <1>3, <2>1, BookWalk
<1>14. ASSUME NEW info \in Book!Texts, Book!Modify(info) PROVE Book!Kept'
    <2>1. /\ apc = "menu" /\ apc' = "menu" /\ UNCHANGED <<alloc, twice, anext, aprev, new, book>>
          /\ edits' = edits \/ (edits < MaxEdits /\ edits' = edits + 1)
        <3>1. apc = "menu" /\ UNCHANGED <<alloc, twice, anext, aprev, new, apc, book>>
            BY <1>14 DEF Book!Modify, Book!Loops, Book!list
        <3>2. edits' = edits \/ (edits < MaxEdits /\ edits' = edits + 1)
            <4>1. (edits < MaxEdits /\ edits' = edits + 1) \/ UNCHANGED <<adata, edits>>
                BY <1>14, Zenon DEF Book!Modify
            <4>2. CASE UNCHANGED <<adata, edits>>
                BY <4>2
            <4>3. CASE edits < MaxEdits /\ edits' = edits + 1
                BY <4>3
            <4> QED
                BY <4>1, <4>2, <4>3, Zenon
        <3> QED
            BY <3>1, <3>2
    <2>2. edits' \in 0..MaxEdits
        BY <1>5, <2>1, BookConstants
    <2> QED
        BY <1>3, <1>4, <2>1, <2>2, BookSame
<1>15. ASSUME NEW info \in Book!Texts, Book!Delete(info) PROVE Book!Kept'
    BY <1>3, <1>4, <1>15, BookDelete
<1>16. ASSUME NEW info \in Book!Texts, Book!find_link_man(info) PROVE Book!Kept'
    <2>1. apc = "menu" /\ apc' = "menu" /\ UNCHANGED <<alloc, twice, anext, aprev, new, book, edits>>
        BY <1>16 DEF Book!find_link_man, Book!Loops, Book!list
    <2> QED
        BY <1>3, <1>4, <1>5, <2>1, BookSame
<1> QED
    BY <1>6, <1>7, <1>8, <1>9, <1>10, <1>11, <1>12, <1>13, <1>14, <1>15, <1>16
       DEF Book!Next, Book!add_link_man

\* An empty book.
LEMMA BookInit == ASSUME Book!Init PROVE Book!IInv
<1>1. /\ alloc = {} /\ twice = {} /\ new = NULL /\ apc = "menu" /\ edits = 0 /\ book = <<>> /\ reused = FALSE
      /\ anext = [l \in BookLinks |-> l] /\ aprev = anext
    BY DEF Book!Init, BookLinks
<1>2. book \in Seq(Addr) /\ Len(book) = 0 /\ DOMAIN book = {}
    BY <1>1
<1>3. Book!TypeOK
    <2>1. anext \in [BookLinks -> BookLinks] /\ aprev \in [BookLinks -> BookLinks]
        BY <1>1
    <2>2. edits \in 0..MaxEdits /\ reused \in BOOLEAN /\ book \in Seq(Addr)
        <3>1. edits \in 0..MaxEdits
            BY <1>1, BookConstants
        <3>2. reused \in BOOLEAN
            BY <1>1
        <3> QED
            BY <1>2, <3>1, <3>2
    <2> QED
        BY <1>1, <2>1, <2>2 DEF Book!TypeOK, BookLinks
<1>4. \A k \in 0..1 : Book!Spot(k) = address_list
    BY <1>2 DEF Book!Spot
<1>5. anext[address_list] = address_list /\ aprev[address_list] = address_list
    BY <1>1 DEF BookLinks
<1>6. \A k \in 0..Len(book) : /\ anext[Book!Spot(k)] = Book!Spot(k + 1)
                              /\ aprev[Book!Spot(k + 1)] = Book!Spot(k)
    <2>1. \A k \in 0..Len(book) : k \in 0..1 /\ k + 1 \in 0..1
        BY <1>2
    <2> QED
        BY <1>4, <1>5, <2>1
<1>7. Book!IsInjective(book) /\ Book!ToSet(book) = {}
    BY <1>2, BookConstants
<1> QED
    BY <1>1, <1>3, <1>6, <1>7 DEF Book!IInv, Book!Kept

\* As long as no contact is linked after it was freed or freed once more unnoticed,
\* the links of the address book are a ring of its contacts, and memory is what the
\* contacts take.
THEOREM BookInvariance == MCSpec => []Book!IInv
<1>1. MCInit => Book!IInv
    BY BookInit DEF MCInit
<1>2. Book!IInv /\ [MCNext]_MCVars => Book!IInv'
    <2> SUFFICES ASSUME Book!IInv, [MCNext]_MCVars PROVE Book!IInv'
        OBVIOUS
    <2>1. CASE Book!Next
        BY <2>1, BookNext
    <2>2. CASE UNCHANGED bookVars
        BY <2>2 DEF bookVars, Book!IInv, Book!Kept, Book!TypeOK, Book!IsInjective, Book!ToSet,
                    Book!Spot
    <2> QED
        BY <2>1, <2>2 DEF MCNext, MCVars, ListStep, TableStep, RingStep, SinglyStep
<1> QED
    BY <1>1, <1>2, PTL DEF MCSpec

\* For any memory and any texts: unless a contact is confirmed, or refused once more
\* with free() not noticing, after an `N', every loop over the address book ends and
\* visits the contacts that were confirmed and not deleted, each in memory of its
\* own, none of them is freed twice, and leaving frees them all.
THEOREM BookKeptHolds == MCSpec => []BookKept
<1>1. Book!IInv => BookKept
    <2> SUFFICES ASSUME Book!IInv, ~reused
                 PROVE  /\ apc # "hang" /\ (apc = "abort" => new # NULL)
                        /\ Book!Ends # {} /\ Book!Walk = book
                        /\ Book!IsInjective(book) /\ Book!ToSet(book) \subseteq alloc
                        /\ apc = "exit" => alloc = {}
        BY DEF BookKept, Book!BookKept
    <2>1. Book!Kept
        BY DEF Book!IInv
    <2>2. Book!Ends # {} /\ Book!Walk = book
        BY <2>1, BookWalk
    <2>3. apc = "abort" => new # NULL
        BY <2>1, BookConstants DEF Book!Kept
    <2>4. Book!ToSet(book) \subseteq alloc
        BY <2>1 DEF Book!Kept
    <2>5. apc = "exit" => alloc = {}
        <3>1. Book!ToSet(<<>>) = {}
            BY DEF Book!ToSet
        <3> QED
            BY <2>1, <3>1 DEF Book!Kept
    <2> QED
        BY <2>1, <2>2, <2>3, <2>4, <2>5 DEF Book!Kept
<1> QED
    BY <1>1, BookInvariance, PTL

----------------------------------------------------------------------------
(* The hash table *)

\* For each k up to N, f[k] are the nodes with name nm among the first k of s.
IsMatching(f, N, s, nm) ==
    f = [k \in 0..N |-> IF k = 0 THEN <<>>
                        ELSE IF NameOf[s[k]] = nm THEN Append(f[k - 1], s[k]) ELSE f[k - 1]]

\* A recursion over the first N nodes of a chain defines a function.
LEMMA MatchingExists == ASSUME NEW s, NEW nm, NEW N \in Nat PROVE \E f : IsMatching(f, N, s, nm)
<1> DEFINE Bad == {m \in Nat : ~\E f : IsMatching(f, m, s, nm)}
           Step(f, k) == IF NameOf[s[k]] = nm THEN Append(f[k - 1], s[k]) ELSE f[k - 1]
<1> SUFFICES ASSUME Bad # {} PROVE FALSE
    OBVIOUS
<1>1. PICK m \in Bad : \A k \in Bad : m <= k
    <2>1. Bad \in SUBSET Nat
        OBVIOUS
    <2> HIDE DEF Bad
    <2> QED
        BY <2>1, Least
<1>2. m # 0
    <2> DEFINE g == [k \in 0..0 |-> <<>>]
    <2>1. g = [k \in 0..0 |-> IF k = 0 THEN <<>> ELSE Step(g, k)]
        <3> HIDE DEF Step
        <3> QED
            OBVIOUS
    <2>2. IsMatching(g, 0, s, nm)
        BY <2>1 DEF IsMatching
    <2> HIDE DEF g
    <2> QED
        BY <2>2
<1>3. m - 1 \in Nat /\ m - 1 \notin Bad
    BY <1>1, <1>2
<1>4. PICK f : IsMatching(f, m - 1, s, nm)
    BY <1>3
<1> DEFINE g == [k \in 0..m |-> IF k = m THEN Step(f, m) ELSE f[k]]
<1>5. /\ \A k \in 0..(m - 1) : g[k] = f[k] /\ f[k] = IF k = 0 THEN <<>> ELSE Step(f, k)
      /\ g[m] = Step(f, m)
    <2>1. m \in Nat /\ \A k \in 0..(m - 1) : k \in 0..m /\ k # m
        BY <1>3
    <2>4. \A k \in 0..(m - 1) : f[k] = IF k = 0 THEN <<>> ELSE Step(f, k)
        BY <1>4 DEF IsMatching
    <2> HIDE DEF Step
    <2>2. \A k \in 0..(m - 1) : g[k] = f[k]
        BY <2>1
    <2>3. m \in 0..m /\ g[m] = Step(f, m)
        BY <2>1
    <2> HIDE DEF g
    <2> QED
        BY <2>2, <2>3, <2>4
<1>6. \A k \in 0..m : g[k] = IF k = 0 THEN <<>> ELSE Step(g, k)
    <2>1. \A k \in 1..m : g[k - 1] = f[k - 1] /\ g[k] = Step(f, k)
        <3> HIDE DEF g, Step
        <3> QED
            BY <1>2, <1>3, <1>5
    <2>2. g[0] = <<>>
        <3> HIDE DEF g, Step
        <3> QED
            BY <1>2, <1>3, <1>5
    <2>3. \A k \in 0..m : k = 0 \/ k \in 1..m
        BY <1>3
    <2>4. \A k \in 1..m : Step(g, k) = Step(f, k)
        <3> HIDE DEF g
        <3> QED
            BY <2>1
    <2> HIDE DEF g, Step
    <2> QED
        BY <2>1, <2>2, <2>3, <2>4
<1>7. g = [k \in 0..m |-> IF k = 0 THEN <<>> ELSE Step(g, k)]
    <2>1. g = [k \in 0..m |-> g[k]]
        OBVIOUS
    <2> HIDE DEF g, Step
    <2> QED
        BY <1>6, <2>1
<1> QED
    BY <1>7 DEF IsMatching

\* The matches of name nm among the first k nodes of s.
MatchStep(f, s, nm, k) ==
    f[k] = IF NameOf[s[k]] = nm THEN Append(f[k - 1], s[k]) ELSE f[k - 1]
IsMatches(f, s, nm) == f[0] = <<>> /\ \A k \in 1..Len(s) : MatchStep(f, s, nm, k)

LEMMA MatchFacts ==
    ASSUME NEW s \in Seq(TableNodes), NEW nm
    PROVE  IsMatches(Table!MatchesIn(s, nm), s, nm)
<1> DEFINE f == Table!MatchesIn(s, nm)
<1>1. IsMatching(f, Len(s), s, nm)
    <2>1. \E g : IsMatching(g, Len(s), s, nm)
        <3>1. Len(s) \in Nat
            OBVIOUS
        <3> QED
            BY <3>1, MatchingExists
    <2> QED
        BY <2>1 DEF IsMatching, Table!MatchesIn
<1> HIDE DEF f
<1>2. Len(s) \in Nat
    OBVIOUS
<1>3. f[0] = <<>>
    BY <1>1, <1>2 DEF IsMatching
<1>4. ASSUME NEW k \in 1..Len(s) PROVE MatchStep(f, s, nm, k)
    <2>1. k \in 0..Len(s) /\ k # 0
        BY <1>2
    <2> QED
        BY <1>1, <2>1 DEF IsMatching, MatchStep
<1> QED
    BY <1>3, <1>4 DEF IsMatches, f

\* The matches are nodes.
LEMMA MatchesAreNodes ==
    ASSUME NEW s \in Seq(TableNodes), NEW nm, NEW f, IsMatches(f, s, nm)
    PROVE  \A k \in 0..Len(s) : f[k] \in Seq(TableNodes)
<1> DEFINE Bad == {k \in 0..Len(s) : f[k] \notin Seq(TableNodes)}
<1> SUFFICES ASSUME Bad # {} PROVE FALSE
    OBVIOUS
<1>1. PICK k \in Bad : \A j \in Bad : k <= j
    <2>1. Bad \in SUBSET Nat
        OBVIOUS
    <2> HIDE DEF Bad
    <2> QED
        BY <2>1, Least
<1>2. k # 0
    <2>1. f[0] = <<>> /\ <<>> \in Seq(TableNodes)
        BY DEF IsMatches
    <2> QED
        BY <1>1, <2>1
<1>3. k \in 1..Len(s) /\ k - 1 \in 0..Len(s) /\ k - 1 \notin Bad
    BY <1>1, <1>2
<1>4. f[k - 1] \in Seq(TableNodes) /\ s[k] \in TableNodes
    BY <1>3
<1>5. f[k] = Append(f[k - 1], s[k]) \/ f[k] = f[k - 1]
    BY <1>3 DEF IsMatches, MatchStep
<1>6. f[k] \in Seq(TableNodes)
    <2>1. Append(f[k - 1], s[k]) \in Seq(TableNodes)
        BY <1>4, AppendFacts
    <2> QED
        BY <1>4, <1>5, <2>1
<1> QED
    BY <1>1, <1>6

\* s begins t.
Begins(s, t) == Len(s) <= Len(t) /\ \A i \in 1..Len(s) : s[i] = t[i]

\* The matches among the first nodes come first.
LEMMA MatchesGrow ==
    ASSUME NEW s \in Seq(TableNodes), NEW nm, NEW f, IsMatches(f, s, nm), NEW p \in 0..Len(s)
    PROVE  \A k \in 0..Len(s) : p <= k => Begins(f[p], f[k])
<1> DEFINE Bad == {k \in 0..Len(s) : p <= k /\ ~Begins(f[p], f[k])}
<1>0. \A k \in 0..Len(s) : f[k] \in Seq(TableNodes) /\ Len(f[k]) \in Nat
    BY MatchesAreNodes
<1> SUFFICES ASSUME Bad # {} PROVE FALSE
    OBVIOUS
<1>1. PICK k \in Bad : \A j \in Bad : k <= j
    <2>1. Bad \in SUBSET Nat
        OBVIOUS
    <2> HIDE DEF Bad
    <2> QED
        BY <2>1, Least
<1>2. k # p
    BY <1>0, <1>1 DEF Begins
<1>3. k \in 1..Len(s) /\ k - 1 \in 0..Len(s) /\ k - 1 \notin Bad /\ p <= k - 1
    BY <1>1, <1>2
<1>4. Begins(f[p], f[k - 1])
    BY <1>3
<1>5. f[k] = Append(f[k - 1], s[k]) \/ f[k] = f[k - 1]
    BY <1>3 DEF IsMatches, MatchStep
<1>6. Begins(f[p], f[k])
    <2> DEFINE a == f[p]
               b == f[k - 1]
               c == Append(b, s[k])
    <2>1. a \in Seq(TableNodes) /\ b \in Seq(TableNodes) /\ s[k] \in TableNodes /\ Begins(a, b)
        BY <1>0, <1>3, <1>4
    <2> HIDE DEF a, b
    <2>2. Len(c) = Len(b) + 1 /\ \A i \in 1..(Len(b) + 1) : c[i] = IF i = Len(b) + 1 THEN s[k] ELSE b[i]
        BY <2>1, AppendFacts
    <2> HIDE DEF c
    <2>3. Len(a) \in Nat /\ Len(b) \in Nat
        BY <2>1
    <2>4. Begins(a, c)
        <3>1. Len(a) <= Len(b) /\ \A i \in 1..Len(a) : a[i] = b[i]
            BY <2>1 DEF Begins
        <3>2. Len(a) <= Len(c) /\ \A i \in 1..Len(a) : i \in 1..(Len(b) + 1) /\ i # Len(b) + 1
            BY <2>2, <2>3, <3>1
        <3>3. \A i \in 1..Len(a) : a[i] = c[i]
            BY <2>2, <3>1, <3>2
        <3> QED
            BY <3>2, <3>3 DEF Begins
    <2> QED
        BY <1>5, <2>1, <2>4 DEF a, b, c
<1> QED
    BY <1>1, <1>6

\* t is s with one element more.
Longer(t, s) == Len(t) = Len(s) + 1 /\ \A k \in 1..Len(s) : t[k] = s[k]

\* A node pushed at the end of the chain leaves the matches among the others alone.
LEMMA MatchesKept ==
    ASSUME NEW s \in Seq(TableNodes), NEW nm, NEW f, IsMatches(f, s, nm),
           NEW t, Longer(t, s), NEW g, IsMatches(g, t, nm)
    PROVE  \A k \in 0..Len(s) : g[k] = f[k]
<1> DEFINE Bad == {k \in 0..Len(s) : g[k] # f[k]}
<1> SUFFICES ASSUME Bad # {} PROVE FALSE
    OBVIOUS
<1>1. PICK k \in Bad : \A j \in Bad : k <= j
    <2>1. Bad \in SUBSET Nat
        OBVIOUS
    <2> HIDE DEF Bad
    <2> QED
        BY <2>1, Least
<1>2. k # 0
    BY <1>1 DEF IsMatches
<1>3. k \in 1..Len(s) /\ k \in 1..Len(t) /\ k - 1 \in 0..Len(s) /\ k - 1 \notin Bad
    BY <1>1, <1>2 DEF Longer
<1>4. f[k - 1] = g[k - 1] /\ t[k] = s[k]
    BY <1>3 DEF Longer
<1>5. MatchStep(f, s, nm, k) /\ MatchStep(g, t, nm, k)
    BY <1>3 DEF IsMatches
<1>6. g[k] = f[k]
    BY <1>4, <1>5 DEF MatchStep
<1> QED
    BY <1>1, <1>6

\* The heads and nodes of the table.
TableLinks == TableHeads \cup TableNodes

LEMMA TableConstants ==
    /\ DOMAIN NameOf = TableNodes /\ \A k \in TableNodes : HashOf[NameOf[k]] \in TableHeads
    /\ TableNodes \cap TableHeads = {} /\ NULL \notin TableLinks
    BY ProgramsAssumption DEF Table!HashAssumption, TableLinks

\* The parts of the invariant that are about the links.
LEMMA TableLists ==
    ASSUME Table!IInv
    PROVE  /\ pushed \in [TableHeads -> Seq(TableNodes)]
           /\ tnext \in [TableLinks -> TableLinks \cup {NULL}]
           /\ tprev \in [TableLinks -> TableLinks \cup {NULL}]
           /\ Apart(TableHeads, pushed)
           /\ Chains(TableHeads, pushed, tnext, tprev)
<1>1. /\ pushed \in [TableHeads -> Seq(TableNodes)]
      /\ tnext \in [TableLinks -> TableLinks \cup {NULL}]
      /\ tprev \in [TableLinks -> TableLinks \cup {NULL}]
    BY DEF Table!IInv, Table!TypeOK, TableLinks
<1>2. Apart(TableHeads, pushed)
    BY DEF Table!IInv, Table!Disjoint, Apart
<1>3. ASSUME NEW h \in TableHeads PROVE Leads(Len(pushed[h]), Way(pushed[h], h), tnext, tprev)
    <2> DEFINE s == pushed[h]
               at(k) == IF k \in 1..Len(s) THEN s[k] ELSE h
    <2>1. \A k \in 0..Len(s) : tnext[at(k)] = at(k + 1) /\ tprev[at(k + 1)] = at(k)
        BY DEF Table!IInv, Table!Linked
    <2>2. Len(s) \in Nat
        BY <1>1
    <2>3. \A k \in 0..(Len(s) + 1) : Way(s, h)[k] = at(k)
        BY DEF Way
    <2> HIDE DEF s, at
    <2>4. \A k \in 0..Len(s) : k \in 0..(Len(s) + 1) /\ k + 1 \in 0..(Len(s) + 1)
        BY <2>2
    <2>5. Leads(Len(s), Way(s, h), tnext, tprev)
        BY <2>1, <2>3, <2>4 DEF Leads
    <2> QED
        BY <2>5 DEF s
<1> QED
    BY <1>1, <1>2, <1>3 DEF Chains

LEMMA TableListsNext ==
    ASSUME pushed' \in [TableHeads -> Seq(TableNodes)], Apart(TableHeads, pushed'),
           Chains(TableHeads, pushed', tnext', tprev')
    PROVE  Table!Linked' /\ Table!Disjoint'
<1>1. Table!Disjoint'
    BY DEF Table!Disjoint, Apart
<1>2. ASSUME NEW h \in TableHeads
      PROVE  LET s == pushed'[h]
                 at(k) == IF k \in 1..Len(s) THEN s[k] ELSE h
             IN  \A k \in 0..Len(s) : tnext'[at(k)] = at(k + 1) /\ tprev'[at(k + 1)] = at(k)
    <2> DEFINE s == pushed'[h]
               at(k) == IF k \in 1..Len(s) THEN s[k] ELSE h
    <2>1. Leads(Len(s), Way(s, h), tnext', tprev')
        BY DEF Chains
    <2>2. Len(s) \in Nat
        OBVIOUS
    <2>3. \A k \in 0..(Len(s) + 1) : Way(s, h)[k] = at(k)
        BY DEF Way
    <2> HIDE DEF s, at
    <2>4. \A k \in 0..Len(s) : k \in 0..(Len(s) + 1) /\ k + 1 \in 0..(Len(s) + 1)
        BY <2>2
    <2>5. \A k \in 0..Len(s) : tnext'[at(k)] = at(k + 1) /\ tprev'[at(k + 1)] = at(k)
        BY <2>1, <2>3, <2>4 DEF Leads
    <2> QED
        BY <2>5 DEF s, at
<1> QED
    BY <1>1, <1>2 DEF Table!Linked

\* One step along the chain of a name: from behind its first p nodes to the next
\* node, or from the last one back to the head.
LEMMA ChainStep ==
    ASSUME Table!IInv, NEW h \in TableHeads, NEW p \in 0..Len(pushed[h]), NEW c,
           c = tnext[IF p = 0 THEN h ELSE pushed[h][p]]
    PROVE  \/ c = h /\ p = Len(pushed[h])
           \/ /\ c # h /\ p + 1 \in 1..Len(pushed[h]) /\ c = pushed[h][p + 1]
              /\ c \in TableNodes
<1> DEFINE s == pushed[h]
           S == Way(s, h)
           L == Len(s)
<1>1. IsList(TableHeads, TableNodes, s, h, tnext, tprev)
    BY TableLists, TableConstants, ChainFacts
<1>2. /\ s \in Seq(TableNodes) /\ L \in Nat
      /\ \A i \in 1..L : s[i] \in TableNodes /\ S[i] = s[i]
      /\ S[0] = h /\ S[L + 1] = h
      /\ \A i \in 0..L : tnext[S[i]] = S[i + 1]
    BY <1>1 DEF IsList, Ring, Leads
<1> HIDE DEF s, S, L
<1>3. p \in 0..L /\ c = tnext[IF p = 0 THEN h ELSE s[p]]
    BY DEF s, L
<1>4. (IF p = 0 THEN h ELSE s[p]) = S[p]
    <2>1. p = 0 \/ p \in 1..L
        BY <1>2, <1>3
    <2> QED
        BY <1>2, <2>1
<1>5. c = S[p + 1]
    BY <1>2, <1>3, <1>4
<1>6. \A x \in TableNodes : x # h
    BY TableConstants
<1>7. CASE p = L
    BY <1>2, <1>5, <1>7 DEF s, L
<1>8. CASE p # L
    <2>1. p + 1 \in 1..L
        BY <1>2, <1>3, <1>8
    <2>2. c = s[p + 1] /\ c \in TableNodes /\ c # h
        BY <1>2, <1>5, <1>6, <2>1
    <2> QED
        BY <2>1, <2>2 DEF s, L
<1> QED
    BY <1>7, <1>8

\* The first link of a chain is set.
LEMMA HeadLinkSet == ASSUME Table!IInv, NEW h \in TableHeads PROVE tnext[h] \in TableLinks
<1>1. Len(pushed[h]) \in Nat
    BY TableLists
<1>2. \/ tnext[h] = h
      \/ tnext[h] \in TableNodes
    <2>1. 0 \in 0..Len(pushed[h])
        BY <1>1
    <2> QED
        BY <2>1, ChainStep
<1> QED
    BY <1>2 DEF TableLinks

\* A search that stands behind the first nodes of a chain stands there after a step
\* that does not move it and at most pushes nodes at the end.
LEMMA SearchedKept ==
    ASSUME NEW nm, NEW h \in TableHeads, HashOf[nm] = h, pushed \in [TableHeads -> Seq(TableNodes)],
           pushed' \in [TableHeads -> Seq(TableNodes)],
           pushed'[h] = pushed[h] \/ \E x \in TableNodes : pushed'[h] = Append(pushed[h], x),
           UNCHANGED <<tcur, found>>,
           NEW p \in 0..Len(pushed[h]), Table!Searched(nm, p)
    PROVE  p \in 0..Len(pushed'[h]) /\ Table!Searched(nm, p)'
<1> DEFINE s == pushed[h]
           t == pushed'[h]
           f == Table!MatchesIn(s, nm)
           g == Table!MatchesIn(t, nm)
<1>1. s \in Seq(TableNodes) /\ t \in Seq(TableNodes) /\ Len(s) \in Nat
    OBVIOUS
<1>2. tcur = (IF p = 0 THEN h ELSE s[p]) /\ found = f[p]
    BY DEF Table!Searched
<1>3. Table!Searched(nm, p)' <=> tcur' = (IF p = 0 THEN h ELSE t[p]) /\ found' = g[p]
    BY DEF Table!Searched, Table!MatchesIn
<1>4. p \in 0..Len(s)
    OBVIOUS
<1>5. IsMatches(f, s, nm) /\ IsMatches(g, t, nm)
    BY <1>1, MatchFacts
<1>6. CASE t = s
    BY <1>2, <1>3, <1>4, <1>6
<1>7. CASE t # s
    <2>1. PICK x \in TableNodes : t = Append(s, x)
        BY <1>7
    <2> HIDE DEF s, t, f, g
    <2>0. Len(t) = Len(s) + 1 /\ \A k \in 1..(Len(s) + 1) : t[k] = IF k = Len(s) + 1 THEN x ELSE s[k]
        BY <1>1, <2>1, AppendFacts
    <2>2. Len(t) = Len(s) + 1 /\ \A k \in 1..Len(s) : t[k] = s[k]
        BY <1>1, <2>0
    <2>3. g[p] = f[p]
        <3>1. Longer(t, s)
            BY <2>2 DEF Longer
        <3> QED
            BY <1>1, <1>4, <1>5, <3>1, MatchesKept
    <2>4. p = 0 \/ p \in 1..Len(s)
        BY <1>1, <1>4
    <2>5. (IF p = 0 THEN h ELSE t[p]) = (IF p = 0 THEN h ELSE s[p]) /\ p \in 0..Len(t)
        BY <1>1, <1>4, <2>2, <2>4
    <2> QED
        BY <1>2, <1>3, <2>3, <2>5 DEF t
<1> QED
    BY <1>6, <1>7

\* Searched in the next state.
LEMMA SearchedNext ==
    ASSUME NEW nm, NEW p
    PROVE  Table!Searched(nm, p)' <=> /\ tcur' = (IF p = 0 THEN HashOf[nm] ELSE pushed'[HashOf[nm]][p])
                                     /\ found' = Table!MatchesIn(pushed'[HashOf[nm]], nm)[p]
    BY DEF Table!Searched, Table!MatchesIn

LEMMA SearchedNow ==
    ASSUME NEW p
    PROVE  Table!Searched(NameOf[tcur], p)' <=>
              /\ tcur' = (IF p = 0 THEN HashOf[NameOf[tcur']] ELSE pushed'[HashOf[NameOf[tcur']]][p])
              /\ found' = Table!MatchesIn(pushed'[HashOf[NameOf[tcur']]], NameOf[tcur'])[p]
    BY DEF Table!Searched, Table!MatchesIn

\* hash_push
LEMMA TablePush ==
    ASSUME Table!IInv, NEW k \in TableNodes, Table!hash_push(k) PROVE Table!IInv'
<1> DEFINE h == Table!Chain(k)
           B == TableLinks \cup {NULL}
<1>1. h \in TableHeads /\ h \in TableLinks /\ k \in TableLinks /\ k # h
    BY TableConstants DEF Table!Chain, TableLinks
<1>2. /\ state = "ready" /\ call = NULL
      /\ tnext' = AddTailNext(tnext, tprev, h, k) /\ tprev' = AddTailPrev(tnext, tprev, h, k)
      /\ pushed' = [pushed EXCEPT ![h] = Append(pushed[h], k)]
      /\ UNCHANGED <<tcur, call, result, found, lastName, stale, state>>
    BY DEF Table!hash_push, Table!Idle, Table!AddTailNext, Table!AddTailPrev, Table!LinkNext,
           Table!LinkPrev, AddTailNext, AddTailPrev, LinkNext, LinkPrev
<1>3. \A g \in TableHeads : Avoids(pushed[g], k)
    <2>1. \A g \in TableHeads : k \notin Table!ToSet(pushed[g])
        BY DEF Table!hash_push, Table!InTable
    <2> QED
        BY <2>1, TableLists DEF Table!ToSet, Avoids
<1>4. /\ pushed \in [TableHeads -> Seq(TableNodes)] /\ Apart(TableHeads, pushed)
      /\ tnext \in [TableLinks -> B] /\ tprev \in [TableLinks -> B]
      /\ Chains(TableHeads, pushed, tnext, tprev)
    BY TableLists
<1> HIDE DEF h
<1>5. /\ pushed' \in [TableHeads -> Seq(TableNodes)] /\ Apart(TableHeads, pushed')
      /\ tnext' \in [TableLinks -> B] /\ tprev' \in [TableLinks -> B]
      /\ Chains(TableHeads, pushed', tnext', tprev')
    <2>1. TableHeads \cap TableNodes = {} /\ TableLinks \subseteq B /\ TableLinks = TableHeads \cup TableNodes
        BY TableConstants DEF TableLinks
    <2>2. tnext \in [TableHeads \cup TableNodes -> B] /\ tprev \in [TableHeads \cup TableNodes -> B]
        BY <1>4 DEF TableLinks
    <2>3. TableHeads \cup TableNodes \subseteq B
        BY DEF TableLinks
    <2> HIDE DEF B
    <2>4. Several(TableHeads, TableNodes, B, pushed, tnext, tprev)
        BY <1>4, <2>1, <2>2, <2>3 DEF Several
    <2>5. Several(TableHeads, TableNodes, B, pushed', tnext', tprev')
        BY <1>1, <1>2, <1>3, <2>4, ChainsAppend
    <2> QED
        BY <2>5 DEF Several, TableLinks
<1>6. Table!Linked' /\ Table!Disjoint'
    BY <1>5, TableListsNext
<1>7. Table!TypeOK'
    BY <1>2, <1>5 DEF Table!IInv, Table!TypeOK, TableLinks
<1>8. \A g \in TableHeads : pushed'[g] = IF g = h THEN Append(pushed[g], k) ELSE pushed[g]
    BY <1>1, <1>2, <1>4
<1>9. Table!OwnChains'
    <2> SUFFICES ASSUME NEW g \in TableHeads, NEW i \in 1..Len(pushed'[g])
                 PROVE  HashOf[NameOf[pushed'[g][i]]] = g
        BY DEF Table!OwnChains, Table!Chain
    <2>1. \A j \in 1..Len(pushed[g]) : HashOf[NameOf[pushed[g][j]]] = g
        BY DEF Table!IInv, Table!OwnChains, Table!Chain
    <2>2. CASE g # h
        BY <1>8, <2>1, <2>2
    <2>3. CASE g = h
        <3>1. pushed[g] \in Seq(TableNodes) /\ Len(pushed[g]) \in Nat
            BY <1>4
        <3>0. pushed'[g] = Append(pushed[g], k)
            BY <1>8, <2>3
        <3>2. /\ Len(pushed'[g]) = Len(pushed[g]) + 1
              /\ \A j \in 1..(Len(pushed[g]) + 1) :
                    pushed'[g][j] = IF j = Len(pushed[g]) + 1 THEN k ELSE pushed[g][j]
            BY <3>0, <3>1, AppendFacts
        <3>3. i = Len(pushed[g]) + 1 \/ i \in 1..Len(pushed[g])
            BY <3>1, <3>2
        <3>4. HashOf[NameOf[k]] = g
            BY <2>3 DEF h, Table!Chain
        <3> QED
            BY <2>1, <3>2, <3>3, <3>4
    <2> QED
        BY <2>2, <2>3
<1>10. Table!LinksSet'
    <2>1. tnext' = LinkNext(tnext, k, tprev[h], h)
        BY <1>2 DEF AddTailNext
    <2>2. \A a \in TableLinks : tnext'[a] = tnext[a] \/ tnext'[a] = k \/ tnext'[a] = h
        BY <1>4, <2>1 DEF LinkNext
    <2>3. \A a \in TableLinks : tnext'[a] = NULL => tnext[a] = NULL
        BY <1>1, <2>2, TableConstants
    <2>4. tnext'[k] # NULL /\ tnext'[h] # NULL
        <3>1. tnext'[k] = h \/ tnext'[k] = k
            BY <1>1, <1>4, <2>1 DEF LinkNext
        <3>2. tnext[h] # NULL
            BY <1>1, HeadLinkSet, TableConstants
        <3> QED
            BY <1>1, <2>3, <3>1, <3>2, TableConstants
    <2>5. \A a \in TableLinks : tnext[a] # NULL => tnext[a] \in TableLinks /\ tnext[tnext[a]] # NULL
        BY <1>4 DEF Table!IInv, Table!LinksSet, TableLinks
    <2>6. ASSUME NEW a \in TableLinks, tnext'[a] # NULL PROVE tnext'[tnext'[a]] # NULL
        <3>1. CASE tnext'[a] = k \/ tnext'[a] = h
            BY <2>4, <3>1
        <3>2. CASE tnext'[a] = tnext[a]
            BY <2>3, <2>5, <2>6, <3>2
        <3> QED
            BY <2>2, <3>1, <3>2
    <2>7. tcur # NULL => tcur \in TableLinks /\ tnext[tcur] # NULL
        BY DEF Table!IInv, Table!TypeOK, Table!LinksSet, TableLinks
    <2>8. tcur' # NULL => tnext'[tcur'] # NULL
        BY <1>2, <2>3, <2>7
    <2> QED
        BY <1>2, <2>6, <2>8 DEF Table!LinksSet, TableLinks
<1>11. Table!Searching'
    BY <1>2 DEF Table!Searching
<1>12. Table!Resting'
    <2> SUFFICES ASSUME ~stale', tcur' \in TableNodes
                 PROVE  /\ lastName' = NameOf[tcur']
                        /\ (\E p \in 1..Len(pushed[HashOf[NameOf[tcur]]]) : Table!Searched(NameOf[tcur], p))'
        BY DEF Table!Resting, Table!Chain
    <2>0. PICK nm : nm = NameOf[tcur]
        OBVIOUS
    <2> DEFINE g == HashOf[nm]
    <2>1. ~stale /\ tcur \in TableNodes /\ tcur' = tcur /\ g \in TableHeads
        BY <1>2, <2>0, TableConstants
    <2>2. lastName = nm /\ \E p \in 1..Len(pushed[g]) : Table!Searched(nm, p)
        BY <1>2, <2>0, <2>1 DEF Table!IInv, Table!Resting, Table!Chain
    <2>3. PICK p \in 1..Len(pushed[g]) : Table!Searched(nm, p)
        BY <2>2
    <2>4. pushed'[g] = pushed[g] \/ \E x \in TableNodes : pushed'[g] = Append(pushed[g], x)
        BY <1>8, <2>1
    <2>5. p \in 0..Len(pushed[g]) /\ p # 0 /\ UNCHANGED <<tcur, found>>
        BY <1>2, <2>3
    <2>6. p \in 0..Len(pushed'[g]) /\ Table!Searched(nm, p)'
        BY <1>4, <1>5, <2>1, <2>3, <2>4, <2>5, SearchedKept
    <2>7. p \in 1..Len(pushed'[g])
        BY <2>5, <2>6
    <2>8. nm = NameOf[tcur']
        BY <2>0, <2>1
    <2>9. Table!Searched(NameOf[tcur], p)'
        BY <2>6, <2>8, SearchedNext, SearchedNow
    <2>10. p \in 1..Len(pushed[HashOf[NameOf[tcur]]])'
        BY <2>7, <2>8
    <2>11. lastName' = NameOf[tcur']
        BY <1>2, <2>2, <2>8
    <2> QED
        BY <2>9, <2>10, <2>11
<1> QED
    BY <1>6, <1>7, <1>9, <1>10, <1>11, <1>12 DEF Table!IInv

LEMMA SearchedCall ==
    ASSUME NEW p
    PROVE  Table!Searched(NameOf[call], p)' <=>
              /\ tcur' = (IF p = 0 THEN HashOf[NameOf[call']] ELSE pushed'[HashOf[NameOf[call']]][p])
              /\ found' = Table!MatchesIn(pushed'[HashOf[NameOf[call']]], NameOf[call'])[p]
    BY DEF Table!Searched, Table!MatchesIn

\* hash_find begins.
LEMMA TableFindStart ==
    ASSUME Table!IInv, NEW key \in TableNodes, Table!FindStart(key) PROVE Table!IInv'
<1> DEFINE nm == NameOf[key]
           h == HashOf[nm]
           same == tcur \in TableNodes /\ NameOf[tcur] = nm
<1>1. h \in TableHeads /\ h \in TableLinks /\ key # NULL
    BY TableConstants DEF TableLinks
<1>2. /\ call = NULL /\ call' = key /\ lastName' = nm
      /\ tcur' = (IF same THEN tcur ELSE h) /\ found' = (IF same THEN found ELSE <<>>)
      /\ state' \in {"ready", "crashed"}
      /\ UNCHANGED <<tnext, tprev, pushed, result>>
    BY DEF Table!FindStart, Table!Idle, Table!Chain, Table!hash_cmp
<1>3. stale' = (stale /\ same)
    BY Zenon DEF Table!FindStart, Table!hash_cmp
<1>4. /\ pushed \in [TableHeads -> Seq(TableNodes)] /\ tcur \in TableLinks \cup {NULL}
      /\ found \in Seq(TableNodes)
    BY DEF Table!IInv, Table!TypeOK, TableLinks
<1>5. stale' \in BOOLEAN
    BY <1>3, Zenon
<1>6. /\ tcur' \in TableLinks /\ found' \in Seq(TableNodes) /\ tnext[tcur'] # NULL
    <2>1. same => tcur \in TableLinks /\ tcur # NULL
        BY TableConstants DEF TableLinks
    <2>2. tcur # NULL => tnext[tcur] # NULL
        BY DEF Table!IInv, Table!LinksSet
    <2>3. tnext[h] # NULL
        BY <1>1, HeadLinkSet, TableConstants
    <2>4. <<>> \in Seq(TableNodes)
        OBVIOUS
    <2> HIDE DEF same, h
    <2> QED
        BY <1>1, <1>2, <1>4, <2>1, <2>2, <2>3, <2>4
<1>7. Table!TypeOK'
    BY <1>2, <1>5, <1>6 DEF Table!IInv, Table!TypeOK, TableLinks
<1>8. Table!Linked' /\ Table!Disjoint' /\ Table!OwnChains'
    BY <1>2 DEF Table!IInv, Table!Linked, Table!Disjoint, Table!OwnChains, Table!Chain
<1>9. Table!LinksSet'
    <2>1. \A a \in TableHeads \cup TableNodes : tnext'[a] # NULL => tnext'[tnext'[a]] # NULL
        BY <1>2 DEF Table!IInv, Table!LinksSet
    <2>2. tnext'[tcur'] # NULL /\ tcur' # NULL
        BY <1>2, <1>6, TableConstants
    <2> QED
        BY <2>1, <2>2 DEF Table!LinksSet
<1>10. ASSUME ~stale' PROVE (\E p \in 0..Len(pushed[HashOf[NameOf[call]]]) : Table!Searched(NameOf[call], p))'
    <2>1. CASE same
        <3>1. ~stale
            BY <1>3, <1>10, <2>1, Zenon
        <3>2. PICK p \in 1..Len(pushed[HashOf[NameOf[tcur]]]) : Table!Searched(NameOf[tcur], p)
            BY <1>2, <2>1, <3>1 DEF Table!IInv, Table!Resting, Table!Chain
        <3>3. p \in 0..Len(pushed'[HashOf[NameOf[call']]])
            BY <1>2, <2>1, <3>2
        <3>4. /\ tcur = (IF p = 0 THEN h ELSE pushed[h][p])
              /\ found = Table!MatchesIn(pushed[h], nm)[p]
            BY <2>1, <3>2 DEF Table!Searched
        <3>5. Table!Searched(NameOf[call], p)'
            BY <1>2, <2>1, <3>4, SearchedCall
        <3> QED
            BY <3>3, <3>5
    <2>2. CASE ~same
        <3>1. Table!MatchesIn(pushed[h], nm)[0] = <<>>
            BY <1>1, <1>4, MatchFacts DEF IsMatches
        <3>2. Table!Searched(NameOf[call], 0)'
            BY <1>2, <2>2, <3>1, SearchedCall
        <3>3. 0 \in 0..Len(pushed'[HashOf[NameOf[call']]])
            BY <1>1, <1>2, <1>4
        <3> QED
            BY <3>2, <3>3
    <2> QED
        BY <2>1, <2>2
<1>11. Table!Searching'
    BY <1>2, <1>10 DEF Table!Searching, Table!Chain
<1>12. Table!Resting'
    BY <1>1, <1>2 DEF Table!Resting
<1> QED
    BY <1>7, <1>8, <1>9, <1>11, <1>12 DEF Table!IInv

\* Where a step of the loop of hash_find leads while no cursor is stale.
LEMMA FindStepCases ==
    ASSUME Table!IInv, Table!FindStep, ~stale
    PROVE  \E p \in 0..Len(pushed[HashOf[NameOf[call]]]) :
              LET nm == NameOf[call]
                  h  == HashOf[nm]
                  m  == Table!MatchesIn(pushed[h], nm)
              IN  /\ call \in TableNodes /\ h \in TableHeads /\ lastName = nm
                  /\ found = m[p] /\ m[p] \in Seq(TableNodes)
                  /\ \/ /\ tcur' = h /\ p = Len(pushed[h])
                        /\ result' = NULL /\ call' = NULL /\ found' = found
                     \/ /\ p + 1 \in 1..Len(pushed[h]) /\ tcur' = pushed[h][p + 1]
                        /\ tcur' \in TableNodes /\ found' = m[p + 1]
                        /\ \/ call' = NULL /\ result' = tcur' /\ NameOf[tcur'] = nm
                           \/ call' = call
<1> DEFINE nm == NameOf[call]
           h == HashOf[nm]
           m == Table!MatchesIn(pushed[h], nm)
           c == tnext[tcur]
<1>1. call \in TableNodes /\ call # NULL /\ h \in TableHeads /\ lastName = nm
    <2>1. call # NULL
        BY DEF Table!FindStep
    <2>2. call \in TableNodes /\ lastName = nm
        BY <2>1 DEF Table!IInv, Table!TypeOK, Table!Searching
    <2> QED
        BY <2>1, <2>2, TableConstants
<1>2. PICK p \in 0..Len(pushed[h]) : Table!Searched(nm, p)
    BY <1>1 DEF Table!IInv, Table!Searching, Table!Chain
<1>3. tcur = (IF p = 0 THEN h ELSE pushed[h][p]) /\ found = m[p]
    BY <1>2 DEF Table!Searched
<1>4. pushed[h] \in Seq(TableNodes) /\ Len(pushed[h]) \in Nat
    BY <1>1, TableLists
<1>5. IsMatches(m, pushed[h], nm) /\ m[p] \in Seq(TableNodes)
    BY <1>4, MatchFacts, MatchesAreNodes
<1>6. tcur' = c
    BY DEF Table!FindStep
<1>7. \/ c = h /\ result' = NULL /\ call' = NULL /\ found' = found
      \/ c # h /\ c \in TableNodes /\ NameOf[c] = nm /\ result' = c /\ call' = NULL /\ found' = Append(found, c)
      \/ c # h /\ ~(c \in TableNodes /\ NameOf[c] = nm) /\ call' = call /\ found' = found
    BY DEF Table!FindStep, Table!Chain, Table!hash_cmp
<1>8. \/ c = h /\ p = Len(pushed[h])
      \/ c # h /\ p + 1 \in 1..Len(pushed[h]) /\ c = pushed[h][p + 1] /\ c \in TableNodes
    BY <1>1, <1>3, ChainStep
<1> HIDE DEF nm, h, m, c
<1>9. CASE c = h
    BY <1>1, <1>2, <1>3, <1>5, <1>6, <1>7, <1>8, <1>9 DEF nm, h, m
<1>10. CASE c # h
    <2>1. p + 1 \in 1..Len(pushed[h]) /\ c = pushed[h][p + 1] /\ c \in TableNodes
        BY <1>8, <1>10
    <2>2. m[p + 1] = IF NameOf[c] = nm THEN Append(m[p], c) ELSE m[p]
        <3>1. MatchStep(m, pushed[h], nm, p + 1) /\ (p + 1) - 1 = p
            BY <1>5, <2>1 DEF IsMatches
        <3> QED
            BY <2>1, <3>1 DEF MatchStep
    <2>3. found' = m[p + 1] /\ (call' = call \/ (call' = NULL /\ result' = c /\ NameOf[c] = nm))
        BY <1>3, <1>7, <1>10, <2>1, <2>2
    <2> QED
        BY <1>1, <1>2, <1>3, <1>5, <1>6, <2>1, <2>3 DEF nm, h, m
<1> QED
    BY <1>9, <1>10

\* A step of the loop of hash_find.
LEMMA TableFindStep == ASSUME Table!IInv, Table!FindStep PROVE Table!IInv'
<1> DEFINE c == tnext[tcur]
<1>1. /\ call # NULL /\ tcur' = c /\ UNCHANGED <<tnext, tprev, pushed, lastName, stale, state>>
      /\ \/ result' = NULL /\ call' = NULL /\ found' = found
         \/ /\ c \in TableNodes /\ result' = c /\ call' = NULL
            /\ found' = IF stale THEN found ELSE Append(found, c)
         \/ result' = result /\ call' = call /\ found' = found
    BY DEF Table!FindStep, Table!hash_cmp
<1>2. /\ tnext \in [TableLinks -> TableLinks \cup {NULL}] /\ call \in TableNodes
      /\ tcur \in TableLinks /\ found \in Seq(TableNodes)
    BY <1>1 DEF Table!IInv, Table!TypeOK, Table!LinksSet, TableLinks
<1>3. c \in TableLinks /\ tnext[c] # NULL
    BY <1>1, <1>2 DEF Table!IInv, Table!LinksSet, TableLinks
<1>4. found' \in Seq(TableNodes)
    <2>1. c \in TableNodes => Append(found, c) \in Seq(TableNodes)
        BY <1>2, AppendFacts
    <2> HIDE DEF c
    <2> QED
        BY <1>1, <1>2, <2>1
<1>5. Table!TypeOK'
    BY <1>1, <1>3, <1>4 DEF Table!IInv, Table!TypeOK, TableLinks
<1>6. Table!Linked' /\ Table!Disjoint' /\ Table!OwnChains'
    BY <1>1 DEF Table!IInv, Table!Linked, Table!Disjoint, Table!OwnChains, Table!Chain
<1>7. Table!LinksSet'
    <2>1. \A a \in TableHeads \cup TableNodes : tnext'[a] # NULL => tnext'[tnext'[a]] # NULL
        BY <1>1 DEF Table!IInv, Table!LinksSet
    <2>2. tnext'[tcur'] # NULL /\ tcur' # NULL
        BY <1>1, <1>3, TableConstants
    <2> QED
        BY <2>1, <2>2 DEF Table!LinksSet
<1> HIDE DEF c
<1>8. Table!Searching' /\ Table!Resting'
    <2>1. CASE stale
        <3>1. stale'
            BY <1>1, <2>1
        <3>2. call' # NULL => lastName' = NameOf[call']
            BY <1>1 DEF Table!IInv, Table!Searching
        <3> QED
            BY <3>1, <3>2 DEF Table!Searching, Table!Resting
    <2>2. CASE ~stale
        <3> DEFINE nm == NameOf[call]
                   h == HashOf[nm]
                   m == Table!MatchesIn(pushed[h], nm)
        <3>1. PICK p \in 0..Len(pushed[h]) :
                /\ call \in TableNodes /\ h \in TableHeads /\ lastName = nm
                /\ found = m[p] /\ m[p] \in Seq(TableNodes)
                /\ \/ /\ tcur' = h /\ p = Len(pushed[h])
                      /\ result' = NULL /\ call' = NULL /\ found' = found
                   \/ /\ p + 1 \in 1..Len(pushed[h]) /\ tcur' = pushed[h][p + 1]
                      /\ tcur' \in TableNodes /\ found' = m[p + 1]
                      /\ \/ call' = NULL /\ result' = tcur' /\ NameOf[tcur'] = nm
                         \/ call' = call
            BY <2>2, FindStepCases
        <3>2. pushed' = pushed /\ lastName' = lastName /\ call # NULL
            BY <1>1
        <3>3. CASE tcur' = h /\ call' = NULL
            <4>1. tcur' \notin TableNodes
                BY <3>1, <3>3, TableConstants
            <4> QED
                BY <3>3, <4>1 DEF Table!Searching, Table!Resting
        <3>4. CASE /\ p + 1 \in 1..Len(pushed[h]) /\ tcur' = pushed[h][p + 1]
                   /\ found' = m[p + 1] /\ call' = NULL /\ NameOf[tcur'] = nm
            <4>1. Table!Searched(NameOf[tcur], p + 1)'
                <5>1. p + 1 # 0
                    BY <3>1
                <5> QED
                    BY <3>2, <3>4, <5>1, SearchedNow
            <4>2. (p + 1 \in 1..Len(pushed[HashOf[NameOf[tcur]]]))'
                BY <3>2, <3>4
            <4>3. lastName' = NameOf[tcur']
                BY <3>1, <3>2, <3>4
            <4> QED
                BY <3>4, <4>1, <4>2, <4>3 DEF Table!Searching, Table!Resting, Table!Chain
        <3>5. CASE /\ p + 1 \in 1..Len(pushed[h]) /\ tcur' = pushed[h][p + 1]
                   /\ found' = m[p + 1] /\ call' = call
            <4>1. Table!Searched(NameOf[call], p + 1)'
                <5>1. p + 1 # 0
                    BY <3>1
                <5> QED
                    BY <3>2, <3>5, <5>1, SearchedCall
            <4>2. (p + 1 \in 0..Len(pushed[HashOf[NameOf[call]]]))'
                BY <3>2, <3>5
            <4>3. lastName' = NameOf[call'] /\ call' # NULL
                BY <3>1, <3>2, <3>5
            <4> QED
                BY <4>1, <4>2, <4>3 DEF Table!Searching, Table!Resting, Table!Chain
        <3> HIDE DEF nm, h, m
        <3> QED
            BY <3>1, <3>3, <3>4, <3>5
    <2> QED
        BY <2>1, <2>2
<1> QED
    BY <1>5, <1>6, <1>7, <1>8 DEF Table!IInv

\* Empty chains.
LEMMA EmptyChains ==
    ASSUME pushed' = [h \in TableHeads |-> <<>>],
           \A h \in TableHeads : tnext'[h] = h /\ tprev'[h] = h
    PROVE  Table!Linked' /\ Table!Disjoint' /\ Table!OwnChains'
<1>1. \A h \in TableHeads : pushed'[h] = <<>> /\ Len(pushed'[h]) = 0
    OBVIOUS
<1>2. Table!Disjoint' /\ Table!OwnChains'
    BY <1>1 DEF Table!Disjoint, Table!OwnChains
<1>3. Table!Linked'
    BY <1>1 DEF Table!Linked
<1> QED
    BY <1>2, <1>3

\* hashtable_destroy
LEMMA TableDestroy == ASSUME Table!IInv, Table!hashtable_destroy PROVE Table!IInv'
<1> DEFINE In(a) == a \in TableHeads \/ Table!InTable(a)
<1>1. /\ call = NULL /\ UNCHANGED <<tcur, call, result, lastName>>
      /\ pushed' = [h \in TableHeads |-> <<>>] /\ state' = "destroyed" /\ found' = <<>>
      /\ tnext' = [a \in DOMAIN tnext |-> IF In(a) THEN a ELSE tnext[a]]
      /\ tprev' = [a \in DOMAIN tprev |-> IF In(a) THEN a ELSE tprev[a]]
    BY DEF Table!hashtable_destroy, Table!Idle
<1>2. stale' = (tcur \in TableNodes)
    BY DEF Table!hashtable_destroy
<1>3. /\ tnext \in [TableLinks -> TableLinks \cup {NULL}]
      /\ tprev \in [TableLinks -> TableLinks \cup {NULL}]
    BY TableLists
<1>4. \A a \in TableLinks : tnext'[a] = (IF In(a) THEN a ELSE tnext[a]) /\ tprev'[a] = (IF In(a) THEN a ELSE tprev[a])
    BY <1>1, <1>3
<1>5. /\ tnext' \in [TableLinks -> TableLinks \cup {NULL}]
      /\ tprev' \in [TableLinks -> TableLinks \cup {NULL}]
    <2> HIDE DEF In
    <2> QED
        BY <1>1, <1>3
<1>6. Table!Linked' /\ Table!Disjoint' /\ Table!OwnChains'
    BY <1>1, <1>4, EmptyChains DEF TableLinks
<1>7. Table!TypeOK'
    <2>1. stale' \in BOOLEAN
        BY <1>2
    <2>2. <<>> \in Seq(TableNodes) /\ [h \in TableHeads |-> <<>>] \in [TableHeads -> Seq(TableNodes)]
        OBVIOUS
    <2> QED
        BY <1>1, <1>5, <2>1, <2>2 DEF Table!IInv, Table!TypeOK, TableLinks
<1>8. Table!LinksSet'
    <2> HIDE DEF In
    <2>1. \A a \in TableLinks : tnext[a] # NULL => tnext[a] \in TableLinks /\ tnext[tnext[a]] # NULL
        BY <1>3 DEF Table!IInv, Table!LinksSet, TableLinks
    <2>2. \A a \in TableLinks : tnext[a] # NULL => tnext'[a] # NULL
        BY <1>4, TableConstants
    <2>3. ASSUME NEW a \in TableLinks, tnext'[a] # NULL PROVE tnext'[tnext'[a]] # NULL
        <3>1. CASE In(a)
            BY <1>4, <2>3, <3>1
        <3>2. CASE ~In(a)
            BY <1>4, <2>1, <2>2, <2>3, <3>2
        <3> QED
            BY <3>1, <3>2
    <2>4. tcur # NULL => tcur \in TableLinks /\ tnext[tcur] # NULL
        BY DEF Table!IInv, Table!TypeOK, Table!LinksSet, TableLinks
    <2> QED
        BY <1>1, <2>2, <2>3, <2>4 DEF Table!LinksSet, TableLinks
<1>9. Table!Searching' /\ Table!Resting'
    BY <1>1, <1>2 DEF Table!Searching, Table!Resting
<1> QED
    BY <1>6, <1>7, <1>8, <1>9 DEF Table!IInv

\* An empty table.
LEMMA TableInit == ASSUME Table!Init PROVE Table!IInv
<1>1. /\ tnext = [h \in TableLinks |-> IF h \in TableHeads THEN h ELSE NULL]
      /\ tprev = [h \in TableLinks |-> IF h \in TableHeads THEN h ELSE NULL]
      /\ pushed = [h \in TableHeads |-> <<>>]
      /\ tcur = NULL /\ call = NULL /\ result = NULL /\ found = <<>> /\ state = "ready"
    BY DEF Table!Init, TableLinks
<1>2. Table!TypeOK
    <2>1. stale \in BOOLEAN
        BY DEF Table!Init
    <2>2. /\ <<>> \in Seq(TableNodes) /\ pushed \in [TableHeads -> Seq(TableNodes)]
          /\ tnext \in [TableLinks -> TableLinks \cup {NULL}]
          /\ tprev \in [TableLinks -> TableLinks \cup {NULL}]
        BY <1>1 DEF TableLinks
    <2> QED
        BY <1>1, <2>1, <2>2 DEF Table!TypeOK, TableLinks
<1>3. \A h \in TableHeads : pushed[h] = <<>> /\ Len(pushed[h]) = 0 /\ tnext[h] = h /\ tprev[h] = h
    BY <1>1 DEF TableLinks
<1>4. Table!Disjoint /\ Table!OwnChains
    BY <1>3 DEF Table!Disjoint, Table!OwnChains
<1>5. Table!Linked
    BY <1>3 DEF Table!Linked
<1>6. Table!LinksSet
    BY <1>1 DEF Table!LinksSet, TableLinks
<1>7. Table!Searching /\ Table!Resting
    BY <1>1, TableConstants DEF Table!Searching, Table!Resting, TableLinks
<1> QED
    BY <1>2, <1>4, <1>5, <1>6, <1>7 DEF Table!IInv

\* A step that leaves the table and the cursor alone.
LEMMA TableSame ==
    ASSUME Table!IInv, state' \in {"ready", "crashed", "destroyed"},
           UNCHANGED <<tnext, tprev, pushed, tcur, call, result, found, lastName, stale>>
    PROVE  Table!IInv'
<1>1. Table!TypeOK' /\ Table!LinksSet'
    BY DEF Table!IInv, Table!TypeOK, Table!LinksSet
<1>2. Table!Linked' /\ Table!Disjoint' /\ Table!OwnChains'
    BY DEF Table!IInv, Table!Linked, Table!Disjoint, Table!OwnChains, Table!Chain
<1>3. Table!Searching'
    <2>1. \A p : Table!Searched(NameOf[call], p) => Table!Searched(NameOf[call], p)'
        BY SearchedCall DEF Table!Searched
    <2> QED
        BY <2>1 DEF Table!IInv, Table!Searching, Table!Chain
<1>4. Table!Resting'
    <2>1. \A p : Table!Searched(NameOf[tcur], p) => Table!Searched(NameOf[tcur], p)'
        BY SearchedNow DEF Table!Searched
    <2> QED
        BY <2>1 DEF Table!IInv, Table!Resting, Table!Chain
<1> QED
    BY <1>1, <1>2, <1>3, <1>4 DEF Table!IInv

LEMMA TableNext == ASSUME Table!IInv, Table!Next PROVE Table!IInv'
<1>1. ASSUME NEW k \in TableNodes, Table!hash_push(k) PROVE Table!IInv'
    BY <1>1, TablePush
<1>2. ASSUME NEW k \in TableNodes, Table!FindStart(k) PROVE Table!IInv'
    BY <1>2, TableFindStart
<1>3. CASE Table!FindStep
    BY <1>3, TableFindStep
<1>4. CASE Table!hashtable_destroy
    BY <1>4, TableDestroy
<1>5. CASE Table!hashtable_init
    <2>1. /\ UNCHANGED <<tnext, tprev, pushed, tcur, call, result, found, lastName, stale>>
          /\ state' = "ready"
        BY <1>5 DEF Table!hashtable_init
    <2> QED
        BY <2>1, TableSame
<1> QED
    BY <1>1, <1>2, <1>3, <1>4, <1>5 DEF Table!Next

\* For any nodes, names and chains: the links of each chain lead through what was
\* pushed and back, and while hash_find runs, and when it has returned a node, the
\* cursor stands behind the matches that were returned.
THEOREM TableInvariance == MCSpec => []Table!IInv
<1>1. MCInit => Table!IInv
    BY TableInit DEF MCInit
<1>2. Table!IInv /\ [MCNext]_MCVars => Table!IInv'
    <2> SUFFICES ASSUME Table!IInv, [MCNext]_MCVars PROVE Table!IInv'
        OBVIOUS
    <2>1. CASE Table!Next
        BY <2>1, TableNext
    <2>2. CASE UNCHANGED tableVars
        <3>1. state' = state /\ state \in {"ready", "crashed", "destroyed"}
            BY <2>2 DEF tableVars, Table!IInv, Table!TypeOK
        <3> QED
            BY <2>2, <3>1, TableSame DEF tableVars
    <2> QED
        BY <2>1, <2>2 DEF MCNext, MCVars, ListStep, RingStep, SinglyStep, BookStep
<1> QED
    BY <1>1, <1>2, PTL DEF MCSpec

\* For any nodes, names and chains: successive calls of hash_find with one key
\* return its matches in the order in which they were pushed, each once, and NULL
\* only after all of them, whatever is pushed between the calls; unless the cursor
\* stood on a node when its table was destroyed.
THEOREM FindInOrderHolds == MCSpec => FindInOrder
<1> DEFINE Order == /\ Table!IsPrefix(found', Table!Matches(lastName))
                    /\ result' = NULL => found = Table!Matches(lastName)
           Ordered == call # NULL /\ call' = NULL /\ ~stale => Order
<1>1. Table!IInv /\ [MCNext]_MCVars => [Ordered]_(Table!vars)
    <2> SUFFICES ASSUME Table!IInv, [MCNext]_MCVars, call # NULL, call' = NULL, ~stale
                 PROVE  Order
        OBVIOUS
    <2>1. Table!Next
        BY DEF MCNext, MCVars, tableVars, ListStep, RingStep, SinglyStep, BookStep
    <2>2. Table!FindStep
        <3>1. \A k \in TableNodes : k # NULL
            BY TableConstants DEF TableLinks
        <3> QED
            BY <2>1, <3>1 DEF Table!Next, Table!hash_push, Table!FindStart, Table!Idle,
                              Table!hashtable_destroy, Table!hashtable_init
    <2> DEFINE nm == NameOf[call]
               h == HashOf[nm]
               m == Table!MatchesIn(pushed[h], nm)
               L == Len(pushed[h])
    <2>3. PICK p \in 0..L :
            /\ call \in TableNodes /\ h \in TableHeads /\ lastName = nm
            /\ found = m[p] /\ m[p] \in Seq(TableNodes)
            /\ \/ /\ tcur' = h /\ p = Len(pushed[h])
                  /\ result' = NULL /\ call' = NULL /\ found' = found
               \/ /\ p + 1 \in 1..Len(pushed[h]) /\ tcur' = pushed[h][p + 1]
                  /\ tcur' \in TableNodes /\ found' = m[p + 1]
                  /\ \/ call' = NULL /\ result' = tcur' /\ NameOf[tcur'] = nm
                     \/ call' = call
        BY <2>2, FindStepCases
    <2>4. pushed[h] \in Seq(TableNodes) /\ L \in Nat
        BY <2>3, TableLists
    <2>5. IsMatches(m, pushed[h], nm) /\ \A k \in 0..L : m[k] \in Seq(TableNodes)
        BY <2>4, MatchFacts, MatchesAreNodes
    <2>6. Table!Matches(lastName) = m[L]
        BY <2>3 DEF Table!Matches
    <2>7. ASSUME NEW q \in 0..L PROVE Table!IsPrefix(m[q], m[L])
        <3>1. Begins(m[q], m[L])
            <4>1. L \in 0..L /\ q <= L
                BY <2>4
            <4> QED
                BY <2>4, <2>5, <4>1, MatchesGrow
        <3>2. m[q] \in Seq(TableNodes) /\ m[L] \in Seq(TableNodes)
            BY <2>4, <2>5
        <3> DEFINE a == m[q]
                   b == m[L]
        <3> HIDE DEF a, b, m
        <3>3. a \in Seq(TableNodes) /\ b \in Seq(TableNodes) /\ Begins(a, b)
            BY <3>1, <3>2 DEF a, b
        <3>4. Table!IsPrefix(a, b)
            BY <3>3 DEF Table!IsPrefix, Begins
        <3> QED
            BY <3>4 DEF a, b
    <2>8. \A k \in TableNodes : k # NULL
        BY TableConstants DEF TableLinks
    <2> HIDE DEF nm, h, m, L
    <2>9. CASE tcur' = h /\ p = Len(pushed[h]) /\ found' = found
        BY <2>3, <2>6, <2>7, <2>9 DEF L
    <2>10. CASE /\ p + 1 \in 1..Len(pushed[h]) /\ tcur' \in TableNodes /\ found' = m[p + 1]
                /\ result' = tcur'
        <3>1. p + 1 \in 0..L
            BY <2>4, <2>10 DEF L
        <3> QED
            BY <2>6, <2>7, <2>8, <2>10, <3>1
    <2> QED
        BY <2>3, <2>8, <2>9, <2>10
<1>2. FindInOrder <=> [][Ordered]_(Table!vars)
    BY DEF FindInOrder, Table!FindInOrder
<1> QED
    BY <1>1, <1>2, TableInvariance, PTL DEF MCSpec

----------------------------------------------------------------------------
(* The singly linked lists *)

\* The nodes, the head and NULL.
LEMMA SinglyConstants ==
    IsFiniteSet(SNodes) /\ phead \notin SNodes /\ NULL \notin SNodes /\ NULL # phead
<1>1. Singly!IsFiniteSet(SNodes) /\ phead \notin SNodes /\ NULL \notin SNodes /\ NULL # phead
    BY ProgramsAssumption DEF Singly!ListAssumption
<1>2. Singly!IsFiniteSet(SNodes) = IsFiniteSet(SNodes)
    BY DEF Singly!IsFiniteSet, IsFiniteSet
<1> QED
    BY <1>1, <1>2

LEMMA SinglyCardinality == Singly!Cardinality(SNodes) = Cardinality(SNodes)
    BY DEF Singly!Cardinality, Cardinality

\* Chain is the sequence of nodes that the links lead through.
LEMMA ChainIs ==
    ASSUME NEW s \in Seq(SNodes), AllDifferent(s), NEW b, NEW e, e \notin SNodes,
           Line(s, b, e, snext)
    PROVE  Singly!Chain(b) = s
<1> DEFINE C == Cardinality(SNodes)
           L == Len(s)
           f == Singly!At(b)
           Ends(k) == /\ \A j \in 0..(k - 1) : f[j] \in SNodes
                      /\ k <= C => f[k] \notin SNodes
<1>1. L <= C /\ C \in Nat /\ L \in Nat
    BY NotLonger, SinglyConstants
<1>2. IsWalk(f, C, b, snext)
    <2>1. \E g : IsWalk(g, C, b, snext)
        <3> HIDE DEF C
        <3> QED
            BY <1>1, WalkExists
    <2>2. \E g : g = [k \in 0..C |-> IF k = 0 THEN b ELSE snext[g[k - 1]]]
        BY <2>1 DEF IsWalk
    <2>3. f = [k \in 0..C |-> IF k = 0 THEN b ELSE snext[f[k - 1]]]
        BY <2>2, SinglyCardinality DEF Singly!At
    <2> QED
        BY <2>3 DEF IsWalk
<1> HIDE DEF f
<1>3. \A k \in 0..L : f[k] = LineAt(s, e, k + 1)
    <2> HIDE DEF C
    <2> QED
        BY <1>1, <1>2, LineWalk
<1>4. f[L] = e /\ \A j \in 0..(L - 1) : f[j] = s[j + 1] /\ f[j] \in SNodes
    <2>1. \A j \in 0..(L - 1) : j \in 0..L /\ j + 1 \in 1..L
        BY <1>1
    <2>2. L \in 0..L /\ ~(L + 1 \in 1..L)
        BY <1>1
    <2>3. \A j \in 1..L : s[j] \in SNodes
        OBVIOUS
    <2> QED
        BY <1>3, <2>1, <2>2, <2>3 DEF LineAt
<1>5. L \in 0..(C + 1) /\ Ends(L)
    <2> HIDE DEF C, L
    <2> QED
        BY <1>1, <1>4
<1>6. ASSUME NEW k \in 0..(C + 1), Ends(k) PROVE k = L
    <2>1. CASE k < L
        <3>1. k \in 0..(L - 1) /\ k <= C
            BY <1>1, <2>1
        <3> QED
            BY <1>4, <1>6, <3>1
    <2>2. CASE L < k
        <3>1. L \in 0..(k - 1)
            BY <1>1, <2>2
        <3> QED
            BY <1>4, <1>6, <3>1
    <2> QED
        BY <1>1, <2>1, <2>2
<1>7. Singly!Length(b) = L
    <2>1. Singly!Length(b) = CHOOSE k \in 0..(C + 1) : Ends(k)
        BY SinglyCardinality DEF Singly!Length, f
    <2> HIDE DEF Ends, L
    <2> QED
        BY <1>5, <1>6, <2>1
<1>8. Singly!Chain(b) = [k \in 1..L |-> f[k - 1]]
    BY <1>7 DEF Singly!Chain, f
<1>9. \A k \in 1..L : f[k - 1] = s[k]
    <2>1. \A k \in 1..L : k - 1 \in 0..(L - 1) /\ (k - 1) + 1 = k
        BY <1>1
    <2> QED
        BY <1>4, <2>1
<1>10. s = [k \in 1..L |-> s[k]]
    OBVIOUS
<1> HIDE DEF L
<1> QED
    BY <1>8, <1>9, <1>10

\* What ends a list is not a node.
LEMMA EndIsNoNode == Singly!End \notin SNodes /\ (version = "head_loop" => Singly!End = phead)
    BY SinglyConstants DEF Singly!End

\* LeadsThrough and Spot, in terms of Line.
LEMMA SpotIs == \A s, k : Singly!Spot(s, k) = LineAt(s, Singly!End, k)
    BY DEF Singly!Spot, LineAt
LEMMA LeadsThroughIs == \A b, s : Singly!LeadsThrough(b, s) <=> Line(s, b, Singly!End, snext)
    BY DEF Singly!LeadsThrough, Singly!Spot, LineAt, Line

\* The nodes of s with their data.
Elems(s) == [k \in 1..Len(s) |-> [node |-> s[k], data |-> data[s[k]]]]

\* The same of what slist_invert has turned round.
LEMMA TurnedIs ==
    \A s, m : Singly!Turned(s, m) <=> TurnedTo(s, m, Singly!End, Prev, scur, snext)
    BY DEF Singly!Turned, Singly!Spot, LineAt, TurnedTo

\* The functions of the instance.
LEMMA ReverseIs == \A s : Singly!Reverse(s) = Backwards(s)
    BY DEF Singly!Reverse, Backwards
LEMMA ToSetIs == \A s : Singly!ToSet(s) = Members(s)
    BY DEF Singly!ToSet, Members

\* The nodes that slist_invert has turned round, and the others, make up the list.
LEMMA TurnedChains ==
    ASSUME NEW s \in Seq(SNodes), AllDifferent(s), NEW m \in 0..Len(s), Singly!Turned(s, m)
    PROVE  Singly!Reverse(Singly!Chain(Prev)) \o Singly!Chain(scur) = s
<1> DEFINE e == Singly!End
<1>1. TurnedTo(s, m, e, Prev, scur, snext) /\ e \notin SNodes
    BY TurnedIs, EndIsNoNode
<1> HIDE DEF e
<1>2. PICK r, q \in Seq(SNodes) : /\ AllDifferent(r) /\ Line(r, Prev, e, snext)
                                  /\ AllDifferent(q) /\ Line(q, scur, e, snext)
                                  /\ Backwards(r) \o q = s
    BY <1>1, TurnedLines
<1>3. Singly!Chain(Prev) = r /\ Singly!Chain(scur) = q
    BY <1>1, <1>2, ChainIs
<1> QED
    BY <1>2, <1>3, ReverseIs

\* The refinement mapping: what a caller regards as the list, with the data.
ViewIsContents == \A s \in Seq(SNodes) : Singly!View(s) =>
                      /\ Singly!Contents = Elems(s)
                      /\ spc \in {"ready", "aborted"} => Singly!List = s

LEMMA ContentsOfView == Singly!TypeOK => ViewIsContents
<1> SUFFICES ASSUME Singly!TypeOK, NEW s \in Seq(SNodes), Singly!View(s)
             PROVE  Singly!Contents = Elems(s) /\ (spc \in {"ready", "aborted"} => Singly!List = s)
    BY DEF ViewIsContents
<1>1. AllDifferent(s)
    BY DEF Singly!View, AllDifferent
<1>2. spc \in {"ready", "invert", "destroy", "gone", "aborted"}
    BY DEF Singly!TypeOK
<1>3. CASE spc = "invert"
    <2>1. PICK m \in 0..Len(s) : Singly!Turned(s, m)
        BY <1>3 DEF Singly!View
    <2>2. Singly!Reverse(Singly!Chain(Prev)) \o Singly!Chain(scur) = s
        BY <1>1, <2>1, TurnedChains
    <2> QED
        BY <1>3, <2>2 DEF Singly!Contents, Elems
<1>4. CASE spc \in {"destroy", "gone"}
    <2>1. Singly!LeadsThrough(scur, s)
        BY <1>4 DEF Singly!View
    <2>2. Singly!Chain(scur) = s
        BY <1>1, <2>1, LeadsThroughIs, ChainIs, EndIsNoNode
    <2> QED
        BY <1>4, <2>2 DEF Singly!Contents, Elems
<1>5. CASE spc \in {"ready", "aborted"}
    <2>1. Singly!LeadsThrough(snext[phead], s)
        BY <1>5 DEF Singly!View
    <2>2. Singly!List = s
        BY <1>1, <2>1, LeadsThroughIs, ChainIs, EndIsNoNode DEF Singly!List
    <2> QED
        BY <1>5, <2>2 DEF Singly!Contents, Elems
<1> QED
    BY <1>2, <1>3, <1>4, <1>5

\* The same after a step.
LEMMA ContentsOfViewNext == Singly!TypeOK' => ViewIsContents'
<1>1. Singly!TypeOK => ViewIsContents
    BY ContentsOfView
<1> QED
    BY <1>1, PTL

\* The elements of the sequence that a caller sees.
Recs == [node : SNodes, data : SValues]
Shown(s) == /\ Singly!Contents \in Seq(Recs) /\ Len(Singly!Contents) = Len(s)
            /\ \A k \in 1..Len(s) : Singly!Contents[k] = [node |-> s[k], data |-> data[s[k]]]
ViewShown == \A s \in Seq(SNodes) : Singly!View(s) => Shown(s)

LEMMA ViewShows == Singly!TypeOK => ViewShown
<1> SUFFICES ASSUME Singly!TypeOK, NEW s \in Seq(SNodes), Singly!View(s) PROVE Shown(s)
    BY DEF ViewShown
<1>1. Singly!Contents = Elems(s)
    BY ContentsOfView DEF ViewIsContents
<1>2. Len(s) \in Nat /\ \A k \in 1..Len(s) : s[k] \in SNodes
    OBVIOUS
<1>3. \A k \in 1..Len(s) : [node |-> s[k], data |-> data[s[k]]] \in Recs
    BY <1>2 DEF Singly!TypeOK, Recs
<1>4. Elems(s) \in [1..Len(s) -> Recs]
    BY <1>3 DEF Elems
<1>5. Elems(s) \in Seq(Recs) /\ Len(Elems(s)) = Len(s)
    BY <1>2, <1>4, FunctionIsSeq
<1>6. \A k \in 1..Len(s) : Elems(s)[k] = [node |-> s[k], data |-> data[s[k]]]
    BY DEF Elems
<1> QED
    BY <1>1, <1>5, <1>6 DEF Shown

\* The same after a step.
LEMMA ViewShowsNext == Singly!TypeOK' => ViewShown'
<1>1. Singly!TypeOK => ViewShown
    BY ViewShows
<1> QED
    BY <1>1, PTL

\* A step that leaves the view and the data alone leaves the contents alone.
LEMMA SameContents ==
    ASSUME Singly!TypeOK, Singly!TypeOK', NEW s \in Seq(SNodes), Singly!View(s), Singly!View(s)',
           data' = data
    PROVE  Singly!Contents' = Singly!Contents
<1>1. Shown(s)
    BY ViewShows DEF ViewShown
<1>2. Shown(s)'
    BY ViewShowsNext DEF ViewShown
<1> DEFINE c == Singly!Contents
           d == Singly!Contents'
<1>3. c \in Seq(Recs) /\ Len(c) = Len(s) /\ \A k \in 1..Len(s) : c[k] = [node |-> s[k], data |-> data[s[k]]]
    BY <1>1 DEF Shown
<1>4. d \in Seq(Recs) /\ Len(d) = Len(s) /\ \A k \in 1..Len(s) : d[k] = [node |-> s[k], data |-> data[s[k]]]
    BY <1>2 DEF Shown, Recs
<1> HIDE DEF c, d
<1>5. Len(d) = Len(c) /\ \A k \in 1..Len(d) : d[k] = c[k]
    BY <1>3, <1>4
<1>6. d = c
    BY <1>3, <1>4, <1>5, SeqEqual
<1> QED
    BY <1>6 DEF c, d

\* What a step must do: keep the invariant, and be a step of the sequence or none.
SinglySimulates == Singly!IInv' /\ [Singly!Abstract!Next]_<<Singly!Contents, out>>

\* A node that is new at one end of the view.
LEMMA InsertShown ==
    ASSUME Singly!TypeOK, Singly!TypeOK', NEW s \in Seq(SNodes), Singly!View(s),
           NEW t \in Seq(SNodes), Singly!View(t)', NEW nd \in SNodes, Avoids(s, nd),
           NEW j \in 0..Len(s), j = 0 \/ j = Len(s), InsertedSeq(s, j, nd, t),
           \A x \in SNodes : x # nd => data'[x] = data[x], out' = <<>>
    PROVE  Singly!Abstract!Next
<1> DEFINE c == Singly!Contents
           d == Singly!Contents'
           v == data'[nd]
           r == [node |-> nd, data |-> v]
           L == Len(s)
<1>1. c \in Seq(Recs) /\ Len(c) = L /\ \A k \in 1..L : c[k] = [node |-> s[k], data |-> data[s[k]]]
    BY ViewShows DEF ViewShown, Shown
<1>2. d \in Seq(Recs) /\ Len(d) = Len(t) /\ \A k \in 1..Len(t) : d[k] = [node |-> t[k], data |-> data'[t[k]]]
    <2>1. Shown(t)'
        BY ViewShowsNext DEF ViewShown
    <2> QED
        BY <2>1 DEF Shown, Recs
<1>3. v \in SValues /\ r \in Recs
    BY DEF Singly!TypeOK, Recs
<1>4. /\ L \in Nat /\ Len(t) = L + 1
      /\ \A i \in 1..(L + 1) : t[i] = IF i <= j THEN s[i] ELSE IF i = j + 1 THEN nd ELSE s[i - 1]
    BY DEF InsertedSeq
<1>5. \A k \in 1..L : s[k] \in SNodes /\ s[k] # nd /\ data'[s[k]] = data[s[k]]
    BY DEF Avoids
<1> HIDE DEF c, d, L
<1>6. InsertedSeq(c, j, r, d)
    <2>1. ASSUME NEW i \in 1..(L + 1)
          PROVE  d[i] = IF i <= j THEN c[i] ELSE IF i = j + 1 THEN r ELSE c[i - 1]
        <3>1. d[i] = [node |-> t[i], data |-> data'[t[i]]]
            BY <1>2, <1>4
        <3>2. CASE i <= j
            <4>1. i \in 1..L /\ t[i] = s[i]
                BY <1>4, <3>2 DEF L
            <4> QED
                BY <1>1, <1>5, <3>1, <3>2, <4>1
        <3>3. CASE i = j + 1
            <4>1. t[i] = nd /\ ~(i <= j)
                BY <1>4, <3>3
            <4> QED
                BY <3>1, <3>3, <4>1
        <3>4. CASE ~(i <= j) /\ i # j + 1
            <4>1. i - 1 \in 1..L /\ t[i] = s[i - 1]
                BY <1>4, <3>4 DEF L
            <4> QED
                BY <1>1, <1>5, <3>1, <3>4, <4>1
        <3> QED
            BY <3>2, <3>3, <3>4
    <2> QED
        BY <1>1, <1>2, <1>4, <2>1 DEF InsertedSeq
<1>7. d = <<r>> \o c \/ d = Append(c, r)
    <2> HIDE DEF r
    <2>1. CASE j = 0
        BY <1>1, <1>2, <1>3, <1>6, <2>1, SequenceForms
    <2>2. CASE j = Len(c)
        BY <1>1, <1>2, <1>3, <1>6, <2>2, SequenceForms
    <2> QED
        BY <1>1, <2>1, <2>2 DEF L
<1>8. \A k \in DOMAIN c : c[k].node # r.node
    <2>1. DOMAIN c = 1..L
        BY <1>1
    <2> QED
        BY <1>1, <1>5, <2>1
<1>9. Singly!Abstract!Add([node |-> nd, data |-> v])
    BY <1>7, <1>8 DEF Singly!Abstract!Add, c, d
<1> HIDE DEF v
<1> QED
    BY <1>3, <1>9 DEF Singly!Abstract!Next

\* A node of the view that goes.
LEMMA DeleteShown ==
    ASSUME Singly!TypeOK, Singly!TypeOK', NEW s \in Seq(SNodes), Singly!View(s),
           NEW t \in Seq(SNodes), Singly!View(t)', NEW j \in 1..Len(s), DeletedSeq(s, j, t),
           data' = data, out' = <<>>
    PROVE  Singly!Abstract!Next
<1> DEFINE c == Singly!Contents
           d == Singly!Contents'
           L == Len(s)
<1>1. c \in Seq(Recs) /\ Len(c) = L /\ \A k \in 1..L : c[k] = [node |-> s[k], data |-> data[s[k]]]
    BY ViewShows DEF ViewShown, Shown
<1>2. d \in Seq(Recs) /\ Len(d) = Len(t) /\ \A k \in 1..Len(t) : d[k] = [node |-> t[k], data |-> data[t[k]]]
    <2>1. Shown(t)'
        BY ViewShowsNext DEF ViewShown
    <2> QED
        BY <2>1 DEF Shown, Recs
<1>0. L \in Nat /\ j \in 1..L
    OBVIOUS
<1>3. /\ L \in Nat /\ j \in 1..L /\ Len(t) = L - 1
      /\ \A i \in 1..(L - 1) : t[i] = IF i < j THEN s[i] ELSE s[i + 1]
    BY <1>0 DEF DeletedSeq
<1> HIDE DEF c, d, L
<1>4. DeletedSeq(c, j, d)
    <2>1. ASSUME NEW i \in 1..(L - 1) PROVE d[i] = IF i < j THEN c[i] ELSE c[i + 1]
        <3>1. i \in 1..L /\ i + 1 \in 1..L /\ i \in 1..Len(t)
            BY <1>3
        <3> QED
            BY <1>1, <1>2, <1>3, <3>1
    <2> QED
        BY <1>1, <1>2, <1>3, <2>1 DEF DeletedSeq
<1>5. \E v : v \in Recs
    BY <1>1, <1>3
<1>6. d = Cut(c, j)
    BY <1>1, <1>2, <1>3, <1>4, <1>5, SequenceForms
<1>7. j \in DOMAIN c
    BY <1>1, <1>3
<1>8. Singly!Abstract!Unlink(j) /\ j \in DOMAIN Singly!Contents
    BY <1>6, <1>7 DEF Singly!Abstract!Unlink, Singly!Abstract!RemoveAt, Cut, c, d
<1> QED
    BY <1>8 DEF Singly!Abstract!Next

SLinks == SNodes \cup {phead}
STargets == SNodes \cup {phead, NULL}

\* What the invariant says when no call is running.
IsReady(s) == /\ Path(s, phead, Singly!End, snext) /\ AllDifferent(s)
              /\ Singly!List = s /\ linked = Singly!ToSet(s)

LEMMA ReadyIs ==
    ASSUME Singly!TypeOK, NEW s \in Seq(SNodes), Singly!View(s), spc \in {"ready", "aborted"}
    PROVE  IsReady(s)
<1>1. linked = Singly!ToSet(s) /\ AllDifferent(s) /\ Singly!LeadsThrough(snext[phead], s)
    BY DEF Singly!View, AllDifferent
<1>2. Path(s, phead, Singly!End, snext)
    BY <1>1, LeadsThroughIs, PathIsLine
<1>3. Singly!List = s
    BY ContentsOfView DEF ViewIsContents
<1> QED
    BY <1>1, <1>2, <1>3 DEF IsReady

\* The nodes that are not linked are not in the view.
LEMMA NotInView ==
    ASSUME NEW s \in Seq(SNodes), linked = Singly!ToSet(s), NEW nd, nd \notin linked
    PROVE  Avoids(s, nd)
    BY DEF Singly!ToSet, Avoids

\* The view after a step that ends with no call running.
LEMMA ReadyNext ==
    ASSUME NEW t \in Seq(SNodes), version' = version, spc' \in {"ready", "aborted"},
           linked' = Singly!ToSet(t), AllDifferent(t), Path(t, phead, Singly!End, snext')
    PROVE  Singly!View(t)'
<1>1. Line(t, snext'[phead], Singly!End, snext')
    BY PathIsLine
<1>2. Singly!LeadsThrough(snext[phead], t)'
    BY <1>1 DEF Singly!LeadsThrough, Singly!Spot, Singly!End, Line, LineAt
<1>3. spc' # "invert" /\ spc' \notin {"destroy", "gone"}
    OBVIOUS
<1>4. \A j, k \in 1..Len(t) : t[j] = t[k] => j = k
    BY DEF AllDifferent
<1>5. linked' = Singly!ToSet(t)'
    BY DEF Singly!ToSet
<1> QED
    BY <1>2, <1>3, <1>4, <1>5 DEF Singly!View

\* The invariant after a step.
LEMMA InvariantNext ==
    ASSUME NEW t \in Seq(SNodes), Singly!View(t)', Singly!TypeOK',
           spc' \in {"invert", "destroy", "gone"} => version' = "head_loop" /\ out' = <<>>
    PROVE  Singly!IInv'
    BY DEF Singly!IInv

\* A node is linked in at one end of the list.
LEMMA InsertSimulates ==
    ASSUME Singly!TypeOK, NEW s \in Seq(SNodes), Singly!View(s), IsReady(s), spc = "ready",
           NEW nd \in SNodes, nd \notin linked, linked' = linked \cup {nd},
           NEW t \in Seq(SNodes), NEW j \in 0..Len(s), j = 0 \/ j = Len(s), InsertedSeq(s, j, nd, t),
           LinkedIn(SLinks, PathAt(s, phead, Singly!End, j), nd, snext, snext'),
           snext' \in [SLinks -> STargets], data' \in [SNodes -> SValues],
           \A x \in SNodes : x # nd => data'[x] = data[x],
           UNCHANGED <<version, spc>>, out' = <<>>
    PROVE  SinglySimulates
<1> DEFINE e == Singly!End
<1>1. Path(s, phead, e, snext) /\ AllDifferent(s) /\ linked = Singly!ToSet(s)
    BY DEF IsReady
<1>2. Avoids(s, nd)
    BY <1>1, NotInView
<1>3. Singly!TypeOK'
    BY DEF Singly!TypeOK, SLinks, STargets
<1>4. linked' = Singly!ToSet(t)
    BY <1>1, InsertedSet, ToSetIs
<1>5. AllDifferent(t)
    BY <1>1, <1>2, InsertInjective
<1>6. phead \notin SNodes /\ LinkedIn(SNodes \cup {phead}, PathAt(s, phead, e, j), nd, snext, snext')
    BY SinglyConstants DEF SLinks
<1> HIDE DEF e
<1>7. Path(t, phead, e, snext')
    BY <1>1, <1>2, <1>6, PathInsert
<1>8. spc' \in {"ready", "aborted"} /\ version' = version
    OBVIOUS
<1>9. Singly!View(t)'
    BY <1>4, <1>5, <1>7, <1>8, ReadyNext DEF e
<1>10. Singly!IInv'
    BY <1>3, <1>9, InvariantNext
<1>11. Singly!Abstract!Next
    BY <1>2, <1>3, <1>9, InsertShown
<1> QED
    BY <1>10, <1>11 DEF SinglySimulates

\* A node of the list is unlinked.
LEMMA DeleteSimulates ==
    ASSUME Singly!TypeOK, NEW s \in Seq(SNodes), Singly!View(s), IsReady(s), spc = "ready",
           NEW j \in 1..Len(s), linked' = linked \ {s[j]},
           TakenOut(SLinks, PathAt(s, phead, Singly!End, j - 1), s[j], snext, snext'),
           snext' \in [SLinks -> STargets], UNCHANGED <<version, data, spc>>, out' = <<>>
    PROVE  SinglySimulates
<1> DEFINE e == Singly!End
           t == Cut(s, j)
<1>1. Path(s, phead, e, snext) /\ AllDifferent(s) /\ linked = Singly!ToSet(s)
    BY DEF IsReady
<1>2. t \in Seq(SNodes) /\ DeletedSeq(s, j, t)
    BY CutFacts DEF DeletedSeq
<1> HIDE DEF t
<1>3. Singly!TypeOK'
    BY <1>1 DEF Singly!TypeOK, SLinks, STargets
<1>4. linked' = Singly!ToSet(t)
    BY <1>1, <1>2, DeletedSet, ToSetIs
<1>5. AllDifferent(t)
    BY <1>1, <1>2, DeleteInjective
<1>6. phead \notin SNodes /\ TakenOut(SNodes \cup {phead}, PathAt(s, phead, e, j - 1), s[j], snext, snext')
    BY SinglyConstants DEF SLinks
<1> HIDE DEF e
<1>7. Path(t, phead, e, snext')
    BY <1>1, <1>2, <1>6, PathDelete
<1>8. spc' \in {"ready", "aborted"} /\ version' = version
    OBVIOUS
<1>9. Singly!View(t)'
    BY <1>2, <1>4, <1>5, <1>7, <1>8, ReadyNext DEF e
<1>10. Singly!IInv'
    BY <1>2, <1>3, <1>9, InvariantNext
<1>11. Singly!Abstract!Next
    BY <1>2, <1>3, <1>9, DeleteShown
<1> QED
    BY <1>10, <1>11 DEF SinglySimulates

\* A call that only looks at the list.
LEMMA ObserveSimulates ==
    ASSUME Singly!TypeOK, NEW s \in Seq(SNodes), Singly!View(s), IsReady(s), spc = "ready",
           UNCHANGED <<version, snext, data, linked>>, spc' \in {"ready", "aborted"},
           \/ out' \in {<<>>, Singly!Abstract!Data(Singly!Contents),
                        Singly!Abstract!Reverse(Singly!Abstract!Data(Singly!Contents))}
           \/ \E k \in DOMAIN Singly!Contents : out' = <<Singly!Contents[k].data>>
    PROVE  SinglySimulates
<1>1. Singly!TypeOK'
    BY DEF Singly!TypeOK
<1>2. Singly!View(s)'
    BY ReadyNext DEF IsReady
<1>3. Singly!IInv'
    BY <1>1, <1>2, InvariantNext
<1>4. Singly!Contents' = Singly!Contents
    BY <1>1, <1>2, SameContents
<1>5. Singly!Abstract!Observe
    BY <1>4 DEF Singly!Abstract!Observe
<1> QED
    BY <1>3, <1>5 DEF SinglySimulates, Singly!Abstract!Next

\* slist_add
LEMMA SinglyAdd ==
    ASSUME Singly!IInv, NEW nd \in SNodes, NEW v \in SValues, Singly!slist_add(nd, v)
    PROVE  SinglySimulates
<1>1. /\ spc = "ready" /\ nd \notin linked /\ linked' = linked \cup {nd} /\ out' = <<>>
      /\ UNCHANGED <<version, spc>>
      /\ snext' = [snext EXCEPT ![nd] = snext[phead], ![phead] = nd]
      /\ data' = [data EXCEPT ![nd] = v] \/ data' = data
    BY DEF Singly!slist_add, Singly!NewNode
<1>2. PICK s \in Seq(SNodes) : Singly!View(s)
    BY DEF Singly!IInv
<1>3. Singly!TypeOK
    BY DEF Singly!IInv
<1>4. IsReady(s)
    BY <1>1, <1>2, <1>3, ReadyIs
<1>5. /\ snext \in [SLinks -> STargets] /\ data \in [SNodes -> SValues]
      /\ phead \notin SNodes /\ nd # phead /\ nd \in SLinks /\ phead \in SLinks
    BY <1>3, SinglyConstants DEF Singly!TypeOK, SLinks, STargets
<1>6. snext[phead] \in STargets /\ nd \in STargets
    BY <1>5 DEF STargets
<1>7. snext' \in [SLinks -> STargets] /\ LinkedIn(SLinks, phead, nd, snext, snext')
    BY <1>1, <1>5, <1>6 DEF LinkedIn
<1>8. PathAt(s, phead, Singly!End, 0) = phead
    BY DEF PathAt
<1>9. data' \in [SNodes -> SValues] /\ \A x \in SNodes : x # nd => data'[x] = data[x]
    BY <1>1, <1>5
<1>10. <<nd>> \o s \in Seq(SNodes) /\ InsertedSeq(s, 0, nd, <<nd>> \o s) /\ 0 \in 0..Len(s)
    <2> DEFINE t == <<nd>> \o s
    <2>1. /\ t \in Seq(SNodes) /\ Len(t) = Len(s) + 1 /\ Len(s) \in Nat
          /\ \A i \in 1..(Len(s) + 1) : t[i] = IF i = 1 THEN nd ELSE s[i - 1]
        BY ConsFacts
    <2> HIDE DEF t
    <2>2. InsertedSeq(s, 0, nd, t) /\ 0 \in 0..Len(s)
        BY <2>1 DEF InsertedSeq
    <2> QED
        BY <2>1, <2>2 DEF t
<1> QED
    BY <1>1, <1>2, <1>3, <1>4, <1>7, <1>8, <1>9, <1>10, InsertSimulates

\* slist_add_tail
LEMMA SinglyAddTail ==
    ASSUME Singly!IInv, NEW nd \in SNodes, NEW v \in SValues, Singly!slist_add_tail(nd, v)
    PROVE  SinglySimulates
<1> DEFINE p == IF Singly!List = <<>> THEN phead ELSE Singly!Last(Singly!List)
<1>1. /\ spc = "ready" /\ nd \notin linked /\ linked' = linked \cup {nd} /\ out' = <<>>
      /\ UNCHANGED <<version, spc>>
      /\ snext' = [snext EXCEPT ![nd] = Singly!End, ![p] = nd]
      /\ data' = [data EXCEPT ![nd] = v] \/ data' = data
    BY DEF Singly!slist_add_tail, Singly!NewNode
<1>2. PICK s \in Seq(SNodes) : Singly!View(s)
    BY DEF Singly!IInv
<1>3. Singly!TypeOK
    BY DEF Singly!IInv
<1>4. IsReady(s)
    BY <1>1, <1>2, <1>3, ReadyIs
<1> DEFINE L == Len(s)
           e == Singly!End
<1>5. /\ snext \in [SLinks -> STargets] /\ data \in [SNodes -> SValues]
      /\ phead \notin SNodes /\ nd # phead /\ nd \in SLinks /\ phead \in SLinks
      /\ e \in STargets /\ nd \in STargets
    BY <1>3, SinglyConstants DEF Singly!TypeOK, Singly!End, SLinks, STargets
<1>6. p = (IF s = <<>> THEN phead ELSE s[L])
    BY <1>4 DEF IsReady, Singly!Last
<1>7. L \in Nat /\ (s = <<>> <=> L = 0) /\ \A k \in 1..L : s[k] \in SNodes
    OBVIOUS
<1>8. Avoids(s, nd)
    BY <1>1, <1>4, NotInView DEF IsReady
<1>9. p \in SLinks /\ p # nd /\ p = PathAt(s, phead, e, L)
    <2>1. CASE L = 0
        BY <1>5, <1>6, <1>7, <2>1 DEF PathAt
    <2>2. CASE L # 0
        <3>1. L \in 1..L
            BY <1>7, <2>2
        <3>2. p = s[L] /\ s[L] \in SNodes /\ s[L] # nd
            BY <1>6, <1>7, <1>8, <2>2, <3>1 DEF Avoids
        <3> QED
            BY <2>2, <3>1, <3>2 DEF PathAt, LineAt, SLinks
    <2> QED
        BY <2>1, <2>2
<1>10. snext[p] = e
    <2>1. L \in 0..L /\ snext[PathAt(s, phead, e, L)] = PathAt(s, phead, e, L + 1)
        BY <1>4, <1>7 DEF IsReady, Path
    <2>2. PathAt(s, phead, e, L + 1) = e
        BY <1>7 DEF PathAt, LineAt
    <2> QED
        BY <1>9, <2>1, <2>2
<1> HIDE DEF p, e, L
<1>11. snext' \in [SLinks -> STargets] /\ LinkedIn(SLinks, p, nd, snext, snext')
    <2>1. snext' = [snext EXCEPT ![nd] = e, ![p] = nd]
        BY <1>1 DEF e
    <2> QED
        BY <1>5, <1>9, <1>10, <2>1 DEF LinkedIn
<1>12. data' \in [SNodes -> SValues] /\ \A x \in SNodes : x # nd => data'[x] = data[x]
    BY <1>1, <1>5
<1>13. Append(s, nd) \in Seq(SNodes) /\ InsertedSeq(s, L, nd, Append(s, nd)) /\ L \in 0..L
    <2> DEFINE t == Append(s, nd)
    <2>1. /\ t \in Seq(SNodes) /\ Len(t) = L + 1
          /\ \A i \in 1..(L + 1) : t[i] = IF i = L + 1 THEN nd ELSE s[i]
        BY AppendFacts DEF L
    <2> HIDE DEF t
    <2>2. \A i \in 1..(L + 1) : t[i] = IF i <= L THEN s[i] ELSE IF i = L + 1 THEN nd ELSE s[i - 1]
        BY <1>7, <2>1
    <2>3. InsertedSeq(s, L, nd, t) /\ L \in 0..L
        BY <1>7, <2>1, <2>2 DEF InsertedSeq, L
    <2> QED
        BY <2>1, <2>3 DEF t
<1> QED
    BY <1>1, <1>2, <1>3, <1>4, <1>9, <1>11, <1>12, <1>13, InsertSimulates DEF L, e

\* The links when the k-th node goes.
LEMMA UnlinkSimulates ==
    ASSUME Singly!IInv, spc = "ready", NEW k \in DOMAIN Singly!List, NEW x \in STargets,
           snext' = [snext EXCEPT ![Singly!Before(k)] = snext[Singly!List[k]],
                                  ![Singly!List[k]] = x],
           linked' = linked \ {Singly!List[k]}, out' = <<>>, UNCHANGED <<version, data, spc>>
    PROVE  SinglySimulates
<1>2. PICK s \in Seq(SNodes) : Singly!View(s)
    BY DEF Singly!IInv
<1>3. Singly!TypeOK
    BY DEF Singly!IInv
<1>4. IsReady(s)
    BY <1>2, <1>3, ReadyIs
<1> DEFINE e == Singly!End
           p == PathAt(s, phead, e, k - 1)
           nd == s[k]
<1>5. /\ Singly!List = s /\ k \in 1..Len(s) /\ Len(s) \in Nat
      /\ AllDifferent(s) /\ \A j \in 1..Len(s) : s[j] \in SNodes
    BY <1>4 DEF IsReady
<1>6. Singly!Before(k) = p
    <2>1. Singly!Before(k) = (IF k = 1 THEN phead ELSE s[k - 1])
        BY <1>5 DEF Singly!Before
    <2>2. k = 1 \/ (k - 1 \in 1..Len(s) /\ k - 1 # 0)
        BY <1>5
    <2> QED
        BY <1>5, <2>1, <2>2 DEF PathAt, LineAt
<1>7. phead \notin SNodes /\ snext \in [SLinks -> STargets]
    BY <1>3, SinglyConstants DEF Singly!TypeOK, SLinks, STargets
<1>8. p \in SLinks /\ nd \in SLinks /\ p # nd
    <2>1. k = 1 \/ (k - 1 \in 1..Len(s) /\ k - 1 # 0 /\ k - 1 # k)
        BY <1>5
    <2>2. nd \in SNodes
        BY <1>5
    <2>3. CASE k = 1
        BY <1>7, <2>2, <2>3 DEF PathAt, SLinks
    <2>4. CASE k - 1 \in 1..Len(s) /\ k - 1 # 0 /\ k - 1 # k
        <3>1. p = s[k - 1]
            BY <2>4 DEF PathAt, LineAt
        <3> QED
            BY <1>5, <2>2, <2>4, <3>1 DEF AllDifferent, SLinks
    <2> QED
        BY <2>1, <2>3, <2>4
<1>9. snext' = [snext EXCEPT ![p] = snext[nd], ![nd] = x]
    BY <1>5, <1>6
<1>10. linked' = linked \ {s[k]}
    BY <1>5
<1> HIDE DEF p, e
<1>11. snext' \in [SLinks -> STargets] /\ TakenOut(SLinks, p, nd, snext, snext')
    <2> HIDE DEF nd
    <2> QED
        BY <1>7, <1>8, <1>9 DEF TakenOut
<1> QED
    BY <1>2, <1>3, <1>4, <1>5, <1>10, <1>11, DeleteSimulates DEF p, e

\* slist_del of 01head_loop
LEMMA SinglyDelData == ASSUME Singly!IInv, NEW v \in SValues, Singly!DelData(v) PROVE SinglySimulates
<1>1. /\ spc = "ready" /\ out' = <<>> /\ UNCHANGED <<version, data, spc>>
      /\ \E k \in DOMAIN Singly!List :
            /\ snext' = [snext EXCEPT ![Singly!Before(k)] = snext[Singly!List[k]],
                                      ![Singly!List[k]] = Singly!List[k]]
            /\ linked' = linked \ {Singly!List[k]}
    BY DEF Singly!DelData
<1>2. PICK k \in DOMAIN Singly!List :
            /\ snext' = [snext EXCEPT ![Singly!Before(k)] = snext[Singly!List[k]],
                                      ![Singly!List[k]] = Singly!List[k]]
            /\ linked' = linked \ {Singly!List[k]}
    BY <1>1
<1>3. Singly!List[k] \in STargets
    <2>1. PICK s \in Seq(SNodes) : Singly!View(s)
        BY DEF Singly!IInv
    <2>2. Singly!List = s
        BY <1>1, <2>1, ReadyIs DEF Singly!IInv, IsReady
    <2> QED
        BY <1>2, <2>2 DEF STargets
<1> QED
    BY <1>1, <1>2, <1>3, UnlinkSimulates

\* slist_del of 02head_noloop
LEMMA SinglyDelNode ==
    ASSUME Singly!IInv, NEW key \in SNodes \cup {NULL}, Singly!DelNode(key) PROVE SinglySimulates
<1>1. /\ spc = "ready" /\ out' = <<>> /\ UNCHANGED <<version, data>>
      /\ \/ spc' = "aborted" /\ UNCHANGED <<snext, linked>>
         \/ UNCHANGED <<snext, linked, spc>>
         \/ /\ \E k \in DOMAIN Singly!List :
                  /\ Singly!List[k] = key
                  /\ snext' = [snext EXCEPT ![Singly!Before(k)] = snext[key],
                                            ![key] = IF k = 1 THEN key ELSE NULL]
            /\ linked' = linked \ {key} /\ UNCHANGED spc
    BY DEF Singly!DelNode
<1>2. CASE spc' \in {"ready", "aborted"} /\ UNCHANGED <<snext, linked>>
    <2>1. PICK s \in Seq(SNodes) : Singly!View(s)
        BY DEF Singly!IInv
    <2>2. Singly!TypeOK
        BY DEF Singly!IInv
    <2>3. IsReady(s)
        BY <1>1, <2>1, <2>2, ReadyIs
    <2> QED
        BY <1>1, <1>2, <2>1, <2>2, <2>3, ObserveSimulates
<1>3. CASE /\ \E k \in DOMAIN Singly!List :
                  /\ Singly!List[k] = key
                  /\ snext' = [snext EXCEPT ![Singly!Before(k)] = snext[key],
                                            ![key] = IF k = 1 THEN key ELSE NULL]
           /\ linked' = linked \ {key} /\ UNCHANGED spc
    <2>1. PICK k \in DOMAIN Singly!List :
                  /\ Singly!List[k] = key
                  /\ snext' = [snext EXCEPT ![Singly!Before(k)] = snext[key],
                                            ![key] = IF k = 1 THEN key ELSE NULL]
        BY <1>3
    <2>2. PICK x : x = IF k = 1 THEN key ELSE NULL
        OBVIOUS
    <2>3. x \in STargets
        BY <2>2 DEF STargets
    <2>4. /\ snext' = [snext EXCEPT ![Singly!Before(k)] = snext[Singly!List[k]],
                                    ![Singly!List[k]] = x]
          /\ linked' = linked \ {Singly!List[k]}
        BY <1>3, <2>1, <2>2
    <2> QED
        BY <1>1, <1>3, <2>3, <2>4, UnlinkSimulates
<1> QED
    BY <1>1, <1>2, <1>3

\* The data that a caller sees.
LEMMA DataShown ==
    ASSUME Singly!TypeOK, NEW s \in Seq(SNodes), Singly!View(s)
    PROVE  /\ DOMAIN Singly!Contents = 1..Len(s)
           /\ \A k \in 1..Len(s) : Singly!Contents[k].data = data[s[k]]
           /\ Singly!Abstract!Data(Singly!Contents) = Singly!DataOf(s)
           /\ Singly!DataOf(s) \in Seq(SValues) /\ Len(Singly!DataOf(s)) = Len(s)
           /\ \A k \in 1..Len(s) : Singly!DataOf(s)[k] = data[s[k]]
<1>1. Shown(s)
    BY ViewShows DEF ViewShown
<1>2. Len(s) \in Nat /\ DOMAIN s = 1..Len(s) /\ \A k \in 1..Len(s) : data[s[k]] \in SValues
    BY DEF Singly!TypeOK
<1> DEFINE d == [k \in 1..Len(s) |-> data[s[k]]]
<1>3. d \in [1..Len(s) -> SValues] /\ \A k \in 1..Len(s) : d[k] = data[s[k]]
    BY <1>2
<1>4. d \in Seq(SValues) /\ Len(d) = Len(s)
    BY <1>2, <1>3, FunctionIsSeq
<1>5. Singly!DataOf(s) = d
    BY <1>2 DEF Singly!DataOf
<1>6. DOMAIN Singly!Contents = 1..Len(s)
    BY <1>1 DEF Shown
<1>7. \A k \in 1..Len(s) : Singly!Contents[k].data = data[s[k]]
    <2> TAKE k \in 1..Len(s)
    <2>1. Singly!Contents[k] = [node |-> s[k], data |-> data[s[k]]]
        BY <1>1 DEF Shown
    <2>2. [node |-> s[k], data |-> data[s[k]]].data = data[s[k]]
        OBVIOUS
    <2> QED
        BY <2>1, <2>2
<1>8. Singly!Abstract!Data(Singly!Contents) = d
    BY <1>6, <1>7 DEF Singly!Abstract!Data
<1> QED
    BY <1>3, <1>4, <1>5, <1>6, <1>7, <1>8

\* What __slist_for_each_invert prints.
LEMMA PrintedIs ==
    ASSUME Singly!TypeOK, NEW s \in Seq(SNodes), Singly!View(s)
    PROVE  Singly!Printed(s)[Len(s)] = Singly!Reverse(Singly!DataOf(s))
<1> DEFINE d == Singly!DataOf(s)
           L == Len(s)
           P(f) == f = [k \in 0..L |-> IF k = 0 THEN <<>> ELSE Append(f[k - 1], data[s[L - k + 1]])]
<1>1. d \in Seq(SValues) /\ Len(d) = L /\ \A k \in 1..L : d[k] = data[s[k]]
    BY DataShown
<1>2. L \in Nat
    OBVIOUS
<1>3. \A k \in 0..L : k # 0 => L - k + 1 \in 1..L
    BY <1>2
<1> HIDE DEF d, L
<1>4. \A k \in 0..L : k # 0 => d[L - k + 1] = data[s[L - k + 1]]
    BY <1>1, <1>3
<1>5. ASSUME NEW f PROVE P(f) <=> IsPrinted(f, d)
    <2>1. \A k \in 0..L : (IF k = 0 THEN <<>> ELSE Append(f[k - 1], data[s[L - k + 1]]))
                          = (IF k = 0 THEN <<>> ELSE Append(f[k - 1], d[Len(d) - k + 1]))
        BY <1>1, <1>4
    <2>2. [k \in 0..L |-> IF k = 0 THEN <<>> ELSE Append(f[k - 1], data[s[L - k + 1]])]
          = [k \in 0..L |-> IF k = 0 THEN <<>> ELSE Append(f[k - 1], d[Len(d) - k + 1])]
        BY <2>1
    <2> QED
        BY <1>1, <2>2 DEF IsPrinted
<1>6. Singly!Printed(s) = CHOOSE f : P(f)
    BY DEF Singly!Printed, L
<1>7. \E f : P(f)
    BY <1>1, <1>5, PrintedInReverse
<1> HIDE DEF P
<1>8. IsPrinted(Singly!Printed(s), d)
    BY <1>5, <1>6, <1>7
<1> QED
    BY <1>1, <1>8, PrintedInReverse, ReverseIs DEF d, L

\* slist_search
LEMMA SinglySearch == ASSUME Singly!IInv, NEW v \in SValues, Singly!slist_search(v) PROVE SinglySimulates
<1>1. /\ spc = "ready" /\ UNCHANGED <<version, snext, data, linked, spc>>
      /\ out' = IF v \in Singly!ToSet(Singly!DataOf(Singly!List)) THEN <<v>> ELSE <<>>
    BY DEF Singly!slist_search
<1>2. Singly!TypeOK
    BY DEF Singly!IInv
<1>3. PICK s \in Seq(SNodes) : Singly!View(s)
    BY DEF Singly!IInv
<1>4. IsReady(s)
    BY <1>1, <1>2, <1>3, ReadyIs
<1>5. out' = <<>> \/ \E k \in DOMAIN Singly!Contents : out' = <<Singly!Contents[k].data>>
    <2>1. CASE v \in Singly!ToSet(Singly!DataOf(Singly!List))
        <3> DEFINE d == Singly!DataOf(s)
        <3>1. out' = <<v>> /\ v \in Singly!ToSet(d)
            BY <1>1, <1>4, <2>1 DEF IsReady
        <3>2. /\ d \in Seq(SValues) /\ Len(d) = Len(s) /\ \A k \in 1..Len(s) : d[k] = data[s[k]]
              /\ DOMAIN Singly!Contents = 1..Len(s)
              /\ \A k \in 1..Len(s) : Singly!Contents[k].data = data[s[k]]
            BY <1>2, <1>3, DataShown
        <3> HIDE DEF d
        <3>3. PICK k \in 1..Len(s) : d[k] = v
            BY <3>1, <3>2 DEF Singly!ToSet
        <3> QED
            BY <3>1, <3>2, <3>3
    <2> QED
        BY <1>1, <2>1
<1> QED
    BY <1>1, <1>2, <1>3, <1>4, <1>5, ObserveSimulates

\* slist_for_each and slist_for_each_invert
LEMMA SinglyForEach ==
    ASSUME Singly!IInv, Singly!slist_for_each \/ Singly!slist_for_each_invert PROVE SinglySimulates
<1>1. /\ spc = "ready" /\ UNCHANGED <<version, snext, data, linked, spc>>
      /\ \/ out' = Singly!DataOf(Singly!List)
         \/ out' = Singly!Printed(Singly!List)[Len(Singly!List)]
    BY DEF Singly!slist_for_each, Singly!slist_for_each_invert
<1>2. Singly!TypeOK
    BY DEF Singly!IInv
<1>3. PICK s \in Seq(SNodes) : Singly!View(s)
    BY DEF Singly!IInv
<1>4. IsReady(s)
    BY <1>1, <1>2, <1>3, ReadyIs
<1>5. Singly!Abstract!Data(Singly!Contents) = Singly!DataOf(s)
    BY <1>2, <1>3, DataShown
<1>6. Singly!Printed(s)[Len(s)] = Singly!Reverse(Singly!DataOf(s))
    BY <1>2, <1>3, PrintedIs
<1>7. \A d : Singly!Reverse(d) = Singly!Abstract!Reverse(d)
    BY DEF Singly!Reverse, Singly!Abstract!Reverse
<1>8. out' \in {<<>>, Singly!Abstract!Data(Singly!Contents),
                Singly!Abstract!Reverse(Singly!Abstract!Data(Singly!Contents))}
    BY <1>1, <1>4, <1>5, <1>6, <1>7 DEF IsReady
<1> QED
    BY <1>1, <1>2, <1>3, <1>4, <1>8, ObserveSimulates

\* A step that leaves the contents alone.
LEMMA SameSimulates ==
    ASSUME Singly!TypeOK, Singly!TypeOK', NEW s \in Seq(SNodes), Singly!View(s), Singly!View(s)',
           data' = data, out' = <<>>,
           spc' \in {"invert", "destroy", "gone"} => version' = "head_loop"
    PROVE  SinglySimulates
<1>1. Singly!IInv'
    BY InvariantNext
<1>2. Singly!Contents' = Singly!Contents
    BY SameContents
<1>3. Singly!Abstract!Observe
    BY <1>2 DEF Singly!Abstract!Observe
<1> QED
    BY <1>1, <1>3 DEF SinglySimulates, Singly!Abstract!Next

LEMMA TurnedNext ==
    ASSUME NEW s \in Seq(SNodes), NEW m \in 0..Len(s), version' = "head_loop", spc' = "invert",
           linked' = Singly!ToSet(s), AllDifferent(s), TurnedTo(s, m, phead, Prev', scur', snext')
    PROVE  Singly!View(s)'
<1>1. Singly!Turned(s, m)'
    BY DEF Singly!Turned, Singly!Spot, Singly!End, TurnedTo, LineAt
<1>2. \A j, k \in 1..Len(s) : s[j] = s[k] => j = k
    BY DEF AllDifferent
<1>3. linked' = Singly!ToSet(s)'
    BY DEF Singly!ToSet
<1>4. (\E i \in 0..Len(s) : Singly!Turned(s, i))'
    BY <1>1
<1> QED
    BY <1>2, <1>3, <1>4 DEF Singly!View

\* The view while slist_destroy runs.
LEMMA DestroyedNext ==
    ASSUME NEW s \in Seq(SNodes), version' = "head_loop", spc' \in {"destroy", "gone"},
           linked' = Singly!ToSet(s), AllDifferent(s), Line(s, scur', phead, snext')
    PROVE  Singly!View(s)'
<1>1. Singly!LeadsThrough(scur, s)'
    BY DEF Singly!LeadsThrough, Singly!Spot, Singly!End, Line, LineAt
<1>2. \A j, k \in 1..Len(s) : s[j] = s[k] => j = k
    BY DEF AllDifferent
<1>3. linked' = Singly!ToSet(s)'
    BY DEF Singly!ToSet
<1>4. spc' # "invert"
    OBVIOUS
<1> QED
    BY <1>1, <1>2, <1>3, <1>4 DEF Singly!View

\* slist_invert and slist_destroy start
LEMMA SinglyStart ==
    ASSUME Singly!IInv, Singly!InvertStart \/ Singly!DestroyStart PROVE SinglySimulates
<1>1. /\ version = "head_loop" /\ spc = "ready" /\ out' = <<>> /\ scur' = snext[phead]
      /\ UNCHANGED <<version, snext, data, linked>>
      /\ (spc' = "invert" /\ Prev' = phead) \/ spc' = "destroy"
    BY DEF Singly!InvertStart, Singly!DestroyStart
<1>2. Singly!TypeOK
    BY DEF Singly!IInv
<1>3. PICK s \in Seq(SNodes) : Singly!View(s)
    BY DEF Singly!IInv
<1>4. IsReady(s) /\ Singly!End = phead
    BY <1>1, <1>2, <1>3, ReadyIs, EndIsNoNode
<1>5. Line(s, snext[phead], phead, snext) /\ AllDifferent(s) /\ linked = Singly!ToSet(s)
    BY <1>4, PathIsLine DEF IsReady
<1>6. Singly!TypeOK'
    BY <1>1, <1>2 DEF Singly!TypeOK
<1>7. Len(s) \in Nat /\ 0 \in 0..Len(s)
    OBVIOUS
<1>8. Singly!View(s)'
    <2>1. CASE spc' = "invert" /\ Prev' = phead
        <3>1. 0 \notin 1..Len(s) /\ 0 + 1 = 1 /\ 1..0 = {}
            BY <1>7
        <3>2. /\ Prev' = LineAt(s, phead, 0) /\ scur' = LineAt(s, phead, 1)
              /\ \A k \in 1..Len(s) : snext'[s[k]] = LineAt(s, phead, k + 1)
            <4>1. Prev' = LineAt(s, phead, 0)
                BY <2>1, <3>1 DEF LineAt
            <4> QED
                BY <1>1, <1>5, <4>1 DEF Line
        <3>3. TurnedTo(s, 0, phead, Prev', scur', snext')
            BY <3>1, <3>2 DEF TurnedTo
        <3> QED
            BY <1>1, <1>5, <1>7, <2>1, <3>3, TurnedNext
    <2>2. CASE spc' = "destroy"
        BY <1>1, <1>5, <2>2, DestroyedNext
    <2> QED
        BY <1>1, <2>1, <2>2
<1> QED
    BY <1>1, <1>2, <1>3, <1>6, <1>8, SameSimulates

\* slist_destroy
LEMMA SinglyDestroyStep == ASSUME Singly!IInv, Singly!DestroyStep PROVE SinglySimulates
<1>1. /\ spc = "destroy" /\ version = "head_loop" /\ out' = <<>> /\ UNCHANGED <<version, data>>
      /\ \/ /\ scur # phead /\ scur' = snext[scur] /\ snext' = [snext EXCEPT ![scur] = scur]
            /\ linked' = linked \ {scur} /\ spc' = spc
         \/ spc' = "gone" /\ UNCHANGED <<scur, snext, linked>>
    BY DEF Singly!DestroyStep, Singly!IInv
<1>2. Singly!TypeOK
    BY DEF Singly!IInv
<1>3. PICK s \in Seq(SNodes) : Singly!View(s)
    BY DEF Singly!IInv
<1>4. Singly!End = phead /\ phead \notin SNodes
    BY <1>1, EndIsNoNode, SinglyConstants
<1>5. AllDifferent(s) /\ linked = Singly!ToSet(s) /\ Singly!LeadsThrough(scur, s)
    BY <1>1, <1>3 DEF Singly!View, AllDifferent
<1>6. Line(s, scur, phead, snext)
    BY <1>4, <1>5, LeadsThroughIs
<1>7. CASE spc' = "gone" /\ UNCHANGED <<scur, snext, linked>>
    <2>1. Singly!TypeOK'
        BY <1>1, <1>2, <1>7 DEF Singly!TypeOK
    <2>2. Singly!View(s)'
        BY <1>1, <1>5, <1>6, <1>7, DestroyedNext
    <2> QED
        BY <1>1, <1>2, <1>3, <2>1, <2>2, SameSimulates
<1>8. CASE /\ scur # phead /\ scur' = snext[scur] /\ snext' = [snext EXCEPT ![scur] = scur]
           /\ linked' = linked \ {scur} /\ spc' = spc
    <2> DEFINE t == Cut(s, 1)
               L == Len(s)
    <2>1. L \in Nat /\ \A k \in 1..L : s[k] \in SNodes
        OBVIOUS
    <2>2. 1 \in 1..L /\ scur = s[1]
        BY <1>6, <1>8 DEF Line, LineAt
    <2>3. DeletedSeq(s, 1, t) /\ t \in Seq(SNodes)
        BY <2>2, CutFacts DEF DeletedSeq
    <2> HIDE DEF t, L
    <2>4. Len(t) = L - 1 /\ \A i \in 1..(L - 1) : t[i] = s[i + 1]
        <3>1. Len(t) = L - 1 /\ \A i \in 1..(L - 1) : t[i] = IF i < 1 THEN s[i] ELSE s[i + 1]
            BY <2>3 DEF DeletedSeq, L
        <3>2. \A i \in 1..(L - 1) : ~(i < 1)
            BY <2>1
        <3> QED
            BY <3>1, <3>2
    <2>5. snext \in [SLinks -> STargets] /\ scur \in SNodes
        BY <1>2, <2>1, <2>2 DEF Singly!TypeOK, SLinks, STargets
    <2>6. Singly!TypeOK'
        BY <1>1, <1>2, <1>8, <2>5 DEF Singly!TypeOK, SLinks, STargets
    <2>7. linked' = Singly!ToSet(t)
        BY <1>5, <1>8, <2>2, <2>3, DeletedSet, ToSetIs DEF L
    <2>8. AllDifferent(t)
        BY <1>5, <2>2, <2>3, DeleteInjective DEF L
    <2>9. \A k \in 1..L : k # 1 => snext'[s[k]] = snext[s[k]]
        <3> TAKE k \in 1..L
        <3>1. k # 1 => s[k] # s[1]
            BY <1>5, <2>2 DEF AllDifferent, L
        <3> QED
            BY <1>8, <2>1, <2>2, <2>5, <3>1 DEF SLinks
    <2>10. \A k \in 1..L : LineAt(t, phead, k) = LineAt(s, phead, k + 1)
        <3> TAKE k \in 1..L
        <3>1. k \in 1..(L - 1) <=> k + 1 \in 1..L
            BY <2>1
        <3> QED
            BY <2>4, <3>1 DEF LineAt, L
    <2>11. \A k \in 1..L : snext[s[k]] = LineAt(s, phead, k + 1)
        BY <1>6 DEF Line, L
    <2>12. scur' = LineAt(t, phead, 1)
        BY <1>8, <2>2, <2>10, <2>11
    <2>13. \A k \in 1..Len(t) : snext'[t[k]] = LineAt(t, phead, k + 1)
        <3> TAKE k \in 1..Len(t)
        <3>1. k \in 1..(L - 1) /\ k + 1 \in 1..L /\ k + 1 # 1
            BY <2>1, <2>4
        <3> QED
            BY <2>4, <2>9, <2>10, <2>11, <3>1
    <2>14. Singly!View(t)'
        BY <1>1, <1>8, <2>3, <2>7, <2>8, <2>12, <2>13, DestroyedNext DEF Line
    <2>15. Singly!IInv'
        BY <1>1, <2>3, <2>6, <2>14, InvariantNext
    <2>16. Singly!Abstract!Next
        BY <1>1, <1>2, <1>3, <2>2, <2>3, <2>6, <2>14, DeleteShown DEF L
    <2> QED
        BY <2>15, <2>16 DEF SinglySimulates
<1> QED
    BY <1>1, <1>7, <1>8

\* What a caller sees when the list is turned round.
LEMMA InvertShown ==
    ASSUME Singly!TypeOK, Singly!TypeOK', NEW s \in Seq(SNodes), Singly!View(s),
           NEW t \in Seq(SNodes), Singly!View(t)', Len(t) = Len(s),
           \A k \in 1..Len(s) : t[k] = s[(Len(s) - k) + 1], data' = data, out' = <<>>
    PROVE  Singly!Abstract!Next
<1> DEFINE c == Singly!Contents
           d == Singly!Contents'
           r == [i \in 1..Len(c) |-> c[(Len(c) - i) + 1]]
           L == Len(s)
<1>1. c \in Seq(Recs) /\ Len(c) = L /\ \A k \in 1..L : c[k] = [node |-> s[k], data |-> data[s[k]]]
    BY ViewShows DEF ViewShown, Shown
<1>2. d \in Seq(Recs) /\ Len(d) = L /\ \A k \in 1..L : d[k] = [node |-> t[k], data |-> data[t[k]]]
    <2>1. Shown(t)'
        BY ViewShowsNext DEF ViewShown
    <2> QED
        BY <2>1 DEF Shown, Recs
<1>3. L \in Nat
    OBVIOUS
<1> HIDE DEF c, d, L
<1>4. \A k \in 1..L : (L - k) + 1 \in 1..L
    BY <1>3
<1>5. r \in Seq(Recs) /\ Len(r) = L /\ \A k \in 1..L : r[k] = c[(L - k) + 1]
    <2>1. \A k \in 1..L : c[k] \in Recs
        BY <1>1
    <2>2. r \in [1..L -> Recs] /\ \A k \in 1..L : r[k] = c[(L - k) + 1]
        BY <1>1, <1>4, <2>1
    <2> HIDE DEF r
    <2>3. r \in Seq(Recs) /\ Len(r) = L
        BY <1>3, <2>2, FunctionIsSeq
    <2> QED
        BY <2>2, <2>3
<1> HIDE DEF r
<1>6. \A k \in 1..L : d[k] = r[k]
    <2> TAKE k \in 1..L
    <2>1. t[k] = s[(L - k) + 1]
        BY DEF L
    <2>2. (L - k) + 1 \in 1..L
        BY <1>4
    <2> QED
        BY <1>1, <1>2, <1>5, <2>1, <2>2
<1>7. Len(d) = Len(r) /\ \A k \in 1..Len(d) : d[k] = r[k]
    BY <1>2, <1>5, <1>6
<1>8. d = r
    BY <1>2, <1>5, <1>7, SeqEqual
<1>9. Singly!Abstract!Invert
    BY <1>8 DEF Singly!Abstract!Invert, Singly!Abstract!Reverse, c, d, r
<1> QED
    BY <1>9 DEF Singly!Abstract!Next

\* slist_invert
LEMMA SinglyInvertStep == ASSUME Singly!IInv, Singly!InvertStep PROVE SinglySimulates
<1>1. /\ spc = "invert" /\ version = "head_loop" /\ out' = <<>> /\ UNCHANGED <<version, data, linked>>
      /\ \/ /\ scur # phead /\ snext' = [snext EXCEPT ![scur] = Prev]
            /\ Prev' = scur /\ scur' = snext[scur] /\ spc' = spc
         \/ scur = phead /\ snext' = [snext EXCEPT ![phead] = Prev] /\ spc' = "ready"
    BY DEF Singly!InvertStep, Singly!IInv
<1>2. Singly!TypeOK
    BY DEF Singly!IInv
<1>3. PICK s \in Seq(SNodes) : Singly!View(s)
    BY DEF Singly!IInv
<1>4. Singly!End = phead /\ phead \notin SNodes
    BY <1>1, EndIsNoNode, SinglyConstants
<1>5. AllDifferent(s) /\ linked = Singly!ToSet(s)
    BY <1>3 DEF Singly!View, AllDifferent
<1>6. PICK m \in 0..Len(s) : Singly!Turned(s, m)
    BY <1>1, <1>3 DEF Singly!View
<1>7. TurnedTo(s, m, phead, Prev, scur, snext)
    BY <1>4, <1>6, TurnedIs
<1>8. snext \in [SLinks -> STargets] /\ SNodes \subseteq SLinks /\ phead \in SLinks
    BY <1>2 DEF Singly!TypeOK, SLinks, STargets
<1>9. Prev \in STargets
    <2>1. Prev = LineAt(s, phead, m)
        BY <1>7 DEF TurnedTo
    <2>2. Len(s) \in Nat /\ \A k \in 1..Len(s) : s[k] \in SNodes
        OBVIOUS
    <2> QED
        BY <2>1, <2>2 DEF LineAt, STargets
<1>10. CASE /\ scur # phead /\ snext' = [snext EXCEPT ![scur] = Prev]
            /\ Prev' = scur /\ scur' = snext[scur] /\ spc' = spc
    <2>1. scur \in SNodes
        <3>1. scur = LineAt(s, phead, m + 1)
            BY <1>7 DEF TurnedTo
        <3> QED
            BY <1>10, <3>1 DEF LineAt
    <2>2. Relinked(SNodes, scur, Prev, snext, snext')
        BY <1>8, <1>10, <2>1 DEF Relinked
    <2>3. m + 1 \in 0..Len(s) /\ TurnedTo(s, m + 1, phead, scur, snext[scur], snext')
        <3>1. scur # phead /\ phead \notin SNodes /\ AllDifferent(s)
            BY <1>4, <1>5, <1>10
        <3> QED
            BY <1>7, <2>2, <3>1, TurnedOneMore
    <2>4. snext' \in [SLinks -> STargets]
        BY <1>8, <1>9, <1>10
    <2>5. Singly!TypeOK'
        BY <1>1, <1>2, <1>10, <2>4 DEF Singly!TypeOK, SLinks, STargets
    <2>6. Singly!View(s)'
        BY <1>1, <1>5, <1>10, <2>3, TurnedNext
    <2> QED
        BY <1>1, <1>2, <1>3, <2>5, <2>6, SameSimulates
<1>11. CASE scur = phead /\ snext' = [snext EXCEPT ![phead] = Prev] /\ spc' = "ready"
    <2>1. Relinked(SNodes, phead, Prev, snext, snext')
        BY <1>4, <1>8, <1>11 DEF Relinked
    <2>2. PICK t : t = Backwards(s)
        OBVIOUS
    <2>3. TurnedTo(s, m, phead, Prev, phead, snext)
        BY <1>7, <1>11
    <2>4. /\ t \in Seq(SNodes) /\ Len(t) = Len(s)
          /\ \A k \in 1..Len(s) : t[k] = s[(Len(s) - k) + 1]
          /\ AllDifferent(t) /\ Members(t) = Members(s) /\ Path(t, phead, phead, snext')
        BY <1>4, <1>5, <2>1, <2>2, <2>3, TurnedAll
    <2>5. snext' \in [SLinks -> STargets]
        BY <1>8, <1>9, <1>11
    <2>6. Singly!TypeOK'
        BY <1>1, <1>2, <1>11, <2>5 DEF Singly!TypeOK, SLinks, STargets
    <2>7. linked' = Singly!ToSet(t)
        BY <1>1, <1>5, <2>4, ToSetIs
    <2>8. spc' \in {"ready", "aborted"} /\ version' = version
        BY <1>1, <1>11
    <2>9. Singly!View(t)'
        BY <1>4, <2>4, <2>7, <2>8, ReadyNext
    <2>10. Singly!IInv'
        BY <1>1, <1>11, <2>4, <2>6, <2>9, InvariantNext
    <2>11. Singly!Abstract!Next
        BY <1>1, <1>2, <1>3, <2>4, <2>6, <2>9, InvertShown
    <2> QED
        BY <2>10, <2>11 DEF SinglySimulates
<1> QED
    BY <1>1, <1>10, <1>11

LEMMA SinglyInit == ASSUME Singly!Init PROVE Singly!IInv /\ Singly!Abstract!Init
<1> DEFINE z == <<>>
<1>1. /\ version \in {"head_loop", "head_noloop", "nohead"} /\ data \in [SNodes -> SValues]
      /\ snext = [x \in SNodes \cup {phead} |-> IF x = phead THEN Singly!End ELSE NULL]
      /\ linked = {} /\ out = <<>> /\ spc = "ready"
    BY DEF Singly!Init
<1>2. Singly!End \in {phead, NULL}
    BY DEF Singly!End
<1>3. Singly!TypeOK
    BY <1>1, <1>2 DEF Singly!TypeOK
<1>4. z \in Seq(SNodes) /\ Len(z) = 0 /\ 1..0 = {} /\ DOMAIN z = {}
    OBVIOUS
<1>5. snext[phead] = Singly!End
    BY <1>1
<1>6. Singly!LeadsThrough(snext[phead], z)
    <2>1. 1 \notin 1..Len(z) /\ \A k \in 1..Len(z) : FALSE
        BY <1>4
    <2> QED
        BY <1>5, <2>1 DEF Singly!LeadsThrough, Singly!Spot
<1>7. linked = Singly!ToSet(z)
    BY <1>1, <1>4 DEF Singly!ToSet
<1>8. \A j, k \in 1..Len(z) : z[j] = z[k] => j = k
    BY <1>4
<1> HIDE DEF z
<1>9. Singly!View(z)
    BY <1>1, <1>6, <1>7, <1>8 DEF Singly!View
<1>10. Singly!IInv
    BY <1>1, <1>3, <1>4, <1>9 DEF Singly!IInv
<1>11. Singly!Contents \in Seq(Recs) /\ Len(Singly!Contents) = 0
    <2>1. Shown(z)
        BY <1>3, <1>4, <1>9, ViewShows DEF ViewShown
    <2> QED
        BY <1>4, <2>1 DEF Shown
<1>12. Singly!Contents = <<>>
    BY <1>11, EmptySeq
<1> QED
    BY <1>1, <1>10, <1>12 DEF Singly!Abstract!Init

LEMMA SinglyNext == ASSUME Singly!IInv, Singly!Next PROVE SinglySimulates
<1>1. \/ \E nd \in SNodes, v \in SValues : Singly!slist_add(nd, v) \/ Singly!slist_add_tail(nd, v)
      \/ \E v \in SValues : Singly!DelData(v) \/ Singly!slist_search(v)
      \/ \E key \in SNodes \cup {NULL} : Singly!DelNode(key)
      \/ Singly!slist_for_each \/ Singly!slist_for_each_invert
      \/ Singly!InvertStart \/ Singly!InvertStep \/ Singly!DestroyStart \/ Singly!DestroyStep
    BY DEF Singly!Next
<1>2. CASE \E nd \in SNodes, v \in SValues : Singly!slist_add(nd, v) \/ Singly!slist_add_tail(nd, v)
    BY <1>2, SinglyAdd, SinglyAddTail
<1>3. CASE \E v \in SValues : Singly!DelData(v) \/ Singly!slist_search(v)
    BY <1>3, SinglyDelData, SinglySearch
<1>4. CASE \E key \in SNodes \cup {NULL} : Singly!DelNode(key)
    BY <1>4, SinglyDelNode
<1>5. CASE Singly!slist_for_each \/ Singly!slist_for_each_invert
    BY <1>5, SinglyForEach
<1>6. CASE Singly!InvertStart \/ Singly!DestroyStart
    BY <1>6, SinglyStart
<1>7. CASE Singly!InvertStep
    BY <1>7, SinglyInvertStep
<1>8. CASE Singly!DestroyStep
    BY <1>8, SinglyDestroyStep
<1> QED
    BY <1>1, <1>2, <1>3, <1>4, <1>5, <1>6, <1>7, <1>8

\* A step of another program.
LEMMA SinglySame == ASSUME Singly!IInv, UNCHANGED slistVars PROVE SinglySimulates
<1>1. UNCHANGED <<version, snext, data, linked, scur, Prev, out, spc>>
    BY DEF slistVars
<1>2. Singly!TypeOK /\ Singly!TypeOK'
    BY <1>1 DEF Singly!IInv, Singly!TypeOK
<1>3. PICK s \in Seq(SNodes) : Singly!View(s)
    BY DEF Singly!IInv
<1>4. Singly!View(s)'
    BY <1>1, <1>3 DEF Singly!View, Singly!Turned, Singly!LeadsThrough, Singly!Spot, Singly!End,
                      Singly!ToSet
<1>5. Singly!IInv'
    BY <1>1, <1>2, <1>4, InvariantNext DEF Singly!IInv
<1>6. Singly!Contents' = Singly!Contents
    BY <1>1, <1>2, <1>3, <1>4, SameContents
<1> QED
    BY <1>1, <1>5, <1>6 DEF SinglySimulates

LEMMA SinglyStepSimulates == ASSUME Singly!IInv, [MCNext]_MCVars PROVE SinglySimulates
<1>1. CASE Singly!Next
    BY <1>1, SinglyNext
<1>2. CASE UNCHANGED slistVars
    BY <1>2, SinglySame
<1> QED
    BY <1>1, <1>2 DEF MCNext, MCVars, ListStep, TableStep, RingStep, BookStep

\* Through every mixture of calls, of any number of nodes, and in every step of an
\* inversion or a destruction, there is one sequence of different nodes that the
\* links lead through, in the way that the running call has left them.
THEOREM SinglyInvariance == MCSpec => []Singly!IInv
<1>1. MCInit => Singly!IInv
    BY SinglyInit DEF MCInit
<1>2. Singly!IInv /\ [MCNext]_MCVars => Singly!IInv'
    BY SinglyStepSimulates DEF SinglySimulates
<1> QED
    BY <1>1, <1>2, PTL DEF MCSpec

\* Every call of the three singly linked lists is one step of a sequence of nodes,
\* or of several steps of which one is; the others change nothing that a caller sees.
THEOREM ImplementsSeqHolds == MCSpec => ImplementsSeq
<1>1. MCInit => Singly!Abstract!Init
    BY SinglyInit DEF MCInit
<1>2. Singly!IInv /\ [MCNext]_MCVars => [Singly!Abstract!Next]_<<Singly!Contents, out>>
    BY SinglyStepSimulates DEF SinglySimulates
<1> QED
    BY <1>1, <1>2, SinglyInvariance, PTL
    DEF MCSpec, ImplementsSeq, Singly!ImplementsSeq, Singly!Abstract!Spec

=============================================================================
