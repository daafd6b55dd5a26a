----------------------------- MODULE KernelList -----------------------------
(***************************************************************************)
(* The intrusive circular list of src/01DataStruct/04Kernel_list/list.h as *)
(* a component: any number of lists share any number of nodes, and clients *)
(* call its functions in any order that the functions allow (a node is     *)
(* added only when it is in no list; it is removed when it is in a list,   *)
(* or when it points to itself, as list_head_init and list_del_init leave  *)
(* it).  The history variable `lists' records what each list should hold.  *)
(***************************************************************************)
EXTENDS ListOps, Sequences, Integers

CONSTANTS Heads,    \* the list heads
          Nodes     \* the list_head members of the client's structures

ASSUME HeadsAssumption == Heads \cap Nodes = {}

VARIABLES next, prev,   \* the link fields
          lists         \* history: the nodes of each list, first to last

vars == <<next, prev, lists>>

Links == Heads \cup Nodes

InList(n, h) == \E i \in 1..Len(lists[h]) : lists[h][i] = n
Linked(n) == \E h \in Heads : InList(n, h)
SelfLinked(n) == next[n] = n /\ prev[n] = n

\* LIST_HEAD_INIT for the heads; the links of a node start with any value.
Init == /\ \E nx, pv \in [Nodes -> Links] :
              /\ next = [x \in Links |-> IF x \in Heads THEN x ELSE nx[x]]
              /\ prev = [x \in Links |-> IF x \in Heads THEN x ELSE pv[x]]
        /\ lists = [h \in Heads |-> <<>>]

list_head_init(n) ==
    /\ ~Linked(n)
    /\ next' = InitLink(next, n)
    /\ prev' = InitLink(prev, n)
    /\ UNCHANGED lists

list_add(h, n) ==
    /\ ~Linked(n)
    /\ next' = AddNext(next, prev, h, n)
    /\ prev' = AddPrev(next, prev, h, n)
    /\ lists' = [lists EXCEPT ![h] = <<n>> \o @]

list_add_tail(h, n) ==
    /\ ~Linked(n)
    /\ next' = AddTailNext(next, prev, h, n)
    /\ prev' = AddTailPrev(next, prev, h, n)
    /\ lists' = [lists EXCEPT ![h] = Append(@, n)]

\* What is left of sequence s without its i-th element.
Without(s, i) == SubSeq(s, 1, i - 1) \o SubSeq(s, i + 1, Len(s))

\* list_del of the i-th node of list h: the caller names the node, the
\* history says where it is.
list_del(h, i) ==
    LET n == lists[h][i]
    IN  /\ next' = DelNext(next, prev, n)
        /\ prev' = DelPrev(next, prev, n)
        /\ lists' = [lists EXCEPT ![h] = Without(@, i)]

list_del_init(h, i) ==
    LET n == lists[h][i]
    IN  /\ next' = InitLink(DelNext(next, prev, n), n)
        /\ prev' = InitLink(DelPrev(next, prev, n), n)
        /\ lists' = [lists EXCEPT ![h] = Without(@, i)]

\* list_del_init (or list_del) of a node that is in no list and points to
\* itself, as a second list_del_init of the same node does.
DelSelfLinked(n) ==
    /\ ~Linked(n) /\ SelfLinked(n)
    /\ next' = InitLink(DelNext(next, prev, n), n)
    /\ prev' = InitLink(DelPrev(next, prev, n), n)
    /\ UNCHANGED lists

Next == \/ \E n \in Nodes : list_head_init(n) \/ DelSelfLinked(n)
        \/ \E h \in Heads, n \in Nodes : list_add(h, n) \/ list_add_tail(h, n)
        \/ \E h \in Heads : \E i \in 1..Len(lists[h]) :
              list_del(h, i) \/ list_del_init(h, i)

Spec == Init /\ [][Next]_vars

----------------------------------------------------------------------------
(* Properties *)

\* Every link field holds some list_head; every list holds nodes.
TypeOK == /\ next \in [Links -> Links]
          /\ prev \in [Links -> Links]
          /\ lists \in [Heads -> Seq(Nodes)]

\* The i-th list_head on the way round list h with contents s: the head is at
\* 0 and, again, after the last node.
At(s, h, i) == IF i \in 1..Len(s) THEN s[i] ELSE h

\* The next and prev links of list h, followed from its head, visit exactly
\* the nodes that were added and not removed, in order, and come back to the
\* head: what list_for_each and list_for_each_reverse rely on.
Chain(h) ==
    \A i \in 0..Len(lists[h]) :
        /\ next[At(lists[h], h, i)] = At(lists[h], h, i + 1)
        /\ prev[At(lists[h], h, i + 1)] = At(lists[h], h, i)

\* The links of every list represent its contents, whatever stale links the
\* nodes outside of the lists still hold.
Represents == \A h \in Heads : Chain(h)

\* No node is at two places: the lists never share a node or repeat one.
Disjoint == \A g, h \in Heads : \A i \in 1..Len(lists[g]), j \in 1..Len(lists[h]) :
                lists[g][i] = lists[h][j] => g = h /\ i = j

\* The inductive invariant: the types, and the two facts above.  Represents
\* alone is not inductive, since a node that is in two lists cannot have the
\* links of both.
IInv == TypeOK /\ Disjoint /\ Represents

\* list_is_empty, which looks at the two links of the head, is right.
EmptyIsEmpty == \A h \in Heads : list_is_empty(next, prev, h) <=> lists[h] = <<>>

\* A call on one list never writes a link of the head or of a node of
\* another list, even when the node it adds still points into that list.
Separation == [][\A h \in Heads :
                   lists'[h] = lists[h] =>
                       /\ next'[h] = next[h] /\ prev'[h] = prev[h]
                       /\ \A x \in Nodes : InList(x, h) => /\ next'[x] = next[x]
                                                           /\ prev'[x] = prev[x]]_vars

=============================================================================
