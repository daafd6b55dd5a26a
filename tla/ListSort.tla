------------------------------ MODULE ListSort ------------------------------
(***************************************************************************)
(* The sorts of src/01DataStruct/07Sort/sort_list.c: bubble, selection and *)
(* insertion on the lists of list.h.  They move nodes by their links while *)
(* cursors stand on them, so every round of an inner loop is a step.       *)
(***************************************************************************)
EXTENDS Integers, Sequences, SequencesExt, ListOps

CONSTANT Inputs         \* sequences of keys: the lists to sort

head == 0               \* the nodes are 1..Len(data), in the order of the input
temp == -1              \* the node on the stack of swap()

VARIABLES data,         \* the key of each node
          sort,         \* "bubble", "select" or "insert"
          next, prev,   \* the links
          i, j, min,    \* the cursors: end and start of bubble_sort are i and j
          pc            \* "outer", "inner" or "done"

vars == <<data, sort, next, prev, i, j, min, pc>>

Nodes == 1..Len(data)

\* main(): list_add_tail of every element, and the call.  i is where the outer
\* loop starts.
Init == /\ data \in Inputs /\ sort \in {"bubble", "select", "insert"}
        /\ LET n == Len(data)
           IN  /\ next = [k \in -1..n |-> IF k = temp THEN temp ELSE IF k = n THEN head ELSE k + 1]
               /\ prev = [k \in -1..n |-> IF k = temp THEN temp ELSE IF k = head THEN n ELSE k - 1]
        /\ i = CASE sort = "bubble" -> prev[head]
                 [] sort = "select" -> next[head]
                 [] OTHER           -> next[next[head]]
        /\ j = head /\ min = head
        /\ pc = "outer"

cmp_list(a, b) == data[a] - data[b]

\* A list's links, and __list_add and list_del on them.
Links == [next |-> next, prev |-> prev]
AddBetween(l, node, p, n) == [next |-> LinkNext(l.next, node, p, n), prev |-> LinkPrev(l.prev, node, p, n)]
Del(l, node) == [next |-> DelNext(l.next, l.prev, node), prev |-> DelPrev(l.next, l.prev, node)]

\* swap(pa, pb): the temporary node keeps the place of pa.
swap(pa, pb) ==
    LET l1 == Del(AddBetween(Links, temp, pa, next[pa]), pa)
        l2 == Del(AddBetween(l1, pa, pb, l1.next[pb]), pb)
    IN  Del(AddBetween(l2, pb, temp, l2.next[temp]), temp)

SetLinks(l) == next' = l.next /\ prev' = l.prev

----------------------------------------------------------------------------
(* bubble_sort *)

BubbleOuter == /\ sort = "bubble" /\ pc = "outer"
               /\ pc' = IF i = head THEN "done" ELSE "inner"
               /\ j' = next[head]
               /\ UNCHANGED <<data, sort, next, prev, i, min>>

\* After a swap start goes back by one, and end goes on by one if it was the
\* node that start was swapped with.
BubbleInner ==
    /\ sort = "bubble" /\ pc = "inner"
    /\ \/ /\ j # head /\ j # i /\ cmp_list(j, next[j]) > 0
          /\ \E l \in {swap(j, next[j])} :
                /\ SetLinks(l)
                /\ i' = IF l.prev[j] = i THEN l.next[i] ELSE i
                /\ j' = l.next[l.prev[j]]
          /\ UNCHANGED pc
       \/ /\ j # head /\ j # i /\ cmp_list(j, next[j]) <= 0
          /\ j' = next[j]
          /\ UNCHANGED <<next, prev, i, pc>>
       \/ /\ j \in {head, i}
          /\ i' = prev[i] /\ pc' = "outer"
          /\ UNCHANGED <<next, prev, j>>
    /\ UNCHANGED <<data, sort, min>>

----------------------------------------------------------------------------
(* select_sort *)

SelectOuter == /\ sort = "select" /\ pc = "outer"
               /\ pc' = IF i = prev[head] THEN "done" ELSE "inner"
               /\ min' = i /\ j' = next[i]
               /\ UNCHANGED <<data, sort, next, prev, i>>

\* The search for the smallest node, and its swap with i.
SelectInner ==
    /\ sort = "select" /\ pc = "inner"
    /\ \/ /\ j # head
          /\ min' = IF cmp_list(j, min) < 0 THEN j ELSE min
          /\ j' = next[j]
          /\ UNCHANGED <<next, prev, i, pc>>
       \/ /\ j = head
          /\ \E l \in {IF min = i THEN Links ELSE swap(min, i)} : SetLinks(l) /\ i' = l.next[min]
          /\ pc' = "outer"
          /\ UNCHANGED <<j, min>>
    /\ UNCHANGED <<data, sort>>

----------------------------------------------------------------------------
(* insert_sort: i is taken out and min, its Next, kept for the outer loop *)

InsertOuter == /\ sort = "insert" /\ pc = "outer"
               /\ \/ i = head /\ pc' = "done" /\ UNCHANGED <<next, prev, i, j, min>>
                  \/ /\ i # head /\ cmp_list(i, prev[i]) >= 0
                     /\ i' = next[i]
                     /\ UNCHANGED <<next, prev, j, min, pc>>
                  \/ /\ i # head /\ cmp_list(i, prev[i]) < 0
                     /\ SetLinks(Del(Links, i))
                     /\ j' = prev[i] /\ min' = next[i]
                     /\ pc' = "inner"
                     /\ UNCHANGED i
               /\ UNCHANGED <<data, sort>>

\* Mutant: the node goes before j instead of after it.
InsertInnerBefore == /\ sort = "insert" /\ pc = "inner"
                     /\ \/ /\ j # head /\ cmp_list(j, i) > 0
                           /\ j' = prev[j]
                           /\ UNCHANGED <<next, prev, i, pc>>
                        \/ /\ j # head => cmp_list(j, i) <= 0
                           /\ SetLinks(AddBetween(Links, i, prev[j], j))
                           /\ i' = min /\ pc' = "outer"
                           /\ UNCHANGED j
                     /\ UNCHANGED <<data, sort, min>>

\* i goes after the last node that is not larger, or after the head.
InsertInner == /\ sort = "insert" /\ pc = "inner"
               /\ \/ /\ j # head /\ cmp_list(j, i) > 0
                     /\ j' = prev[j]
                     /\ UNCHANGED <<next, prev, i, pc>>
                  \/ /\ j # head => cmp_list(j, i) <= 0
                     /\ SetLinks(AddBetween(Links, i, j, next[j]))
                     /\ i' = min /\ pc' = "outer"
                     /\ UNCHANGED j
               /\ UNCHANGED <<data, sort, min>>

Next == \/ BubbleOuter \/ BubbleInner \/ SelectOuter \/ SelectInner
        \/ InsertOuter \/ InsertInner

\* The call runs.
Fairness == WF_vars(Next)

Spec == Init /\ [][Next]_vars /\ Fairness

----------------------------------------------------------------------------
(* Properties *)

\* Types of the variables.
TypeOK == /\ next \in [-1..Len(data) -> -1..Len(data)] /\ prev \in [-1..Len(data) -> -1..Len(data)]
          /\ {i, j, min} \subseteq 0..Len(data) /\ pc \in {"outer", "inner", "done"}

\* The nodes after the head, following next.
Order == LET at[k \in 0..Len(data)] == IF k = 0 THEN head ELSE next[at[k - 1]]
         IN  [k \in Nodes |-> at[k]]

\* The list has all its nodes, linked both ways, in ascending order; those with
\* equal keys in the order of the input, for bubble_sort and insert_sort
\* (select_sort may turn them round).
Ascending ==
    /\ ToSet(Order) = Nodes
    /\ \A k \in Nodes \cup {head} : prev[next[k]] = k
    /\ \A b \in Nodes : \A a \in 1..(b - 1) :
          \/ data[Order[a]] < data[Order[b]]
          \/ data[Order[a]] = data[Order[b]] /\ (sort # "select" => Order[a] < Order[b])

\* Every sort ends, although its cursors stand on nodes that it moves, and with
\* the list in order.
ListSorted == <>(pc = "done" /\ Ascending)

=============================================================================
