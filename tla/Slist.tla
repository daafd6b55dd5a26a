------------------------------- MODULE Slist -------------------------------
(***************************************************************************)
(* The singly linked lists of src/01DataStruct/01Slist.  01head_loop is    *)
(* circular and has a head, and its nodes come from malloc;                *)
(* 02head_noloop (a head, ends with NULL) and 03nohead_noloop (a pointer   *)
(* to the first node) link nodes that the caller owns.  phead is the head, *)
(* or stands for the pointer *pphead of 03.                                *)
(*                                                                         *)
(* A node that is not linked is free, or back with its caller; its next    *)
(* field keeps what the code left there and the node may be added again.   *)
(***************************************************************************)
EXTENDS Integers, Sequences, FiniteSets, SequencesExt

CONSTANTS Nodes, Values, phead, NULL

ListAssumption == /\ IsFiniteSet(Nodes) /\ Values # {}
                  /\ phead \notin Nodes /\ NULL \notin Nodes \cup {phead}

VARIABLES version,      \* "head_loop", "head_noloop" or "nohead"
          next, data,   \* the fields of the nodes
          linked,       \* the nodes in the list
          cur, Prev,    \* cursors of slist_invert and slist_destroy
          out,          \* what the last call printed, or found
          pc            \* "ready", "invert", "destroy", "gone" or "aborted"

vars == <<version, next, data, linked, cur, Prev, out, pc>>

\* What ends a list: the head of a circular one.
End == IF version = "head_loop" THEN phead ELSE NULL

\* slist_init.  The nodes of 02 and 03 have their data from the caller.
Init == /\ version \in {"head_loop", "head_noloop", "nohead"}
        /\ next = [n \in Nodes \cup {phead} |-> IF n = phead THEN End ELSE NULL]
        /\ data \in [Nodes -> Values]
        /\ version = "head_loop" => \A m, n \in Nodes : data[m] = data[n]
        /\ linked = {}
        /\ cur = NULL /\ Prev = NULL /\ out = <<>>
        /\ pc = "ready"

\* What a loop from n reaches after k steps, and the nodes from n to the end of
\* the list.
At(n) == LET at[k \in 0..Cardinality(Nodes)] == IF k = 0 THEN n ELSE next[at[k - 1]] IN at
Length(n) == CHOOSE k \in 0..(Cardinality(Nodes) + 1) :
                /\ \A j \in 0..(k - 1) : At(n)[j] \in Nodes
                /\ k <= Cardinality(Nodes) => At(n)[k] \notin Nodes
Chain(n) == [k \in 1..Length(n) |-> At(n)[k - 1]]

List == Chain(next[phead])

\* A node to add, with its data: malloc and the argument, or the caller's node.
NewNode(n, v) == /\ pc = "ready" /\ n \notin linked
                 /\ IF version = "head_loop" THEN data' = [data EXCEPT ![n] = v]
                                             ELSE v = data[n] /\ UNCHANGED data
                 /\ linked' = linked \cup {n}
                 /\ out' = <<>>
                 /\ UNCHANGED <<version, cur, Prev, pc>>

\* slist_add of all three: behind the head, or as the first.
slist_add(n, v) == NewNode(n, v) /\ next' = [next EXCEPT ![n] = next[phead], ![phead] = n]

\* Mutant: the new last node keeps its old link.
AddTailKeepsNext(n, v) == /\ version # "nohead"
                          /\ NewNode(n, v)
                          /\ next' = [next EXCEPT ![IF List = <<>> THEN phead ELSE Last(List)] = n]

\* slist_add_tail
slist_add_tail(n, v) == /\ version # "nohead"
                        /\ NewNode(n, v)
                        /\ next' = [next EXCEPT ![n] = End,
                                                ![IF List = <<>> THEN phead ELSE Last(List)] = n]

\* What precedes the k-th node.
Before(k) == IF k = 1 THEN phead ELSE List[k - 1]

\* slist_del of 01: the first node with this data is unlinked and freed.
DelData(v) == /\ version = "head_loop" /\ pc = "ready"
              /\ \E k \in DOMAIN List :
                    /\ data[List[k]] = v
                    /\ \A j \in 1..(k - 1) : data[List[j]] # v
                    /\ next' = [next EXCEPT ![Before(k)] = next[List[k]], ![List[k]] = List[k]]
                    /\ linked' = linked \ {List[k]}
              /\ out' = <<>>
              /\ UNCHANGED <<version, data, cur, Prev, pc>>

\* slist_del of 02, of any node or of the NULL of a search: the first node is
\* left with a link to itself, another with NULL.  A node that is not in the
\* list is not found.
DelNode(key) ==
    /\ version = "head_noloop" /\ pc = "ready"
    /\ \/ key = NULL /\ pc' = "aborted" /\ UNCHANGED <<next, linked>>
       \/ key \in Nodes \ linked /\ UNCHANGED <<next, linked, pc>>
       \/ /\ \E k \in DOMAIN List :
                /\ List[k] = key
                /\ next' = [next EXCEPT ![Before(k)] = next[key], ![key] = IF k = 1 THEN key ELSE NULL]
          /\ linked' = linked \ {key}
          /\ UNCHANGED pc
    /\ out' = <<>>
    /\ UNCHANGED <<version, data, cur, Prev>>

DataOf(s) == [k \in DOMAIN s |-> data[s[k]]]

\* slist_search of 02: a node with this data, or NULL.
slist_search(v) ==
    /\ version = "head_noloop" /\ pc = "ready"
    /\ out' = IF v \in ToSet(DataOf(List)) THEN <<v>> ELSE <<>>
    /\ UNCHANGED <<version, next, data, linked, cur, Prev, pc>>

\* slist_for_each
slist_for_each == /\ pc = "ready"
                  /\ out' = DataOf(List)
                  /\ UNCHANGED <<version, next, data, linked, cur, Prev, pc>>

\* __slist_for_each_invert: a node is printed after those that follow it; what
\* is printed for the last k nodes of s.
Printed(s) == LET printed[k \in 0..Len(s)] ==
                      IF k = 0 THEN <<>> ELSE Append(printed[k - 1], data[s[Len(s) - k + 1]])
              IN  printed
slist_for_each_invert ==
    /\ pc = "ready" /\ version = "head_loop"
    /\ out' = Printed(List)[Len(List)]
    /\ UNCHANGED <<version, next, data, linked, cur, Prev, pc>>

----------------------------------------------------------------------------
(* slist_invert and slist_destroy of 01 change the links they walk along *)

InvertStart == /\ version = "head_loop" /\ pc = "ready"
               /\ Prev' = phead /\ cur' = next[phead]
               /\ pc' = "invert" /\ out' = <<>>
               /\ UNCHANGED <<version, next, data, linked>>

InvertStep == /\ pc = "invert"
              /\ \/ /\ cur # phead
                    /\ next' = [next EXCEPT ![cur] = Prev]
                    /\ Prev' = cur /\ cur' = next[cur]
                    /\ UNCHANGED pc
                 \/ /\ cur = phead
                    /\ next' = [next EXCEPT ![phead] = Prev]
                    /\ pc' = "ready" /\ cur' = NULL /\ Prev' = NULL
              /\ UNCHANGED <<version, data, linked, out>>

DestroyStart == /\ version = "head_loop" /\ pc = "ready"
                /\ cur' = next[phead] /\ pc' = "destroy" /\ out' = <<>>
                /\ UNCHANGED <<version, next, data, linked, Prev>>

DestroyStep == /\ pc = "destroy"
               /\ \/ /\ cur # phead
                     /\ cur' = next[cur]
                     /\ next' = [next EXCEPT ![cur] = cur]
                     /\ linked' = linked \ {cur}
                     /\ UNCHANGED pc
                  \/ /\ cur = phead
                     /\ pc' = "gone"
                     /\ UNCHANGED <<cur, next, linked>>
               /\ UNCHANGED <<version, data, Prev, out>>

Next == \/ \E n \in Nodes, v \in Values : slist_add(n, v) \/ slist_add_tail(n, v)
        \/ \E v \in Values : DelData(v) \/ slist_search(v)
        \/ \E key \in Nodes \cup {NULL} : DelNode(key)
        \/ slist_for_each \/ slist_for_each_invert
        \/ InvertStart \/ InvertStep \/ DestroyStart \/ DestroyStep

Spec == Init /\ [][Next]_vars

----------------------------------------------------------------------------
(* Properties *)

\* The nodes that a caller regards as the list: while slist_invert runs the old
\* order, the part that is turned round already and the rest; while
\* slist_destroy runs what is not yet freed.
Contents == LET s == CASE pc = "invert"            -> Reverse(Chain(Prev)) \o Chain(cur)
                       [] pc \in {"destroy", "gone"} -> Chain(cur)
                       [] OTHER                    -> List
            IN  [k \in DOMAIN s |-> [node |-> s[k], data |-> data[s[k]]]]

Abstract == INSTANCE NodeSeq WITH contents <- Contents

\* The k-th node of s; the head, or what ends the list, before and behind them.
Spot(s, k) == IF k \in 1..Len(s) THEN s[k] ELSE End

\* The links lead from n through s.
LeadsThrough(n, s) == n = Spot(s, 1) /\ \A k \in 1..Len(s) : next[s[k]] = Spot(s, k + 1)

\* slist_invert has turned round the links of the first m nodes of s.
Turned(s, m) == /\ Prev = Spot(s, m) /\ cur = Spot(s, m + 1)
                /\ \A k \in 1..m : next[s[k]] = Spot(s, k - 1)
                /\ \A k \in (m + 1)..Len(s) : next[s[k]] = Spot(s, k + 1)

\* s are the nodes that a caller regards as the list.
View(s) == /\ linked = ToSet(s)
           /\ \A j, k \in 1..Len(s) : s[j] = s[k] => j = k
           /\ CASE pc = "invert"            -> \E m \in 0..Len(s) : Turned(s, m)
                [] pc \in {"destroy", "gone"} -> LeadsThrough(cur, s)
                [] OTHER                    -> LeadsThrough(next[phead], s)

TypeOK == /\ version \in {"head_loop", "head_noloop", "nohead"}
          /\ next \in [Nodes \cup {phead} -> Nodes \cup {phead, NULL}]
          /\ data \in [Nodes -> Values] /\ linked \subseteq Nodes
          /\ pc \in {"ready", "invert", "destroy", "gone", "aborted"}

\* What ImplementsSeq needs.
IInv == /\ TypeOK
        /\ pc \in {"invert", "destroy", "gone"} => version = "head_loop" /\ out = <<>>
        /\ \E s \in Seq(Nodes) : View(s)

\* The links implement a sequence of nodes, through every mixture of calls: also
\* when nodes are added again that still carry the link that a deletion left in
\* them, and in every step of an inversion or a destruction.
ImplementsSeq == Abstract!Spec

=============================================================================
