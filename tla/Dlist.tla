-------------------------------- MODULE Dlist --------------------------------
(***************************************************************************)
(* The circular doubly linked list with a head node of                     *)
(* src/01DataStruct/02Dlist/stack/dlist.c (also in 03Calc and 06Btree),    *)
(* with the stack (stack.c) and the queue (06Btree/queue.c) on top of it.  *)
(* The heap is explicit: malloc takes any free address or fails, free      *)
(* makes the fields of a node garbage.  dlist_destroy runs                 *)
(* dlist_for_each_safe one node at a time.                                 *)
(***************************************************************************)
EXTENDS Integers, Sequences, FiniteSets

CONSTANTS Addr,     \* addresses malloc can return: a bound on the heap
          Values,   \* what clients store
          NULL

ASSUME AddrAssumption == NULL \notin Addr /\ IsFiniteSet(Addr)

VARIABLES alive,        \* the allocated nodes
          head,         \* info->head
          next, prev,   \* the links of every node
          priv,         \* the payload of every node
          pc,           \* "fresh", "ready", "destroying" or "gone"
          cur,          \* the cursor of dlist_for_each_safe in dlist_destroy
          out           \* *dest of the last stack_pop, stack_top or queue_pop

vars == <<alive, head, next, prev, priv, pc, cur, out>>

Init == /\ alive = {} /\ head = NULL
        /\ next = [a \in Addr |-> NULL]
        /\ prev = [a \in Addr |-> NULL]
        /\ priv = [a \in Addr |-> 0]
        /\ pc = "fresh" /\ cur = NULL /\ out = 0

\* malloc(): any address that is not allocated.
Malloc(a) == a \in Addr \ alive /\ alive' = alive \cup {a}

\* dlist_init; when malloc fails there is no list.
dlist_init == /\ pc = "fresh"
              /\ \E a \in Addr :
                    /\ Malloc(a)
                    /\ head' = a
                    /\ next' = [next EXCEPT ![a] = a]
                    /\ prev' = [prev EXCEPT ![a] = a]
              /\ pc' = "ready"
              /\ UNCHANGED <<priv, cur, out>>

dlist_is_empty == next[head] = head /\ prev[head] = head

\* dlist_add, as stack_push calls it: a new node behind the head.  When malloc
\* fails nothing changes (and stack_push still returns 0).
dlist_add(v) == /\ pc = "ready"
                /\ \E a \in Addr :
                      /\ Malloc(a)
                      /\ next' = [next EXCEPT ![a] = next[head], ![head] = a]
                      /\ prev' = [prev EXCEPT ![a] = head, ![next[head]] = a]
                      /\ priv' = [priv EXCEPT ![a] = v]
                /\ UNCHANGED <<head, pc, cur, out>>

\* dlist_add_tail, as queue_push calls it: a new node before the head.
dlist_add_tail(v) == /\ pc = "ready"
                     /\ \E a \in Addr :
                           /\ Malloc(a)
                           /\ next' = [next EXCEPT ![a] = head, ![prev[head]] = a]
                           /\ prev' = [prev EXCEPT ![a] = prev[head], ![head] = a]
                           /\ priv' = [priv EXCEPT ![a] = v]
                     /\ UNCHANGED <<head, pc, cur, out>>

\* Mutant: the predecessor keeps its link to the freed node.
DlistDelDangling(n) == /\ prev' = [prev EXCEPT ![next[n]] = prev[n], ![n] = NULL]
                       /\ next' = [next EXCEPT ![n] = NULL]
                       /\ alive' = alive \ {n}

\* dlist_del(node): unlink and free.
dlist_del(n) == /\ prev' = [prev EXCEPT ![next[n]] = prev[n], ![n] = NULL]
                /\ next' = [next EXCEPT ![prev[n]] = next[n], ![n] = NULL]
                /\ alive' = alive \ {n}

\* Mutant: the queue pops at the end where it pushed.
PopLast == /\ pc = "ready" /\ ~dlist_is_empty
           /\ out' = priv[prev[head]]
           /\ dlist_del(prev[head])
           /\ UNCHANGED <<head, priv, pc, cur>>

\* stack_pop and queue_pop: the first node; -1 and no change on an empty list.
pop == /\ pc = "ready" /\ ~dlist_is_empty
       /\ out' = priv[next[head]]
       /\ dlist_del(next[head])
       /\ UNCHANGED <<head, priv, pc, cur>>

\* stack_top and queue_top.
top == /\ pc = "ready" /\ ~dlist_is_empty
       /\ out' = priv[next[head]]
       /\ UNCHANGED <<alive, head, next, prev, priv, pc, cur>>

\* The i-th node from the head on, following next.
Step == LET s[i \in 0..(Cardinality(Addr) + 1)] == IF i = 0 THEN head
                                                   ELSE next[s[i - 1]]
        IN  s

\* dlist_find with a match on the payload, and dlist_del of what it found.
FindDel(v) == /\ pc = "ready"
              /\ \E i \in 1..Cardinality(Addr) :
                    /\ \A j \in 1..i : Step[j] # head
                    /\ priv[Step[i]] = v
                    /\ \A j \in 1..(i - 1) : priv[Step[j]] # v
                    /\ dlist_del(Step[i])
              /\ UNCHANGED <<head, priv, pc, cur, out>>

DestroyStart == /\ pc = "ready"
                /\ pc' = "destroying"
                /\ cur' = next[head]
                /\ UNCHANGED <<alive, head, next, prev, priv, out>>

\* One iteration of dlist_for_each_safe(info, dlist_del).
DestroyStep == /\ pc = "destroying" /\ cur # head
               /\ cur' = next[cur]
               /\ dlist_del(cur)
               /\ UNCHANGED <<head, priv, pc, out>>

\* Mutant: dlist_destroy does not free the head.
DestroyEndKeepsHead == /\ pc = "destroying" /\ cur = head
                       /\ head' = NULL /\ cur' = NULL
                       /\ pc' = "gone"
                       /\ UNCHANGED <<alive, next, prev, priv, out>>

\* free(info->head)
DestroyEnd == /\ pc = "destroying" /\ cur = head
              /\ alive' = alive \ {head}
              /\ head' = NULL /\ cur' = NULL
              /\ pc' = "gone"
              /\ UNCHANGED <<next, prev, priv, out>>

Next == \/ dlist_init \/ pop \/ top
        \/ \E v \in Values : dlist_add(v) \/ dlist_add_tail(v) \/ FindDel(v)
        \/ DestroyStart \/ DestroyStep \/ DestroyEnd

\* dlist_destroy, once it was called, runs.
Fairness == WF_vars(DestroyStep \/ DestroyEnd)

Spec == Init /\ [][Next]_vars /\ Fairness

----------------------------------------------------------------------------
(* Properties *)

\* Types of the heap and of the list.
TypeOK == /\ alive \subseteq Addr
          /\ head \in Addr \cup {NULL}
          /\ next \in [Addr -> Addr \cup {NULL}]
          /\ prev \in [Addr -> Addr \cup {NULL}]
          /\ priv \in [Addr -> Values \cup {0}]
          /\ pc \in {"fresh", "ready", "destroying", "gone"}
          /\ cur \in Addr \cup {NULL}
          /\ out \in Values \cup {0}

\* No dangling link: what the list, or the cursor of dlist_destroy, can reach
\* is allocated, and next and prev of the allocated nodes undo each other.
NoDangling == /\ pc \in {"ready", "destroying"} => head \in alive
              /\ \A a \in alive : /\ next[a] \in alive /\ prev[next[a]] = a
                                  /\ prev[a] \in alive /\ next[prev[a]] = a
              /\ pc = "destroying" => cur \in alive

\* The refinement mapping: the payloads along next, up to the head.
Size == CHOOSE n \in 0..Cardinality(Addr) : /\ Step[n + 1] = head
                                            /\ \A i \in 1..n : Step[i] # head

Contents == IF head = NULL THEN <<>> ELSE [i \in 1..Size |-> priv[Step[i]]]

Abstract == INSTANCE Deque WITH contents <- Contents

\* The list implements the sequence of values that Deque describes: LIFO for
\* push and pop of stack.c, FIFO for those of queue.c.
ImplementsDeque == Abstract!Spec

\* dlist_destroy terminates and leaves nothing allocated.
DestroyFrees == (pc = "destroying") ~> (pc = "gone" /\ alive = {})

=============================================================================
