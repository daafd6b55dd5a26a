------------------------------- MODULE Joseph -------------------------------
(***************************************************************************)
(* joesph_loop of src/01DataStruct/04Kernel_list/joesph.c on the lists of  *)
(* list.h: from node number start on, every step-th node of a ring of      *)
(* nmemb nodes is deleted until one is left.                               *)
(*                                                                         *)
(* The ring goes through the list's head, which is skipped, and whether    *)
(* one node is left is only looked at when a pass has come to the head.    *)
(***************************************************************************)
EXTENDS Integers, FiniteSets, ListOps

CONSTANTS Sizes,        \* the values of nmemb (9 in main)
          Starts,       \* the values of start (4 in main)
          Steps         \* the values of step (4 in main)

SizesAssumption == /\ Sizes \subseteq Nat \ {0}
                   /\ Starts \subseteq Nat \ {0}
                   /\ Steps \subseteq Nat \ {0}

head == 0               \* the nodes are 1..nmemb

VARIABLES nmemb, start, step,   \* of this call
          next, prev,           \* the links
          cur, n,               \* locals of joesph_loop
          pc                    \* "seek", "while", "for" or "done"

vars == <<nmemb, start, step, next, prev, cur, n, pc>>

\* main(): nmemb times list_add_tail, and the call.
Init == /\ nmemb \in Sizes /\ start \in Starts /\ step \in Steps
        /\ next = [k \in 0..nmemb |-> (k + 1) % (nmemb + 1)]
        /\ prev = [k \in 0..nmemb |-> (k - 1) % (nmemb + 1)]
        /\ cur = 1
        /\ n = 0
        /\ pc = "seek"

----------------------------------------------------------------------------
\* Mutant: the position is not corrected.
SeekNoFix == /\ pc = "seek"
             /\ cur' = IF start <= nmemb THEN start ELSE head
             /\ pc' = "while"
             /\ UNCHANGED <<nmemb, start, step, next, prev, n>>

\* The first list_for_each, which ends at the head if start is too large, and
\* cur = cur->prev.
Seek == /\ pc = "seek"
        /\ cur' = prev[IF start <= nmemb THEN start ELSE head]
        /\ pc' = "while"
        /\ UNCHANGED <<nmemb, start, step, next, prev, n>>

\* while (head->next->next != head), and the start of list_for_each_continue
While == /\ pc = "while"
         /\ \/ next[next[head]] # head /\ cur' = next[cur] /\ pc' = "for"
            \/ next[next[head]] = head /\ pc' = "done" /\ UNCHANGED cur
         /\ UNCHANGED <<nmemb, start, step, next, prev, n>>

\* One round of list_for_each_continue(cur, head).  The links of a node that
\* list_del has taken out still lead on.
For == /\ pc = "for"
       /\ \/ /\ cur = head
             /\ pc' = "while"
             /\ UNCHANGED <<cur, n, next, prev>>
          \/ /\ cur # head
             /\ n' = n + 1
             /\ cur' = next[cur]
             /\ \/ /\ (n + 1) % step = 0
                   /\ next' = DelNext(next, prev, cur)
                   /\ prev' = DelPrev(next, prev, cur)
                \/ (n + 1) % step # 0 /\ UNCHANGED <<next, prev>>
             /\ UNCHANGED pc
       /\ UNCHANGED <<nmemb, start, step>>

Next == Seek \/ While \/ For
Fairness == WF_vars(Next)

Spec == Init /\ [][Next]_vars /\ Fairness

----------------------------------------------------------------------------
(* Properties *)

\* The survivor of a ring of m, counting from 0: the well-known recurrence.
Survivor[m \in Nat, s \in Nat] == IF m <= 1 THEN 0 ELSE (Survivor[m - 1, s] + s) % m

\* The node that should be left, counting from node start.
LastOne == LET from == IF start <= nmemb THEN start - 1 ELSE 0
           IN  ((from + Survivor[nmemb, step]) % nmemb) + 1

\* For step >= 2, also when it exceeds nmemb, joesph_loop ends, although a pass
\* may delete nothing; and the node it prints is the one that the recurrence
\* gives and the only one in the list, although the loop counts passes over the
\* head and may go on when one node is left.
EndsWithSurvivor == <>(/\ pc = "done"
                       /\ next[head] = LastOne /\ prev[head] = LastOne
                       /\ next[LastOne] = head /\ prev[LastOne] = head)

=============================================================================
