------------------------------- MODULE ListOps -------------------------------
(***************************************************************************)
(* The pointer assignments of src/01DataStruct/04Kernel_list/list.h (the   *)
(* same file is in 05HashTable, 07Sort and 08Huffman) as operators on the  *)
(* two link fields.  `next' and `prev' map every struct list_head, the     *)
(* heads included, to a struct list_head.  An operator ending in Next      *)
(* (Prev) gives the next (prev) fields after the call.                     *)
(***************************************************************************)

\* __list_add(node, Prev, Next): link node between Prev and Next.
LinkNext(next, node, Prev, Next) == [next EXCEPT ![node] = Next, ![Prev] = node]
LinkPrev(prev, node, Prev, Next) == [prev EXCEPT ![node] = Prev, ![Next] = node]

\* Mutant: list_add writes node->next->prev before it has set node->next.
AddPrevStale(next, prev, head, node) == [prev EXCEPT ![node] = head, ![next[node]] = node]

\* list_add(head, node): node becomes the first of the list.
AddNext(next, prev, head, node) == LinkNext(next, node, head, next[head])
AddPrev(next, prev, head, node) == LinkPrev(prev, node, head, next[head])

\* list_add_tail(head, node): node becomes the last of the list.
AddTailNext(next, prev, head, node) == LinkNext(next, node, prev[head], head)
AddTailPrev(next, prev, head, node) == LinkPrev(prev, node, prev[head], head)

\* Mutant: list_del unlinks node in one direction only.
DelPrevForgotten(next, prev, node) == prev

\* list_del(node): the neighbours bypass node, whose own links stay.
DelNext(next, prev, node) == [next EXCEPT ![prev[node]] = next[node]]
DelPrev(next, prev, node) == [prev EXCEPT ![next[node]] = prev[node]]

\* list_head_init(node): the links of node point to itself.
InitLink(link, node) == [link EXCEPT ![node] = node]

\* list_is_empty(head).
list_is_empty(next, prev, head) == next[head] = head /\ prev[head] = head

=============================================================================
