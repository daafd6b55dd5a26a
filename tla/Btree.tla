-------------------------------- MODULE Btree --------------------------------
(***************************************************************************)
(* The binary search tree of src/01DataStruct/06Btree/btree.c: nodes with  *)
(* parent, lchild and rchild links, which belong to the caller.  btree_del *)
(* is given a node of the tree.  The traversals are functions of the tree: *)
(* the sequence of nodes that they pass to todo().                         *)
(***************************************************************************)
EXTENDS Integers, Sequences, FiniteSets, SequencesExt

CONSTANTS Nodes, NULL,
          key           \* the key that cmp() compares; keys may be equal

KeyAssumption == key \in [Nodes -> Int] /\ NULL \notin Nodes

VARIABLES root, parent, lchild, rchild,
          nodes         \* history: the nodes in the tree

vars == <<root, parent, lchild, rchild, nodes>>

\* btree_init; the links of nodes that were never pushed do not matter.
Init == /\ root = NULL
        /\ parent = [n \in Nodes |-> NULL]
        /\ lchild = [n \in Nodes |-> NULL]
        /\ rchild = [n \in Nodes |-> NULL]
        /\ nodes = {}

----------------------------------------------------------------------------
(* btree_push *)

cmp(a, b) == key[a] - key[b]

\* Mutant: equal keys go to the left.
GoesRightStrict(node, cur) == cmp(node, cur) > 0

GoesRight(node, cur) == cmp(node, cur) >= 0

\* The side of cur on which node belongs.
Side(node, cur) == IF GoesRight(node, cur) THEN rchild[cur] ELSE lchild[cur]

\* The loop: the node whose child the new one becomes.
RECURSIVE PushParent(_, _)
PushParent(node, cur) == IF Side(node, cur) = NULL THEN cur ELSE PushParent(node, Side(node, cur))

\* bnode_init, the search for a free place, and the links to and from the parent.
btree_push(node) ==
    /\ node \notin nodes
    /\ nodes' = nodes \cup {node}
    /\ LET p == IF root = NULL THEN NULL ELSE PushParent(node, root)
       IN  /\ root' = IF root = NULL THEN node ELSE root
           /\ parent' = [parent EXCEPT ![node] = p]
           /\ lchild' = [n \in Nodes |-> IF n = node THEN NULL ELSE
                           IF n = p /\ ~GoesRight(node, p) THEN node ELSE lchild[n]]
           /\ rchild' = [n \in Nodes |-> IF n = node THEN NULL ELSE
                           IF n = p /\ GoesRight(node, p) THEN node ELSE rchild[n]]

----------------------------------------------------------------------------
(* btree_del *)

\* `*pparent = c' for the place pparent where node hangs, in a state where the
\* children are l and r.
IsLeft(node) == parent[node] # NULL /\ lchild[parent[node]] = node
IsRight(node) == parent[node] # NULL /\ lchild[parent[node]] # node
NewRoot(node, c) == IF parent[node] = NULL THEN c ELSE root
NewLeft(l, node, c) == IF IsLeft(node) THEN [l EXCEPT ![parent[node]] = c] ELSE l
NewRight(r, node, c) == IF IsRight(node) THEN [r EXCEPT ![parent[node]] = c] ELSE r

\* Cases 1 to 3: at most one child, which takes the node's place.
DelOneChild(node) ==
    /\ lchild[node] = NULL \/ rchild[node] = NULL
    /\ LET c == IF lchild[node] # NULL THEN lchild[node] ELSE rchild[node]
       IN  /\ root' = NewRoot(node, c)
           /\ parent' = [n \in Nodes |-> IF n = node THEN NULL ELSE
                                         IF n = c THEN parent[node] ELSE parent[n]]
           /\ lchild' = NewLeft([lchild EXCEPT ![node] = NULL], node, c)
           /\ rchild' = NewRight([rchild EXCEPT ![node] = NULL], node, c)

\* Mutant: the right child itself is the heir.
LeftmostNone(cur) == cur

RECURSIVE Leftmost(_)
Leftmost(cur) == IF lchild[cur] = NULL THEN cur ELSE Leftmost(lchild[cur])

\* Case 4: the heir, the leftmost node of the right subtree, is taken out, gets
\* the node's links (*cur = *node) and its place; the node's own links stay.
DelTwoChildren(node) ==
    /\ lchild[node] # NULL /\ rchild[node] # NULL
    /\ LET cur == Leftmost(rchild[node])
           adjacent == parent[cur] = node
           l1  == IF adjacent THEN lchild ELSE [lchild EXCEPT ![parent[cur]] = rchild[cur]]
           r1  == IF adjacent THEN [rchild EXCEPT ![node] = rchild[cur]] ELSE rchild
           l2  == [l1 EXCEPT ![cur] = l1[node]]
           r2  == [r1 EXCEPT ![cur] = r1[node]]
       IN  /\ root' = NewRoot(node, cur)
           /\ lchild' = NewLeft(l2, node, cur)
           /\ rchild' = NewRight(r2, node, cur)
           /\ parent' = [n \in Nodes |-> IF n = cur THEN parent[node] ELSE
                                         IF n \in {l2[cur], r2[cur]} THEN cur ELSE
                                         IF n = rchild[cur] THEN parent[cur] ELSE parent[n]]

btree_del(node) == /\ node \in nodes
                   /\ nodes' = nodes \ {node}
                   /\ DelOneChild(node) \/ DelTwoChildren(node)

Next == \E node \in Nodes : btree_push(node) \/ btree_del(node)
Spec == Init /\ [][Next]_vars

----------------------------------------------------------------------------
(* Searching and traversing *)

\* btree_find, for a key k
RECURSIVE Find(_, _)
Find(cur, k) == IF cur = NULL \/ key[cur] = k THEN cur
                ELSE Find(IF k < key[cur] THEN lchild[cur] ELSE rchild[cur], k)
btree_find(k) == IF root = NULL THEN NULL ELSE Find(root, k)

RECURSIVE pre_order(_)
pre_order(cur) == IF cur = NULL THEN <<>>
                  ELSE <<cur>> \o pre_order(lchild[cur]) \o pre_order(rchild[cur])

RECURSIVE in_order(_)
in_order(cur) == IF cur = NULL THEN <<>>
                 ELSE in_order(lchild[cur]) \o <<cur>> \o in_order(rchild[cur])

RECURSIVE post_order(_)
post_order(cur) == IF cur = NULL THEN <<>>
                   ELSE post_order(lchild[cur]) \o post_order(rchild[cur]) \o <<cur>>

\* The loops of the _norecur traversals, with the stack and what was passed to
\* todo() so far.
RECURSIVE pre_order_norecur(_, _, _)
pre_order_norecur(stack, cur, out) ==
    IF cur # NULL
    THEN pre_order_norecur(Append(stack, cur), lchild[cur], Append(out, cur))
    ELSE IF stack # <<>> THEN pre_order_norecur(Front(stack), rchild[Last(stack)], out)
    ELSE out

RECURSIVE in_order_norecur(_, _, _)
in_order_norecur(stack, cur, out) ==
    IF cur # NULL THEN in_order_norecur(Append(stack, cur), lchild[cur], out)
    ELSE IF stack # <<>>
    THEN in_order_norecur(Front(stack), rchild[Last(stack)], Append(out, Last(stack)))
    ELSE out

\* Mutant: the right subtree counts as done when it is there.
NotYetRightNone(cur, prv) == FALSE

\* The right subtree of cur is there and was not the last to be left.
NotYetRight(cur, prv) == rchild[cur] # NULL /\ rchild[cur] # prv

RECURSIVE post_order_norecur(_, _, _, _)
post_order_norecur(stack, cur, prv, out) ==
    IF cur # NULL THEN post_order_norecur(Append(stack, cur), lchild[cur], prv, out)
    ELSE IF stack # <<>>
    THEN LET top == Last(stack)
         IN  IF NotYetRight(top, prv)
             THEN post_order_norecur(stack, rchild[top], prv, out)
             ELSE post_order_norecur(Front(stack), NULL, top, Append(out, top))
    ELSE out

Children(cur) == SelectSeq(<<lchild[cur], rchild[cur]>>, LAMBDA n : n # NULL)

\* btree_level_order: the loop over the queue.
RECURSIVE level_order(_, _)
level_order(queue, out) == IF queue = <<>> THEN out
                           ELSE level_order(Tail(queue) \o Children(Head(queue)),
                                            Append(out, Head(queue)))

RECURSIVE get_depth(_)
get_depth(n) == IF n = NULL THEN 0
                ELSE LET l == get_depth(lchild[n])
                         r == get_depth(rchild[n])
                     IN  (IF l > r THEN l ELSE r) + 1

----------------------------------------------------------------------------
(* Properties *)

Insert(seq, node) ==
    SelectSeq(seq, LAMBDA n : key[n] <= key[node]) \o <<node>>
        \o SelectSeq(seq, LAMBDA n : key[n] > key[node])

\* The tree is a sorted list of its nodes, equal keys in the order in which
\* they were pushed: btree_push puts a node behind those that are not larger,
\* and btree_del, with its heirs, takes out the one node and no other.
SortedList == [][
    LET before == in_order(root)
        after  == in_order(root)'
    IN  \/ \E node \in nodes' \ nodes : after = Insert(before, node)
        \/ \E node \in nodes \ nodes' : after = SelectSeq(before, LAMBDA n : n # node)]_vars

\* btree_find finds a node exactly for the keys that are in the tree, also
\* where equal keys and heirs have moved.
FindsKeys == \A k \in {key[n] : n \in Nodes} :
    IF \E n \in nodes : key[n] = k
    THEN btree_find(k) \in {n \in nodes : key[n] = k}
    ELSE btree_find(k) = NULL

RECURSIVE Level(_)
Level(n) == IF parent[n] = NULL THEN 1 ELSE Level(parent[n]) + 1

\* Level after level, each from left to right.
Levels == [d \in 1..get_depth(root) |-> SelectSeq(in_order(root), LAMBDA n : Level(n) = d)]

\* The traversals with a stack of their own visit the same nodes in the same
\* order as the recursive ones; btree_level_order visits level after level, and
\* btree_get_depth is the number of the deepest one that has a node.  (The empty
\* tree is left out of the latter: btree_level_order pushes its root and then
\* follows a null pointer.)
SameTraversals == /\ pre_order_norecur(<<>>, root, <<>>) = pre_order(root)
                  /\ in_order_norecur(<<>>, root, <<>>) = in_order(root)
                  /\ post_order_norecur(<<>>, root, NULL, <<>>) = post_order(root)
                  /\ root # NULL => /\ level_order(<<root>>, <<>>) = FlattenSeq(Levels)
                                    /\ \A d \in DOMAIN Levels : Levels[d] # <<>>

=============================================================================
