------------------------------ MODULE HashTable ------------------------------
(***************************************************************************)
(* The chained hash table of src/01DataStruct/05HashTable/hashtable.c, on  *)
(* the lists of list.h.                                                    *)
(*                                                                         *)
(* hash_find keeps its position in a static variable, so that calls with   *)
(* the same key return one match after the other.  Its loop is modelled    *)
(* step by step; the other operations are one step each.  Names of nodes   *)
(* are compared by hash_cmp; the cursor may also stand on the head of a    *)
(* chain, which is not a node: what hash_cmp reads there is undefined.     *)
(***************************************************************************)
EXTENDS Integers, Sequences, FiniteSets, SequencesExt, ListOps

CONSTANTS Nodes,
          Heads,        \* the list heads of table[]
          NULL,
          name,         \* the name of each node: its key
          hash          \* the head of the chain for each name

HashAssumption == /\ DOMAIN name = Nodes
                  /\ \A k \in Nodes : hash[name[k]] \in Heads
                  /\ Nodes \cap Heads = {} /\ NULL \notin Nodes \cup Heads

VARIABLES next, prev,   \* the links of heads and nodes
          pushed,       \* history: the nodes of each chain, first to last
          cur,          \* the static cursor of hash_find
          call,         \* the key of the call of hash_find that is running, or NULL
          result,       \* what the last call returned
          found,        \* history: what calls for the name lastName have returned
          lastName,     \*          since it was searched from the beginning
          stale,        \* history: the cursor stands on a node of a destroyed table
          state         \* "ready", "crashed" or "destroyed"

vars == <<next, prev, pushed, cur, call, result, found, lastName, stale, state>>

\* hashtable_init: list_head_init of every head.  Nodes are not yet linked.
Init == /\ next = [h \in Heads \cup Nodes |-> IF h \in Heads THEN h ELSE NULL]
        /\ prev = [h \in Heads \cup Nodes |-> IF h \in Heads THEN h ELSE NULL]
        /\ pushed = [h \in Heads |-> <<>>]
        /\ cur = NULL /\ call = NULL /\ result = NULL
        /\ found = <<>> /\ lastName = NULL /\ stale = FALSE
        /\ state = "ready"

Idle == state = "ready" /\ call = NULL
Chain(k) == hash[name[k]]
InTable(k) == \E h \in Heads : k \in ToSet(pushed[h])

----------------------------------------------------------------------------
\* Mutant: the node goes to the front of its chain.
PushFirst(k) == /\ Idle /\ ~InTable(k)
                /\ next' = AddNext(next, prev, Chain(k), k)
                /\ prev' = AddPrev(next, prev, Chain(k), k)
                /\ pushed' = [pushed EXCEPT ![Chain(k)] = <<k>> \o @]
                /\ UNCHANGED <<cur, call, result, found, lastName, stale, state>>

\* hash_push: list_add_tail to the chain of the node's name.
hash_push(k) == /\ Idle /\ ~InTable(k)
                /\ next' = AddTailNext(next, prev, Chain(k), k)
                /\ prev' = AddTailPrev(next, prev, Chain(k), k)
                /\ pushed' = [pushed EXCEPT ![Chain(k)] = Append(@, k)]
                /\ UNCHANGED <<cur, call, result, found, lastName, stale, state>>

\* hash_cmp(a, key) for a node a
hash_cmp(a, key) == a \in Nodes /\ name[a] = name[key]

\* Mutant: the cursor is kept whatever it stands on.
FindStartKeep(key) == /\ Idle
                      /\ call' = key
                      /\ cur' = IF cur = NULL THEN Chain(key) ELSE cur
                      /\ UNCHANGED state
                      /\ found' = IF hash_cmp(cur, key) THEN found ELSE <<>>
                      /\ lastName' = name[key]
                      /\ UNCHANGED <<next, prev, pushed, result, stale>>

\* hash_find(key) begins: the cursor stays if it stands on a match, and goes to
\* the head of the chain otherwise.  If it stands on a head, hash_cmp reads
\* memory in front of the table: the program crashes, or the names differ.
FindStart(key) == /\ Idle
                  /\ call' = key
                  /\ cur' = IF hash_cmp(cur, key) THEN cur ELSE Chain(key)
                  /\ state' \in IF cur \in Heads THEN {"ready", "crashed"} ELSE {"ready"}
                  /\ found' = IF hash_cmp(cur, key) THEN found ELSE <<>>
                  /\ lastName' = name[key]
                  /\ stale' = (stale /\ hash_cmp(cur, key))
                  /\ UNCHANGED <<next, prev, pushed, result>>

\* list_for_each_continue: one step of the cursor.
FindStep == /\ state = "ready" /\ call # NULL
            /\ LET c == next[cur]
               IN  /\ cur' = c
                   /\ \/ c = Chain(call) /\ result' = NULL /\ call' = NULL /\ UNCHANGED found
                      \/ /\ c # Chain(call) /\ hash_cmp(c, call)
                         /\ result' = c /\ call' = NULL
                         /\ found' = IF stale THEN found ELSE Append(found, c)
                      \/ /\ c # Chain(call) /\ ~hash_cmp(c, call)
                         /\ UNCHANGED <<result, call, found>>
            /\ UNCHANGED <<next, prev, pushed, lastName, stale, state>>

\* hashtable_destroy: list_del_init of the first node until the chain is empty,
\* for every chain; the nodes stay, the table is freed.
hashtable_destroy ==
    /\ Idle
    /\ next' = [a \in DOMAIN next |-> IF a \in Heads \/ InTable(a) THEN a ELSE next[a]]
    /\ prev' = [a \in DOMAIN prev |-> IF a \in Heads \/ InTable(a) THEN a ELSE prev[a]]
    /\ pushed' = [h \in Heads |-> <<>>]
    /\ state' = "destroyed"
    /\ stale' = (cur \in Nodes)
    /\ found' = <<>>
    /\ UNCHANGED <<cur, call, result, lastName>>

\* hashtable_init of another table.  hash_find's cursor is not reset.
hashtable_init == /\ state = "destroyed"
                  /\ state' = "ready"
                  /\ UNCHANGED <<next, prev, pushed, cur, call, result, found, lastName, stale>>

Next == \/ \E k \in Nodes : hash_push(k) \/ FindStart(k)
        \/ FindStep
        \/ hashtable_destroy \/ hashtable_init

\* A call of hash_find runs.
Fairness == WF_vars(FindStep)

Spec == Init /\ [][Next]_vars /\ Fairness

----------------------------------------------------------------------------
(* Properties *)

\* Types of the variables.
TypeOK == /\ next \in [Heads \cup Nodes -> Heads \cup Nodes \cup {NULL}]
          /\ prev \in [Heads \cup Nodes -> Heads \cup Nodes \cup {NULL}]
          /\ pushed \in [Heads -> Seq(Nodes)]
          /\ cur \in Heads \cup Nodes \cup {NULL}
          /\ call \in Nodes \cup {NULL} /\ result \in Nodes \cup {NULL}
          /\ found \in Seq(Nodes) /\ stale \in BOOLEAN /\ state \in {"ready", "crashed", "destroyed"}

\* For each k, the nodes with name nm among the first k of chain s.
MatchesIn(s, nm) == LET m[k \in 0..Len(s)] ==
                            IF k = 0 THEN <<>>
                            ELSE IF name[s[k]] = nm THEN Append(m[k - 1], s[k]) ELSE m[k - 1]
                    IN  m

\* The nodes of the table with name nm, in the order in which they were pushed.
Matches(nm) == MatchesIn(pushed[hash[nm]], nm)[Len(pushed[hash[nm]])]

\* Successive calls of hash_find with one key return its matches in the order
\* in which they were pushed, none of them twice and none left out, and NULL
\* only after all of them, also when nodes are pushed between the calls and
\* other names share the chain; but not from a cursor that stood on a match
\* when its table was destroyed.
FindInOrder == [][call # NULL /\ call' = NULL /\ ~stale =>
                     /\ IsPrefix(found', Matches(lastName))
                     /\ result' = NULL => found = Matches(lastName)]_vars

\* The links of each chain lead through what was pushed and back, no node is at
\* two places, and each is in the chain of its name.
Linked == \A h \in Heads :
             LET s == pushed[h]
                 at(k) == IF k \in 1..Len(s) THEN s[k] ELSE h
             IN  \A k \in 0..Len(s) : next[at(k)] = at(k + 1) /\ prev[at(k + 1)] = at(k)
Disjoint == \A g, h \in Heads : \A i \in 1..Len(pushed[g]), j \in 1..Len(pushed[h]) :
                pushed[g][i] = pushed[h][j] => g = h /\ i = j

OwnChains == \A h \in Heads : \A k \in 1..Len(pushed[h]) : Chain(pushed[h][k]) = h

\* The cursor stands behind the first p nodes of the chain of name nm, and what
\* was found are the matches among these.
Searched(nm, p) == /\ cur = IF p = 0 THEN hash[nm] ELSE pushed[hash[nm]][p]
                   /\ found = MatchesIn(pushed[hash[nm]], nm)[p]

\* The loop of hash_find goes from a link that is set to another one, also from a
\* node of a destroyed table.
LinksSet == /\ \A a \in Heads \cup Nodes : next[a] # NULL => next[next[a]] # NULL
            /\ cur # NULL => next[cur] # NULL
            /\ call # NULL => cur # NULL

\* Where the cursor is while a call runs.
Searching == call # NULL =>
                /\ lastName = name[call]
                /\ ~stale => \E p \in 0..Len(pushed[Chain(call)]) : Searched(name[call], p)

\* Where a call left it on a node: this is a match for the name of the call.
Resting == call = NULL /\ ~stale /\ cur \in Nodes =>
              /\ lastName = name[cur]
              /\ \E p \in 1..Len(pushed[Chain(cur)]) : Searched(name[cur], p)

\* What FindInOrder needs.
IInv == TypeOK /\ Linked /\ Disjoint /\ OwnChains /\ LinksSet /\ Searching /\ Resting

\* Every call of hash_find returns: the cursor always gets back to the head of
\* the chain that is searched, or to a match, also when it was left on a node of
\* a table that is gone.
FindReturns == call # NULL ~> call = NULL \/ state = "crashed"

=============================================================================
