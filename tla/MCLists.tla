------------------------------- MODULE MCLists -------------------------------
(* The lists of src/01DataStruct/04Kernel_list/list.h, two programs on them, *)
(* the singly linked lists of 01Slist, and the address book: a behaviour is  *)
(* a run of one.                                                             *)
(*                                                                           *)
(* list.h: two lists over three nodes.  05HashTable: a table of two chains,  *)
(* one with three nodes of name "a" and one of name "b", the other with "c". *)
(* joesph.c: rings of up to nine nodes, every start in or beyond them, and   *)
(* steps that are smaller and larger than the ring.  01Slist: three nodes    *)
(* and two values.  Project/ADDRESS_LIST: up to MaxBook contacts, whose names *)
(* of one character are shorter than the only telephone number, and a change. *)
EXTENDS KernelList

CONSTANTS TableNodes, TableHeads, NameOf, HashOf,  \* of the hash table
          Sizes, Starts, Steps,                    \* of the ring
          SNodes, SValues, phead,                  \* of the singly linked lists
          Addr, address_list, NameChars, MaxBook, MaxEdits, NULL

VARIABLES program,
          tnext, tprev, pushed, tcur, call, result, found, lastName, stale, state,
          nmemb, start, step, rnext, rprev, rcur, n, pc,
          version, snext, data, linked, scur, Prev, out, spc,
          alloc, twice, anext, aprev, adata, new, apc, said, edits, book, reused

tableVars == <<tnext, tprev, pushed, tcur, call, result, found, lastName, stale, state>>
ringVars == <<nmemb, start, step, rnext, rprev, rcur, n, pc>>
slistVars == <<version, snext, data, linked, scur, Prev, out, spc>>
bookVars == <<alloc, twice, anext, aprev, adata, new, apc, said, edits, book, reused>>

\* The names of the nodes 1 to 5, and the chains 11 and 12 for them
FiveNames == [k \in 1..5 |-> IF k = 4 THEN "b" ELSE IF k = 5 THEN "c" ELSE "a"]
TwoChains == [nm \in {"a", "b", "c"} |-> IF nm = "c" THEN 12 ELSE 11]

Table == INSTANCE HashTable WITH Nodes <- TableNodes, Heads <- TableHeads, name <- NameOf,
                                 hash <- HashOf, next <- tnext, prev <- tprev, cur <- tcur
Circle == INSTANCE Joseph WITH next <- rnext, prev <- rprev, cur <- rcur
Singly == INSTANCE Slist WITH Nodes <- SNodes, Values <- SValues,
                              next <- snext, cur <- scur, pc <- spc
Book == INSTANCE AddressBook WITH Names <- {<<c>> : c \in NameChars}, Tels <- {<<1, 3>>},
                                  Stale <- {<<4>>}, next <- anext, prev <- aprev,
                                  data <- adata, pc <- apc

ASSUME ProgramsAssumption == /\ Table!HashAssumption /\ Circle!SizesAssumption
                             /\ Singly!ListAssumption /\ Book!BookAssumption

MCInit == /\ program \in {"list", "hashtable", "joesph", "slist", "address_list"}
          /\ Init
          /\ program # "list" => \A l \in Links : next[l] = l /\ prev[l] = l
          /\ program = "joesph" \/ (nmemb = 9 /\ start = 4 /\ step = 4)
          /\ program = "slist" \/ (version = "head_loop" /\ data = [s \in SNodes |-> CHOOSE v \in SValues : TRUE])
          /\ Table!Init /\ Circle!Init /\ Singly!Init /\ Book!Init

ListStep == program = "list" /\ UNCHANGED <<program, tableVars, ringVars, slistVars, bookVars>>
TableStep == program = "hashtable" /\ UNCHANGED <<program, vars, ringVars, slistVars, bookVars>>
RingStep == program = "joesph" /\ UNCHANGED <<program, vars, tableVars, slistVars, bookVars>>
SinglyStep == program = "slist" /\ UNCHANGED <<program, vars, tableVars, ringVars, bookVars>>
BookStep == program = "address_list" /\ UNCHANGED <<program, vars, tableVars, ringVars, slistVars>>

MCNext == \/ ListStep /\ Next
          \/ TableStep /\ Table!Next
          \/ RingStep /\ Circle!Next
          \/ SinglyStep /\ Singly!Next
          \/ BookStep /\ Book!Next

MCVars == <<program, vars, tableVars, ringVars, slistVars, bookVars>>

\* The fairness of the two modules that have one, each for the runs of its program.
MCSpec == /\ MCInit /\ [][MCNext]_MCVars
          /\ WF_MCVars(TableStep /\ Table!FindStep)
          /\ WF_MCVars(RingStep /\ Circle!Next)

----------------------------------------------------------------------------

\* FindInOrder of HashTable: successive calls of hash_find return the matches of
\* a key in the order in which they were pushed, and then NULL.
FindInOrder == Table!FindInOrder

\* FindReturns of HashTable: every call of hash_find returns.
FindReturns == program = "hashtable" => Table!FindReturns

\* EndsWithSurvivor of Joseph: joesph_loop ends with the node that the recurrence
\* gives, for step >= 2.
EndsWithSurvivor == program = "joesph" => Circle!EndsWithSurvivor

\* ImplementsSeq of Slist: the singly linked lists implement a sequence of nodes.
ImplementsSeq == Singly!ImplementsSeq

\* BookKept of AddressBook: unless a contact was confirmed, or refused once more with
\* free() not noticing, after an `N', the list holds the contacts that were confirmed
\* and not deleted, each in memory of its own, and no loop hangs.
BookKept == Book!BookKept

\* NotFoundIsAbsent of AddressBook: a contact that update_link_man does not find is
\* not in the list.
NotFoundIsAbsent == Book!NotFoundIsAbsent

=============================================================================
