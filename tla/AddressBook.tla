---------------------------- MODULE AddressBook ----------------------------
(***************************************************************************)
(* The address book of src/01DataStruct/Project/ADDRESS_LIST: a menu over  *)
(* a list of contacts, with the list operations of address_list.h, which   *)
(* are those of list.h (ListOps).  Each choice of the menu is one step,    *)
(* but for add_link_man, whose loop asks again after an `N' although it    *)
(* has freed the node.                                                     *)
(*                                                                         *)
(* A text is a sequence of characters that fits its field and update_info; *)
(* `other' stands for the fields that update_link_man does not search by.  *)
(* malloc hands out any address in the free list.  free() of one that is   *)
(* there already aborts, or, when a name of eight characters or more was   *)
(* typed over the mark that glibc left in the node, puts it there a second *)
(* time (bound: not a third), so that malloc hands it out twice or finds   *)
(* the list corrupted (which it notices: a wild address is left out).      *)
(***************************************************************************)
EXTENDS ListOps, Integers, Sequences, SequencesExt

CONSTANTS Addr,             \* the memory for contacts
          address_list,     \* the head
          Names, Tels,      \* what the user types
          Stale,            \* what may follow the end of a text in its field
          NULL,
          MaxBook, MaxEdits \* bounds: contacts, and changes of a field

Texts == Names \cup Tels

BookAssumption == address_list \notin Addr /\ NULL \notin Addr /\ MaxEdits \in Nat

VARIABLES alloc,            \* addresses that malloc handed out
          twice,            \* addresses once more in the free list than they should be
          next, prev, data,
          new,              \* the contact of add_link_man
          pc,               \* "menu", "form", "confirm", "destroy", "exit",
                            \* "abort" or "hang"
          said,             \* what the last choice of the menu told or wrote
          edits,
          book,             \* the contacts confirmed and not deleted (history)
          reused            \* a freed node was linked, or freed again unnoticed (history)

list == <<next, prev>>
vars == <<alloc, twice, list, data, new, pc, said, edits, book, reused>>

Fields == {"name", "tel", "email", "other"}
Blank == [f \in Fields |-> <<>>]
Nothing == [what |-> "none", info |-> <<>>, found |-> TRUE]

Init == /\ alloc = {} /\ twice = {} /\ new = NULL
        /\ next = [l \in Addr \cup {address_list} |-> l] /\ prev = next
        /\ data = [a \in Addr |-> Blank]
        /\ pc = "menu" /\ said = Nothing /\ edits = 0
        /\ book = <<>> /\ reused = FALSE

----------------------------------------------------------------------------
(* Loops over the list *)

\* The node that list_for_each has reached after k steps.
At(k) == LET at[m \in Nat] == IF m = 0 THEN address_list ELSE next[at[m - 1]] IN at[k]

\* The lengths for which the loop is back at the head, and the nodes it visits.
Ends == {k \in 0..Len(book) : At(k + 1) = address_list}
Length == CHOOSE k \in Ends : \A m \in Ends : k <= m
Walk == [k \in 1..Length |-> At(k)]

\* A menu choice that goes through the list, which may not end.
Loops == pc = "menu" /\ Ends # {}
Hang == /\ pc = "menu" /\ Ends = {}
        /\ pc' = "hang"
        /\ UNCHANGED <<alloc, twice, list, data, new, said, edits, book, reused>>

\* free() of an address: unnoticed, and with the program aborted
free(a) == \/ a \in alloc /\ alloc' = alloc \ {a} /\ UNCHANGED <<twice, reused>>
           \/ a \notin alloc /\ twice' = twice \cup {a} /\ reused' = TRUE /\ UNCHANGED alloc
free_aborts(a) == a \notin alloc /\ pc' = "abort" /\ UNCHANGED <<alloc, twice, reused>>

Say(what, info, found) == said' = [what |-> what, info |-> info, found |-> found]

----------------------------------------------------------------------------
(* add_link_man *)

Malloc == /\ pc = "menu" /\ Len(book) < MaxBook
          /\ \/ /\ \E a \in (Addr \ alloc) \cup twice :
                      /\ alloc' = alloc \cup {a} /\ new' = a
                      /\ twice' = IF a \in alloc THEN twice \ {a} ELSE twice
                /\ pc' = "form"
             \/ /\ twice # {}
                /\ pc' = "abort"
                /\ UNCHANGED <<alloc, twice, new>>
          /\ said' = Nothing
          /\ UNCHANGED <<list, data, edits, book, reused>>

Form == /\ pc = "form"
        /\ \E name \in Names, tel \in Tels :
              data' = [data EXCEPT ![new] = [Blank EXCEPT !["name"] = name, !["tel"] = tel]]
        /\ pc' = "confirm"
        /\ UNCHANGED <<alloc, twice, list, new, said, edits, book, reused>>

\* `Y'
Confirm == /\ pc = "confirm"
           /\ next' = AddTailNext(next, prev, address_list, new)
           /\ prev' = AddTailPrev(next, prev, address_list, new)
           /\ book' = Append(book, new)
           /\ reused' = (reused \/ new \notin alloc)
           /\ new' = NULL /\ pc' = "menu"
           /\ UNCHANGED <<alloc, twice, data, said, edits>>

\* `N', which asks again with the freed node, and any other answer
Refuse == /\ pc = "confirm"
          /\ \/ free(new) /\ pc' = "form" /\ UNCHANGED new
             \/ free(new) /\ pc' = "menu" /\ new' = NULL
             \/ free_aborts(new) /\ UNCHANGED new
          /\ data' = [data EXCEPT ![new] = Blank]
          /\ UNCHANGED <<list, said, edits, book>>

add_link_man == Malloc \/ Form \/ Confirm \/ Refuse

----------------------------------------------------------------------------
(* update_link_man *)

Is(a, info) == data[a]["name"] = info \/ data[a]["tel"] = info

\* memmove(field, update_info, strlen(update_info)): the end of the text is not
\* copied, so that the rest of a longer old text stays, and what is in the field
\* behind the end of a shorter one shows up.
Overlay(old, text, stale) ==
    IF Len(text) < Len(old) THEN text \o SubSeq(old, Len(text) + 1, Len(old))
    ELSE IF Len(text) = Len(old) THEN text
    ELSE text \o stale

\* The field that each choice of update_link_man writes: `4.email' is the name.
Written(f) == IF f = "email" THEN "name" ELSE f

Modify(info) ==
    /\ Loops
    /\ LET M == {k \in 1..Length : Is(Walk[k], info)}
       IN  \/ /\ M # {} /\ edits < MaxEdits
              /\ edits' = edits + 1
              /\ \E k \in M, f \in Fields, text \in Texts, stale \in Stale :
                    /\ \A m \in M : k <= m
                    /\ data' = [data EXCEPT ![Walk[k]][Written(f)] = Overlay(@, text, stale)]
              /\ Say("modify", info, TRUE)
           \/ M = {} /\ Say("modify", info, FALSE) /\ UNCHANGED <<data, edits>>
    /\ UNCHANGED <<alloc, twice, list, new, pc, book, reused>>

\* Mutant: the node before is not linked to the one after.
NodeDelNext(node) == [next EXCEPT ![node] = node]

\* The links to the next node after node_del: the node is unlinked and initialized.
DelNode(node) == InitLink(DelNext(next, prev, node), node)

\* node_del, with the free() at its end, and where the program is after it
node_del(node, after) ==
    /\ next' = DelNode(node)
    /\ prev' = InitLink(DelPrev(next, prev, node), node)
    /\ data' = [data EXCEPT ![node] = Blank]
    /\ book' = IF node \in ToSet(book)
               THEN RemoveAt(book, CHOOSE k \in DOMAIN book : book[k] = node) ELSE book
    /\ \/ free(node) /\ pc' = after
       \/ free_aborts(node)

\* The loop of the deletion looks at the first contact only.
Delete(info) ==
    /\ Loops
    /\ \/ /\ Length > 0 /\ Is(Walk[1], info)
          /\ \/ node_del(Walk[1], "menu")
             \/ UNCHANGED <<alloc, twice, list, data, book, pc, reused>>
          /\ Say("delete", info, TRUE)
       \/ /\ Length > 0 /\ ~Is(Walk[1], info)
          /\ Say("delete", info, FALSE)
          /\ UNCHANGED <<alloc, twice, list, data, book, pc, reused>>
    /\ UNCHANGED <<new, edits>>

----------------------------------------------------------------------------
(* find_link_man, save and leaving *)

strstr(s, t) == \E k \in 0..(Len(s) - Len(t)) : SubSeq(s, k + 1, k + Len(t)) = t

find_link_man(info) ==
    /\ Loops
    /\ Say("find", info, \E a \in ToSet(Walk) : \/ data[a]["name"] = info
                                                \/ \E f \in Fields \ {"name"} : strstr(data[a][f], info))
    /\ UNCHANGED <<alloc, twice, list, data, new, pc, edits, book, reused>>

\* What is written, but for the line between two contacts; an empty book too.
save == /\ Loops
        /\ Say("save", [k \in 1..Length |-> data[Walk[k]]], TRUE)
        /\ UNCHANGED <<alloc, twice, list, data, new, pc, edits, book, reused>>

\* The end of the program: list_destory deletes the first contact until there is
\* none, for ever if that does not take it out of the list.
Quit == /\ pc = "menu"
        /\ pc' = "destroy" /\ said' = Nothing
        /\ UNCHANGED <<alloc, twice, list, data, new, edits, book, reused>>

list_destory ==
    /\ pc = "destroy"
    /\ \/ next[address_list] # address_list /\ node_del(next[address_list], "destroy")
       \/ /\ next[address_list] = address_list
          /\ pc' = "exit"
          /\ UNCHANGED <<alloc, twice, list, data, book, reused>>
    /\ UNCHANGED <<new, said, edits>>

Next == \/ add_link_man \/ save \/ Quit \/ list_destory \/ Hang
        \/ \E info \in Texts : Modify(info) \/ Delete(info) \/ find_link_man(info)

Spec == Init /\ [][Next]_vars

----------------------------------------------------------------------------
(* Properties *)

\* Types of the variables.
TypeOK == /\ alloc \subseteq Addr /\ twice \subseteq Addr /\ new \in Addr \cup {NULL}
          /\ next \in [Addr \cup {address_list} -> Addr \cup {address_list}]
          /\ prev \in [Addr \cup {address_list} -> Addr \cup {address_list}]
          /\ pc \in {"menu", "form", "confirm", "destroy", "exit", "abort", "hang"}
          /\ edits \in 0..MaxEdits /\ book \in Seq(Addr) /\ reused \in BOOLEAN

\* Unless a contact was confirmed, or refused once more with free() not noticing,
\* after an `N', the list holds the contacts that were confirmed and not deleted,
\* in their order and each in memory of its own, no loop over it hangs, no contact
\* of it is freed twice (free() aborts only in add_link_man, for the node of a
\* form that was refused twice), and leaving frees them all.
BookKept == ~reused => /\ pc # "hang" /\ (pc = "abort" => new # NULL)
                       /\ Ends # {} /\ Walk = book
                       /\ IsInjective(book) /\ ToSet(book) \subseteq alloc
                       /\ pc = "exit" => alloc = {}

\* The k-th node of the book, with the head before and behind them.
Spot(k) == IF k \in 1..Len(book) THEN book[k] ELSE address_list

\* What BookKept needs to be inductive: the links lead through the book and back,
\* and what is allocated is the book and, perhaps, the contact being added, which
\* is not in it.
Kept == /\ TypeOK /\ pc # "hang"
        /\ IsInjective(book)
        /\ \A k \in 0..Len(book) : next[Spot(k)] = Spot(k + 1) /\ prev[Spot(k + 1)] = Spot(k)
        /\ IF pc \in {"form", "confirm", "abort"}
           THEN new \in Addr \ ToSet(book) /\ alloc \ {new} = ToSet(book)
           ELSE alloc = ToSet(book)
        /\ twice = {}
        /\ pc = "exit" => book = <<>>
IInv == ~reused => Kept

\* What update_link_man says: a contact that is `not found' is not in the list.
NotFoundIsAbsent == said.what \in {"modify", "delete"} /\ ~said.found /\ ~reused =>
                        \A a \in ToSet(book) : ~Is(a, said.info)

=============================================================================
