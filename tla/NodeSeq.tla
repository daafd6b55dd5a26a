------------------------------ MODULE NodeSeq ------------------------------
(***************************************************************************)
(* What the lists of src/01DataStruct/01Slist promise: a sequence of nodes *)
(* with their data, and calls that print it or look for one of them.       *)
(***************************************************************************)
EXTENDS Sequences, Integers, SequencesExt

CONSTANTS Nodes, Values

VARIABLES contents,   \* records of a node and its data, first to last
          out         \* the data that the last call printed, or found

Data(s) == [k \in DOMAIN s |-> s[k].data]

Add(e) == /\ \A k \in DOMAIN contents : contents[k].node # e.node
          /\ contents' = <<e>> \o contents \/ contents' = Append(contents, e)
          /\ out' = <<>>

\* One element goes, and the others keep their order.
Unlink(k) == contents' = RemoveAt(contents, k) /\ out' = <<>>

Invert == contents' = Reverse(contents) /\ out' = <<>>

Observe == /\ \/ out' \in {<<>>, Data(contents), Reverse(Data(contents))}
              \/ \E k \in DOMAIN contents : out' = <<contents[k].data>>
           /\ UNCHANGED contents

Init == contents = <<>> /\ out = <<>>

Next == \/ \E n \in Nodes, v \in Values : Add([node |-> n, data |-> v])
        \/ \E k \in DOMAIN contents : Unlink(k)
        \/ Invert \/ Observe

Spec == Init /\ [][Next]_<<contents, out>>

=============================================================================
