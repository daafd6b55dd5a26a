-------------------------------- MODULE Deque --------------------------------
(***************************************************************************)
(* What dlist.c and the stack and the queue built on it promise: a         *)
(* sequence of values.  stack_push adds at the front, queue_push at the    *)
(* back, both pop at the front, and destroying takes everything away.      *)
(***************************************************************************)
EXTENDS Sequences, Integers

CONSTANT Values

VARIABLES contents,   \* the values, front first
          out         \* what the last pop (or top) gave its caller

PushFront(v) == contents' = <<v>> \o contents /\ UNCHANGED out
PushBack(v)  == contents' = Append(contents, v) /\ UNCHANGED out
PopFront     == /\ contents # <<>>
                /\ out' = Head(contents)
                /\ contents' = Tail(contents)
Top          == contents # <<>> /\ out' = Head(contents) /\ UNCHANGED contents
RemoveFirst(v) ==
    \E i \in 1..Len(contents) :
        /\ contents[i] = v
        /\ \A j \in 1..(i - 1) : contents[j] # v
        /\ contents' = SubSeq(contents, 1, i - 1) \o SubSeq(contents, i + 1, Len(contents))
        /\ UNCHANGED out
Discard      == contents # <<>> /\ contents' = Tail(contents) /\ UNCHANGED out

Init == contents = <<>> /\ out = 0

Next == \/ \E v \in Values : PushFront(v) \/ PushBack(v) \/ RemoveFirst(v)
        \/ PopFront \/ Top \/ Discard

Spec == Init /\ [][Next]_<<contents, out>>

=============================================================================
