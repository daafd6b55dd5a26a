------------------------------ MODULE ArraySort ------------------------------
(***************************************************************************)
(* The sorts of src/01DataStruct/07Sort/sort_arrary.c, with the signature  *)
(* of qsort().  Each is a function from an array to an array; the array is *)
(* a sequence, so that index n of the code is n + 1 here.  An element is   *)
(* its age, which cmp_age compares, and the name that tells it from others *)
(* of the same age: the place it has in the input.                         *)
(***************************************************************************)
EXTENDS Integers, Sequences, SequencesExt

CONSTANT Arrays         \* the inputs: sequences of one element or more

VARIABLES input,        \* the array before the call
          base,         \* the array
          sort          \* the sort that was called, or "none"

vars == <<input, base, sort>>

Init == /\ input \in Arrays
        /\ base = input
        /\ sort = "none"

cmp_age(a, b) == a.age - b.age

swap(a, i, j) == [a EXCEPT ![i] = a[j], ![j] = a[i]]

----------------------------------------------------------------------------

\* The inner loop's comparison at place `start'.
BubbleStep(a, start) == IF cmp_age(a[start], a[start + 1]) > 0 THEN swap(a, start, start + 1) ELSE a

\* for (end = nmemb - 1; end >= 1; --end) for (start = 0; start < end; ++start)
bubble_sort(a) ==
    FoldLeft(BubbleStep, a, FlattenSeq([k \in 1..(Len(a) - 1) |-> [s \in 1..(Len(a) - k) |-> s]]))

\* The first of the smallest elements from place i on goes to place i.
SelectStep(a, i) ==
    LET min == CHOOSE m \in i..Len(a) :
                  /\ \A j \in i..Len(a) : cmp_age(a[j], a[m]) >= 0
                  /\ \A j \in i..(m - 1) : cmp_age(a[j], a[m]) > 0
    IN  swap(a, i, min)

select_sort(a) == FoldLeft(SelectStep, a, [i \in 1..(Len(a) - 1) |-> i])

\* Mutant: elements that are equal to the inserted one are moved as well.
InsertPastEqual(a, j, step) ==
    LET places == {k \in 1..j : (j - k) % step = 0}
        stay   == {k \in places \ {j} : cmp_age(a[k], a[j]) < 0}
        p      == IF stay = {} THEN Min(places) ELSE Max(stay) + step
    IN  [k \in DOMAIN a |-> IF k \notin places \/ k < p THEN a[k]
                            ELSE IF k = p THEN a[j] ELSE a[k - step]]

\* The element at place j goes left in strides of `step' until it meets one that
\* is not larger or the first of its stride; those it passes move right.
Insert(a, j, step) ==
    LET places == {k \in 1..j : (j - k) % step = 0}
        stay   == {k \in places \ {j} : cmp_age(a[k], a[j]) <= 0}
        p      == IF stay = {} THEN Min(places) ELSE Max(stay) + step
    IN  [k \in DOMAIN a |-> IF k \notin places \/ k < p THEN a[k]
                            ELSE IF k = p THEN a[j] ELSE a[k - step]]

insert_sort(a) == FoldLeft(LAMBDA b, j : Insert(b, j, 1), a, [i \in 1..(Len(a) - 1) |-> i + 1])

\* The places offset + step, offset + 2 * step, ... for every offset below step.
Strides(n, step) ==
    FlattenSeq([o \in 1..step |->
        SelectSeq([k \in 1..n |-> k], LAMBDA k : k > step /\ (k - o) % step = 0)])

shell_sort(a) ==
    FoldLeft(LAMBDA b, step : FoldLeft(LAMBDA c, j : Insert(c, j, step), b, Strides(Len(a), step)),
             a, <<3, 2, 1>>)

\* The merge of __merge_sort: the left element goes first only when it is smaller.
RECURSIVE Merge(_, _)
Merge(l, r) == IF l = <<>> THEN r ELSE IF r = <<>> THEN l
               ELSE IF cmp_age(l[1], r[1]) < 0 THEN <<l[1]>> \o Merge(Tail(l), r)
               ELSE <<r[1]>> \o Merge(l, Tail(r))

RECURSIVE merge_sort(_)
merge_sort(a) == LET half == Len(a) \div 2
                 IN  IF Len(a) <= 1 THEN a
                     ELSE Merge(merge_sort(SubSeq(a, 1, half)), merge_sort(SubSeq(a, half + 1, Len(a))))

\* The loops of __quick_sort: a hole moves between l and r, which come together;
\* `right' says which of the two inner loops runs.  The pivot ends where they meet.
RECURSIVE Partition(_, _, _, _, _)
Partition(a, l, r, buf, right) ==
    IF l >= r THEN [arr |-> [a EXCEPT ![l] = buf], at |-> l]
    ELSE IF right
    THEN IF cmp_age(a[r], buf) < 0 THEN Partition([a EXCEPT ![l] = a[r]], l + 1, r, buf, FALSE)
         ELSE Partition(a, l, r - 1, buf, TRUE)
    ELSE IF cmp_age(a[l], buf) > 0 THEN Partition([a EXCEPT ![r] = a[l]], l, r - 1, buf, TRUE)
         ELSE Partition(a, l + 1, r, buf, FALSE)

RECURSIVE quick_sort(_)
quick_sort(a) ==
    IF Len(a) < 2 THEN a
    ELSE LET p == Partition(a, 1, Len(a), a[1], TRUE)
         IN  quick_sort(SubSeq(p.arr, 1, p.at - 1)) \o <<p.arr[p.at]>>
                \o quick_sort(SubSeq(p.arr, p.at + 1, Len(a)))

----------------------------------------------------------------------------

\* p_sort[..](s, ..) for one of the sorts
Sorted(a, s) == CASE s = "bubble" -> bubble_sort(a)
                  [] s = "select" -> select_sort(a)
                  [] s = "insert" -> insert_sort(a)
                  [] s = "shell"  -> shell_sort(a)
                  [] s = "merge"  -> merge_sort(a)
                  [] s = "quick"  -> quick_sort(a)

Next == /\ sort = "none"
        /\ sort' \in {"bubble", "select", "insert", "shell", "merge", "quick"}
        /\ base' = Sorted(base, sort')
        /\ UNCHANGED input

Spec == Init /\ [][Next]_vars

----------------------------------------------------------------------------
(* Properties *)

\* Each of the six sorts leaves the elements of the input in ascending order of
\* age, none lost and none doubled; bubble_sort and insert_sort also leave
\* elements of the same age in the order they had (the other four do not).
\* (Arrays have an element at least: with nmemb = 0 the bound nmemb - 1 of
\* select_sort's loop wraps.)
ArraySorted ==
    sort # "none" =>
        /\ Len(base) = Len(input) /\ ToSet(base) = ToSet(input)
        /\ \A j \in 1..Len(base) : \A i \in 1..(j - 1) :
              \/ base[i].age < base[j].age
              \/ /\ base[i].age = base[j].age
                 /\ sort \in {"bubble", "insert"} => base[i].name < base[j].name

=============================================================================
