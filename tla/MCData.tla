------------------------------- MODULE MCData -------------------------------
(* The stacks and queues of src/01DataStruct/02Dlist, the calculator and the *)
(* search tree that use them, the sorts of 07Sort and the coder of           *)
(* 08Huffman: a behaviour is a run of one of them.                           *)
(*                                                                           *)
(* dlist: a heap of four nodes (the head and three elements), two values.    *)
(* calc: the expressions below.  btree: five nodes, two of them with the     *)
(* same key.  sorts: arrays of up to six elements and lists of up to five,   *)
(* with three different keys, so that equal keys occur in every position and *)
(* the first stride of shell_sort joins several elements.  huffman:          *)
(* every file of up to MaxFile bytes, and for every way to let five bytes    *)
(* occur up to MaxWeight times each the file that has them in ascending      *)
(* order; among the latter are trees deeper than a code is wide.             *)
EXTENDS Dlist

CONSTANTS Programs, n1, n2, n3, n4, n5, Inputs, Arrays, Files, MaxArray, MaxList, Keys,
          LEAF_NUM, CodeBits, ByteBits, MaxFile, MaxWeight

VARIABLES program,
          calls, expr, ccur, flag, num, opr, cpc, results,
          root, parent, lchild, rchild, nodes,
          data, lsort, lnext, lprev, i, j, min, lpc,
          input, base, asort,
          file, weight, hparent, hlchild, hrchild, code, code_len, list, hroot, index,
          wbuf, zip, hcur, hout, hpc

calcVars == <<calls, expr, ccur, flag, num, opr, cpc, results>>
treeVars == <<root, parent, lchild, rchild, nodes>>
listVars == <<data, lsort, lnext, lprev, i, j, min, lpc>>
arrayVars == <<input, base, asort>>
huffVars == <<file, weight, hparent, hlchild, hrchild, code, code_len, list, hroot, index,
              wbuf, zip, hcur, hout, hpc>>

KeyOf == [k \in {n1, n2, n3, n4, n5} |->
             CASE k = n1 -> 1 [] k = n2 -> 2 [] k = n5 -> 4 [] OTHER -> 3]

Calculator == INSTANCE Calc WITH cur <- ccur, pc <- cpc
Tree == INSTANCE Btree WITH Nodes <- DOMAIN KeyOf, key <- KeyOf

ListInputs == UNION {[1..m -> Keys] : m \in 0..MaxList}
ArrayInputs == {[k \in DOMAIN ages |-> [age |-> ages[k], name |-> k]] :
                  ages \in UNION {[1..m -> Keys] : m \in 1..MaxArray}}

Bytes == 0..(LEAF_NUM - 1)
ShortFiles == UNION {[1..m -> Bytes] : m \in 0..MaxFile}
Repeat(b, m) == [k \in 1..m |-> b]
WeightedFiles == {Repeat(0, a) \o Repeat(1, b) \o Repeat(2, c) \o Repeat(3, d) \o Repeat(4, e) :
                    a, b, c, d, e \in 0..MaxWeight}
AllFiles == ShortFiles \cup WeightedFiles

LSort == INSTANCE ListSort WITH sort <- lsort, next <- lnext, prev <- lprev, pc <- lpc
ASort == INSTANCE ArraySort WITH sort <- asort
Coder == INSTANCE Huffman WITH parent <- hparent, lchild <- hlchild, rchild <- hrchild,
                               root <- hroot, cur <- hcur, out <- hout, pc <- hpc

ASSUME Tree!KeyAssumption /\ Coder!FilesAssumption

----------------------------------------------------------------------------
(* Expressions of up to four operands with levels, brackets, two-digit       *)
(* numbers, signs and blanks, one for each call; and pairs of calls, the     *)
(* first of which may fail.  Some divide by 0 in brackets, and in some an    *)
(* operator lacks an operand, in brackets too.  A sign or a ')' that is      *)
(* harmless in a first call need not be in a second one.                     *)

D == {"0", "2", "7"}
E == {"2", "7"}
Ops == {"+", "-", "*", "/", "%"}

Chains == {<<a, o, b, p, c>> : a, b, c \in D, o, p \in Ops}
            \cup {<<a, o, b, p, a, q, b>> : a, b \in E, o, p, q \in Ops}
Bracketed == {<<a, o, "(", b, p, c, ")">> : a, c \in E, b \in D, o, p \in Ops}
               \cup {<<"(", a, o, b, ")", p, c>> : a, b, c \in E, o, p \in Ops}
Signed == {<<"-", a, o, b>> : a, b \in E, o \in Ops}
            \cup {<<a, o, s, b, p, "2">> : a, b \in E, o, p \in Ops, s \in {"+", "-"}}
            \cup {<<"7", o, s, "-", "2", p, "2">> : o, p \in Ops, s \in {"+", "-"}}
            \cup {<<"7", o, "-", "(", "2", p, "2", ")", q, "2">> : o, p, q \in Ops}
LongNumbers == {<<"1", a, " ", o, "2", b>> : a, b \in D, o \in Ops}

Failing == {<<"2", "+", "7", "/", "0">>, <<"7", "/", "0", "+", "2">>,
            <<"2", ")">>, <<"(", "2">>, <<"2", "x">>, <<"2", "*">>, <<"2", "*", "*", "7">>}
Short == {<<"7">>, <<"2", "-", "7">>, <<"2", "*", "(", "7", "-", "2", ")">>}
DividedByZero == {<<"(", a, "/", "0", ")">> : a \in E}
Lacking == {<<"(", "2", o, ")">> : o \in Ops} \cup {<<"(", o, "2", ")">> : o \in Ops}
             \cup {<<"7", o, "(", "2", p, ")">> : o, p \in Ops}
Second == Short \cup {<<"-", "2", "+", "7">>, <<"(", "-", "2", ")">>, <<"2", ")">>}

SinglesAndPairs == {<<e>> : e \in Chains \cup Bracketed \cup Signed \cup LongNumbers
                                    \cup DividedByZero \cup Lacking}
                     \cup {<<e, f>> : e \in Failing \cup Short, f \in Second}

ZeroInBrackets == {<<e>> : e \in DividedByZero}

----------------------------------------------------------------------------

MCInit == /\ program \in {"dlist", "calc", "btree", "sort_list", "sort_arrary", "huffman"}
          /\ program # "calc" => calls = CHOOSE p \in Programs : TRUE
          /\ program # "sort_list" => data = <<1>> /\ lsort = "bubble"
          /\ program # "sort_arrary" => input = <<[age |-> 1, name |-> 1]>>
          /\ program # "huffman" => file = <<>>
          /\ Init /\ Calculator!Init /\ Tree!Init /\ LSort!Init /\ ASort!Init /\ Coder!Init

DlistStep == program = "dlist" /\ UNCHANGED <<program, calcVars, treeVars, listVars, arrayVars, huffVars>>
CalcStep == /\ program = "calc" /\ Calculator!Next
            /\ UNCHANGED <<program, vars, treeVars, listVars, arrayVars, huffVars>>
TreeStep == /\ program = "btree" /\ Tree!Next
            /\ UNCHANGED <<program, vars, calcVars, listVars, arrayVars, huffVars>>
ListSortStep == /\ program = "sort_list" /\ LSort!Next
                /\ UNCHANGED <<program, vars, calcVars, treeVars, arrayVars, huffVars>>
ArraySortStep == /\ program = "sort_arrary" /\ ASort!Next
                 /\ UNCHANGED <<program, vars, calcVars, treeVars, listVars, huffVars>>
CoderStep == /\ program = "huffman" /\ Coder!Next
             /\ UNCHANGED <<program, vars, calcVars, treeVars, listVars, arrayVars>>

MCNext == \/ DlistStep /\ Next
          \/ CalcStep \/ TreeStep \/ ListSortStep \/ ArraySortStep \/ CoderStep

MCVars == <<program, vars, calcVars, treeVars, listVars, arrayVars, huffVars>>

\* The fairness of Dlist, Calc and ListSort, each for the runs of its program.
MCSpec == /\ MCInit /\ [][MCNext]_MCVars
          /\ WF_MCVars(DlistStep /\ (DestroyStep \/ DestroyEnd))
          /\ WF_MCVars(CalcStep) /\ WF_MCVars(ListSortStep)

----------------------------------------------------------------------------

\* ValueOfExpr of Calc: a call that ends without an error, after calls that did,
\* returns the value of its expression by the rules of C, but for two cases.
ValueOfExpr == Calculator!ValueOfExpr

\* Returns of Calc: every call returns, or the program gets a SIGFPE, but for one
\* whose ')' finds an operator without numbers.
CalcReturns == program = "calc" => Calculator!Returns

\* ZeroReported of Calc, what do_stack's message says: an expression in which a
\* divisor is 0 has no value, and calc() does not return one.
ZeroReported == Calculator!ZeroReported

\* SortedList of Btree: the tree is a sorted list of its nodes, equal keys in
\* the order in which they were pushed.
SortedList == Tree!SortedList

\* FindsKeys of Btree: btree_find finds exactly the keys that are in the tree.
FindsKeys == Tree!FindsKeys

\* SameTraversals of Btree: the traversals with a stack or a queue visit what the
\* recursive ones and the levels say.
SameTraversals == Tree!SameTraversals

\* ArraySorted of ArraySort: every sort of sort_arrary.c leaves the elements in
\* ascending order, and bubble_sort and insert_sort are stable.
ArraySorted == ASort!ArraySorted

\* ListSorted of ListSort: every sort of sort_list.c ends, with the list in
\* ascending order.
SortsList == program = "sort_list" => LSort!ListSorted

\* RoundTrip of Huffman: decompressing what was compressed gives the file back,
\* when no code is longer than `code' is wide.
RoundTrip == Coder!RoundTrip

\* Shortest of Huffman: no prefix-free code of the file's bytes is shorter.
Shortest == Coder!Shortest

=============================================================================
