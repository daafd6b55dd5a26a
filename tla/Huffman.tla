------------------------------ MODULE Huffman ------------------------------
(***************************************************************************)
(* The coder of src/01DataStruct/08Huffman: huff_compress writes a head    *)
(* with the table of nodes and then the codes of the file's bytes,         *)
(* huff_decompress reads both and walks the tree.  Leaves are the nodes    *)
(* below LEAF_NUM; the list of info is a sequence of nodes, which is what  *)
(* list.h makes of it (KernelList) and insert_sort sorts (ListSort).       *)
(*                                                                         *)
(* The widths of a code and of a byte are constants, so that files of a    *)
(* few bytes have codes that do not fit.  Weights are taken to fit an int, *)
(* the type of list_node_cmp.                                              *)
(***************************************************************************)
EXTENDS Integers, Sequences, FiniteSets, FiniteSetsExt, SequencesExt

CONSTANTS Files,        \* the files to compress: sequences of leaves
          LEAF_NUM,     \* 256 in the code
          CodeBits,     \* bits of `code' (16 in the code)
          ByteBits      \* bits of wbuf and rbuf (8 in the code)

ALL_NUM == 2 * LEAF_NUM - 1
UNUSED == ALL_NUM
Leaves == 0..(LEAF_NUM - 1)
Table == 0..(ALL_NUM - 1)

FilesAssumption == /\ LEAF_NUM \in Nat \ {0, 1} /\ CodeBits \in Nat \ {0} /\ ByteBits \in Nat \ {0}
                   /\ \A f \in Files : f \in Seq(Leaves)

VARIABLES file, weight, parent, lchild, rchild, code, code_len,
          list,         \* the nodes without a parent, by weight
          root,
          index,        \* the next inner node, leaf or byte of the loop under way
          wbuf,         \* the bits of the byte being written
          zip,          \* the compressed file: its head, and its bytes
          cur, out,     \* huff_decompress: the node, and what was written
          pc

tree == <<parent, lchild, rchild>>
vars == <<file, weight, tree, code, code_len, list, root, index, wbuf, zip, cur, out, pc>>

NoZip == [magic |-> FALSE, root |-> 0, file_size |-> 0, lchild |-> <<>>, rchild |-> <<>>, bytes |-> <<>>]

\* huff_init
Init == /\ file \in Files
        /\ weight = [k \in Table |-> 0]
        /\ parent = [k \in Table |-> UNUSED]
        /\ lchild = [k \in Table |-> UNUSED] /\ rchild = [k \in Table |-> UNUSED]
        /\ code = [k \in Table |-> 0] /\ code_len = [k \in Table |-> 0]
        /\ list = <<>> /\ root = UNUSED /\ index = 0
        /\ wbuf = <<>> /\ zip = NoZip
        /\ cur = UNUSED /\ out = <<>>
        /\ pc = "weigh"

----------------------------------------------------------------------------
(* huff_prepare *)

Goto(l) == pc' = l

hf_statistic_weight ==
    /\ pc = "weigh"
    /\ weight' = [k \in Table |-> Cardinality({n \in DOMAIN file : file[n] = k})]
    /\ Goto("sort")
    /\ UNCHANGED <<file, tree, code, code_len, list, root, index, wbuf, zip, cur, out>>

list_node_cmp(a, b) == weight[a] - weight[b]

\* The leaves that occur, in the order of the table, sorted by insert_sort,
\* which keeps the order of equal ones.
hf_build_sort_list ==
    /\ pc = "sort"
    /\ list' = SetToSortSeq({k \in Leaves : weight[k] # 0},
                            LAMBDA a, b : \/ list_node_cmp(a, b) < 0
                                          \/ list_node_cmp(a, b) = 0 /\ a < b)
    /\ index' = LEAF_NUM
    /\ Goto("build")
    /\ UNCHANGED <<file, weight, tree, code, code_len, root, wbuf, zip, cur, out>>

\* Mutant: the new node goes to the end of the list.
AddLast(l, node, w) == Append(l, node)

\* list_add_with_sort: before the first node of l that is not lighter.
list_add_with_sort(l, node, w) ==
    InsertAt(l, Min({k \in DOMAIN l : weight[l[k]] >= w} \cup {Len(l) + 1}), node)

\* One round of hf_build_hufftree: the first two nodes get a parent.
Merge == /\ pc = "build" /\ Len(list) > 1
         /\ LET a == list[1]
                b == list[2]
                w == weight[a] + weight[b]
            IN  /\ weight' = [weight EXCEPT ![index] = w]
                /\ lchild' = [lchild EXCEPT ![index] = a]
                /\ rchild' = [rchild EXCEPT ![index] = b]
                /\ parent' = [parent EXCEPT ![a] = index, ![b] = index]
                /\ list' = list_add_with_sort(Tail(Tail(list)), index, w)
         /\ index' = index + 1
         /\ UNCHANGED <<file, code, code_len, root, wbuf, zip, cur, out, pc>>

\* Its end.  Without a round, for a file without two different bytes, root is a
\* node that no leaf has for its ancestor.
TreeBuilt == /\ pc = "build" /\ Len(list) <= 1
             /\ root' = IF index # LEAF_NUM THEN index - 1 ELSE LEAF_NUM
             /\ index' = 0
             /\ Goto("fill")
             /\ UNCHANGED <<file, weight, tree, code, code_len, list, wbuf, zip, cur, out>>

\* The nodes from leaf k up to the root, which is left out.
PathUp(k) == LET up[d \in 0..LEAF_NUM] == IF d = 0 THEN k
                                         ELSE IF up[d - 1] = root THEN root ELSE parent[up[d - 1]]
             IN  SelectSeq([d \in 1..LEAF_NUM |-> up[d - 1]], LAMBDA x : x # root)

\* CODE(i) <<= 1, |= 1 for a right child, on the way up.
CodeOf(path) == FoldLeft(LAMBDA c, x : (2 * c + (IF rchild[parent[x]] = x THEN 1 ELSE 0)) % (2 ^ CodeBits),
                         0, path)

\* One round of hf_fill_code.  The only leaf of a file has no parent: the loop
\* reads past the table, and what follows is undefined.
hf_fill_code ==
    /\ pc = "fill" /\ index < LEAF_NUM
    /\ \/ /\ weight[index] = 0
          /\ UNCHANGED <<code, code_len, pc>>
       \/ /\ weight[index] # 0 /\ parent[index] # UNUSED
          /\ code' = [code EXCEPT ![index] = CodeOf(PathUp(index))]
          /\ code_len' = [code_len EXCEPT ![index] = Len(PathUp(index))]
          /\ UNCHANGED pc
       \/ /\ weight[index] # 0 /\ parent[index] = UNUSED
          /\ Goto("undefined")
          /\ UNCHANGED <<code, code_len>>
    /\ index' = index + 1
    /\ UNCHANGED <<file, weight, tree, list, root, wbuf, zip, cur, out>>

----------------------------------------------------------------------------
(* huff_compress *)

\* The table up to the root goes into the head; of a node only the children
\* are looked at again.
hf_make_huff_head ==
    /\ pc = "fill" /\ index = LEAF_NUM
    /\ zip' = [magic |-> TRUE, root |-> root, file_size |-> Len(file),
               lchild |-> [k \in 0..root |-> lchild[k]], rchild |-> [k \in 0..root |-> rchild[k]],
               bytes |-> <<>>]
    /\ index' = 1
    /\ Goto("encode")
    /\ UNCHANGED <<file, weight, tree, code, code_len, list, root, wbuf, cur, out>>

\* (CODE(b) >> i) & 1 for the bits of b: the top of the path comes first.
Bits(b) == [k \in 1..code_len[b] |-> (code[b] \div (2 ^ (k - 1))) % 2]

\* One byte of the file: its bits, and the bytes that they fill.
Encode == /\ pc = "encode" /\ index <= Len(file)
          /\ LET bits  == wbuf \o Bits(file[index])
                 whole == Len(bits) \div ByteBits
             IN  /\ zip' = [zip EXCEPT !.bytes = @ \o [k \in 1..whole |->
                               SubSeq(bits, (k - 1) * ByteBits + 1, k * ByteBits)]]
                 /\ wbuf' = SubSeq(bits, whole * ByteBits + 1, Len(bits))
          /\ index' = index + 1
          /\ UNCHANGED <<file, weight, tree, code, code_len, list, root, cur, out, pc>>

\* The last byte is filled up with zeros.
Flush == /\ pc = "encode" /\ index > Len(file)
         /\ zip' = IF wbuf = <<>> THEN zip
                   ELSE [zip EXCEPT !.bytes = Append(@, wbuf \o [k \in 1..(ByteBits - Len(wbuf)) |-> 0])]
         /\ wbuf' = <<>>
         /\ Goto("unpack")
         /\ UNCHANGED <<file, weight, tree, code, code_len, list, root, index, cur, out>>

----------------------------------------------------------------------------
(* huff_decompress, in another run of the program *)

\* The argument may be a file that is not a compressed one.
hf_unpack_huff_head ==
    /\ pc = "unpack"
    /\ \/ /\ root' = zip.root
          /\ lchild' = [k \in Table |-> IF k <= zip.root THEN zip.lchild[k] ELSE UNUSED]
          /\ rchild' = [k \in Table |-> IF k <= zip.root THEN zip.rchild[k] ELSE UNUSED]
          /\ cur' = zip.root
          /\ Goto("decode")
       \/ /\ Goto("damaged")
          /\ UNCHANGED <<root, lchild, rchild, cur>>
    /\ index' = 1
    /\ UNCHANGED <<file, weight, parent, code, code_len, list, wbuf, zip, out>>

\* Mutant: the bits that fill up the last byte are decoded too.
DownOn(st, bit) ==
    LET c == IF bit = 1 THEN rchild[st.cur] ELSE lchild[st.cur]
    IN  IF c >= LEAF_NUM THEN [st EXCEPT !.cur = c]
        ELSE [cur |-> root, out |-> Append(st.out, c), stop |-> FALSE]

\* One bit: down to a child, and from a leaf, whose byte is written, back to
\* the root.
Down(st, bit) ==
    LET c == IF bit = 1 THEN rchild[st.cur] ELSE lchild[st.cur]
    IN  IF st.stop THEN st
        ELSE IF c >= LEAF_NUM THEN [st EXCEPT !.cur = c]
        ELSE [cur |-> root, out |-> Append(st.out, c), stop |-> Len(st.out) + 1 = zip.file_size]

\* One byte of the compressed file, most significant bit first.
Decode == /\ pc = "decode" /\ index <= Len(zip.bytes)
          /\ LET st == FoldLeft(LAMBDA s, b : Down(s, b), [cur |-> cur, out |-> out, stop |-> FALSE],
                                zip.bytes[index])
             IN  /\ cur' = st.cur /\ out' = st.out
                 /\ pc' = IF st.stop THEN "done" ELSE pc
          /\ index' = index + 1
          /\ UNCHANGED <<file, weight, tree, code, code_len, list, root, wbuf, zip>>

DecodeEnd == /\ pc = "decode" /\ index > Len(zip.bytes)
             /\ Goto("done")
             /\ UNCHANGED <<file, weight, tree, code, code_len, list, root, index, wbuf, zip, cur, out>>

Next == \/ hf_statistic_weight \/ hf_build_sort_list \/ Merge \/ TreeBuilt \/ hf_fill_code
        \/ hf_make_huff_head \/ Encode \/ Flush
        \/ hf_unpack_huff_head \/ Decode \/ DecodeEnd

Spec == Init /\ [][Next]_vars

----------------------------------------------------------------------------
(* Properties *)

Used == {k \in Leaves : weight[k] # 0}

\* Decompressing what was compressed gives the file back: for every file in
\* which no byte's code is longer than `code' is wide, whatever bits fill up the
\* last byte, and also for the empty file.
RoundTrip == pc = "done" /\ (\A k \in Used : code_len[k] <= CodeBits) => out = file

Cost(len) == MapThenSumSet(LAMBDA k : weight[k] * len[k], Used)

\* Lengths of a code in which no code is the beginning of another (Kraft).
Decodable(len) == LET m == Cardinality(Used)
                  IN  MapThenSumSet(LAMBDA k : 2 ^ (m - len[k]), Used) <= 2 ^ m

\* The codes are as short as they can be: no other prefix-free code needs fewer
\* bits for this file.
Shortest == pc = "encode" /\ index = 1 /\ Cardinality(Used) > 1 =>
    /\ Decodable(code_len)
    /\ \A len \in [Used -> 1..(Cardinality(Used) - 1)] :
          Decodable(len) => Cost(code_len) <= Cost(len)

=============================================================================
