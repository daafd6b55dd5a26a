-------------------------------- MODULE Calc --------------------------------
(***************************************************************************)
(* The evaluator of src/01DataStruct/03Calc/calc.c: a stack of numbers and *)
(* a stack of operators, which belong to a calc_info and are used by one   *)
(* call of calc() after the other.                                         *)
(*                                                                         *)
(* An expression is a sequence of characters, each a string.  The stacks   *)
(* are sequences, the top last.  The loops of opr_handle, bracket_handle   *)
(* and calc_main are taken one round at a time.                            *)
(***************************************************************************)
EXTENDS Integers, Sequences, SequencesExt

CONSTANT Programs       \* the sequences of expressions that are given to calc()

VARIABLES calls,        \* expressions that are still to be evaluated
          expr, cur,    \* this call's expression and the position in it
          flag,         \* "OPR" or "NUM": what came last
          num, opr,     \* the stacks
          pc,           \* "call", "next", "opr" or "crashed"
          results       \* history: the expressions and what calc() returned

vars == <<calls, expr, cur, flag, num, opr, pc, results>>

Digits == <<"0", "1", "2", "3", "4", "5", "6", "7", "8", "9">>
IsDigit(c) == Contains(Digits, c)
Digit(c) == (CHOOSE k \in 1..10 : Digits[k] = c) - 1
Operators == {"+", "-", "*", "/", "%"}
Blanks == {" ", "\n", "\t"}

\* calc_init, and main with its arguments
Init == /\ calls \in Programs
        /\ expr = <<>> /\ cur = 1
        /\ flag = "OPR"
        /\ num = <<>> /\ opr = <<>>
        /\ pc = "call"
        /\ results = <<>>

----------------------------------------------------------------------------
\* The int division of C rounds towards zero.
CDiv(a, b) == LET Abs(x) == IF x < 0 THEN -x ELSE x
                  q == Abs(a) \div Abs(b)
              IN  IF (a < 0) = (b < 0) THEN q ELSE -q
CMod(a, b) == a - (b * CDiv(a, b))

Apply(o, a, b) == CASE o = "+" -> a + b
                    [] o = "-" -> a - b
                    [] o = "*" -> a * b
                    [] o = "/" -> CDiv(a, b)
                    [] o = "%" -> CMod(a, b)

opr2level(c) == IF c \in {"*", "/", "%"} THEN 2 ELSE IF c \in {"+", "-"} THEN 1 ELSE 0

Top(s) == s[Len(s)]
Popped(s, k) == SubSeq(s, 1, Len(s) - k)

\* do_stack on stacks n and o: how it ends (st) and what it leaves.  Operands that
\* were popped before an error stay popped; a remainder by 0 is a SIGFPE.
do_stack(n, o) ==
    IF Len(n) < 2 THEN [st |-> "num", num |-> <<>>, opr |-> o]
    ELSE IF o = <<>> THEN [st |-> "opr", num |-> Popped(n, 2), opr |-> o]
    ELSE IF Top(n) = 0 /\ Top(o) = "/" THEN [st |-> "zero", num |-> Popped(n, 2), opr |-> Popped(o, 1)]
    ELSE IF Top(n) = 0 /\ Top(o) = "%" THEN [st |-> "crash", num |-> n, opr |-> o]
    ELSE [st |-> "ok", num |-> Append(Popped(n, 2), Apply(Top(o), n[Len(n) - 1], Top(n))),
          opr |-> Popped(o, 1)]

\* calc() returns v; `fine' tells an error from a value.
Return(v, fine) == /\ results' = Append(results, [expr |-> expr, ret |-> v, fine |-> fine])
                   /\ pc' = "call"

\* One do_stack in a loop: on success the loop goes on; on an error calc()
\* returns v.
Reduce(v) == LET r == do_stack(num, opr)
             IN  /\ num' = r.num /\ opr' = r.opr
                 /\ \/ r.st = "ok" /\ UNCHANGED <<pc, results>>
                    \/ r.st \in {"num", "opr", "zero"} /\ Return(v, FALSE)
                    \/ r.st = "crash" /\ pc' = "crashed" /\ UNCHANGED results

----------------------------------------------------------------------------
\* q->calc(q, argv[i])
Call == /\ pc = "call" /\ calls # <<>>
        /\ expr' = Head(calls) /\ calls' = Tail(calls)
        /\ cur' = 1
        /\ pc' = "next"
        /\ UNCHANGED <<flag, num, opr, results>>

At(S) == pc = "next" /\ cur <= Len(expr) /\ expr[cur] \in S

\* num_handle: a new number, or a digit more for the last one.  NUM_POP leaves
\* prev_n at 0 when there is none.
num_handle == /\ At(Range(Digits))
              /\ LET d == Digit(expr[cur])
                 IN  num' = IF flag = "OPR" \/ num = <<>> THEN Append(num, d)
                            ELSE Append(Popped(num, 1), (10 * Top(num)) + d)
              /\ flag' = "NUM"
              /\ cur' = cur + 1
              /\ UNCHANGED <<calls, expr, opr, pc, results>>

Blank == /\ At(Blanks)
         /\ cur' = cur + 1
         /\ UNCHANGED <<calls, expr, flag, num, opr, pc, results>>

\* opr_handle, first part: a sign after an operator, '+' ignored and '-' as a
\* subtraction from 0.  Other operators in that place are only complained of.
opr_handle == /\ At(Operators)
              /\ flag' = "OPR"
              /\ LET c == expr[cur]
                 IN  \/ /\ flag = "NUM" \/ c \notin {"+", "-"}
                        /\ pc' = "opr"
                        /\ UNCHANGED <<num, opr, cur>>
                     \/ /\ flag = "OPR" /\ c = "+"
                        /\ cur' = cur + 1
                        /\ UNCHANGED <<num, opr, pc>>
                     \/ /\ flag = "OPR" /\ c = "-"
                        /\ num' = Append(num, 0) /\ opr' = Append(opr, c)
                        /\ cur' = cur + 1
                        /\ UNCHANGED pc
              /\ UNCHANGED <<calls, expr, results>>

TopLevel == IF opr = <<>> THEN -1 ELSE opr2level(Top(opr))

\* Mutant: operators of the same level are pushed.
OprLoopRight == /\ pc = "opr"
                /\ LET c == expr[cur]
                       push == opr2level(c) >= TopLevel
                   IN  \/ /\ push
                          /\ opr' = Append(opr, c)
                          /\ cur' = cur + 1 /\ pc' = "next"
                          /\ UNCHANGED <<num, results>>
                       \/ ~push /\ Reduce(-1) /\ UNCHANGED cur
                /\ UNCHANGED <<calls, expr, flag>>

\* opr_handle, the loop: push when the stack is empty or its top has a lower
\* level, do_stack otherwise.
OprLoop == /\ pc = "opr"
           /\ LET c == expr[cur]
                  push == opr2level(c) > TopLevel
              IN  \/ /\ push
                     /\ opr' = Append(opr, c)
                     /\ cur' = cur + 1 /\ pc' = "next"
                     /\ UNCHANGED <<num, results>>
                  \/ ~push /\ Reduce(-1) /\ UNCHANGED cur
           /\ UNCHANGED <<calls, expr, flag>>

\* bracket_handle, '('
Open == /\ At({"("})
        /\ opr' = Append(opr, "(")
        /\ cur' = cur + 1
        /\ UNCHANGED <<calls, expr, flag, num, pc, results>>

\* bracket_handle, ')': one round of its loop, which does not look at what
\* do_stack returns.
Close == /\ At({")"})
         /\ \/ opr = <<>> /\ Return(-1, FALSE) /\ UNCHANGED <<num, opr, cur>>
            \/ /\ opr # <<>> /\ Top(opr) = "("
               /\ opr' = Popped(opr, 1)
               /\ cur' = cur + 1
               /\ UNCHANGED <<num, pc, results>>
            \/ /\ opr # <<>> /\ Top(opr) # "("
               /\ num' = do_stack(num, opr).num /\ opr' = do_stack(num, opr).opr
               /\ pc' = IF do_stack(num, opr).st = "crash" THEN "crashed" ELSE pc
               /\ UNCHANGED <<cur, results>>
         /\ UNCHANGED <<calls, expr, flag>>

\* any other character
Unknown == /\ pc = "next" /\ cur <= Len(expr)
           /\ expr[cur] \notin Range(Digits) \cup Operators \cup Blanks \cup {"(", ")"}
           /\ Return(-1, FALSE)
           /\ UNCHANGED <<calls, expr, cur, flag, num, opr>>

\* Mutant: the last loop does not look at what do_stack returns.
DrainIgnores == /\ pc = "next" /\ cur > Len(expr)
                /\ \/ /\ opr # <<>>
                      /\ num' = do_stack(num, opr).num /\ opr' = do_stack(num, opr).opr
                      /\ UNCHANGED <<pc, results>>
                   \/ /\ opr = <<>>
                      /\ Return(IF num = <<>> THEN 0 ELSE Top(num), TRUE)
                      /\ num' = IF num = <<>> THEN num ELSE Popped(num, 1)
                      /\ UNCHANGED opr
                /\ UNCHANGED <<calls, expr, cur, flag>>

\* The loop at the end of calc_main, and NUM_POP(ret), which leaves 0 when there
\* is no number.
Drain == /\ pc = "next" /\ cur > Len(expr)
         /\ \/ opr # <<>> /\ Top(opr) = "(" /\ Return(-3, FALSE) /\ UNCHANGED <<num, opr>>
            \/ opr # <<>> /\ Top(opr) # "(" /\ Reduce(-2)
            \/ /\ opr = <<>>
               /\ Return(IF num = <<>> THEN 0 ELSE Top(num), TRUE)
               /\ num' = IF num = <<>> THEN num ELSE Popped(num, 1)
               /\ UNCHANGED opr
         /\ UNCHANGED <<calls, expr, cur, flag>>

Next == \/ Call \/ num_handle \/ Blank \/ opr_handle \/ OprLoop
        \/ Open \/ Close \/ Unknown \/ Drain

Fairness == WF_vars(Next)

Spec == Init /\ [][Next]_vars /\ Fairness

----------------------------------------------------------------------------
(* The reference: the value of an expression by its last operator outside    *)
(* brackets that binds least.                                                *)

Depth(e, k) == Len(SelectSeq(SubSeq(e, 1, k), LAMBDA c : c = "("))
                 - Len(SelectSeq(SubSeq(e, 1, k), LAMBDA c : c = ")"))

\* The binary operators of e among ops that are outside brackets.
Binary(e, ops) == {k \in 2..Len(e) : /\ e[k] \in ops
                                     /\ e[k - 1] \notin Operators \cup {"("}
                                     /\ Depth(e, k) = 0}

RECURSIVE Value(_)
Value(e) ==
    LET sums == Binary(e, {"+", "-"})
        products == Binary(e, {"*", "/", "%"})
        split == Max(IF sums # {} THEN sums ELSE products \cup {0})
        Shift(d, c) == (10 * d) + Digit(c)
    IN  IF split > 0
        THEN LET l == Value(SubSeq(e, 1, split - 1))
                 r == Value(SubSeq(e, split + 1, Len(e)))
             IN  IF l.fine /\ r.fine /\ ~(e[split] \in {"/", "%"} /\ r.v = 0)
                 THEN [fine |-> TRUE, v |-> Apply(e[split], l.v, r.v)]
                 ELSE [fine |-> FALSE, v |-> 0]
        ELSE IF e[1] \in {"+", "-"}
        THEN LET r == Value(Tail(e)) IN [r EXCEPT !.v = IF e[1] = "-" THEN -@ ELSE @]
        ELSE IF e[1] = "(" THEN Value(SubSeq(e, 2, Len(e) - 1))
        ELSE [fine |-> TRUE, v |-> FoldLeft(Shift, 0, e)]

WithoutBlanks(e) == SelectSeq(e, LAMBDA c : c \notin Blanks)

----------------------------------------------------------------------------
(* Properties *)

\* Types of the variables.
TypeOK == /\ cur \in Nat
          /\ flag \in {"OPR", "NUM"}
          /\ num \in Seq(Int) /\ opr \in Seq(Operators \cup {"("})
          /\ pc \in {"call", "next", "opr", "crashed"}

Fine(k) == \A j \in 1..k : results[j].fine

\* A factor after a "*", "/" or "%" has a '-' for a sign, and another "*", "/" or
\* "%" follows it: the FIXME of opr_handle, whose 0 - takes in what follows.
SignInProduct(e) ==
    LET Products == {k \in DOMAIN e : e[k] \in {"*", "/", "%"}}
        Sign(k) == e[k] \in {"+", "-"} /\ e[k - 1] \in Operators
    IN  \E i, j \in Products, k \in DOMAIN e :
            /\ i < k /\ k < j /\ e[k] = "-" /\ \A m \in (i + 1)..k : Sign(m)
            /\ Depth(e, j) = Depth(e, k)
            /\ \A m \in (k + 1)..(j - 1) :
                  \/ Depth(e, m) > Depth(e, k)
                  \/ Depth(e, m) = Depth(e, k) /\ (e[m] \in Operators => Sign(m))

\* A part in brackets has no value: bracket_handle drops do_stack's error.
ErrorInBrackets(e) == \E i, j \in DOMAIN e :
    /\ i < j /\ e[i] = "(" /\ e[j] = ")" /\ Depth(e, j) = Depth(e, i) - 1
    /\ \A m \in i..(j - 1) : Depth(e, m) >= Depth(e, i)
    /\ ~Value(SubSeq(e, i + 1, j - 1)).fine

\* A call that ends without an error, after calls that did, returns the value
\* of its expression by the rules of C: levels, order of operands, brackets
\* and signs come out right, but for the two cases above.
ValueOfExpr == \A k \in 1..Len(results) : Fine(k) =>
    LET e == WithoutBlanks(results[k].expr)
        v == Value(e)
    IN  \/ SignInProduct(e) \/ ErrorInBrackets(e)
        \/ v.fine /\ results[k].ret = v.v

\* Every call returns (or the program gets a SIGFPE), but for one that meets a ')'
\* when the stack of operators ends with one for which no number is left: then
\* bracket_handle goes round for ever.
Returns == \/ <>((calls = <<>> /\ pc = "call") \/ pc = "crashed")
           \/ <>[](At({")"}) /\ opr # <<>> /\ Top(opr) # "(" /\ num = <<>>)

\* What the message of do_stack says, "cannot divide by 0": an expression in
\* which a divisor is 0 has no value, and calc() does not return one.
ZeroReported == \A k \in 1..Len(results) :
    results[k].fine => Value(WithoutBlanks(results[k].expr)).fine

=============================================================================
