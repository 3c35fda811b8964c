------------------------------ MODULE Queries ------------------------------
(***************************************************************************)
(* The values of constants, asked for in any order and kept once known     *)
(* (astli-sema: elab.rs memo and value, elab/expr.rs, elab/call.rs).       *)
(* What is kept so far, how deep constant functions have called each other *)
(* and the steps they have left are threaded through the evaluation, as    *)
(* the cells of Queries are.  A constant is a number, or is computed of    *)
(* other constants; a function runs some statements and then adds another  *)
(* constant to its argument.  Numbers have no x in them here.              *)
(***************************************************************************)
EXTENDS Integers, Sequences, FiniteSets, FiniteSetsExt

CONSTANTS
    Names,    \* the constants
    MaxDepth, \* how deep constant functions may call each other
    MaxSteps  \* how many statements the outermost of them may take

Unknown == -1   \* what cannot be evaluated
Busy == -2      \* being computed
NotYet == -3

Numbers == {0, 1}
Expressions ==
    [is : {"number"}, number : Numbers]
      \union [is : {"copy"}, of : Names]
      \union [is : {"sum", "both"}, of : Names, other : Names]
      \union [is : {"choose"}, on : Names, of : Names, other : Names]
      \union [is : {"call"}, of : Names, other : Names, steps : 1 .. MaxSteps + 1]

Fresh == [kept |-> [n \in Names |-> NotYet], depth |-> 0, steps |-> 0]
Result(value, cells) == [value |-> value, cells |-> cells]

\* Neither is known if either is not.
Sum(a, b) == IF a = Unknown \/ b = Unknown THEN Unknown ELSE a + b

\* A wrong &&: a side that is not known is taken for 0.
AndTrusting(a, b) == IF a > 0 /\ b > 0 THEN 1 ELSE 0

\* What && makes of two sides, where one that is 0 decides.
And(a, b) ==
    IF a = 0 \/ b = 0 THEN 0
    ELSE IF a = Unknown \/ b = Unknown THEN Unknown
    ELSE 1

\* A function called by no other has all its steps.
Entered(cells) ==
    [cells EXCEPT !.depth = @ + 1, !.steps = IF cells.depth = 0 THEN MaxSteps ELSE @]
Left(cells) == [cells EXCEPT !.depth = @ - 1]
Took(cells, steps) == [cells EXCEPT !.steps = IF @ > steps THEN @ - steps ELSE 0]

RECURSIVE Ask(_, _, _)

\* defs gives each name its expression.
Evaluate(defs, e, cells) ==
    LET Asked(n, in) == Ask(defs, n, in) IN
    CASE e.is = "number" -> Result(e.number, cells)
      [] e.is = "copy" -> Asked(e.of, cells)
      [] e.is = "sum" ->
            LET left == Asked(e.of, cells)
                right == Asked(e.other, left.cells)
            IN Result(Sum(left.value, right.value), right.cells)
      [] e.is = "both" ->
            LET left == Asked(e.of, cells) IN
            IF left.value = 0 THEN Result(0, left.cells)
            ELSE LET right == Asked(e.other, left.cells) IN
                 Result(And(left.value, right.value), right.cells)
      [] e.is = "choose" ->
            LET on == Asked(e.on, cells) IN
            IF on.value = Unknown THEN on
            ELSE Asked(IF on.value # 0 THEN e.of ELSE e.other, on.cells)
      [] e.is = "call" ->
            IF cells.depth >= MaxDepth THEN Result(Unknown, cells)
            ELSE LET given == Asked(e.of, cells)
                     running == Entered(given.cells)
                     ran == Took(running, e.steps)
                     read == Asked(e.other, ran)
                 IN IF e.steps > running.steps THEN Result(Unknown, Left(ran))
                    ELSE Result(Sum(given.value, read.value), Left(read.cells))

\* The answer kept, or unknown while it is being computed, or computed now.
Ask(defs, n, cells) ==
    CASE cells.kept[n] = Busy -> Result(Unknown, cells)
      [] cells.kept[n] = NotYet ->
            LET computed == Evaluate(defs, defs[n], [cells EXCEPT !.kept[n] = Busy]) IN
            Result(computed.value, [computed.cells EXCEPT !.kept[n] = computed.value])
      [] OTHER -> Result(cells.kept[n], cells)

RECURSIVE AskAll(_, _, _)
AskAll(defs, names, cells) ==
    IF names = <<>> THEN cells
    ELSE AskAll(defs, Tail(names), Ask(defs, Head(names), cells).cells)

---------------------------------------------------------------------------
(* What the constants mean, whoever asks first.                            *)

Denoted(e, of) ==
    CASE e.is = "number" -> e.number
      [] e.is = "copy" -> of[e.of]
      [] e.is \in {"sum", "call"} ->
            IF of[e.of] < 0 \/ of[e.other] < 0 THEN Unknown ELSE of[e.of] + of[e.other]
      [] e.is = "both" ->
            IF 0 \in {of[e.of], of[e.other]} THEN 0
            ELSE IF Unknown \in {of[e.of], of[e.other]} THEN Unknown
            ELSE 1
      [] e.is = "choose" ->
            IF of[e.on] < 0 THEN Unknown ELSE of[IF of[e.on] = 0 THEN e.other ELSE e.of]

\* The least values that are what their definitions make of them.
RECURSIVE Least(_, _)
Least(defs, of) ==
    LET next == [n \in Names |-> Denoted(defs[n], of)] IN
    IF next = of THEN of ELSE Least(defs, next)

Meant(defs) == Least(defs, [n \in Names |-> Unknown])

Reads(e) ==
    CASE e.is = "number" -> {}
      [] e.is = "copy" -> {e.of}
      [] e.is = "choose" -> {e.on, e.of, e.other}
      [] OTHER -> {e.of, e.other}

RECURSIVE Reached(_, _)
Reached(defs, from) ==
    LET next == from \union UNION {Reads(defs[n]) : n \in from} IN
    IF next = from THEN from ELSE Reached(defs, next)

InACycle(defs, n) == n \in Reached(defs, Reads(defs[n]))

\* Whether no functions at work together can reach one of their limits.
WithinLimits(defs) ==
    LET calls == {n \in DOMAIN defs : defs[n].is = "call"} IN
    /\ Cardinality(calls) <= MaxDepth
    /\ MapThenSumSet(LAMBDA n : defs[n].steps, calls) <= MaxSteps

\* An answer kept, in whatever order they are asked for, is the value the
\* definitions mean or unknown, and is that value where it reaches no cycle
\* and no function can come to a limit; nothing is left half computed (memo,
\* value, run).  A function that one asked for works within another's limits,
\* so that without the last condition it matters who asks first.
KnownIsRight(defs, names) ==
    LET cells == AskAll(defs, names, Fresh)
        meant == Meant(defs)
    IN /\ cells.depth = 0
       /\ \A n \in DOMAIN defs :
            /\ cells.kept[n] \in {Unknown, meant[n]}
            /\ (WithinLimits(defs) /\ \A m \in Reached(defs, {n}) : ~InACycle(defs, m))
                 => cells.kept[n] = meant[n]
=============================================================================
