------------------------------ MODULE Expressions ------------------------------
(***************************************************************************)
(* Integral expressions: the type each has by itself, and its value once   *)
(* the expression around it has sized it (astli-sema, elab/expr.rs).       *)
(* Reals, strings and unpacked aggregates are left out, and a packed type  *)
(* is its width, its sign and its states.                                  *)
(***************************************************************************)
EXTENDS Bits, Sequences, SequencesExt

CONSTANT MaxWidth   \* the widest a value may be

Type(width, signed, four) == [width |-> width, signed |-> signed, four |-> four]
BIT == Type(1, FALSE, TRUE)
Unknown == Type(0, FALSE, FALSE)
NoValue == [width |-> 0, signed |-> FALSE, value |-> <<>>, unknown |-> <<>>]
NoBit == <<>>

OfBit(bit) ==
    IF bit = NoBit THEN NoValue
    ELSE [Blank(1, FALSE) EXCEPT !.value[0] = IF bit[1] THEN {0} ELSE {},
                                 !.unknown[0] = IF bit[2] THEN {0} ELSE {}]
AsSigned(a, signed) == [a EXCEPT !.signed = signed]

\* The number a value's bits are, read as signed or not.
Reading(a, signed) ==
    MapThenSumSet(LAMBDA i : IF Pair(a, i)[1] THEN 2 ^ i ELSE 0, 0 .. a.width - 1)
        - IF signed /\ Top(a)[1] THEN 2 ^ a.width ELSE 0

Contextual == {"+", "-", "*", "/", "%", "&", "|", "^", "~^"}
Shifts == {"<<", ">>", ">>>"}
Comparing == {"==", "!=", "===", "!==", "==?", "!=?", "<", "<=", ">", ">="}
Logical == {"&&", "||", "->", "<->"}

MergeTypes(a, b) ==
    IF Unknown \in {a, b} THEN Unknown
    ELSE Type(Most(a.width, b.width), a.signed /\ b.signed, a.four \/ b.four)

\* A value evaluated at its own type, taken to that of what is around it: with
\* its sign only if that is signed.
Operand(value, ty) ==
    IF value = NoValue \/ ty = Unknown THEN NoValue ELSE Resize(AsSigned(value, ty.signed), ty.width)

\* A value written to a declaration.
Convert(value, ty) ==
    IF value = NoValue \/ ty = Unknown THEN NoValue
    ELSE LET kept == AsSigned(Resize(value, ty.width), ty.signed) IN
         IF ty.four THEN kept ELSE TwoState(kept)

BitNot(a) == CASE a = Zero -> One [] a = One -> Zero [] OTHER -> X
BitAnd(a, b) ==
    CASE Zero \in {a, b} -> Zero [] a = One /\ b = One -> One [] OTHER -> X

Reduce(op, a) ==
    CASE op = "&" -> ReduceAnd(a) [] op = "~&" -> BitNot(ReduceAnd(a))
      [] op = "|" -> Truth(a) [] op = "~|" -> BitNot(Truth(a))
      [] op = "^" -> ReduceXor(a) [] op = "~^" -> BitNot(ReduceXor(a))

\* A shift by what is not known gives nothing known.
Shifted(op, a, b) ==
    IF HasUnknown(b) THEN AllX(a.width, a.signed)
    ELSE LET amount == Reading(b, FALSE) IN
         CASE op = "<<" -> Shl(a, amount) [] op = ">>" -> Shr(a, amount, FALSE)
           [] op = ">>>" -> Shr(a, amount, TRUE)

Apply(op, a, b) ==
    IF NoValue \in {a, b} THEN NoValue
    ELSE CASE op = "+" -> Add(a, b) [] op = "-" -> Sub(a, b) [] op = "*" -> Mul(a, b)
           [] op = "/" -> Divide(a, b)[1] [] op = "%" -> Divide(a, b)[2]
           [] op = "&" -> And(a, b) [] op = "|" -> Or(a, b)
           [] op = "^" -> Xor(a, b) [] op = "~^" -> Not(Xor(a, b))
           [] op = "**" -> Pow(a, b) [] op \in Shifts -> Shifted(op, a, b)

Truthful(holds) == IF holds THEN One ELSE Zero
Ordered(op, a, b) ==
    IF HasUnknown(a) \/ HasUnknown(b) THEN X
    ELSE Truthful(CASE op = "<" -> Less(a, b) [] op = "<=" -> ~Less(b, a)
                    [] op = ">" -> Less(b, a) [] op = ">=" -> ~Less(a, b))
Compare(op, a, b) ==
    IF NoValue \in {a, b} THEN NoBit
    ELSE CASE op = "==" -> LogicEq(a, b) [] op = "!=" -> BitNot(LogicEq(a, b))
           [] op = "===" -> Truthful(CaseEq(a, b)) [] op = "!==" -> Truthful(~CaseEq(a, b))
           [] op = "==?" -> WildcardEq(a, b) [] op = "!=?" -> BitNot(WildcardEq(a, b))
           [] OTHER -> Ordered(op, a, b)

Condition(value) == IF value = NoValue THEN NoBit ELSE Truth(value)

\* The right side decides nothing once the left has.
Decided(op, a, b) ==
    CASE op = "&&" /\ Zero \in {a, b} -> Zero
      [] op = "||" /\ One \in {a, b} -> One
      [] op = "->" /\ (a = Zero \/ b = One) -> One
      [] NoBit \in {a, b} -> NoBit
      [] op = "&&" -> BitAnd(a, b)
      [] op = "||" -> BitNot(BitAnd(BitNot(a), BitNot(b)))
      [] op = "->" -> BitNot(BitAnd(a, BitNot(b)))
      [] op = "<->" -> IF {a, b} \subseteq {Zero, One} THEN Truthful(a = b) ELSE X

\* Whether any holds: not known if none does and one is not.
AnyOf(bits) ==
    CASE One \in bits -> One [] NoBit \in bits -> NoBit
      [] bits \subseteq {Zero} -> Zero [] OTHER -> X

---------------------------------------------------------------------------
(* An expression is a name, with the type and the value of what it means;  *)
(* a fill, '0 or '1 or 'x; or an operator of others.                       *)

Name(ty, value) == [is |-> "name", ty |-> ty, value |-> value]
FillOf(bit) == [is |-> "fill", bit |-> bit]
Unary(op, of) == [is |-> "unary", op |-> op, of |-> of]
Binary(op, lhs, rhs) == [is |-> "binary", op |-> op, lhs |-> lhs, rhs |-> rhs]
Choice(on, yes, no) == [is |-> "choice", on |-> on, yes |-> yes, no |-> no]
Concatenation(parts) == [is |-> "concat", parts |-> parts]
Replication(count, of) == [is |-> "replication", count |-> count, of |-> of]
Signing(signed, of) == [is |-> "signing", signed |-> signed, of |-> of]
Sizing(width, of) == [is |-> "sizing", width |-> width, of |-> of]
Typing(ty, of) == [is |-> "typing", ty |-> ty, of |-> of]
Membership(of, set) == [is |-> "inside", of |-> of, set |-> set]
Item(e) == [is |-> "item", lo |-> e, hi |-> e]
Between(lo, hi) == [is |-> "between", lo |-> lo, hi |-> hi]
From(lo) == [is |-> "from", lo |-> lo, hi |-> lo]

RECURSIVE SelfType(_), EvalAt(_, _)

EvalSelf(e) == EvalAt(e, SelfType(e))

\* A count or a width, if it is known.
Constant(e) ==
    LET value == EvalSelf(e) IN
    IF value = NoValue \/ HasUnknown(value) THEN {} ELSE {Reading(value, value.signed)}
CountOf(e) == {n \in Constant(e.count) : n >= 0}

\* A replication by zero stands for nothing in a concatenation.
Empty(e) == e.is = "replication" /\ CountOf(e) = {0}
Filled(parts) == SelectSeq(parts, LAMBDA e : ~Empty(e))

ConcatType(parts) ==
    LET types == [i \in DOMAIN Filled(parts) |-> SelfType(Filled(parts)[i])]
        width == FoldSeq(LAMBDA ty, sum : ty.width + sum, 0, types)
    IN IF (\E i \in DOMAIN types : types[i] = Unknown) \/ width \notin 1 .. MaxWidth THEN Unknown
       ELSE Type(width, FALSE, \E i \in DOMAIN types : types[i].four)

CastType(e) ==
    LET own == SelfType(e.of) IN
    CASE e.is = "typing" -> e.ty
      [] e.is = "signing" -> IF own = Unknown THEN own ELSE [own EXCEPT !.signed = e.signed]
      [] e.is = "sizing" ->
            LET widths == Constant(e.width) \intersect 1 .. MaxWidth IN
            IF own = Unknown \/ widths = {} THEN Unknown
            ELSE Type(CHOOSE n \in widths : TRUE, own.signed, own.four)

SelfType(e) ==
    CASE e.is = "name" -> e.ty
      [] e.is = "fill" -> BIT
      [] e.is = "unary" -> IF e.op \in {"+", "-", "~"} THEN SelfType(e.of) ELSE BIT
      [] e.is = "binary" ->
            IF e.op \in Contextual THEN MergeTypes(SelfType(e.lhs), SelfType(e.rhs))
            ELSE IF e.op \in Shifts \union {"**"} THEN SelfType(e.lhs) ELSE BIT
      [] e.is = "choice" -> MergeTypes(SelfType(e.yes), SelfType(e.no))
      [] e.is = "concat" -> ConcatType(e.parts)
      [] e.is = "replication" ->
            LET each == SelfType(e.of)
                counts == {n \in CountOf(e) : n * each.width \in 1 .. MaxWidth}
            IN IF counts = {} \/ each = Unknown THEN Unknown
               ELSE Type((CHOOSE n \in counts : TRUE) * each.width, FALSE, each.four)
      [] e.is = "inside" -> BIT
      [] OTHER -> CastType(e)

\* Assigned to a declaration: evaluated at the wider of the two.
EvalAssign(e, target) ==
    LET own == SelfType(e) IN
    IF Unknown \in {own, target} THEN NoValue
    ELSE Convert(EvalAt(e, Type(Most(target.width, own.width), own.signed, own.four)), target)

\* The type a value and the members of a set are compared at.
SetType(of, set) ==
    FoldSeq(LAMBDA item, ty : MergeTypes(MergeTypes(ty, SelfType(item.lo)), SelfType(item.hi)),
            SelfType(of), set)

InItem(value, item, ty) ==
    CASE item.is = "item" -> Compare("==?", value, EvalAt(item.lo, ty))
      [] item.is = "from" -> Compare(">=", value, EvalAt(item.lo, ty))
      [] item.is = "between" ->
            LET low == Compare(">=", value, EvalAt(item.lo, ty))
                high == Compare("<=", value, EvalAt(item.hi, ty))
            IN IF NoBit \in {low, high} THEN NoBit ELSE BitAnd(low, high)

RECURSIVE Joined(_)
Joined(values) ==
    IF Len(values) = 1 THEN [Head(values) EXCEPT !.signed = FALSE]
    ELSE Concat(Joined(Front(values)), Last(values))

ConcatOf(parts) ==
    LET values == <<>> \o [i \in DOMAIN Filled(parts) |-> EvalSelf(Filled(parts)[i])] IN
    IF values = <<>> \/ \E i \in DOMAIN values : values[i] = NoValue THEN NoValue ELSE Joined(values)

\* The branch not taken may be unknown; of neither, what both agree on.
Chosen(e, ty) ==
    LET on == Condition(EvalSelf(e.on)) IN
    CASE on = NoBit -> NoValue
      [] on = One -> EvalAt(e.yes, ty)
      [] on = Zero -> EvalAt(e.no, ty)
      [] OTHER -> LET yes == EvalAt(e.yes, ty)
                      no == EvalAt(e.no, ty)
                  IN IF NoValue \in {yes, no} THEN NoValue ELSE Merge(yes, no)

EvalBinary(e, ty) ==
    CASE e.op \in Contextual -> Apply(e.op, EvalAt(e.lhs, ty), EvalAt(e.rhs, ty))
      [] e.op \in Shifts \union {"**"} -> Apply(e.op, EvalAt(e.lhs, ty), EvalSelf(e.rhs))
      [] e.op \in Comparing ->
            LET common == MergeTypes(SelfType(e.lhs), SelfType(e.rhs)) IN
            Operand(OfBit(Compare(e.op, EvalAt(e.lhs, common), EvalAt(e.rhs, common))), ty)
      [] e.op \in Logical ->
            Operand(OfBit(Decided(e.op, Condition(EvalSelf(e.lhs)), Condition(EvalSelf(e.rhs)))), ty)

\* The value of an operand that is evaluated by itself.
Alone(e) ==
    CASE e.is = "name" -> e.value
      [] e.is = "unary" ->
            LET value == EvalSelf(e.of) IN
            IF value = NoValue THEN NoValue
            ELSE OfBit(IF e.op = "!" THEN BitNot(Truth(value)) ELSE Reduce(e.op, value))
      [] e.is = "concat" -> ConcatOf(e.parts)
      [] e.is = "replication" ->
            LET each == EvalSelf(e.of)
                counts == {n \in CountOf(e) : n * each.width \in 1 .. MaxWidth}
            IN IF counts = {} \/ each = NoValue THEN NoValue
               ELSE Joined([i \in 1 .. CHOOSE n \in counts : TRUE |-> each])
      [] e.is = "signing" ->
            LET value == EvalSelf(e.of) IN
            IF value = NoValue THEN NoValue ELSE AsSigned(value, e.signed)
      [] e.is \in {"sizing", "typing"} -> EvalAssign(e.of, CastType(e))
      [] e.is = "inside" ->
            LET common == SetType(e.of, e.set)
                value == EvalAt(e.of, common)
            IN OfBit(AnyOf({InItem(value, e.set[i], common) : i \in DOMAIN e.set}))

\* What is around an operand sizes it, or only what it is evaluated to.
EvalAt(e, ty) ==
    IF ty = Unknown THEN NoValue
    ELSE CASE e.is = "fill" -> Fill(Blank(ty.width, ty.signed), 0, ty.width, e.bit)
           [] e.is = "unary" /\ e.op \in {"+", "-", "~"} ->
                LET value == EvalAt(e.of, ty) IN
                IF value = NoValue \/ e.op = "+" THEN value
                ELSE IF e.op = "-" THEN Neg(value) ELSE Not(value)
           [] e.is = "binary" -> EvalBinary(e, ty)
           [] e.is = "choice" -> Chosen(e, ty)
           [] OTHER -> Operand(Alone(e), ty)

---------------------------------------------------------------------------
(* What is promised of it.  An expression is what its operands are as      *)
(* numbers: each as wide and as signed as what is around it, which is the  *)
(* widest of the operands it reaches down to, and signed if all are.       *)

RECURSIVE Ends(_)
Own(e) ==
    LET ends == Ends(e) IN
    IF Unknown \in ends THEN Unknown
    ELSE Type(CHOOSE w \in {t.width : t \in ends} : \A t \in ends : t.width <= w,
              \A t \in ends : t.signed, \E t \in ends : t.four)

RECURSIVE Num(_, _)
Wrap(n, ty) ==
    LET low == n % 2 ^ ty.width IN
    IF ty.signed /\ low >= 2 ^ (ty.width - 1) THEN low - 2 ^ ty.width ELSE low
NumOwn(e) == Num(e, Own(e))
Digit(n, i) == (n \div 2 ^ i) % 2

\* How many times a replication's operand is there; for a part that is not
\* one, 1.
Times(e) ==
    IF e.is # "replication" THEN 1 ELSE IF Own(e.count) = Unknown THEN -1 ELSE NumOwn(e.count)
OneOf(e) == IF e.is = "replication" THEN e.of ELSE e
WidthOf(parts) ==
    FoldSeq(LAMBDA e, sum : sum + Most(Times(e), 0) * Own(OneOf(e)).width, 0, parts)

Ends(e) ==
    CASE e.is = "name" -> {e.ty}
      [] e.is = "unary" /\ e.op \in {"+", "-", "~"} -> Ends(e.of)
      [] e.is = "binary" /\ e.op \in Contextual -> Ends(e.lhs) \union Ends(e.rhs)
      [] e.is = "binary" /\ e.op \in Shifts \union {"**"} -> Ends(e.lhs)
      [] e.is = "choice" -> Ends(e.yes) \union Ends(e.no)
      [] e.is \in {"concat", "replication"} ->
            LET parts == IF e.is = "concat" THEN e.parts ELSE <<e>>
                ones == {OneOf(parts[i]) : i \in {i \in DOMAIN parts : Times(parts[i]) # 0}}
            IN IF WidthOf(parts) \notin 1 .. MaxWidth \/ (\E i \in DOMAIN parts : Times(parts[i]) < 0)
                    \/ Unknown \in {Own(one) : one \in ones}
               THEN {Unknown}
               ELSE {Type(WidthOf(parts), FALSE, \E one \in ones : Own(one).four)}
      [] e.is = "signing" -> {IF Own(e.of) = Unknown THEN Unknown ELSE [Own(e.of) EXCEPT !.signed = e.signed]}
      [] e.is = "sizing" ->
            {IF Unknown \in {Own(e.of), Own(e.width)} \/ NumOwn(e.width) \notin 1 .. MaxWidth THEN Unknown
             ELSE [Own(e.of) EXCEPT !.width = NumOwn(e.width)]}
      [] e.is = "typing" -> {e.ty}
      [] OTHER -> {BIT}

Truly(holds) == IF holds THEN 1 ELSE 0
Digits(ty, digit(_)) == Wrap(MapThenSumSet(LAMBDA i : digit(i) * 2 ^ i, 0 .. ty.width - 1), ty)

\* What is not a number, as a division by zero, is taken to be 0.
Combined(op, a, b, ty) ==
    CASE op = "+" -> Wrap(a + b, ty) [] op = "-" -> Wrap(a - b, ty) [] op = "*" -> Wrap(a * b, ty)
      [] op = "/" -> IF b = 0 THEN 0 ELSE Wrap(Towards0(a, b), ty)
      [] op = "%" -> IF b = 0 THEN 0 ELSE a - b * Towards0(a, b)
      [] op = "**" -> IF b >= 0 THEN Wrap(IF b = 0 THEN 1 ELSE a ^ b, ty)
                      ELSE IF a \in {1, -1} THEN Wrap(IF b % 2 = 0 THEN 1 ELSE a, ty) ELSE 0
      [] op = "<<" -> Wrap(a * 2 ^ Least(b, ty.width), ty)
      [] op = ">>" -> Wrap((a % 2 ^ ty.width) \div 2 ^ Least(b, ty.width), ty)
      [] op = ">>>" -> a \div 2 ^ Least(b, ty.width)
      [] op = "&" -> Digits(ty, LAMBDA i : Digit(a, i) * Digit(b, i))
      [] op = "|" -> Digits(ty, LAMBDA i : Most(Digit(a, i), Digit(b, i)))
      [] op = "^" -> Digits(ty, LAMBDA i : (Digit(a, i) + Digit(b, i)) % 2)
      [] op = "~^" -> Digits(ty, LAMBDA i : (Digit(a, i) + Digit(b, i) + 1) % 2)

\* A pattern's unknown bits match any, in a pattern that is a name.
LikeName(n, e, ty) ==
    \A i \in 0 .. ty.width - 1 :
        LET of == IF i < e.ty.width THEN Pair(e.value, i) ELSE IF ty.signed THEN Top(e.value) ELSE Zero IN
        of[2] \/ Digit(n, i) = Truly(of[1])
Like(n, e, ty) == IF e.is = "name" THEN LikeName(n, e, ty) ELSE n = Num(e, ty)

Holds(e, common) ==
    LET a == Num(e.lhs, common) IN
    CASE e.op = "==?" -> Like(a, e.rhs, common) [] e.op = "!=?" -> ~Like(a, e.rhs, common)
      [] OTHER -> LET b == Num(e.rhs, common) IN
                  CASE e.op \in {"==", "==="} -> a = b [] e.op \in {"!=", "!=="} -> a # b
                    [] e.op = "<" -> a < b [] e.op = "<=" -> a <= b
                    [] e.op = ">" -> a > b [] e.op = ">=" -> a >= b
Implied(op, a, b) ==
    CASE op = "&&" -> a /\ b [] op = "||" -> a \/ b [] op = "->" -> a => b [] op = "<->" -> a <=> b

OfAll(types) ==
    Type(CHOOSE w \in {t.width : t \in types} : \A t \in types : t.width <= w,
         \A t \in types : t.signed, TRUE)

RECURSIVE NumOf(_)
NumOf(parts) ==
    IF parts = <<>> THEN 0
    ELSE LET part == Last(parts)
             width == Own(OneOf(part)).width
             digits == Wrap(NumOwn(OneOf(part)), Type(width, FALSE, FALSE))
             low == MapThenSumSet(LAMBDA i : digits * 2 ^ (i * width), 0 .. Times(part) - 1)
         IN low + NumOf(Front(parts)) * 2 ^ (Times(part) * width)

Folded(op, n, width) ==
    LET ones == Cardinality({i \in 0 .. width - 1 : Digit(n, i) = 1}) IN
    CASE op = "!" -> n = 0 [] op = "&" -> ones = width [] op = "~&" -> ones # width
      [] op = "|" -> n # 0 [] op = "~|" -> n = 0 [] op = "^" -> ones % 2 = 1 [] op = "~^" -> ones % 2 = 0

\* The number an operand is, as signed as what is around it.
Num(e, ty) ==
    CASE e.is = "name" -> Wrap(Reading(e.value, ty.signed), ty)
      [] e.is = "fill" -> Wrap(IF e.bit = One THEN -1 ELSE 0, ty)
      [] e.is = "unary" /\ e.op = "+" -> Num(e.of, ty)
      [] e.is = "unary" /\ e.op = "-" -> Wrap(-Num(e.of, ty), ty)
      [] e.is = "unary" /\ e.op = "~" -> Wrap(-1 - Num(e.of, ty), ty)
      [] e.is = "unary" /\ e.op \notin {"+", "-", "~"} ->
            Truly(Folded(e.op, NumOwn(e.of), Own(e.of).width))
      [] e.is = "binary" /\ e.op \in Contextual -> Combined(e.op, Num(e.lhs, ty), Num(e.rhs, ty), ty)
      [] e.is = "binary" /\ e.op \in Shifts -> 
            Combined(e.op, Num(e.lhs, ty), Wrap(NumOwn(e.rhs), [Own(e.rhs) EXCEPT !.signed = FALSE]), ty)
      [] e.is = "binary" /\ e.op = "**" -> Combined(e.op, Num(e.lhs, ty), NumOwn(e.rhs), ty)
      [] e.is = "binary" /\ e.op \in Comparing -> Truly(Holds(e, OfAll(Ends(e.lhs) \union Ends(e.rhs))))
      [] e.is = "binary" /\ e.op \in Logical -> Truly(Implied(e.op, NumOwn(e.lhs) # 0, NumOwn(e.rhs) # 0))
      [] e.is = "choice" -> IF NumOwn(e.on) # 0 THEN Num(e.yes, ty) ELSE Num(e.no, ty)
      [] e.is = "concat" -> Wrap(NumOf(e.parts), ty)
      [] e.is = "replication" -> Wrap(NumOf(<<e>>), ty)
      [] e.is = "signing" -> Wrap(Wrap(NumOwn(e.of), [Own(e.of) EXCEPT !.signed = ty.signed]), ty)
      [] e.is \in {"sizing", "typing"} ->
            LET own == Own(e)
                wide == Type(Most(own.width, Own(e.of).width), Own(e.of).signed, TRUE)
            IN Wrap(Wrap(Num(e.of, wide), [own EXCEPT !.signed = ty.signed]), ty)
      [] e.is = "inside" ->
            LET common == OfAll(Ends(e.of) \union UNION {Ends(e.set[i].lo) \union Ends(e.set[i].hi) :
                                                            i \in DOMAIN e.set})
                n == Num(e.of, common)
            IN Truly(\E i \in DOMAIN e.set :
                        CASE e.set[i].is = "item" -> Like(n, e.set[i].lo, common)
                          [] OTHER -> /\ n >= Num(e.set[i].lo, common)
                                      /\ e.set[i].is = "between" => n <= Num(e.set[i].hi, common))

\* Every way to know what is not: a value for a name that has none, 0 or 1 for
\* each unknown bit.
ValuesOf(ty) ==
    {[width |-> ty.width, signed |-> ty.signed,
      value |-> [i \in 0 .. Limbs(ty.width) - 1 |-> {b \in Limb : i * LimbBits + b \in ones}],
      unknown |-> [i \in 0 .. Limbs(ty.width) - 1 |-> {}]] : ones \in SUBSET (0 .. ty.width - 1)}
Settled(e) ==
    {[e EXCEPT !.value = known] : known \in
        {known \in ValuesOf(e.ty) :
            e.value = NoValue \/ \A i \in 0 .. e.ty.width - 1 :
                                    Pair(e.value, i)[2] \/ Pair(known, i) = Pair(e.value, i)}}

\* A pattern's unknown bits stay what they are.
Pattern(e) == e.is = "name" /\ e.value # NoValue

\* What may have no value though every operand has: a division, and what has
\* no type.
RECURSIVE Doubtful(_), Resolutions(_)
Doubtful(e) ==
    \/ Own(e) = Unknown
    \/ CASE e.is \in {"name", "fill"} -> FALSE
         [] e.is \in {"unary", "signing", "typing"} -> Doubtful(e.of)
         [] e.is = "sizing" -> Doubtful(e.width) \/ Doubtful(e.of)
         [] e.is = "replication" -> Doubtful(e.count) \/ Doubtful(e.of)
         [] e.is = "binary" -> e.op \in {"/", "%", "**"} \/ Doubtful(e.lhs) \/ Doubtful(e.rhs)
         [] e.is = "choice" -> Doubtful(e.on) \/ Doubtful(e.yes) \/ Doubtful(e.no)
         [] e.is = "concat" ->
                \E i \in DOMAIN e.parts :
                    \/ Times(e.parts[i]) # 0 /\ Doubtful(e.parts[i])
                    \/ e.parts[i].is = "replication" /\ Doubtful(e.parts[i].count)
         [] e.is = "inside" ->
                \/ Doubtful(e.of)
                \/ \E i \in DOMAIN e.set : Doubtful(e.set[i].lo) \/ Doubtful(e.set[i].hi)

Each(seq, sets(_)) ==
    IF Len(seq) = 1 THEN {<<one>> : one \in sets(seq[1])}
    ELSE {<<one, other>> : one \in sets(seq[1]), other \in sets(seq[2])}
IsCertain(value) == value # NoValue /\ ~HasUnknown(value)
Certain(e) ==
    IF e.is = "typing" THEN e.ty.four \/ IsCertain(EvalAssign(e.of, [e.ty EXCEPT !.four = TRUE]))
    ELSE e.is = "binary" /\ e.op \in {"===", "!=="} =>
            LET common == MergeTypes(SelfType(e.lhs), SelfType(e.rhs)) IN
            IsCertain(EvalAt(e.lhs, common)) /\ IsCertain(EvalAt(e.rhs, common))
SettledPattern(e) == IF Pattern(e) THEN {e} ELSE Resolutions(e)
SettledItem(item) ==
    IF item.is = "item" THEN {Item(e) : e \in SettledPattern(item.lo)}
    ELSE {[item EXCEPT !.lo = lo, !.hi = hi] : lo \in Resolutions(item.lo), hi \in Resolutions(item.hi)}

\* Nothing is promised of an operator that tells x from 0 and 1, nor of one
\* that makes 0 of it, when there may be one.
Resolutions(e) ==
    IF ~Certain(e) THEN {}
    ELSE CASE e.is = "name" -> Settled(e)
           [] e.is = "fill" -> {FillOf(bit) : bit \in IF e.bit \in {Zero, One} THEN {e.bit} ELSE {Zero, One}}
           [] e.is = "unary" -> {Unary(e.op, of) : of \in Resolutions(e.of)}
           [] e.is = "binary" ->
                 {Binary(e.op, lhs, rhs) : lhs \in Resolutions(e.lhs),
                     rhs \in IF e.op \in {"==?", "!=?"} THEN SettledPattern(e.rhs) ELSE Resolutions(e.rhs)}
           [] e.is = "choice" ->
                 {Choice(on, yes, no) : on \in Resolutions(e.on), yes \in Resolutions(e.yes), no \in Resolutions(e.no)}
           [] e.is = "concat" -> {Concatenation(parts) : parts \in Each(e.parts, LAMBDA part : Resolutions(part))}
           [] e.is = "replication" ->
                 {Replication(count, of) : count \in Resolutions(e.count), of \in Resolutions(e.of)}
           [] e.is = "sizing" -> {Sizing(width, of) : width \in Resolutions(e.width), of \in Resolutions(e.of)}
           [] e.is \in {"signing", "typing"} ->
                 {[e EXCEPT !.of = of] : of \in Resolutions(e.of)}
           [] e.is = "inside" ->
                 {Membership(of, set) : of \in Resolutions(e.of), set \in Each(e.set, LAMBDA item : SettledItem(item))}

\* What is known of an expression is what it is, whatever turns out to be what
\* is not known of its operands; and it is known if they are.
KnownIsTrue(e, target) ==
    LET found == EvalAssign(e, target) IN
    \A settled \in Resolutions(e) :
        LET own == Own(settled)
            n == Num(settled, Type(Most(target.width, own.width), own.signed, own.four))
        IN /\ {SelfType(settled), SelfType(e)} \subseteq {Unknown, own}
           /\ Doubtful(settled) \/ SelfType(settled) = own
           /\ own = Unknown => found = NoValue
           /\ found # NoValue =>
                /\ found.width = target.width /\ found.signed = target.signed /\ Canonical(found)
                /\ \A i \in 0 .. target.width - 1 :
                        Pair(found, i)[2] \/ Truly(Pair(found, i)[1]) = Digit(n, i)
           /\ settled = e /\ ~Doubtful(e) => found # NoValue /\ ~HasUnknown(found)

---------------------------------------------------------------------------
(***************************************************************************)
(* The widths an expression may be taken at without a word, and what a     *)
(* lint tells of those it is taken at (astli-lint, widths.rs).  A name     *)
(* says what it is of: a literal, written with a size or without; a        *)
(* parameter, declared time or not; a loop's variable; another variable;   *)
(* or nothing that is seen.                                                *)
(***************************************************************************)
Widest == 99   \* stands for the greatest width there is

OfName(what, ty, value) == [is |-> "name", ty |-> ty, value |-> value, what |-> what]

Ranging(least, own, room, grows) == [least |-> least, own |-> own, room |-> room, grows |-> grows]
Only(width) == Ranging(width, width, width, width)
ConstantOf(needs, own) == Ranging(Least(needs, own), own, Widest, Least(needs, own))

\* The bits a constant needs.
NeededBy(a) == IF IsNegative(a) THEN Needed(AsSigned(Not(a), FALSE)) + 1 ELSE Needed(a)

\* What an expression is made of.
Inner(e) ==
    CASE e.is \in {"name", "fill"} -> <<>>
      [] e.is \in {"unary", "signing", "sizing", "typing"} -> <<e.of>>
      [] e.is = "binary" -> <<e.lhs, e.rhs>>
      [] e.is = "choice" -> <<e.on, e.yes, e.no>>
      [] e.is = "concat" -> e.parts
      [] e.is = "replication" -> <<e.count, e.of>>

\* Whether it is a constant, as what is not seen may be.
RECURSIVE IsConstant(_)
IsConstant(e) ==
    CASE e.is = "name" -> e.what # "variable"
      [] e.is = "inside" -> FALSE
      [] OTHER -> \A i \in DOMAIN Inner(e) : IsConstant(Inner(e)[i])

RECURSIVE RangeOf(_)

Literal(e, own) ==
    CASE e.is = "fill" -> ConstantOf(1, own)
      [] e.what = "sized" -> [ConstantOf(NeededBy(e.value), own) EXCEPT !.room = own]
      [] OTHER -> ConstantOf(NeededBy(e.value), own)

\* What its operators can carry into, given the ranges of what it is made of.
Operation(e, own) ==
    LET Taken(part) == IF RangeOf(part) = {} THEN Only(own) ELSE CHOOSE range \in RangeOf(part) : TRUE
        Both(a, b) == Most(Taken(a).least, Taken(b).least)
        Wider(a, b) == Most(Taken(a).grows, Taken(b).grows)
        reach == CASE e.is = "binary" /\ e.op \in {"+", "-"} ->
                            <<Both(e.lhs, e.rhs), Least(Widest, Wider(e.lhs, e.rhs) + 1)>>
                   [] e.is = "binary" /\ e.op = "*" ->
                            <<Both(e.lhs, e.rhs), Least(Widest, Taken(e.lhs).grows + Taken(e.rhs).grows)>>
                   [] e.is = "binary" /\ e.op \in {"<<", "**"} -> <<Taken(e.lhs).least, Widest>>
                   [] e.is = "binary" /\ e.op \in {">>", ">>>"} -> <<Taken(e.lhs).least, Taken(e.lhs).grows>>
                   [] e.is = "binary" /\ e.op \in Contextual \ {"+", "-", "*"} ->
                            <<Both(e.lhs, e.rhs), Wider(e.lhs, e.rhs)>>
                   [] e.is = "choice" -> <<Both(e.yes, e.no), Wider(e.yes, e.no)>>
                   [] e.is = "unary" /\ e.op = "+" -> <<Taken(e.of).least, Taken(e.of).grows>>
                   [] e.is = "unary" /\ e.op \in {"-", "~"} -> <<Taken(e.of).least, Taken(e.of).least>>
                   [] OTHER -> <<own, own>>
        least == Least(reach[1], own)
    IN IF e.is = "choice" /\ Taken(e.yes).room = Widest /\ Taken(e.no).room = Widest
       THEN Ranging(reach[1], own, Widest, reach[2])
       ELSE Ranging(least, least, Most(reach[2], least), Most(reach[2], least))

\* The range of an expression, if it is packed.
RangeOf(e) ==
    LET own == SelfType(e).width
        value == EvalSelf(e)
        known == value # NoValue /\ ~HasUnknown(value)
    IN
    IF SelfType(e) = Unknown THEN {}
    ELSE {CASE e.is = "fill" \/ (e.is = "name" /\ e.what \in {"sized", "unsized"}) -> Literal(e, own)
            [] known /\ e.is = "name" /\ e.what = "time" -> [ConstantOf(NeededBy(value), own) EXCEPT !.grows = own]
            [] known -> ConstantOf(NeededBy(value), own)
            [] value = NoValue /\ IsConstant(e) -> Ranging(1, own, Widest, Widest)
            [] OTHER -> Operation(e, own)}

\* The width told that a source is taken to a target from, if it is outside.
Outside(range, target) ==
    CASE target < range.least -> {range.least}
      [] target > range.room -> {range.own}
      [] OTHER -> {}

Assigned(e, target) == UNION {Outside(range, target) : range \in RangeOf(e)}

\* Of two that are compared, the one that is narrower, if no width is in both
\* ranges.
Told(source, target, from, to) == {[source |-> source, target |-> target, from |-> from, to |-> to]}
Compared(lhs, rhs) ==
    UNION {CASE left.room < right.least -> Told(lhs, rhs, left.own, right.least)
             [] right.room < left.least -> Told(rhs, lhs, right.own, left.least)
             [] OTHER -> {} : left \in RangeOf(lhs), right \in RangeOf(rhs)}

---------------------------------------------------------------------------
(* What is promised of it.                                                 *)

KnownNumber(e) == EvalSelf(e) # NoValue /\ ~HasUnknown(EvalSelf(e))

\* What is of numbers that are never negative, and makes none that are; a
\* constant in it being what it is however wide it is taken.
RECURSIVE Counts(_, _)
Counts(e, width) ==
    /\ Own(e) # Unknown
    /\ KnownNumber(e) => /\ ~HasUnknown(EvalAt(e, Type(width, FALSE, TRUE)))
                         /\ NumOwn(e) = Num(e, Type(width, FALSE, TRUE))
    /\ CASE e.is = "name" -> ~e.ty.signed
         [] e.is = "binary" ->
                /\ e.op \in {"+", "*", "/", "%", "&", "|", "^", ">>", "<<"}
                /\ Counts(e.lhs, width)
                /\ e.op \in Contextual => Counts(e.rhs, width)
         [] e.is = "choice" -> Counts(e.yes, width) /\ Counts(e.no, width)
         [] e.is = "unary" -> e.op \notin {"-", "~"} /\ (e.op = "+" => Counts(e.of, width))
         [] e.is \in {"concat", "replication"} -> TRUE
         [] OTHER -> FALSE

Numbers(e, width) == {Num(known, Type(width, FALSE, TRUE)) : known \in Resolutions(e)}

\* A constant is told to be truncated if it is another number after; only -1
\* is thought to need a bit more.  And nothing is lost above what a sum is
\* told to be extended from.
WidthIsRight(e, target) ==
    LET told == Assigned(e, target)
        own == Own(e)
        width == Most(own.width, target)
    IN
    /\ told # {} => RangeOf(e) # {} /\ target \notin told
    /\ KnownNumber(e) =>
         LET n == NumOwn(e)
             kept == Wrap(n, Type(target, n < 0, TRUE))
         IN (\E from \in told : from > target) <=> kept # n \/ (n = -1 /\ target = 1 /\ own.width > 1)
    /\ (\E from \in told : from < target) /\ Counts(e, width) =>
            \A range \in RangeOf(e) : \A n \in Numbers(e, width) : n < 2 ^ range.room

\* Nothing is told of a constant that is not known, nor that one of two is
\* extended; that one is truncated, if the greater is; and a sum or a product
\* is extended past what those of its two names can come to.
RECURSIVE Within(_)
Within(e) == IF Inner(e) = <<>> THEN {e} ELSE UNION {Within(Inner(e)[i]) : i \in DOMAIN Inner(e)}
NoneVaries(e) == \A end \in Within(e) : end.is = "name" => end.what \notin {"variable", "sized"}
BitsOf(name) ==
    IF name.what \in {"variable", "time"} THEN name.ty.width
    ELSE CHOOSE n \in 1 .. name.ty.width :
            /\ Reading(name.value, FALSE) < 2 ^ n
            /\ \A k \in 1 .. n - 1 : Reading(name.value, FALSE) >= 2 ^ k
SilentIsRight(e, target) ==
    LET told == Assigned(e, target) IN
    /\ EvalSelf(e) = NoValue /\ NoneVaries(e) => told = {}
    /\ e.is = "choice" /\ e.yes.is = "name" /\ NoneVaries(e.yes) /\ NoneVaries(e.no) =>
            \A from \in told : from > target
    /\ (/\ e.is = "choice" /\ ~KnownNumber(e) /\ ~NoneVaries(e)
        /\ \A part \in {e.yes, e.no} :
                part.is = "name" /\ part.what \in {"parameter", "unsized"} /\ KnownNumber(part) /\ NumOwn(part) >= 0) =>
            ((\E from \in told : from > target) <=> \E part \in {e.yes, e.no} : BitsOf(part) > target)
    /\ (/\ e.is = "binary" /\ e.op \in {"+", "*"} /\ ~KnownNumber(e) /\ ~NoneVaries(e)
        /\ \A part \in {e.lhs, e.rhs} :
                /\ part.is = "name" /\ part.ty # Unknown /\ ~part.ty.signed
                /\ part.what = "variable" \/ KnownNumber(part)) =>
            LET bits == IF e.op = "*" THEN BitsOf(e.lhs) + BitsOf(e.rhs) ELSE Most(BitsOf(e.lhs), BitsOf(e.rhs)) + 1 IN
            target > bits <=> \E from \in told : from < target

\* What is told to be compared with something wider never is all that may be.
ComparedIsRight(lhs, rhs) ==
    \A told \in Compared(lhs, rhs) :
        LET width == Most(Own(lhs).width, Own(rhs).width) IN
        /\ told.from < told.to /\ {told.source, told.target} = {lhs, rhs}
        /\ Counts(told.source, width) /\ Counts(told.target, width)
             /\ (told.target.is = "name" \/ KnownNumber(told.target)) =>
                \E n \in Numbers(told.target, width) : n \notin Numbers(told.source, width)
=============================================================================
