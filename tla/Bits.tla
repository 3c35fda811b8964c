-------------------------------- MODULE Bits --------------------------------
(***************************************************************************)
(* Integral values of any width, each bit 0, 1, x or z (astli-sema,        *)
(* value/bits.rs).  A bit is its value and whether it is unknown, kept in  *)
(* two vectors of limbs, the least significant first; a limb is the set of *)
(* its bits that are 1.  Limbs have LimbBits bits, 64 in the code.         *)
(***************************************************************************)
EXTENDS Integers, FiniteSets, FiniteSetsExt

CONSTANT LimbBits

Limb == 0 .. LimbBits - 1
Least(a, b) == IF a < b THEN a ELSE b
Most(a, b) == IF a > b THEN a ELSE b

Limbs(width) == (width + LimbBits - 1) \div LimbBits
Low(count) == 0 .. Least(count, LimbBits) - 1
Up(limb, by) == {b + by : b \in limb} \intersect Limb
Down(limb, by) == {b - by : b \in limb} \intersect Limb

\* The bits of limbs from lo up, 0 past the end.
Chunk(limbs, lo) ==
    LET index == lo \div LimbBits
        shift == lo % LimbBits
        At(i) == IF i \in DOMAIN limbs THEN limbs[i] ELSE {}
    IN Down(At(index), shift) \union Up(At(index + 1), LimbBits - shift)

\* A wrong one: what does not fit the limb is left out.
PutShort(limbs, lo, bits, count) ==
    LET shift == lo % LimbBits IN
    [limbs EXCEPT ![lo \div LimbBits] =
        (@ \ Up(Low(count), shift)) \union Up(bits \intersect Low(count), shift)]

\* limbs with the low count bits of bits from lo up.
Put(limbs, lo, bits, count) ==
    LET mask == Low(count)
        kept == bits \intersect mask
        index == lo \div LimbBits
        shift == lo % LimbBits
        over == shift # 0 /\ shift + count > LimbBits
        Within(i, by) == (limbs[i] \ by[1]) \union by[2]
    IN [i \in DOMAIN limbs |->
            IF i = index THEN Within(i, <<Up(mask, shift), Up(kept, shift)>>)
            ELSE IF over /\ i = index + 1
            THEN Within(i, <<Down(mask, LimbBits - shift), Down(kept, LimbBits - shift)>>)
            ELSE limbs[i]]

\* to with count bits of from, a limb's worth at a time.
RECURSIVE Copy(_, _, _, _, _)
Copy(to, toLo, from, fromLo, count) ==
    IF count <= 0 THEN to
    ELSE LET step == Least(count, LimbBits) IN
         Copy(Put(to, toLo, Chunk(from, fromLo), step), toLo + step, from, fromLo + step, count - step)

Blank(width, signed) ==
    LET none == [i \in 0 .. Limbs(width) - 1 |-> {}] IN
    [width |-> width, signed |-> signed, value |-> none, unknown |-> none]

Masked(a) ==
    LET rest == a.width % LimbBits
        Cut(limbs) == [i \in DOMAIN limbs |->
            IF rest # 0 /\ i = Limbs(a.width) - 1 THEN limbs[i] \intersect Low(rest) ELSE limbs[i]]
    IN [a EXCEPT !.value = Cut(@), !.unknown = Cut(@)]

Pair(a, i) == <<i % LimbBits \in a.value[i \div LimbBits], i % LimbBits \in a.unknown[i \div LimbBits]>>
Zero == <<FALSE, FALSE>>
One == <<TRUE, FALSE>>
Z == <<FALSE, TRUE>>
X == <<TRUE, TRUE>>

RECURSIVE Fill(_, _, _, _)
Fill(a, lo, hi, bit) ==
    IF lo >= hi THEN a
    ELSE LET step == Least(hi - lo, LimbBits)
             All(on) == IF on THEN Limb ELSE {}
         IN Fill([a EXCEPT !.value = Put(@, lo, All(bit[1]), step),
                           !.unknown = Put(@, lo, All(bit[2]), step)], lo + step, hi, bit)

AllX(width, signed) == Fill(Blank(width, signed), 0, width, X)

HasUnknown(a) == \E i \in DOMAIN a.unknown : a.unknown[i] # {}
Top(a) == Pair(a, a.width - 1)
IsNegative(a) == a.signed /\ Top(a) = One

\* Both vectors at once.
CopyBits(to, toLo, from, fromLo, count) ==
    [to EXCEPT !.value = Copy(@, toLo, from.value, fromLo, count),
               !.unknown = Copy(@, toLo, from.unknown, fromLo, count)]

Resize(a, width) ==
    LET kept == CopyBits(Blank(width, a.signed), 0, a, 0, Least(width, a.width)) IN
    IF width > a.width /\ a.signed THEN Fill(kept, a.width, width, Top(a)) ELSE kept

\* What lies within a value of what is from lo up.
Inside(a, lo, width) == [start |-> Most(lo, 0), end |-> Least(lo + width, a.width)]

Slice(a, lo, width) ==
    LET in == Inside(a, lo, width) IN
    CopyBits(AllX(width, FALSE), in.start - lo, a, in.start, in.end - in.start)

Write(a, lo, part) ==
    LET in == Inside(a, lo, part.width) IN
    CopyBits(a, in.start, part, in.start - lo, in.end - in.start)

\* Of two parts, the first the most significant.
Concat(a, b) ==
    CopyBits(CopyBits(Blank(a.width + b.width, FALSE), b.width, a, 0, a.width), 0, b, 0, b.width)

\* amount is a number here: one past the width is as good as any larger.
Shl(a, amount) ==
    LET by == Least(amount, a.width) IN
    CopyBits(Blank(a.width, a.signed), by, a, 0, a.width - by)

Shr(a, amount, arithmetic) ==
    LET kept == a.width - Least(amount, a.width)
        moved == CopyBits(Blank(a.width, a.signed), 0, a, a.width - kept, kept)
    IN IF arithmetic /\ a.signed THEN Fill(moved, kept, a.width, Top(a)) ELSE moved

---------------------------------------------------------------------------
(* Bit by bit, a limb at a time: f makes the two limbs of the result of    *)
(* the two of each side.                                                   *)

Other(limb) == Limb \ limb

Bitwise(a, b, f(_, _, _, _)) ==
    LET of == [i \in DOMAIN a.value |-> f(a.value[i], a.unknown[i], b.value[i], b.unknown[i])] IN
    Masked([Blank(a.width, a.signed) EXCEPT !.value = [i \in DOMAIN of |-> of[i][1]],
                                            !.unknown = [i \in DOMAIN of |-> of[i][2]]])

Not(a) == Bitwise(a, a, LAMBDA av, au, bv, bu : <<Other(av) \union au, au>>)

And(a, b) ==
    Bitwise(a, b, LAMBDA av, au, bv, bu :
        LET one == (av \ au) \intersect (bv \ bu)
            zero == Other(av \union au) \union Other(bv \union bu)
            x == Other(zero \union one)
        IN <<one \union x, x>>)

Or(a, b) ==
    Bitwise(a, b, LAMBDA av, au, bv, bu :
        LET one == (av \ au) \union (bv \ bu)
            zero == Other(av \union au) \intersect Other(bv \union bu)
            x == Other(zero \union one)
        IN <<one \union x, x>>)

Differ(av, bv) == (av \ bv) \union (bv \ av)

Xor(a, b) ==
    Bitwise(a, b, LAMBDA av, au, bv, bu : <<Differ(av, bv) \union au \union bu, au \union bu>>)

\* What a choice between two by a condition that is x makes.
Merge(a, b) ==
    Bitwise(a, b, LAMBDA av, au, bv, bu :
        LET x == Differ(av, bv) \union au \union bu IN <<av \union x, x>>)

---------------------------------------------------------------------------
(* Arithmetic, over limbs with a carry.                                    *)

Size == 2 ^ LimbBits
Number(limb) == MapThenSumSet(LAMBDA b : 2 ^ b, limb)
LimbOf(n) == {b \in Limb : (n \div 2 ^ b) % 2 = 1}

\* The carry into limb i of a + b.
RECURSIVE CarryInto(_, _, _, _)
CarryInto(a, b, carry, i) ==
    IF i = 0 THEN carry
    ELSE IF Number(a[i - 1]) + Number(b[i - 1]) + CarryInto(a, b, carry, i - 1) >= Size THEN 1 ELSE 0

AddLimbs(a, b, carry) ==
    [i \in DOMAIN a |-> LimbOf(Number(a[i]) + Number(b[i]) + CarryInto(a, b, carry, i))]

WithLimbs(a, limbs) == Masked([Blank(a.width, a.signed) EXCEPT !.value = limbs])
Inverted(a) == [i \in DOMAIN a.value |-> Other(a.value[i])]

Add(a, b) ==
    IF HasUnknown(a) \/ HasUnknown(b) THEN AllX(a.width, a.signed)
    ELSE WithLimbs(a, AddLimbs(a.value, b.value, 0))

Sub(a, b) ==
    IF HasUnknown(a) \/ HasUnknown(b) THEN AllX(a.width, a.signed)
    ELSE WithLimbs(a, AddLimbs(a.value, Inverted(b), 1))

Neg(a) == Sub(Blank(a.width, a.signed), a)

\* One limb of a times one of b, added where it belongs with what is carried,
\* and so on to the highest limb the product keeps.
RECURSIVE Row(_, _, _, _, _, _)
Row(product, a, b, i, j, carry) ==
    IF i + j \notin DOMAIN product THEN product
    ELSE LET sum == Number(a[i]) * Number(b[j]) + Number(product[i + j]) + carry IN
         Row([product EXCEPT ![i + j] = LimbOf(sum)], a, b, i, j + 1, sum \div Size)

RECURSIVE Rows(_, _, _, _)
Rows(product, a, b, i) ==
    IF i \notin DOMAIN product THEN product ELSE Rows(Row(product, a, b, i, 0, 0), a, b, i + 1)

Mul(a, b) ==
    IF HasUnknown(a) \/ HasUnknown(b) THEN AllX(a.width, a.signed)
    ELSE WithLimbs(a, Rows(Blank(a.width, a.signed).value, a.value, b.value, 0))

\* The highest limb that differs decides.
Below(a, b) ==
    \E i \in DOMAIN a : Number(a[i]) < Number(b[i]) /\ \A j \in DOMAIN a : j > i => a[j] = b[j]

\* One bit of the dividend after another, the highest first.
RECURSIVE Long(_, _, _, _, _)
Long(a, b, quotient, remainder, left) ==
    IF left = 0 THEN <<quotient, remainder>>
    ELSE LET index == left - 1
             in == IF Pair(a, index)[1] THEN {0} ELSE {}
             out == LimbBits - 1 \in remainder[Limbs(a.width) - 1]
             shifted == [i \in DOMAIN remainder |->
                            Up(remainder[i], 1) \union
                                IF i = 0 THEN in ELSE Down(remainder[i - 1], LimbBits - 1)]
         IN IF out \/ ~Below(shifted, b.value)
            THEN Long(a, b, [quotient EXCEPT ![index \div LimbBits] = @ \union {index % LimbBits}],
                      AddLimbs(shifted, Inverted(b), 1), index)
            ELSE Long(a, b, quotient, shifted, index)

DivideUnsigned(a, b) ==
    LET none == Blank(a.width, a.signed).value
        done == IF Limbs(a.width) = 1
                THEN LET n == Number(a.value[0])
                         d == Number(b.value[0])
                     IN <<[i \in {0} |-> LimbOf(n \div d)], [i \in {0} |-> LimbOf(n % d)]>>
                ELSE Long(a, b, none, none, a.width)
    IN <<WithLimbs(a, done[1]), WithLimbs(a, done[2])>>

\* The quotient and the remainder, towards zero, the remainder with the sign
\* of the dividend.
Divide(a, b) ==
    LET x == AllX(a.width, a.signed)
        Magnitude(c) == IF IsNegative(c) THEN Neg(c) ELSE c
        Signed(c, negative) ==
            LET d == [c EXCEPT !.signed = a.signed] IN IF negative THEN Neg(d) ELSE d
    IN IF HasUnknown(a) \/ HasUnknown(b) \/ \A i \in DOMAIN b.value : b.value[i] = {} THEN <<x, x>>
       ELSE LET parts == DivideUnsigned([Magnitude(a) EXCEPT !.signed = FALSE], Magnitude(b)) IN
            <<Signed(parts[1], IsNegative(a) # IsNegative(b)), Signed(parts[2], IsNegative(a))>>

\* Whether the one is less than the other.
Less(a, b) ==
    IF IsNegative(a) # IsNegative(b) THEN IsNegative(a) ELSE Below(a.value, b.value)

\* A value no wider than a limb, cut to a width.
Of(width, signed, n) == Masked([Blank(width, signed) EXCEPT !.value[0] = LimbOf(n)])
IsNumber(a, n) ==
    ~HasUnknown(a) /\ \A i \in DOMAIN a.value : a.value[i] = IF i = 0 THEN LimbOf(n) ELSE {}

\* Squares and products, one bit of the exponent after another, the highest
\* first.
RECURSIVE Squared(_, _, _, _)
Squared(a, exponent, result, left) ==
    IF left = 0 THEN result
    ELSE LET square == Mul(result, result) IN
         Squared(a, exponent, IF Pair(exponent, left - 1) = One THEN Mul(square, a) ELSE square, left - 1)

\* Only 1 and -1 have a whole reciprocal, and 0 has none.
Pow(a, exponent) ==
    LET one == Of(a.width, a.signed, 1)
        x == AllX(a.width, a.signed)
    IN IF HasUnknown(a) \/ HasUnknown(exponent) THEN x
       ELSE IF ~IsNegative(exponent) THEN Squared(a, exponent, one, exponent.width)
       ELSE IF IsNumber(a, 0) THEN x
       ELSE IF IsNumber(a, 1) THEN one
       ELSE IF IsNegative(a) /\ IsNumber(Neg(a), 1)
       THEN IF Pair(exponent, 0) = One THEN a ELSE one
       ELSE Blank(a.width, a.signed)

---------------------------------------------------------------------------
(* Comparing and reducing, a limb at a time.  The answer is a bit.         *)

\* care: which bits of a limb are to match; open: which of those may or may
\* not.
Matches(a, b, care(_, _), open(_, _)) ==
    LET Differs(i) == Differ(a.value[i], b.value[i]) \intersect
                        (care(a.unknown[i], b.unknown[i]) \ open(a.unknown[i], b.unknown[i]))
    IN IF \E i \in DOMAIN a.value : Differs(i) # {} THEN Zero
       ELSE IF \E i \in DOMAIN a.value :
                    care(a.unknown[i], b.unknown[i]) \intersect open(a.unknown[i], b.unknown[i]) # {}
       THEN X ELSE One

LogicEq(a, b) == Matches(a, b, LAMBDA au, bu : Limb, LAMBDA au, bu : au \union bu)
WildcardEq(a, b) == Matches(a, b, LAMBDA au, bu : Other(bu), LAMBDA au, bu : au)
CasexEq(a, b) == Matches(a, b, LAMBDA au, bu : Other(au \union bu), LAMBDA au, bu : {}) = One
CaseEq(a, b) == a.value = b.value /\ a.unknown = b.unknown
CasezEq(a, b) ==
    \A i \in DOMAIN a.value :
        Differ(a.value[i], b.value[i]) \union Differ(a.unknown[i], b.unknown[i])
            \subseteq (a.unknown[i] \ a.value[i]) \union (b.unknown[i] \ b.value[i])

TwoState(a) ==
    [a EXCEPT !.value = [i \in DOMAIN @ |-> @[i] \ a.unknown[i]], !.unknown = [i \in DOMAIN @ |-> {}]]

Truth(a) ==
    IF \E i \in DOMAIN a.value : a.value[i] \ a.unknown[i] # {} THEN One
    ELSE IF HasUnknown(a) THEN X ELSE Zero
ReduceAnd(a) ==
    LET not == Truth(Not(a)) IN IF not = One THEN Zero ELSE IF not = Zero THEN One ELSE X
CountOnes(a) == MapThenSumSet(LAMBDA i : Cardinality(a.value[i] \ a.unknown[i]), DOMAIN a.value)
ReduceXor(a) ==
    IF HasUnknown(a) THEN X
    ELSE IF MapThenSumSet(LAMBDA i : Cardinality(a.value[i]), DOMAIN a.value) % 2 = 1 THEN One ELSE Zero

\* How many bits are needed: up to the highest that is not 0.
Needed(a) ==
    LET set == {i \in DOMAIN a.value : a.value[i] \union a.unknown[i] # {}} IN
    IF set = {} THEN 1
    ELSE LET top == CHOOSE i \in set : \A j \in set : j <= i
             limb == a.value[top] \union a.unknown[top]
         IN top * LimbBits + 1 + (CHOOSE b \in limb : \A c \in limb : c <= b)

\* The number, if a signed one as wide as a limb holds it; none is \{\}.
ToNumber(a) ==
    LET Low0(c) == IF \A i \in DOMAIN c.value : i > 0 => c.value[i] = {} THEN {Number(c.value[0])} ELSE {}
        half == Size \div 2
    IN IF HasUnknown(a) THEN {}
       ELSE IF ~IsNegative(a) THEN {n \in Low0(a) : n < half}
       ELSE {-n : n \in {n \in Low0(Neg(a)) : n <= half}}

---------------------------------------------------------------------------
(* What is promised of it: what the bits are, whatever limbs they are in.  *)

BitAt(a, i) == IF i \in 0 .. a.width - 1 THEN Pair(a, i) ELSE X
Canonical(a) ==
    /\ DOMAIN a.value = 0 .. Limbs(a.width) - 1 /\ DOMAIN a.unknown = DOMAIN a.value
    /\ \A i \in a.width .. Limbs(a.width) * LimbBits - 1 : Pair(a, i) = Zero
Are(a, width, bit(_)) ==
    a.width = width /\ Canonical(a) /\ \A i \in 0 .. width - 1 : Pair(a, i) = bit(i)

\* Resizing, slicing, writing, joining and shifting move each bit where it
\* belongs, x where there is none, and leave nothing above the width, wherever
\* limbs end (copy, put, chunk, fill).
MovedWhole(a, b, at) ==
    LET sign == IF a.signed THEN Top(a) ELSE Zero IN
    /\ \A width \in 1 .. a.width + LimbBits + 1 :
        /\ Are(Resize(a, width), width, LAMBDA i : IF i < a.width THEN Pair(a, i) ELSE sign)
        /\ Are(Slice(a, at, width), width, LAMBDA i : BitAt(a, i + at))
    /\ Are(Write(a, at, b), a.width,
           LAMBDA i : IF i - at \in 0 .. b.width - 1 THEN Pair(b, i - at) ELSE Pair(a, i))
    /\ Are(Concat(a, b), a.width + b.width,
           LAMBDA i : IF i < b.width THEN Pair(b, i) ELSE Pair(a, i - b.width))
    /\ at >= 0 =>
        /\ Are(Shl(a, at), a.width, LAMBDA i : IF i < at THEN Zero ELSE Pair(a, i - at))
        /\ \A arithmetic \in BOOLEAN :
            Are(Shr(a, at, arithmetic), a.width,
                LAMBDA i : IF i + at < a.width THEN Pair(a, i + at)
                           ELSE IF arithmetic THEN sign ELSE Zero)

IsKnown(bit) == ~bit[2]
Read(a) ==
    MapThenSumSet(LAMBDA i : 2 ^ i, {i \in 0 .. a.width - 1 : Pair(a, i) = One})
        - IF IsNegative(a) THEN 2 ^ a.width ELSE 0
Towards0(n, d) ==
    LET AbsOf(m) == IF m < 0 THEN -m ELSE m
        q == AbsOf(n) \div AbsOf(d)
    IN IF (n < 0) # (d < 0) THEN -q ELSE q

\* Sums, differences, products, quotients, remainders and comparisons are
\* those of the numbers read, cut to the width; all x if a bit is not known or
\* the divisor is 0; and and, or, xor, not and merge decide each bit as far as
\* it can be (arithmetic, divide, compare, bitwise).
ReadsExactly(a, b) ==
    LET known == ~HasUnknown(a) /\ ~HasUnknown(b)
        ab == <<Read(a), Read(b)>>
        Is(c, ok, n) ==
            Are(c, a.width, LAMBDA i : IF ~ok THEN X ELSE <<(n \div 2 ^ i) % 2 = 1, FALSE>>)
        Bit(sure, value) == IF ~sure THEN X ELSE IF value THEN One ELSE Zero
    IN /\ Is(Add(a, b), known, ab[1] + ab[2])
       /\ Is(Sub(a, b), known, ab[1] - ab[2])
       /\ Is(Mul(a, b), known, ab[1] * ab[2])
       /\ LET ok == known /\ ab[2] # 0
              q == IF ok THEN Towards0(ab[1], ab[2]) ELSE 0
              done == Divide(a, b)
          IN Is(done[1], ok, q) /\ Is(done[2], ok, ab[1] - q * ab[2])
       /\ known => (Less(a, b) <=> ab[1] < ab[2])
       /\ LET p(i) == Pair(a, i)
              q(i) == Pair(b, i)
          IN /\ Are(Not(a), a.width, LAMBDA i : Bit(IsKnown(p(i)), ~p(i)[1]))
             /\ Are(And(a, b), a.width,
                    LAMBDA i : Bit(Zero \in {p(i), q(i)} \/ (IsKnown(p(i)) /\ IsKnown(q(i))),
                                   p(i) = One /\ q(i) = One))
             /\ Are(Or(a, b), a.width,
                    LAMBDA i : Bit(One \in {p(i), q(i)} \/ (IsKnown(p(i)) /\ IsKnown(q(i))),
                                   One \in {p(i), q(i)}))
             /\ Are(Xor(a, b), a.width,
                    LAMBDA i : Bit(IsKnown(p(i)) /\ IsKnown(q(i)), p(i) # q(i)))
             /\ Are(Merge(a, b), a.width,
                    LAMBDA i : Bit(IsKnown(p(i)) /\ p(i) = q(i), p(i)[1]))

\* Powers are those of the numbers read, however wide the exponent, with only
\* 1 and -1 to a negative one; a comparison is 0 where known bits differ, x
\* where one not known may, and matches anything where its kind says so;
\* reductions, counts and the number in a machine word are those of the bits
\* (pow, logic_eq to casex_eq, truth to count_ones, needed, to_i64).
DecidesExactly(a, b) ==
    LET n == Read(a)
        e == Read(b)
        size == 2 ^ a.width
        power[k \in 0 .. Most(e, 0)] == IF k = 0 THEN 1 % size ELSE (power[k - 1] * (n % size)) % size
        raised == CASE e >= 0 -> power[e]
                    [] n = 1 -> 1
                    [] n = -1 -> IF e % 2 = 1 THEN -1 ELSE 1
                    [] OTHER -> 0
        known == ~HasUnknown(a) /\ ~HasUnknown(b)
        bits == 0 .. a.width - 1
        Sure(set) == \E i \in set : IsKnown(Pair(a, i)) /\ IsKnown(Pair(b, i)) /\ Pair(a, i) # Pair(b, i)
        Equal(set, free(_)) ==
            LET counted == {i \in set : ~free(i)} IN
            IF Sure(counted) THEN Zero
            ELSE IF \E i \in counted : ~IsKnown(Pair(a, i)) \/ ~IsKnown(Pair(b, i)) THEN X ELSE One
        ones == {i \in bits : Pair(a, i) = One}
    IN /\ Are(Pow(a, b), a.width, LAMBDA i :
            IF ~known \/ (n = 0 /\ e < 0) THEN X ELSE <<(raised \div 2 ^ i) % 2 = 1, FALSE>>)
       /\ a.width = b.width =>
            /\ LogicEq(a, b) = Equal(bits, LAMBDA i : FALSE)
            /\ WildcardEq(a, b) = Equal(bits, LAMBDA i : ~IsKnown(Pair(b, i)))
            /\ CasexEq(a, b) <=> ~Sure(bits)
            /\ CasezEq(a, b) <=> \A i \in bits : Pair(a, i) = Pair(b, i) \/ Z \in {Pair(a, i), Pair(b, i)}
            /\ CaseEq(a, b) <=> \A i \in bits : Pair(a, i) = Pair(b, i)
       /\ Are(TwoState(a), a.width, LAMBDA i : IF Pair(a, i) = One THEN One ELSE Zero)
       /\ Truth(a) = IF ones # {} THEN One ELSE IF HasUnknown(a) THEN X ELSE Zero
       /\ ReduceAnd(a) = IF \E i \in bits : Pair(a, i) = Zero THEN Zero ELSE IF ones = bits THEN One ELSE X
       /\ ReduceXor(a) = IF HasUnknown(a) THEN X ELSE IF Cardinality(ones) % 2 = 1 THEN One ELSE Zero
       /\ CountOnes(a) = Cardinality(ones)
       /\ Needed(a) = Most(1, CHOOSE k \in 0 .. a.width :
                                /\ \A i \in k .. a.width - 1 : Pair(a, i) = Zero
                                /\ k > 0 => Pair(a, k - 1) # Zero)
       /\ ToNumber(a) = IF ~HasUnknown(a) /\ n \in -(Size \div 2) .. Size \div 2 - 1 THEN {n} ELSE {}
=============================================================================
