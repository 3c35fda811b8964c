------------------------------ MODULE Selects ------------------------------
(***************************************************************************)
(* Types, the parts of a value that selects and members take, and where    *)
(* they lie (astli-sema: types.rs, elab/select.rs, elab/pattern.rs), and   *)
(* the selects a lint names bits by (astli-lint, rules/drivers.rs).        *)
(*                                                                         *)
(* A value that may be missing is a set of at most one.  A packed value is *)
(* a function from its bits, the least significant 0; an unpacked one is   *)
(* a sequence of values.  What a bit holds is any label.                   *)
(***************************************************************************)
EXTENDS Integers, Sequences, SequencesExt, FiniteSets

\* Types.  A packed one is bits side by side.
Scalar == [is |-> "scalar", packed |-> TRUE]
Vector(left, right) == [is |-> "vector", packed |-> TRUE, left |-> left, right |-> right]
PackedArray(left, right, element) ==
    [is |-> "array", packed |-> TRUE, left |-> left, right |-> right, element |-> element]
PackedStruct(members) == [is |-> "struct", packed |-> TRUE, members |-> members]
PackedUnion(members) == [is |-> "union", packed |-> TRUE, members |-> members]
Array(left, right, element) ==
    [is |-> "array", packed |-> FALSE, left |-> left, right |-> right, element |-> element]
Struct(members) == [is |-> "struct", packed |-> FALSE, members |-> members]

Size(left, right) == IF left >= right THEN left - right + 1 ELSE right - left + 1

Sums(widths) == FoldLeft(LAMBDA sum, w : sum + w, 0, widths)

RECURSIVE Width(_)
Width(ty) ==
    CASE ty.is = "scalar" -> 1
      [] ty.is = "vector" -> Size(ty.left, ty.right)
      [] ty.is = "array" -> Size(ty.left, ty.right) * Width(ty.element)
      [] ty.is = "struct" -> Sums([m \in DOMAIN ty.members |-> Width(ty.members[m].ty)])
      [] ty.is = "union" -> Max({Width(ty.members[m].ty) : m \in DOMAIN ty.members})

\* The bounds a select indexes, and what one index takes.
Bounds(ty) ==
    CASE ty.is \in {"vector", "array"} -> {<<ty.left, ty.right>>}
      [] ty.packed /\ ty.is \in {"struct", "union"} -> {<<Width(ty) - 1, 0>>}
      [] OTHER -> {}

Element(ty) == IF ty.is = "array" THEN ty.element ELSE Scalar

\* A slice is indexed from 0, whatever it is a slice of.
Slice(ty, count) ==
    CASE ~ty.packed -> Array(0, count - 1, ty.element)
      [] Element(ty) = Scalar -> Vector(count - 1, 0)
      [] OTHER -> PackedArray(count - 1, 0, Element(ty))

-----------------------------------------------------------------------------
(* Selects.  A step is [is |-> "index", at], ":" or "+:" or "-:" with at   *)
(* and by, or "member" with a name; at is missing where it has no value.   *)

Index(at) == [is |-> "index", at |-> at]
Span(is, at, by) == [is |-> is, at |-> at, by |-> by]
Member(name) == [is |-> "member", name |-> name]

Lesser(a, b) == IF a <= b THEN a ELSE b
Greater(a, b) == IF a >= b THEN a ELSE b

\* The lowest index taken, and how many.
Taken(step) ==
    CASE step.is = "index" -> {[low |-> step.at, count |-> 1]}
      [] step.is = ":" -> {[low |-> {Lesser(i, step.by)}, count |-> Size(i, step.by)] : i \in step.at}
      [] step.is = "+:" /\ step.by > 0 -> {[low |-> step.at, count |-> step.by]}
      [] step.is = "-:" /\ step.by > 0 ->
            {[low |-> {i - (step.by - 1) : i \in step.at}, count |-> step.by]}
      [] OTHER -> {}

\* A wrong one: bits are counted from the lowest index, whichever way a
\* vector is indexed.
SelectedFromLow(ty, step) ==
    {LET left == bounds[1]
         right == bounds[2]
         high == {low + taken.count - 1 : low \in taken.low}
     IN IF ty.packed
        THEN [ty |-> IF step.is = "index" THEN Element(ty) ELSE Slice(ty, taken.count),
              first |-> {(low - Lesser(left, right)) * Width(Element(ty)) : low \in taken.low},
              count |-> Width(Element(ty)) * taken.count,
              slice |-> FALSE]
        ELSE [ty |-> IF step.is = "index" THEN ty.element ELSE Slice(ty, taken.count),
              first |-> IF left >= right THEN {left - i : i \in high} ELSE {i - left : i \in taken.low},
              count |-> taken.count,
              slice |-> step.is # "index"]
     : bounds \in Bounds(ty), taken \in Taken(step)}

\* What a select takes: bits, from the one nearest the right bound up, or
\* elements, from the left bound on.
Selected(ty, step) ==
    {LET left == bounds[1]
         right == bounds[2]
         high == {low + taken.count - 1 : low \in taken.low}
     IN IF ty.packed
        THEN [ty |-> IF step.is = "index" THEN Element(ty) ELSE Slice(ty, taken.count),
              first |-> {i * Width(Element(ty)) : i \in
                            IF left >= right THEN {low - right : low \in taken.low}
                            ELSE {right - i : i \in high}},
              count |-> Width(Element(ty)) * taken.count,
              slice |-> FALSE]
        ELSE [ty |-> IF step.is = "index" THEN ty.element ELSE Slice(ty, taken.count),
              first |-> IF left >= right THEN {left - i : i \in high} ELSE {i - left : i \in taken.low},
              count |-> taken.count,
              slice |-> step.is # "index"]
     : bounds \in Bounds(ty), taken \in Taken(step)}

\* The member of a name: its place, and the bit it starts at if packed.
MemberOf(ty, name) ==
    IF ty.is \notin {"struct", "union"} THEN {}
    ELSE {[index |-> m, ty |-> ty.members[m].ty,
           offset |-> CASE ~ty.packed -> {}
                        [] ty.is = "union" -> {0}
                        [] OTHER -> {Sums([i \in 1 .. Len(ty.members) - m |->
                                            Width(ty.members[m + i].ty)])}]
          : m \in {m \in DOMAIN ty.members : ty.members[m].name = name}}

\* One step further into a variable: the first bit, how many, and the type.
Further(at, step) ==
    IF step.is = "member"
    THEN {[first |-> at.first + (IF m.offset # {} THEN CHOOSE o \in m.offset : TRUE
                                 ELSE Sums([i \in 1 .. m.index - 1 |-> Width(at.ty.members[i].ty)])),
           width |-> Width(m.ty), ty |-> m.ty] : m \in MemberOf(at.ty, step.name)}
    ELSE {[first |-> at.first + found[1], width |-> found[2], ty |-> found[3]] : found \in
            {found \in UNION {LET each == IF at.ty.packed THEN 1 ELSE Width(at.ty.element) IN
                              {<<first * each, s.count * each, s.ty>> : first \in s.first}
                              : s \in Selected(at.ty, step)} :
                found[1] >= 0 /\ found[1] + found[2] <= at.width}}

\* Where in its variable a select is, if it is in it.
Reached(ty, steps) ==
    FoldLeft(LAMBDA places, step : UNION {Further(at, step) : at \in places},
             {[first |-> 0, width |-> Width(ty), ty |-> ty]}, steps)

-----------------------------------------------------------------------------
(* What is read, and what an assignment in a constant function writes.     *)

\* A bit unknown, and a value of which nothing is known.
X == -1
Unknown == [i \in {-1} |-> X]
Filled(ty, label) == [i \in 0 .. Width(ty) - 1 |-> label]

RECURSIVE Initial(_)
Initial(ty) ==
    CASE ty.packed -> Filled(ty, X)
      [] ty.is = "array" -> [i \in 1 .. Size(ty.left, ty.right) |-> Initial(ty.element)]
      [] OTHER -> [m \in DOMAIN ty.members |-> Initial(ty.members[m].ty)]

BitsFrom(bits, offset, width) ==
    [i \in 0 .. width - 1 |-> IF offset + i \in DOMAIN bits THEN bits[offset + i] ELSE X]

\* An element past the bounds reads what one starts with.
ElementAt(values, position, ty) ==
    IF position + 1 \in DOMAIN values THEN values[position + 1] ELSE Initial(ty)

Take(value, ty, s) ==
    CASE ty.packed /\ s.first = {} -> Filled(s.ty, X)
      [] ty.packed -> BitsFrom(value, CHOOSE first \in s.first : TRUE, s.count)
      [] s.first = {} /\ ~s.slice -> Initial(s.ty)
      [] s.first = {} -> Unknown
      [] ~s.slice -> ElementAt(value, CHOOSE first \in s.first : TRUE, s.ty)
      [] OTHER -> LET first == CHOOSE first \in s.first : TRUE IN
                  [k \in 1 .. s.count |-> ElementAt(value, first + k - 1, s.ty.element)]

\* A value and its type, one select or member further; none if it is neither.
Read(held, step) ==
    IF held.value = Unknown THEN {[value |-> Unknown, ty |-> held.ty]}
    ELSE IF step.is = "member"
    THEN {[value |-> IF m.offset = {} THEN held.value[m.index]
                     ELSE BitsFrom(held.value, CHOOSE o \in m.offset : TRUE, Width(m.ty)),
           ty |-> m.ty] : m \in MemberOf(held.ty, step.name)}
    ELSE {[value |-> Take(held.value, held.ty, s), ty |-> s.ty] : s \in Selected(held.ty, step)}

ReadAll(ty, value, steps) ==
    FoldLeft(LAMBDA held, step : UNION {Read(h, step) : h \in held},
             {[value |-> value, ty |-> ty]}, steps)

\* The steps an assignment follows to the part it writes; none for a slice of
\* elements, and for an index without a value.
Placed(ty, steps) ==
    FoldLeft(LAMBDA places, step :
                UNION {IF step.is = "member"
                       THEN {[ty |-> m.ty,
                              steps |-> Append(place.steps,
                                IF m.offset = {} THEN [is |-> "part", at |-> m.index]
                                ELSE [is |-> "bits", at |-> CHOOSE o \in m.offset : TRUE,
                                      width |-> Width(m.ty)])] : m \in MemberOf(place.ty, step.name)}
                       ELSE UNION {{[ty |-> s.ty,
                                     steps |-> Append(place.steps,
                                        IF place.ty.packed
                                        THEN [is |-> "bits", at |-> first, width |-> s.count]
                                        ELSE [is |-> "part", at |-> first + 1])]
                                    : first \in IF s.slice THEN {} ELSE s.first}
                                   : s \in Selected(place.ty, step)}
                       : place \in places},
             {[ty |-> ty, steps |-> <<>>]}, steps)

\* A wrong one: bits past those there are written to the first of them.
PutClamped(value, at, part) ==
    [i \in DOMAIN value |-> IF i - at \in DOMAIN part \/ (i = 0 /\ at < 0) THEN part[0] ELSE value[i]]

PutBits(value, at, part) ==
    [i \in DOMAIN value |-> IF i - at \in DOMAIN part THEN part[i - at] ELSE value[i]]

RECURSIVE Put(_, _, _)
Put(value, steps, new) ==
    IF steps = <<>> THEN new
    ELSE LET step == Head(steps) IN
         IF step.is = "bits"
         THEN PutBits(value, step.at, Put(BitsFrom(value, step.at, step.width), Tail(steps), new))
         ELSE IF step.at \in DOMAIN value
         THEN [value EXCEPT ![step.at] = Put(@, Tail(steps), new)]
         ELSE value

-----------------------------------------------------------------------------
(* Assignment patterns.  An item is a key and the label of what it gives,  *)
(* the key [is |-> "next"], "default", "name", "index" or "type" with what *)
(* it names.  What is given is of no slot's own type but a bit's.          *)

RECURSIVE Assigned(_, _)
Assigned(ty, label) ==
    CASE ty.packed -> Filled(ty, label)
      [] ty.is = "array" -> [i \in 1 .. Size(ty.left, ty.right) |-> Assigned(ty.element, label)]
      [] OTHER -> [m \in DOMAIN ty.members |-> Assigned(ty.members[m].ty, label)]

\* What a pattern fills, the left bound or the first member first.
Slots(ty) ==
    CASE ty.is \in {"vector", "array"} ->
            {[tys |-> [i \in 1 .. Size(ty.left, ty.right) |-> Element(ty)], names |-> <<>>]}
      [] ty.is = "struct" ->
            {[tys |-> [m \in DOMAIN ty.members |-> ty.members[m].ty],
              names |-> [m \in DOMAIN ty.members |-> ty.members[m].name]]}
      [] OTHER -> {}

\* The slot a key is of, if it is of one.
SlotOf(ty, slots, key) ==
    CASE key.is = "name" -> {i \in DOMAIN slots.names : slots.names[i] = key.of}
      [] key.is = "index" /\ ty.is # "struct" ->
            {IF ty.left <= ty.right THEN key.of - ty.left + 1 ELSE ty.left - key.of + 1}
                \intersect DOMAIN slots.tys
      [] OTHER -> {}

\* The bits of values side by side, the first the most significant.
Concat(values) ==
    FoldLeft(LAMBDA low, value :
                [i \in 0 .. Cardinality(DOMAIN value) + Cardinality(DOMAIN low) - 1 |->
                    IF i \in DOMAIN value THEN value[i] ELSE low[i - Cardinality(DOMAIN value)]],
             [i \in {} |-> X], values)

Keyed(items, is) == SelectSeq(items, LAMBDA item : item.key.is = is)

\* A wrong one: the first key of a type is the one that counts.
FilledFirst(ty, items, inherited, slots, slot) ==
    LET given == SelectSeq(items, LAMBDA item : SlotOf(ty, slots, item.key) = {slot})
        typed == SelectSeq(Keyed(items, "type"), LAMBDA item : item.key.of = slots.tys[slot])
        default == Keyed(items, "default")
    IN CASE given # <<>> -> {<<"given", Last(given).label>>}
         [] given = <<>> /\ typed # <<>> -> {<<"given", Head(typed).label>>}
         [] OTHER -> {<<"default", label>> : label \in IF default = <<>> THEN inherited
                                                       ELSE {Last(default).label}}

\* What fills a slot: what is given it by name or index, else what is given
\* its type, the last of either, else the default.
FilledBy(ty, items, inherited, slots, slot) ==
    LET given == SelectSeq(items, LAMBDA item : SlotOf(ty, slots, item.key) = {slot})
        typed == SelectSeq(Keyed(items, "type"), LAMBDA item : item.key.of = slots.tys[slot])
        default == Keyed(items, "default")
    IN CASE given # <<>> -> {<<"given", Last(given).label>>}
         [] given = <<>> /\ typed # <<>> -> {<<"given", Last(typed).label>>}
         [] OTHER -> {<<"default", label>> : label \in IF default = <<>> THEN inherited
                                                       ELSE {Last(default).label}}

\* A default goes down into structs and arrays; none where a union is.
RECURSIVE Pattern(_, _, _)
Pattern(ty, items, inherited) ==
    UNION {
      LET n == Len(slots.tys)
          positional == Keyed(items, "next")
          Aggregate(to) == to.is \in {"array", "struct", "union"}
          Value(slot, by) ==
            IF by[1] = "default" /\ Aggregate(slots.tys[slot])
            THEN LET filled == Pattern(slots.tys[slot], <<>>, {by[2]}) IN
                 IF filled = {} THEN {Unknown} ELSE filled
            ELSE {Assigned(slots.tys[slot], by[2])}
          values == [slot \in 1 .. n |->
            IF positional # <<>> THEN {Assigned(slots.tys[slot], items[slot].label)}
            ELSE UNION {Value(slot, by) : by \in FilledBy(ty, items, inherited, slots, slot)}]
      IN IF \/ positional # <<>> /\ (Len(positional) # Len(items) \/ Len(items) # n)
            \/ \E i \in DOMAIN items : items[i].key.is \in {"name", "index"}
                                        /\ SlotOf(ty, slots, items[i].key) = {}
         THEN {}
         ELSE IF \E slot \in 1 .. n : values[slot] = {} \/ (ty.packed /\ values[slot] = {Unknown}) THEN {}
         ELSE LET all == [slot \in 1 .. n |-> CHOOSE v \in values[slot] : TRUE] IN
              {IF ty.packed THEN Concat(all) ELSE all}
      : slots \in Slots(ty)}

-----------------------------------------------------------------------------
(* The bits no write reaches, and the selects a message names them by.     *)
(* Bits are ranges <<from, to>>, to the first past them.                   *)

ByStart(ranges) == SortSeq(ranges, LAMBDA a, b : a[1] < b[1])

\* What of one part no write covers, the writes taken by where they start.
Uncovered(part, have) ==
    LET end == FoldLeft(LAMBDA s, it :
                            IF it[2] <= s.from \/ it[1] >= part[2] THEN s
                            ELSE [from |-> Greater(s.from, it[2]),
                                  missed |-> IF it[1] > s.from THEN Append(s.missed, <<s.from, it[1]>>)
                                             ELSE s.missed],
                        [from |-> part[1], missed |-> <<>>], have)
    IN IF end.from < part[2] THEN Append(end.missed, <<end.from, part[2]>>) ELSE end.missed

\* What touches is told as one.
Merged(ranges) ==
    FoldLeft(LAMBDA all, part :
                IF all # <<>> /\ part[1] <= Last(all)[2]
                THEN Append(Front(all), <<Last(all)[1], Greater(Last(all)[2], part[2])>>)
                ELSE Append(all, part), <<>>, ranges)

Missing(needed, have) ==
    Merged(ByStart(FoldLeft(LAMBDA all, part : all \o Uncovered(part, ByStart(have)), <<>>, ByStart(needed))))

\* The select of entries counted from the right bound.
Indices(left, right, from, to) ==
    LET a == IF left >= right THEN right + to - 1 ELSE right - (to - 1)
        b == IF left >= right THEN right + from ELSE right - from
    IN IF a = b THEN Index({a}) ELSE Span(":", {a}, b)

\* The elements or members of a type, each as its step, type and bits.
Within(ty) ==
    CASE ty.is = "array" ->
            {LET at == IF ty.packed THEN Indices(ty.left, ty.right, k, k + 1)
                       ELSE Index({IF ty.left <= ty.right THEN ty.left + k ELSE ty.left - k})
             IN [step |-> at, ty |-> ty.element,
                 from |-> k * Width(ty.element), to |-> (k + 1) * Width(ty.element)]
             : k \in 0 .. Size(ty.left, ty.right) - 1}
      [] ty.is \in {"struct", "union"} ->
            {LET before == Sums([i \in 1 .. m - 1 |-> Width(ty.members[i].ty)])
                 width == Width(ty.members[m].ty)
                 from == CASE ty.is = "union" -> 0
                           [] ty.packed -> Width(ty) - before - width
                           [] OTHER -> before
             IN [step |-> Member(ty.members[m].name), ty |-> ty.members[m].ty,
                 from |-> from, to |-> from + width] : m \in DOMAIN ty.members}
      [] OTHER -> {}

PartOf == [is |-> "part of"]

RECURSIVE Named(_, _, _)
Named(ty, from, to) ==
    LET each == IF ty.is = "array" THEN Width(ty.element) ELSE 1
        overlapping == {w \in Within(ty) : w.from < to /\ from < w.to}
    IN CASE ty.is = "vector" -> {<<Indices(ty.left, ty.right, from, to)>>}
         [] ty.is = "array" /\ ty.packed /\ from % each = 0 /\ to % each = 0 ->
                {<<Indices(ty.left, ty.right, from \div each, to \div each)>>}
         [] OTHER ->
                IF overlapping = {} THEN {<<PartOf>>}
                ELSE UNION {IF from <= w.from /\ w.to <= to THEN {<<w.step>>}
                            ELSE {<<w.step>> \o steps : steps \in
                                    Named(w.ty, Greater(from, w.from) - w.from,
                                                Lesser(to, w.to) - w.from)}
                            : w \in overlapping}

-----------------------------------------------------------------------------
(* What they promise each other.                                           *)

\* Every bit of a value by where it is in its variable.
RECURSIVE Flat(_, _)
Flat(value, ty) ==
    IF ty.packed THEN value
    ELSE LET parts == IF ty.is = "array" THEN [i \in 1 .. Size(ty.left, ty.right) |-> ty.element]
                      ELSE [m \in DOMAIN ty.members |-> ty.members[m].ty]
         IN Concat(Reverse([i \in DOMAIN parts |-> Flat(value[i], parts[i])]))

RECURSIVE Numbered(_, _)
Numbered(ty, from) ==
    CASE ty.packed -> [i \in 0 .. Width(ty) - 1 |-> from + i]
      [] ty.is = "array" -> [i \in 1 .. Size(ty.left, ty.right) |->
                                Numbered(ty.element, from + (i - 1) * Width(ty.element))]
      [] OTHER -> [m \in DOMAIN ty.members |->
                    Numbered(ty.members[m].ty, from + Sums([i \in 1 .. m - 1 |-> Width(ty.members[i].ty)]))]

New == -2

\* A select reads the bits it is said to reach, and an assignment through it
\* writes those it would read and no other.
ReadsWhatItReaches(ty, steps) ==
    LET read == ReadAll(ty, Numbered(ty, 0), steps)
    IN /\ \A at \in Reached(ty, steps) :
            \A r \in read : Flat(r.value, r.ty) = [i \in 0 .. at.width - 1 |-> at.first + i]
       /\ Reached(ty, steps) # {} => read # {}
       /\ \A place \in Placed(ty, steps), r \in read :
            LET after == Flat(Put(Numbered(ty, 0), place.steps, Assigned(place.ty, New)), ty)
                bits == Flat(r.value, r.ty)
            IN {i \in DOMAIN after : after[i] = New} = {bits[i] : i \in DOMAIN bits} \ {X}

\* The slot a key names, as a select.
Selecting(key) == IF key.is = "name" THEN <<Member(key.of)>> ELSE <<Index({key.of})>>

\* A pattern is what assigning the default to all, each type to the slots of
\* it, and then each name and index, one after another, would leave.
Stepwise(ty, items) ==
    LET Assign(value, steps, label) ==
            LET place == CHOOSE p \in Placed(ty, steps) : TRUE
            IN Put(value, place.steps, Assigned(place.ty, label))
        default == Keyed(items, "default")
        keys == IF ty.is = "struct" THEN {<<Member(ty.members[m].name)>> : m \in DOMAIN ty.members}
                ELSE {<<Index({i})>> : i \in Lesser(ty.left, ty.right) .. Greater(ty.left, ty.right)}
        typed == FoldLeft(LAMBDA value, item :
                    FoldSet(LAMBDA steps, v :
                                IF (CHOOSE p \in Placed(ty, steps) : TRUE).ty = item.key.of
                                THEN Assign(v, steps, item.label) ELSE v, value, keys),
                    Assigned(ty, IF default = <<>> THEN X ELSE Last(default).label),
                    Keyed(items, "type"))
    IN FoldLeft(LAMBDA value, item : Assign(value, Selecting(item.key), item.label), typed,
                SelectSeq(items, LAMBDA item : item.key.is \in {"name", "index"}))

FillsWhatItNames(ty, items) ==
    LET pattern == Pattern(ty, items, {})
        wrong == \E i \in DOMAIN items : items[i].key.is \in {"name", "index"} /\ Reached(ty, Selecting(items[i].key)) = {}
        stepwise == Stepwise(ty, items)
    IN IF wrong THEN pattern = {}
       ELSE IF \E i \in DOMAIN Flat(stepwise, ty) : Flat(stepwise, ty)[i] = X THEN pattern = {}
       ELSE pattern = {stepwise}

\* What a message names is exactly the bits needed that no write reaches.
NamesWhatIsMissed(ty, needed, have) ==
    LET bits == UNION {needed[i][1] .. needed[i][2] - 1 : i \in DOMAIN needed}
        missed == Missing(needed, have)
        covered == UNION {have[i][1] .. have[i][2] - 1 : i \in DOMAIN have}
        names == UNION {Named(ty, missed[i][1], missed[i][2]) : i \in DOMAIN missed}
        Bits(name) == UNION {at.first .. at.first + at.width - 1 : at \in Reached(ty, name)}
    IN /\ \A i \in 1 .. Len(missed) - 1 : missed[i][2] < missed[i + 1][1]
       /\ UNION {missed[i][1] .. missed[i][2] - 1 : i \in DOMAIN missed} = bits \ covered
       /\ (\A name \in names : Last(name) # PartOf) =>
            /\ UNION {Bits(name) : name \in names} = bits \ covered
            /\ \A name \in names : Bits(name) # {}
=============================================================================
