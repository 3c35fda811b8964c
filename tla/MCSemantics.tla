---------------------------- MODULE MCSemantics ----------------------------
(***************************************************************************)
(* The inputs that the modules of astli-sema are given: what may be the    *)
(* next part of one, and what is asked of it.  A type and its selects; a   *)
(* body and its drivers; files and their names; a tree of instances; and   *)
(* expressions, an operand and what is built around it, constant functions *)
(* that are called, and files that read and write a name.                  *)
(***************************************************************************)
EXTENDS Integers, Sequences, SequencesExt, FiniteSets, TLC

T == INSTANCE Selects
D == INSTANCE Drivers WITH Depth <- 6
S == INSTANCE Scopes WITH ExportDepth <- 3, BaseDepth <- 3, StdNames <- {"s"}, ClassMethods <- {"new"}
H == INSTANCE Instances WITH Iterations <- 3
E == INSTANCE Expressions WITH LimbBits <- 2, MaxWidth <- 8
C == INSTANCE Calls WITH Modulus <- 4, MaxDepth <- 3, MaxSteps <- 18
A == INSTANCE Accesses

\* A type, and up to three selects or members one after another.
Down == T!Vector(2, 1)
Up == T!Vector(-1, 1)
Var(name, ty) == [name |-> name, ty |-> ty]
Rows == T!PackedArray(0, 1, Down)
Packed == T!PackedStruct(<<Var("a", Down), Var("b", T!Scalar), Var("c", Rows)>>)
Unpacked == T!Struct(<<Var("a", Up), Var("b", T!Array(2, 1, Down))>>)
Joined == T!PackedUnion(<<Var("a", Rows), Var("b", T!PackedArray(1, 0, Down))>>)
Types ==
    {Up, Rows, Packed, Unpacked, T!Array(2, 1, Unpacked), T!Array(0, 1, T!Array(1, 0, Down)), Joined}
Steps ==
    {T!Index({i}) : i \in -1 .. 3} \union {T!Index({})} \union {T!Member(n) : n \in {"a", "b", "c"}}
    \union {T!Span(is, {i}, by) : is \in {":", "+:", "-:"}, i \in -1 .. 2, by \in 1 .. 2}
    \union {T!Span("+:", {}, 2)}
Selects(given) ==
    CASE given = <<>> -> Types
      [] Len(given) \in 1 .. 3 /\ T!Reached(given[1], Tail(given)) # {} ->
            {step \in Steps : Len(given) = 3 => Last(given).is \in {"index", "member"}}
      [] OTHER -> {}

\* A type, and up to three items of a pattern.
Key(is, of) == [is |-> is, of |-> of]
KeysOf(ty) ==
    IF ty.is = "struct"
    THEN {Key("name", n) : n \in {"a", "b", "c", "d"}} \union {Key("default", 0)}
         \union {Key("type", of) : of \in {Down, Up, Rows}}
    ELSE {Key("index", n) : n \in -1 .. 3} \union {Key("type", T!Element(ty)), Key("default", 0)}
Items(given) ==
    CASE given = <<>> -> Types \ {Joined, T!Array(2, 1, Unpacked)}
      [] Len(given) \in 1 .. 3 -> {[key |-> key, label |-> Len(given)] : key \in KeysOf(given[1])}
      [] OTHER -> {}

\* A type, and up to three ranges of its bits.
Ranges(given) ==
    CASE given = <<>> -> {Up, Rows, Packed, Unpacked}
      [] Len(given) \in 1 .. 3 ->
            {r \in (0 .. T!Width(given[1])) \X (0 .. T!Width(given[1])) : r[2] - r[1] \in {1, 3, 4}}
      [] OTHER -> {}

\* One or two members of a definition, the first of which may hold others.
Bits(is) ==
    CASE is = -2 -> [c \in 0 .. 2 |-> {}]
      [] is = -3 -> [c \in 0 .. 2 |-> {c} \ {0}]
      [] OTHER -> [c \in 0 .. 2 |-> {is}]
Write(home, var, is) ==
    [var |-> var, home |-> home, whole |-> is = -1, bits |-> IF is = -1 THEN Bits(-2) ELSE Bits(is)]
Driver(id, sole, writes) == [is |-> "driver", driver |-> id, sole |-> sole, writes |-> writes]
Generated(id, members) == [id |-> id, members |-> members]
Direct(id) ==
    {Driver(id, sole, <<Write(<<0, 0>>, "v", is)>>) : sole \in BOOLEAN, is \in {-1, 1}}
    \union {Driver(id, TRUE, <<Write(<<0, 0>>, "v", 1), Write(<<0, 0>>, "v", is)>>) : is \in {1, 2}}
Inner(id, home) ==
    {Driver(id, sole, <<Write(<<0, 0>>, "v", is)>>) : sole \in BOOLEAN, is \in {1, -3}}
    \union {Driver(id, TRUE, <<Write(home, "w", -1)>>)}
If(id, other, d, e) == [is |-> "if", arms |-> <<Generated(id, <<d>>), Generated(other, <<e>>)>>]
For(id, members) == [is |-> "for", body |-> Generated(id, members)]
Pieces(n) ==
    LET id(k) == <<n, k>> IN
    Direct(id(0))
    \union {If(id(1), id(2), d, Driver(id(2), TRUE, <<Write(<<0, 0>>, "v", 1)>>)) : d \in Inner(id(1), id(1))}
    \union {For(id(1), <<d>>) : d \in Inner(id(1), id(1))}
Deeper(n) ==
    LET id(k) == <<n, k>> IN
    {For(id(1), <<d, e>>) : d \in Inner(id(1), id(1)), e \in Inner(id(2), id(1))}
    \union {For(id(1), <<d, [is |-> "if", arms |-> <<Generated(id(2), <<e>>)>>]>>) :
                d \in Inner(id(1), id(1)), e \in Inner(id(3), id(1))}
Bodies(given) ==
    CASE given = <<>> -> Pieces(1) \union Deeper(1)
      [] Len(given) = 1 -> Pieces(2)
      [] OTHER -> {}

\* What such a scope may be elaborated to: an if builds an arm or none, a
\* loop runs once or twice, or, if idle, not at all.
RECURSIVE Elaborations(_, _, _)
Blocks(m, copy, idle) ==
    CASE m.is = "driver" -> {<<>>}
      [] m.is = "if" -> {<<>>} \union UNION {{<<f>> : f \in Elaborations(m.arms[a], copy, idle)} : a \in DOMAIN m.arms}
      [] m.is = "for" -> (IF idle THEN {<<>>} ELSE {}) \union {<<f>> : f \in Elaborations(m.body, 1, idle)}
            \union {<<f, g>> : f \in Elaborations(m.body, 1, idle), g \in Elaborations(m.body, 2, idle)}
Elaborations(scope, copy, idle) ==
    {[scope |-> scope.id, copy |-> copy, blocks |-> b] : b \in
        FoldLeft(LAMBDA all, m : {p \o q : p \in all, q \in Blocks(m, copy, idle)}, {<<>>}, scope.members)}

\* An interface, what is made of it, and what is below them.
PortOf(p) == [is |-> "port", port |-> p, at |-> <<>>]
Reaches(sole, base, is) ==
    [sole |-> sole, own |-> <<>>,
     through |-> <<[base |-> base, var |-> "x", whole |-> is = -1, bits |-> {is} \ {-1}]>>]
Owns(sole, home, is) ==
    [sole |-> sole, through |-> <<>>,
     own |-> <<[home |-> home, var |-> "x", whole |-> is = -1, bits |-> {is} \ {-1}]>>]
BodyOf(interface, twice, drivers, children) ==
    [interface |-> interface, twice |-> twice, drivers |-> drivers, children |-> children]
Connected(port, bases) == [p \in IF bases = <<>> THEN {} ELSE {port} |-> bases[1]]
Instanced(name, of, single, connects) ==
    [is |-> "instance", name |-> name, of |-> of, single |-> single, connects |-> connects]
Block(is, name, of) == [is |-> is, name |-> name, of |-> of]
\* An interface, that may drive itself, also from a block of it.
Interfaces ==
    {[x \in {"i"} |-> BodyOf(TRUE, FALSE, own, <<>>)] : own \in {<<>>, <<Owns(TRUE, "i", 1), Owns(TRUE, "i", 1)>>, <<Owns(FALSE, "i", 1)>>}}
    \union {("i" :> BodyOf(TRUE, FALSE, <<>>, <<Block("block", "b", "ib")>>))
            @@ ("ib" :> BodyOf(FALSE, FALSE, <<Owns(TRUE, "i", -1)>>, <<>>))}
\* A module with a port of it, that may hand it on to another.
Modules ==
    {("m" :> BodyOf(FALSE, twice, drivers, <<Instanced("n", "n", TRUE, Connected("q", hands))>>))
     @@ ("n" :> BodyOf(FALSE, FALSE, <<Reaches(TRUE, PortOf("q"), 2)>>, <<>>))
     : twice \in BOOLEAN, drivers \in {<<>>} \union {<<Reaches(s, PortOf("p"), 1)>> : s \in BOOLEAN},
       hands \in {<<>>, <<PortOf("p")>>}}
Base(name, dims, at) == <<[is |-> "instance", name |-> name, home |-> "top", dims |-> dims, at |-> at]>>
Bases == {<<>>, Base("u", 0, <<>>), Base("a", 1, <<{"1"}>>)}
\* A module with interfaces, below others, and what connects to them.
Tops ==
    {("top" :> BodyOf(FALSE, FALSE, drivers,
                <<Instanced("u", "i", TRUE, Connected("p", <<>>)), Instanced("a", "i", FALSE, Connected("p", <<>>)),
                  Instanced("m", "m", TRUE, Connected("p", one)), Block(is, "g", "g")>>))
     @@ ("g" :> BodyOf(FALSE, FALSE, <<>>, <<Instanced("n", "n", TRUE, Connected("q", other))>>))
     @@ ("under" :> BodyOf(FALSE, FALSE, <<>>, <<Instanced("top", "top", TRUE, Connected("p", <<>>))>>))
     @@ ("over" :> BodyOf(FALSE, FALSE, <<>>, <<Instanced("under", "under", TRUE, Connected("p", <<>>))>>))
     : drivers \in {<<>>, <<Reaches(FALSE, Base("u", 0, <<>>)[1], -1)>>,
                          <<Reaches(TRUE, Base("a", 1, <<{"1"}>>)[1], 1)>>},
       one \in Bases \union {Base("a", 1, <<{}>>), Base("a", 1, <<>>)}, other \in Bases,
       is \in {"block", "undecided"}}
Hierarchies(given) ==
    CASE given = <<>> -> Interfaces
      [] Len(given) = 1 -> {given[1] @@ m : m \in Modules}
      [] Len(given) = 2 ->
            {given[2] @@ t : t \in
                {t \in Tops : \/ given[2]["m"].twice \/ t["top"].children[4].is = "undecided"
                              \/ DOMAIN t["top"].children[3].connects = {} => given[1]["i"].drivers = <<>>}}
      [] OTHER -> {}

\* Up to three accesses to three bits.
Access(read, write, whole, certain, part) ==
    [read |-> read, write |-> write, whole |-> whole, certain |-> certain, part |-> part]
Accesses(given) ==
    {a \in {Access(read, write, whole, certain, part) :
                read, write, whole, certain \in BOOLEAN,
                part \in {<<>>} \union {p \in (0 .. 2) \X (1 .. 3) : p[1] < p[2]}} :
        /\ a.read \/ a.write
        /\ a.whole => a.part = <<>>
        /\ Len(given) = 2 => a.write /\ ~a.read /\ a.certain /\ a.part # <<>>
        /\ Len(given) < 3}

---------------------------------------------------------------------------
RightSelects(asks, given) ==
    /\ (asks = "selects" /\ given # <<>>) => T!ReadsWhatItReaches(given[1], Tail(given))
    /\ (asks = "patterns" /\ given # <<>>) => T!FillsWhatItNames(given[1], Tail(given))
    /\ (asks = "missed" /\ given # <<>>) =>
        /\ T!NamesWhatIsMissed(given[1], <<<<0, T!Width(given[1])>>>>, Tail(given))
        /\ Len(given) = 4 => T!NamesWhatIsMissed(given[1], SubSeq(given, 2, 3), <<given[4]>>)

RightDrivers(asks, given) ==
    /\ (asks = "drivers" /\ given # <<>>) =>
        LET scope == Generated(<<0, 0>>, given) IN
        D!BodiesTell(scope, Elaborations(scope, 0, TRUE), Elaborations(scope, 0, FALSE))
    /\ (asks = "interfaces" /\ Len(given) = 3) =>
        LET top == IF DOMAIN given[3]["top"].children[3].connects = {} THEN "over" ELSE "top" IN
        D!TreeTells(given[3], <<"m", top>>)
    /\ asks = "undriven" =>
        \A output, read, write \in BOOLEAN :
            D!UndrivenIsTold(output, 3, given, [read |-> read, write |-> write])

---------------------------------------------------------------------------

Declares(kind, name, scope, of) == [is |-> "declare", kind |-> kind, name |-> name, scope |-> scope, of |-> of]
Variable == Declares("variable", "x", 0, <<>>)
Class(name, scope, of) == Declares("class", name, scope, of)
Typedef(name, of) == Declares("typedef", name, 0, of)
Module(name, scope) == Declares("module", name, scope, <<>>)
Import(package, item) == [is |-> "import", package |-> package, item |-> item]
Export(package, item) == [is |-> "export", package |-> package, item |-> item]
Hidden(names) == [is |-> "opaque", names |-> names]
Nets == [is |-> "nets", uses |-> <<"x">>]
None == [is |-> "none"]
Scope(is, parent, members) == [is |-> is, parent |-> parent, nets |-> TRUE, members |-> members]
Files(name, members) == IF members = <<>> THEN <<>> ELSE <<S!File(name, members)>>

---------------------------------------------------------------------------
\* A module with a block in it, the file around it, two packages and another
\* file.
InModule ==
    {None, Variable, Import("p", <<"x">>), Import("p", <<>>), Import("q", <<>>), Hidden({}), Nets,
     Declares("forward", "x", 0, <<>>)}
NoNets == [is |-> "none", nets |-> FALSE]
BelowBlock == {None, Variable, Nets, NoNets}
InBlock == {None, Variable, Declares("subroutine", "x", 0, <<>>), Nets, Import("p", <<>>), Hidden({})}
InUnit == {None, Variable, Import("p", <<>>), Hidden({"x"})}
InP ==
    {<<>>, <<None>>, <<Variable>>, <<Export("q", <<>>)>>, <<Export("q", <<"x">>)>>, <<Hidden({})>>,
     <<Import("q", <<>>), Export("*", <<>>)>>}
InQ == {<<>>, <<None>>, <<Variable>>, <<Export("p", <<>>)>>, <<Hidden({})>>}
InOther ==
    {<<Declares("package", "p", 2, <<>>), Variable>>, <<Module("x", 2), None>>, <<Hidden({"x"}), None>>}

Imports(parts, package) == \E m \in ToSet(parts) : m.is = "import" /\ m.package = package
Naming(given) ==
    CASE given = <<>> -> InModule
      [] Len(given) = 1 -> IF given[1].is = "nets" THEN BelowBlock ELSE BelowBlock \ {NoNets}
      [] Len(given) = 2 -> {m \in InBlock : m.is = "import" => ~Imports(given, "p")}
      [] Len(given) = 3 -> {m \in InUnit : m.is = "import" => ~Imports(given, "p")}
      [] Len(given) = 4 -> IF Imports(given, "p") THEN InP ELSE {<<>>}
      [] Len(given) = 5 ->
            IF Imports(SubSeq(given, 1, 4), "q") \/ (given[5] # <<>> /\ given[5][1].is \in {"import", "export"})
            THEN InQ ELSE {<<>>}
      [] Len(given) = 6 ->
            {<<>>} \union IF given[4].is \in {"none", "import"} /\ given[2] = None THEN InOther ELSE {}
      [] OTHER -> {}

Nested(given) ==
    << <<Scope("unit", 0, <<given[4], Module("m", 2)>>),
         [Scope("definition", 1, <<given[1], [is |-> "block", scope |-> 3], given[2], None>>)
            EXCEPT !.nets = given[2] # NoNets],
         Scope("block", 2, <<None, given[3], None>>)>> >>
    \o Files("p", given[5]) \o Files("q", given[6])
    \o IF given[7] = <<>> THEN <<>>
       ELSE << <<Scope("unit", 0, <<given[7][1]>>), Scope("definition", 1, <<given[7][2]>>)>> >>

---------------------------------------------------------------------------
\* A class B in a module, what it extends, what is around it, and a package.
FromP(given) ==
    \/ given[1] = <<"p", "A">>
    \/ given[3] \notin {None, Class("A", 2, <<>>)}
    \/ given[5] = Import("p", <<"A">>)
Classes(given) ==
    CASE given = <<>> -> {<<>>, <<"A">>, <<"p", "A">>, <<"Z">>}
      [] Len(given) = 1 -> {None, Variable, Hidden({}), Typedef("A", <<"Z">>)}
      [] Len(given) = 2 ->
            {None, Class("A", 2, <<>>), Class("A", 2, <<"p", "A">>), Typedef("A", <<"p", "A">>), Import("p", <<>>)}
      [] Len(given) = 3 -> IF given[3].is = "declare" /\ given[3].kind = "class" THEN {None, Variable} ELSE {None}
      [] Len(given) = 4 ->
            {None, Class("A", 4, <<>>), Class("A", 4, <<"B">>), Import("p", <<"A">>), Hidden({}), Variable,
             Typedef("A", <<"B">>)}
      [] Len(given) = 5 -> IF given[5].is = "declare" /\ given[5].kind = "class" THEN {None, Variable} ELSE {None}
      [] Len(given) = 6 ->
            {None} \union IF given[5].is = "declare" /\ given[5].kind = "class" THEN {} ELSE {Class("A", 4, <<>>), Variable}
      [] Len(given) = 7 /\ ~FromP(given) -> {<<>>}
      [] Len(given) = 7 /\ FromP(given) ->
            {<<>>, <<Class("A", 3, <<>>), None>>, <<Class("A", 3, <<>>), Variable>>,
             <<Class("A", 3, <<"B">>), Hidden({})>>, <<None, None>>}
      [] OTHER -> {}

Extending(given) ==
    << <<Scope("unit", 0, <<given[3], Module("m", 3)>>),
         Scope("class", 1, <<given[4]>>),
         Scope("definition", 1, <<given[5], Class("B", 5, given[1]), given[7]>>),
         Scope("class", 3, <<given[6]>>),
         Scope("class", 3, <<given[2], None>>)>> >>
    \o IF given[8] = <<>> THEN <<>>
       ELSE <<S!File("p", <<given[8][1]>>) \o <<Scope("class", 2, <<given[8][2]>>)>> >>

---------------------------------------------------------------------------
RightNames(asks, given) ==
    /\ (asks = "names" /\ Len(given) = 7) =>
        /\ S!NetsAreSure(Nested(given), 1, "x")
        /\ \A use \in {<<2, 4>>, <<3, 1>>, <<3, 3>>} :
            S!NamesAreSure(Nested(given), 1, use[1], use[2], "x")
    /\ (asks = "classes" /\ Len(given) = 8) =>
        LET design == Extending(given)
            classes == {at \in S!Those(design, "declare") : S!Symbol(design, at).kind = "class"}
        IN /\ \A c \in classes : S!MembersAreSure(design, c, "x") /\ S!BasesAgree(design, c)
           /\ S!NamesAreSure(design, 1, 5, 2, "x")
           /\ \A base \in {"A", "B", "p"} : S!ScopedIsSure(design, 1, 5, base, "x")
           /\ \A name \in {"x", "A", "B", "m"} : S!BoundAsThere(design, <<1, 3>>, name)

---------------------------------------------------------------------------
\* Trees of instances: definitions, what they instantiate, and what is told
\* from above.

Parameter(name, default, local) == [name |-> name, default |-> default, local |-> local]
Port(name, wanted) == [name |-> name, wanted |-> wanted]
Definition(interface, parameters, ports) == [interface |-> interface, parameters |-> parameters, ports |-> ports]
ScopeOf(parent, members) == [parent |-> parent, members |-> members]
Inst(name, of, overrides, connects) ==
    [is |-> "instance", name |-> name, of |-> of, overrides |-> overrides, connects |-> connects]
Gives(name, value) == [name |-> name, value |-> value]
Connects(port, to) == [port |-> port, to |-> to]
Arm(conditions, scope) == [conditions |-> conditions, scope |-> scope]
Dot(name) == [name |-> name, index |-> <<>>]
At(name, n) == [name |-> name, index |-> <<n>>]
Defparam(path, value) == [is |-> "defparam", path |-> path, what |-> value]
Bind(path, target, instance) == [is |-> "bind", path |-> path, what |-> [target |-> target, instance |-> instance]]
Num(n) == H!Number(n)
P == H!Name("P")

\* What u and v of top are given, what top tells those below it, what m tells
\* y, and what another definition tells top.
Given(name, overrides, connects) == Inst(name, "m", overrides, connects)
Us ==
    {Given("u", o, c) :
        o \in {<<>>, <<Gives("P", H!Name("T"))>>, <<Gives("Q", Num(0)), Gives("L", Num(5))>>},
        c \in {<<>>, <<Connects("p", "a")>>}}
Vs == {Given("v", o, c) : o \in {<<>>, <<Gives("P", Num(0))>>}, c \in {<<Connects("p", "a")>>, <<Connects("p", "b")>>, <<Connects("p", "c")>>}}
X(value) == Inst("x", "i", <<Gives("W", value)>>, <<>>)
Told ==
    {None, Defparam(<<Dot("u"), Dot("P")>>, Num(2)), Defparam(<<Dot("u"), Dot("L")>>, Num(2)),
     Defparam(<<Dot("v"), Dot("y"), Dot("R")>>, H!Name("T")), Defparam(<<Dot("b"), Dot("W")>>, Num(1)),
     Defparam(<<Dot("g"), Dot("w"), Dot("P")>>, H!Name("nowhere")), Defparam(<<At("l", Num(1)), Dot("z"), Dot("R")>>, Num(7)),
     Defparam(<<At("r", H!Name("T")), Dot("z"), Dot("R")>>, Num(8)), Defparam(<<Dot("top"), Dot("v"), Dot("P")>>, Num(0)),
     Bind(<<Dot("u")>>, "", X(P)), Bind(<<Dot("v"), Dot("y")>>, "n", X(H!Name("R"))),
     Bind(<<Dot("g"), Dot("w")>>, "n", X(Num(1))), [is |-> "block", scope |-> "h"]}
Tells == {None, Defparam(<<Dot("y"), Dot("R")>>, P), Bind(<<Dot("y")>>, "n", X(P))}
OthersTell ==
    {None, Defparam(<<Dot("top"), Dot("T")>>, Num(0)), Defparam(<<Dot("top"), Dot("T")>>, Num(3)),
     Defparam(<<Dot("top"), Dot("u"), Dot("P")>>, H!Name("O")),
     Bind(<<Dot("top"), Dot("u")>>, "m", X(P))}

\* Two things told only where u is given its parameter and not connected, and
\* of all others at most one.
Designs(given) ==
    CASE given = <<>> -> Us
      [] Len(given) = 1 -> {v \in Vs : (given[1].connects = <<>> \/ v.connects[1].to = "c") => v.overrides = <<>>}
      [] Len(given) = 2 -> IF given[2].connects[1].to = "c" THEN {None} ELSE Told
      [] Len(given) = 3 -> IF given[1] = Given("u", <<Gives("P", H!Name("T"))>>, <<>>) THEN Told ELSE {None}
      [] Len(given) = 4 -> IF given[4] = None THEN Tells ELSE {None}
      [] Len(given) = 5 -> IF None = given[4] /\ None = given[5] THEN OthersTell ELSE {None}
      [] OTHER -> {}

Made(given) ==
    [definitions |->
        [d \in {"top", "m", "n", "i", "c", "o"} |->
            CASE d = "top" -> Definition(FALSE, <<Parameter("T", Num(1), FALSE)>>, <<>>)
              [] d = "m" -> Definition(FALSE, <<Parameter("P", Num(1), FALSE), Parameter("Q", P, FALSE),
                                                Parameter("L", H!Name("Q"), TRUE)>>, <<Port("p", {})>>)
              [] d = "n" -> Definition(FALSE, <<Parameter("R", Num(1), FALSE)>>, <<Port("q", {"i"})>>)
              [] d \in {"i", "c"} -> Definition(TRUE, <<Parameter("W", Num(0), FALSE)>>, <<>>)
              [] d = "o" -> Definition(FALSE, <<Parameter("O", Num(3), FALSE)>>, <<>>)],
     scopes |->
        [s \in {"top", "m", "n", "i", "c", "o", "g", "l", "r", "h", "e", "f", "k"} |->
            CASE s = "top" ->
                    ScopeOf("", <<given[1], given[2], Inst("a", "i", <<>>, <<>>), Inst("b", "i", <<Gives("W", Num(1))>>, <<>>),
                                Inst("c", "c", <<Gives("W", Num(1))>>, <<>>),
                                [is |-> "if", arms |-> <<Arm(<<H!Name("T")>>, "g")>>],
                                [is |-> "for", genvar |-> "j", from |-> Num(0), to |-> H!Name("T"), scope |-> "l"],
                                [is |-> "for", genvar |-> "j", from |-> Num(1), to |-> Num(3), scope |-> "r"],
                                given[3], given[4]>>)
              [] s = "g" -> ScopeOf("top", <<Inst("w", "m", <<>>, <<Connects("p", "b")>>)>>)
              [] s = "l" -> ScopeOf("top", <<Inst("z", "n", <<Gives("R", H!Name("j"))>>, <<Connects("q", "a")>>)>>)
              [] s = "r" -> ScopeOf("top", <<Inst("z", "n", <<>>, <<Connects("q", "b")>>)>>)
              [] s = "h" -> ScopeOf("top", <<Bind(<<Dot("v"), Dot("y")>>, "", X(Num(4)))>>)
              [] s = "m" -> ScopeOf("", <<Inst("y", "n", <<>>, <<Connects("q", "p")>>), given[5],
                                        [is |-> "case", selector |-> H!Name("L"),
                                         arms |-> <<Arm(<<>>, "e"), Arm(<<Num(1), Num(2)>>, "f")>>]>>)
              [] s = "n" -> ScopeOf("", <<[is |-> "if", arms |-> <<Arm(<<H!InPort("q", "W")>>, "k")>>]>>)
              [] s = "o" -> ScopeOf("", <<given[6]>>)
              [] OTHER -> ScopeOf(CASE s \in {"e", "f"} -> "m" [] s = "k" -> "n" [] OTHER -> "", <<>>)],
     elaborated |-> {"top", "o"}, binds |-> <<[target |-> "n", holder |-> "o", instance |-> X(H!Name("R"))]>>]

RightInstances(asks, given) ==
    (asks = "instances" /\ Len(given) = 6) =>
        LET design == Made(given) IN
        H!BuiltAsNamed(design, "top", 3) /\ H!SharedAsAlone(design, "top", 2)

---------------------------------------------------------------------------

\* An operand is its type and its bits, the highest first.
Value(ty, bits) ==
    LET Ones(i, of) == {b \in 0 .. 1 : i * 2 + b < ty.width /\ bits[ty.width - i * 2 - b][of]} IN
    [width |-> ty.width, signed |-> ty.signed,
     value |-> <<>> @@ [i \in 0 .. (ty.width - 1) \div 2 |-> Ones(i, 1)],
     unknown |-> <<>> @@ [i \in 0 .. (ty.width - 1) \div 2 |-> Ones(i, 2)]]
Of(width, signed, bits) ==
    LET ty == E!Type(width, signed, TRUE) IN
    E!Name(ty, IF bits = <<>> THEN E!NoValue ELSE Value(ty, bits))

Operands ==
    "one" :> Of(1, FALSE, <<E!One>>)
    @@ "three" :> Of(2, FALSE, <<E!One, E!One>>)
    @@ "two" :> Of(3, FALSE, <<E!Zero, E!One, E!Zero>>)
    @@ "minus one" :> Of(2, TRUE, <<E!One, E!One>>)
    @@ "minus three" :> Of(3, TRUE, <<E!One, E!Zero, E!One>>)
    @@ "zero" :> Of(2, TRUE, <<E!Zero, E!Zero>>)
    @@ "x" :> Of(1, FALSE, <<E!X>>)
    @@ "half" :> Of(2, FALSE, <<E!X, E!One>>)
    @@ "sign" :> Of(2, TRUE, <<E!Z, E!Zero>>)
    @@ "none" :> Of(2, TRUE, <<>>)
    @@ "all" :> E!FillOf(E!One)

Operand(name) == [how |-> "operand", op |-> "", with |-> name]
Part(how, op, with) == [how |-> how, op |-> op, with |-> with]

Binaries == E!Contextual \union E!Shifts \union E!Comparing \union E!Logical \union {"**"}
Unaries == {"+", "-", "~", "!", "&", "~&", "|", "~|", "^", "~^"}

\* The expression a part makes around another.
Around(e, part) ==
    LET with == IF part.with = "" THEN e ELSE Operands[part.with] IN
    CASE part.how = "left" -> E!Binary(part.op, e, with)
      [] part.how = "right" -> E!Binary(part.op, with, e)
      [] part.how = "unary" -> E!Unary(part.op, e)
      [] part.how = "yes" -> E!Choice(with, e, Operands["minus three"])
      [] part.how = "no" -> E!Choice(with, Operands["minus one"], e)
      [] part.how = "on" -> E!Choice(e, with, Operands["half"])
      [] part.how = "high" -> E!Concatenation(<<e, with>>)
      [] part.how = "low" -> E!Concatenation(<<with, e>>)
      [] part.how = "repeated" -> E!Replication(with, e)
      [] part.how = "count" -> E!Replication(e, with)
      [] part.how = "times" -> E!Concatenation(<<E!Replication(e, with), Operands["sign"]>>)
      [] part.how = "signing" -> E!Signing(part.op = "signed", e)
      [] part.how = "sizing" -> E!Sizing(with, e)
      [] part.how = "width" -> E!Sizing(e, with)
      [] part.how = "typing" -> E!Typing(E!Type(3, TRUE, part.op = "logic"), e)
      [] part.how = "inside" -> E!Membership(e, <<E!Item(with), E!Between(Operands["zero"], Operands["two"])>>)
      [] part.how = "from" -> E!Membership(Operands["minus one"], <<E!From(e), E!Item(with)>>)

RECURSIVE Built(_)
Built(parts) ==
    IF Len(parts) = 1 THEN Operands[parts[1].with] ELSE Around(Built(Front(parts)), Last(parts))

\* Every operator around every operand; around those, a choice of them.
First == {"one", "three", "minus three", "half", "none", "all"}
Others == {"minus one", "two", "x", "sign", "none"}
Parts(binaries, unaries, with) ==
    {Part("unary", op, "") : op \in unaries}
    \union {Part(how, op, other) : how \in {"left", "right"}, op \in binaries, other \in with}
    \union {Part(how, "", other) : how \in {"yes", "no", "on", "high", "low", "repeated", "count", "times",
                                            "sizing", "width", "inside", "from"}, other \in with}
    \union {Part("signing", op, "") : op \in {"signed", "unsigned"}}
    \union {Part("typing", op, "") : op \in {"logic", "bit"}}

Expressions(parts) ==
    CASE parts = <<>> -> {Operand(name) : name \in First}
      [] Len(parts) = 1 -> {part \in Parts(Binaries, Unaries, Others) :
                                part.op \in {"==?", "!=?"} => part.how = "left"}
      [] Len(parts) = 2 ->
            IF parts[2].with \in {"", "minus one", "x"}
            THEN Parts({"+", "/", ">>>", "<"}, {"-", "|"}, {"x"}) ELSE {}
      [] OTHER -> {}

RightExpressions(parts) ==
    \A target \in {E!Type(4, FALSE, TRUE)} \union (IF Len(parts) < 3 THEN {E!Type(2, TRUE, TRUE)} ELSE {}) :
        E!KnownIsTrue(Built(parts), target)

---------------------------------------------------------------------------
\* Constants of every kind and what is none, each expression of them taken to
\* every width and compared with other operands.
Numbered(width, signed, n) ==
    [width |-> width, signed |-> signed,
     value |-> <<>> @@ [i \in 0 .. (width - 1) \div 2 |->
                            {b \in 0 .. 1 : i * 2 + b < width /\ (n \div 2 ^ (i * 2 + b)) % 2 = 1}],
     unknown |-> <<>> @@ [i \in 0 .. (width - 1) \div 2 |-> {}]]
Wide(what, width, signed, n) == E!OfName(what, E!Type(width, signed, TRUE), Numbered(width, signed, n))
Without(what, width) == E!OfName(what, E!Type(width, FALSE, TRUE), E!NoValue)
HalfKnown == [Numbered(2, FALSE, 1) EXCEPT !.unknown[0] = {1}]

Sources ==
    "bit" :> Without("variable", 1)
    @@ "pair" :> Without("variable", 2)
    @@ "index" :> Without("loop", 2)
    @@ "one" :> Wide("unsized", 4, TRUE, 1)
    @@ "five" :> Wide("unsized", 4, TRUE, 5)
    @@ "sized" :> Wide("sized", 3, FALSE, 1)
    @@ "half" :> E!OfName("sized", E!Type(2, FALSE, TRUE), HalfKnown)
    @@ "three" :> Wide("parameter", 2, FALSE, 3)
    @@ "minus" :> Wide("parameter", 3, TRUE, -3)
    @@ "least" :> Wide("parameter", 3, TRUE, -1)
    @@ "zero" :> Wide("parameter", 3, FALSE, 0)
    @@ "four" :> Wide("parameter", 4, FALSE, 4)
    @@ "unset" :> Without("parameter", 3)
    @@ "time" :> Wide("time", 4, FALSE, 1)
    @@ "unseen" :> E!OfName("unseen", E!Unknown, E!NoValue)
    @@ "fill" :> E!FillOf(E!One)

Taken(e, part) ==
    LET with == IF part.with = "" THEN e ELSE Sources[part.with] IN
    CASE part.how = "left" -> E!Binary(part.op, e, with)
      [] part.how = "right" -> E!Binary(part.op, with, e)
      [] part.how = "unary" -> E!Unary(part.op, e)
      [] part.how = "choice" -> E!Choice(Sources["bit"], e, with)
      [] part.how = "on" -> E!Choice(e, Sources["five"], with)
      [] part.how = "concat" -> E!Concatenation(<<e, with>>)
      [] part.how = "sizing" -> E!Sizing(with, e)

RECURSIVE Source(_)
Source(parts) ==
    IF Len(parts) = 1 THEN Sources[parts[1].with] ELSE Taken(Source(Front(parts)), Last(parts))

Takings(binaries, unaries, with) ==
    {Part("unary", op, "") : op \in unaries}
    \union {Part(how, op, other) : how \in {"left", "right"}, op \in binaries, other \in with}
    \union {Part(how, "", other) : how \in {"choice", "on", "concat", "sizing"}, other \in with}

Widths(given) ==
    CASE given = <<>> -> {Operand(name) : name \in DOMAIN Sources}
      [] Len(given) = 1 ->
            Takings({"+", "-", "*", "/", "&", "<<", ">>", "**", "==", "&&"}, {"+", "-", "~", "|"},
                  {"bit", "pair", "one", "sized", "three", "time", "unset"})
      [] Len(given) = 2 ->
            IF given[1].with \in {"pair", "half", "three", "unset"} /\ given[2].with \in {"", "pair", "three"}
            THEN Takings({"+", ">>"}, {"~"}, {"bit"}) ELSE {}
      [] OTHER -> {}

RightWidths(parts) ==
    LET e == Source(parts) IN
    /\ \A target \in 1 .. 6 : E!WidthIsRight(e, target) /\ E!SilentIsRight(e, target)
    /\ \A name \in {"pair", "five", "sized", "four"} :
            E!ComparedIsRight(e, Sources[name]) /\ E!ComparedIsRight(Sources[name], e)

---------------------------------------------------------------------------

\* The function that is called, f, is built a part at a time: a statement more,
\* or another around those there are.  It may call itself, and g, whose second
\* port has a default.
Read(name) == C!Variable(name)
Below(name, n) == C!Binary("<", Read(name), C!Number(n))
Sum(a, b) == C!Binary("+", a, b)
Self(a) == C!Call("f", <<C!Arg("", <<a>>)>>)

\* g counts its second port up to its first, and adds up what it counts.
G ==
    C!Function(<<C!Port("a", TRUE, <<>>), C!Port("b", TRUE, <<C!Number(1)>>)>>, <<C!Declared("v", <<Read("a")>>)>>,
        <<C!Loop("while", <<C!Binary("<", Read("b"), Read("a"))>>,
              <<C!Block(<<>>, <<C!Expr(C!Postfix("b")), C!Expr(C!Assign("+=", "v", Read("b")))>>)>>),
          C!Expr(C!Assign("=", "g", Read("v")))>>)
Functions(stmts) ==
    "f" :> C!Function(<<C!Port("a", TRUE, <<>>), C!Port("b", TRUE, <<C!Call("g", <<C!Arg("", <<C!Number(2)>>)>>)>>)>>,
                      <<C!Declared("v", <<C!Number(0)>>), C!Declared("w", <<>>)>>, stmts)
    @@ "g" :> G
    @@ "h" :> C!Function(<<C!Port("a", FALSE, <<>>)>>, <<>>, <<>>)

Leaves ==
    "add" :> C!Expr(C!Assign("+=", "v", Read("a")))
    @@ "step" :> C!Expr(C!Assign("+=", "v", C!Postfix("v")))
    @@ "result" :> C!Expr(C!Assign("=", "f", Sum(Read("v"), C!Prefix("a"))))
    @@ "fall" :> C!Expr(C!Assign("=", "v", Read("w")))
    @@ "return" :> C!Return(<<Read("v")>>)
    @@ "leave" :> C!Return(<<>>)
    @@ "again" :> C!If(Below("a", 2), <<C!Return(<<Sum(Self(Sum(Read("a"), C!Number(1))), Read("v"))>>)>>, <<>>)
    @@ "other" :> C!Expr(C!Assign("=", "v", C!Call("g", <<C!Arg("b", <<Read("v")>>), C!Arg("a", <<C!Number(3)>>)>>)))
    @@ "refused" :> C!Expr(C!Assign("=", "v", C!Call("h", <<C!Arg("", <<Read("v")>>)>>)))
    @@ "break" :> C!If(Below("v", 2), <<C!Empty>>, <<C!Break>>)
    @@ "continue" :> C!If(C!Binary("<", C!Number(1), C!Prefix("v")), <<C!Continue>>, <<>>)
    @@ "timed" :> C!Timed
    @@ "value" :> C!Expr(Read("v"))
    @@ "message" :> C!Expr(C!Message)

Wrapped(how, body) ==
    LET one == <<C!Block(<<>>, body)>> IN
    CASE how = "scope" -> C!Block(<<C!Declared("v", <<C!Number(1)>>)>>, body)
      [] how = "if" ->
            C!If(C!Binary("&&", Below("a", 1), C!Binary("<", C!Prefix("v"), C!Number(3))),
                 <<C!Return(<<C!Number(2)>>)>>, one)
      [] how = "case" ->
            C!Case(Read("v"), <<C!Item(<<>>, one), C!Item(<<C!Number(1), Read("w")>>, <<C!Expr(C!Postfix("v"))>>)>>)
      [] how = "label" -> C!Case(Sum(Read("v"), C!Number(1)), <<C!Item(<<Read("a"), C!Postfix("v")>>, one)>>)
      [] how = "for" -> C!For(<<C!Declared("i", <<C!Number(0)>>)>>, <<>>, <<Below("i", 3)>>, <<C!Prefix("i")>>, one)
      [] how = "each" -> C!For(<<>>, <<C!Assign("=", "w", Read("v"))>>, <<Below("w", 3)>>,
                               <<C!Postfix("w"), C!Assign("+=", "v", Read("w"))>>, one)
      [] how = "ever" -> C!For(<<>>, <<>>, <<>>, <<C!Postfix("v")>>, one)
      [] how = "do" -> C!Loop(how, <<C!Binary("<", C!Number(1), Read("v"))>>, one)
      [] OTHER -> C!Loop(how, IF how = "forever" THEN <<>> ELSE <<Below("v", 2)>>, one)

Loops == {"for", "each", "ever", "while", "do", "repeat", "forever"}
Wraps == Loops \union {"scope", "if", "case", "label"}

RECURSIVE Body(_)
Body(parts) ==
    IF parts = <<>> THEN <<>>
    ELSE LET before == Body(Front(parts)) IN
         IF Last(parts) \in Wraps THEN <<Wrapped(Last(parts), before)>> ELSE Append(before, Leaves[Last(parts)])

\* Two parts; a third of a few, and a fourth after those in a loop.
Statements(given) ==
    CASE Len(given) = 0 -> DOMAIN Leaves
      [] Len(given) = 1 -> (DOMAIN Leaves \ {"timed", "value", "message"}) \union Wraps
      [] Len(given) = 2 -> Wraps \union {"add", "result", "return", "again", "break"}
      [] Len(given) = 3 /\ given[3] \in Loops -> {"result", "for"}
      [] OTHER -> {}

\* Called where nothing runs, and within another function, of whose variable
\* what is given is a step.
RightCalls(parts) ==
    LET funs == Functions(Body(parts))
        within == [locals |-> "n" :> 0, depth |-> 1, steps |-> 18]
    IN /\ \A n \in {0, 2} : C!CallIsWorth(funs, Self(C!Number(n)), C!Fresh)
       /\ C!CallIsWorth(funs, C!Call("f", <<C!Arg("b", <<C!Postfix("n")>>), C!Arg("a", <<Read("n")>>)>>), within)

---------------------------------------------------------------------------
\* A name, what is around it in its expression, a part at a time, and a file
\* where that stands everywhere an expression may.
N(symbol) == A!Name(symbol)
Place(e) == A!Arg("place", "", <<e>>)
Named(name, e) == A!Arg("name", name, e)
Ports == <<A!Port("in", "input"), A!Port("out", "output"), A!Port("both", "inout"), A!Port("bus", "none")>>
Nothing == A!Arg("place", "", <<>>)
Call(args) == A!Call(A!Named("f", Ports), args)
Task(name, args) == A!Call(A!System(name), args)

Names ==
    [name |-> N("a"), none |-> N(A!Nobody), scoped |-> A!Scoped("p", "a"),
     member |-> A!Member(N("u"), "a"), opaque |-> A!Opaque(<<"a", A!Nobody>>), leaf |-> A!Leaf]

\* Where an expression stands in another.
Placed(how, e) ==
    CASE how = "step" -> A!Step(e)
      [] how = "operator" -> A!Operator(<<e, N("b")>>)
      [] how = "selected" -> A!Select(e, <<N("i")>>)
      [] how = "index" -> A!Select(N("b"), <<e>>)
      [] how = "end" -> A!Select(N("b"), <<N("i"), e>>)
      [] how = "member" -> A!Member(e, A!Nobody)
      [] how = "reached" -> A!Member(e, "m")
      [] how = "concat" -> A!Concat(<<e, N("b")>>)
      [] how = "stream" -> A!Keyed(<<N("i")>>, <<e>>)
      [] how = "key" -> A!Keyed(<<e>>, <<N("b")>>)
      [] how = "lhs" -> A!Assign("=", e, <<N("b")>>)
      [] how = "more" -> A!Assign("+=", e, <<N("b")>>)
      [] how = "rhs" -> A!Assign("=", N("b"), <<e>>)
      [] how = "input" -> Call(<<Place(e), Place(N("b"))>>)
      [] how = "output" -> Call(<<Place(N("b")), Named("in", <<N("c")>>), Place(e)>>)
      [] how = "third" -> Call(<<Nothing, Nothing, Place(e), Place(N("c")), Place(N("b"))>>)
      [] how = "named" -> Call(<<Named("both", <<e>>), Place(N("b")), Named("out", <<>>)>>)
      [] how = "other" -> Call(<<Named("bus", <<e>>), Named("none", <<N("b")>>)>>)
      [] how = "unknown" -> A!Call(A!Named(A!Nobody, <<>>), <<Place(e)>>)
      [] how = "method" -> A!Call(A!Method(e, <<>>), <<Place(N("b"))>>)
      [] how = "task" -> A!Call(A!Method(e, Ports), <<Place(N("b")), Place(N("c"))>>)
      [] how = "scan" -> Task(how, <<Place(N("b")), Place(N("c")), Place(e), Place(N("d"))>>)
      [] how = "load" -> Task(how, <<Place(N("b")), Place(e), Place(N("c"))>>)
      [] how = "into" -> Task(how, <<Place(e), Place(N("b"))>>)
      [] how = "shown" -> Task(how, <<Place(e)>>)
Places ==
    {"step", "operator", "selected", "index", "end", "member", "reached", "concat", "stream", "key", "lhs", "more",
     "rhs", "input", "output", "third", "named", "other", "unknown", "method", "task", "scan", "load", "into", "shown"}

RECURSIVE Used(_)
Used(parts) ==
    IF Len(parts) = 1 THEN Names[parts[1]]
    ELSE Placed(parts[Len(parts)], Used(SubSeq(parts, 1, Len(parts) - 1)))

\* Every place of a file that an expression may stand at.
Stmts(e) ==
    <<A!Expr(e), A!Trigger(e), A!Override("release", e), A!Override("force", A!Assign("=", e, <<N("b")>>)),
      A!Block(<<A!Data("v", <<N("t")>>, <<e>>), A!Data("w", <<e>>, <<>>)>>, <<A!Expr(A!Assign("=", N("w"), <<N("v")>>))>>),
      A!Branches(<<e, N("c")>>, <<A!Expr(A!Step(N("b")))>>), A!Foreach(<<"x", "y">>, e, <<A!Expr(N("x"))>>)>>
Gate(gate, e) ==
    A!Instance(gate, <<>>, gate, <<>>, <<Place(N("b")), Place(e), Place(N("c"))>>, <<>>)
Instances(e) ==
    <<A!Instance("u", <<e>>, "", Ports,
          <<Place(e), A!Arg("implicit", "out", <<N("out")>>), Named("both", <<e>>), Place(N("b")), Nothing, Nothing, Place(N("c"))>>,
          <<A!Signal("input", N("g")), A!Signal("output", N("h")), A!Signal("none", N("k"))>>),
      A!Instance("w", <<>>, "", <<>>, <<Place(e)>>, <<>>), Gate("buf", e), Gate("pullup", e), Gate("tran", e), Gate("and", e)>>
Signals(e) ==
    <<A!Signal("input", e), A!Signal("output", e), A!Signal("inout", e), A!Signal("clocking", e)>>
Members(e) ==
    <<A!Assigns("l", A!Assign("=", e, <<N("b")>>)), A!Process("q", A!Block(<<>>, Stmts(e))),
      A!Generate(<<e>>, <<<<A!Assigns("r", A!Assign("=", N("b"), <<e>>))>>>>), A!Defparam(A!Assign("=", N("u"), <<e>>)),
      A!Opaque(<<"o">>), A!Data("n", <<e>>, <<e>>),
      A!Subroutine("f", <<N("t")>>, <<A!Data("v", <<>>, <<e>>)>>, <<A!Expr(e)>>),
      A!Definition("m", <<A!Modport(Signals(e))>>),
      A!Definition("k", <<A!Clocking(<<>>, Signals(e), <<A!Data("v", <<N("t")>>, <<e>>)>>)>>)>> \o Instances(e)
File(e) == <<A!Definition("top", <<A!Definition("inner", Members(e))>> \o Instances(e))>> \o Members(e)

\* A name, in two expressions, and in a third of those that pass on how they
\* are used, or say it anew.
Uses(given) ==
    CASE Len(given) = 0 -> DOMAIN Names
      [] Len(given) = 1 -> Places
      [] Len(given) = 2 -> Places
      [] OTHER -> {}

RightAccesses(parts) ==
    LET e == Used(parts) IN A!AccessesAre(IF Len(parts) < 3 THEN File(e) ELSE <<A!Process("q", A!Expr(e))>>)
=============================================================================
