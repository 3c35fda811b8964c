---------------------------- MODULE MCAlgorithms ----------------------------
(***************************************************************************)
(* The sequential algorithms, each asked of every input within bounds.  An *)
(* input is a sequence of parts, one more at each step; asks names what it *)
(* is given to.                                                            *)
(***************************************************************************)
EXTENDS Candidates, Integers, Sequences, SequencesExt, FiniteSets

Q == INSTANCE Queries WITH Names <- 1 .. 3, MaxDepth <- 2, MaxSteps <- 2
S == INSTANCE Features WITH Packages <- 0 .. 2, None <- "none"
V == INSTANCE Overrides
I == INSTANCE FileIndex
B == INSTANCE Bits WITH LimbBits <- 2
L == INSTANCE Layout WITH Width <- 5, Step <- 1, MaxPad <- 2
T == INSTANCE Tree WITH MaxDepth <- 3, Verbatim <- 0
E == INSTANCE MCSemantics
R == INSTANCE Layout WITH Width <- 12, Step <- 1, MaxPad <- 2
O == INSTANCE Origins

VARIABLES asks, given

vars == <<asks, given>>

Init ==
    /\ asks \in {"candidates", "queries", "features", "overrides", "index", "bits",
                 "layout", "events", "building", "selects", "patterns", "missed", "drivers", "interfaces",
                 "undriven", "names", "classes", "instances", "expressions", "tables", "calls",
                 "accesses", "widths", "origins"}
    /\ given = <<>>

Given(part) == given' = Append(given, part) /\ UNCHANGED asks

\* Two sets of candidates.
GiveCandidates == asks = "candidates" /\ Len(given) < 2 /\ \E set \in Sets : Given(set)

\* Three definitions of constants.
GiveQueries ==
    /\ asks = "queries" /\ Len(given) < 3
    /\ \E e \in Q!Expressions :
        /\ e.is = "sum" => e.of <= e.other
        /\ e.is = "choose" => e.other = 1
        /\ Given(e)

\* A root that requires two packages, or one, and a package that may require
\* the other, whose feature may ask something of the one.
Requirement(to, defaults, features) == [to |-> to, defaults |-> defaults, features |-> features]
Package(requires, features, default) ==
    [requires |-> requires, features |-> features, default |-> default]
WithF(brings) == [f \in {"f"} |-> brings]
WithG(brings) == [g \in {"g"} |-> brings]
Requirements(to) ==
    {{}} \union {{Requirement(to, TRUE, {})}}
         \union {{Requirement(to, FALSE, {f})} : f \in IF to = 1 THEN {"f"} ELSE {"f", "g"}}
Brought ==
    {b \in SUBSET {<<1, "none">>, <<2, "none">>, <<1, "f">>, <<2, "g">>} : Cardinality(b) <= 2}
Roots ==
    {Package(one \union two, WithF(brings), default) :
        one \in Requirements(1), two \in Requirements(2), brings \in Brought, default \in {{}, {"f"}}}
Ones ==
    {Package(requires, WithF(brings), default) :
        requires \in {{}, {Requirement(2, TRUE, {})}, {Requirement(2, FALSE, {"g"})}},
        brings \in SUBSET {<<2, "none">>, <<2, "g">>}, default \in {{}, {"f"}}}
Twos ==
    {Package({}, WithG(brings), default) : brings \in {{}, {<<1, "f">>}}, default \in {{}, {"g"}}}
GiveFeatures ==
    /\ asks = "features"
    /\ \/ given = <<>> /\ \E root \in Roots : Given(root)
       \/ Len(given) = 1 /\ \E one \in Ones, two \in Twos : Given([one |-> one, two |-> two])

\* What packages have leave to replace, and four files of packages in order.
Grants == {g \in [by : 0 .. 2, of : 0 .. 2, names : {{"n"}, {"n", "m"}}] : g.by # g.of}
GiveOverrides ==
    /\ asks = "overrides"
    /\ \/ given = <<>> /\ \E grants \in SUBSET Grants : Cardinality(grants) <= 2 /\ Given(grants)
       \/ Len(given) \in 1 .. 4
          /\ \E unit \in [package : 0 .. 2, names : {{"n"}, {"m"}, {"n", "m"}}] :
                /\ Len(given) > 1 => Last(given).package <= unit.package
                /\ Given(unit)

\* Three files, of which one may be encrypted.
Body(name) == [name |-> name, prototype |-> FALSE]
Prototype(name) == [name |-> name, prototype |-> TRUE]
Names(names) == [i \in DOMAIN names |-> [name |-> names[i], binds |-> FALSE]]
File(declares, refers, encrypted) == [declares |-> declares, refers |-> refers, encrypted |-> encrypted]
Files ==
    {File(declares, refers, FALSE) :
        declares \in {<<Body("a")>>, <<Body("b")>>, <<Body("c")>>, <<Prototype("a")>>, <<Body("a"), Body("b")>>},
        refers \in {Names(names) : names \in {<<>>, <<"a">>, <<"b">>, <<"c">>, <<"a", "b">>, <<"c", "a">>}}
                        \union {<<[name |-> "a", binds |-> TRUE]>>}}
    \union {File(<<Body("b")>>, Names(<<"a">>), TRUE)}
GiveIndex == asks = "index" /\ Len(given) < 3 /\ \E file \in Files : Given(file)

\* Two values, of widths within a limb and over several.
Values(width, bits) ==
    {[width |-> width, signed |-> signed,
      value |-> [i \in 0 .. B!Limbs(width) - 1 |-> {b \in B!Limb : i * 2 + b < width /\ at[i * 2 + b][1]}],
      unknown |-> [i \in 0 .. B!Limbs(width) - 1 |-> {b \in B!Limb : i * 2 + b < width /\ at[i * 2 + b][2]}]]
     : signed \in BOOLEAN, at \in [0 .. width - 1 -> bits]}
FourState(most) == UNION {Values(width, {B!Zero, B!One, B!X, B!Z}) : width \in 1 .. most}
ThreeState == UNION {Values(width, {B!Zero, B!One, B!X}) : width \in 1 .. 3}
Wide == UNION {Values(width, {B!Zero, B!One}) : width \in 4 .. 5}
GiveBits ==
    /\ asks = "bits"
    /\ \/ given = <<>> /\ \E a \in FourState(3) \union Wide : Given(a)
       \/ /\ Len(given) = 1
          /\ \E b \in IF given[1].width <= 3 THEN FourState(2) \union ThreeState ELSE Wide :
                /\ b.signed = given[1].signed
                /\ b \in Wide => b.width = given[1].width
                /\ Given(b)

\* Four documents one after another, the first a text.
Pieces(n) ==
    {L!Text(n, 1), L!Spaced(n, 2), L!Text(n, 3), L!Token(n, 2, 3), L!Space, L!Line, L!SoftLine, L!HardLine,
     L!BlankLine,
     L!Group(L!Concat(<<L!Text(n, 1), L!Line, L!Text(n, 1), L!SoftLine, L!Text(n, 1)>>)),
     L!Indent(L!Concat(<<L!Line, L!Text(n, 2)>>)),
     L!Align(L!Concat(<<L!Text(n, 1), L!HardLine, L!Text(n, 1)>>)),
     L!Margin(L!Concat(<<L!HardLine, L!Text(n, 1)>>)),
     L!Fill(<<L!Text(n, 1), L!Line, L!Text(n, 2), L!Line, L!Text(n, 1)>>),
     L!Trailing(L!Text(n, 4)),
     LET list == L!Fill(<<L!Text(n, 1), L!Line, L!Text(n, 1)>>) IN
     L!Concat(<<L!Text(n, 1),
                L!Prefer(L!Align(list), L!Concat(<<L!Indent(L!Concat(<<L!SoftLine, list>>)), L!SoftLine>>)),
                L!Text(n, 1)>>)}
GiveLayout ==
    /\ asks = "layout" /\ Len(given) < 4
    /\ IF given = <<>> THEN Given(L!Text(0, 1)) ELSE \E doc \in Pieces(Len(given)) : Given(doc)

Documents(docs) ==
    {L!Concat(docs), L!Group(L!Concat(docs)), L!Indent(L!Group(L!Concat(docs))),
     L!Group(L!Concat(<<docs[1], L!Indent(L!Concat(Tail(docs)))>>))}

\* Seven commands of grammar rules.
GiveEvents ==
    /\ asks = "events" /\ Len(given) < 7
    /\ \E command \in T!Commands : T!Legal(T!Ran(given), command) /\ Given(command)

\* Up to seven events with at most two tokens, and what is between them.
Count(events, is) == Cardinality({i \in DOMAIN events : events[i].is = is})
Between ==
    {<<>>, <<"space">>, <<"newline">>, <<"comment">>, <<"space", "comment", "newline">>,
     <<"block", "comment">>, <<"comment", "newline", "comment">>}
Events == {T!Start(1, 0), T!Token, T!Finish}
Rooted == {events \in UNION {[1 .. n -> Events] : n \in 2 .. 7} :
            /\ events[1] = T!Start(1, 0) /\ Count(events, "token") <= 2
            /\ Count(events, "start") = Count(events, "finish")
            /\ \A i \in 1 .. Len(events) - 1 :
                Count(SubSeq(events, 1, i), "start") > Count(SubSeq(events, 1, i), "finish")}
GiveBuilding ==
    /\ asks = "building"
    /\ IF given = <<>> THEN \E events \in Rooted : Given(events)
       ELSE /\ Len(given) < Count(given[1], "token") + 2
            /\ \E gap \in Between : Given(IF Len(given) = 1 THEN gap ELSE <<"rule">> \o gap)

\* The parts of types and of designs.
GiveSelects == asks = "selects" /\ \E part \in E!Selects(given) : Given(part)
GivePatterns == asks = "patterns" /\ \E part \in E!Items(given) : Given(part)
GiveMissed == asks = "missed" /\ \E part \in E!Ranges(given) : Given(part)
GiveDrivers == asks = "drivers" /\ \E part \in E!Bodies(given) : Given(part)
GiveInterfaces == asks = "interfaces" /\ \E part \in E!Hierarchies(given) : Given(part)
GiveUndriven == asks = "undriven" /\ \E part \in E!Accesses(given) : Given(part)
GiveNames == asks = "names" /\ \E part \in E!Naming(given) : Given(part)
GiveClasses == asks = "classes" /\ \E part \in E!Classes(given) : Given(part)
GiveInstances == asks = "instances" /\ \E part \in E!Designs(given) : Given(part)
GiveExpressions == asks = "expressions" /\ \E part \in E!Expressions(given) : Given(part)
GiveCalls == asks = "calls" /\ \E part \in E!Statements(given) : Given(part)
GiveAccesses == asks = "accesses" /\ \E part \in E!Uses(given) : Given(part)
GiveWidths == asks = "widths" /\ \E part \in E!Widths(given) : Given(part)

\* The rows of a table.
CellsOf(nth) ==
    LET At(index, column) == R!Cell(index, column) IN
    {<<At(0, 2)>>, <<At(0, 2), At(1, 6)>>, <<At(1, 5)>>} \union
        IF nth = 1 THEN {<<At(0, 4)>>} ELSE {<<At(0, 5), At(1, 7)>>}

\* The first row may have a later line, under its first cell; the second one
\* of its comment; the third may be past the width.
LaterOf(nth, cells) ==
    LET column == cells[1].column IN
    {<<>>} \union IF nth = 1 THEN {<<R!Later(column, 10, R!Far)>>, <<R!Later(column, 11, 1)>>} ELSE {}
Bare(nth, cells) ==
    {R!Row(cells, Last(cells).column + tail, later) :
        tail \in <<{2, 4}, {4}, {2, 9}>>[nth], later \in LaterOf(nth, cells)}
Ended(nth, cells) ==
    LET column == Last(cells).column + 2
        ofComment == {<<>>} \union IF nth = 2 THEN {<<R!Later(column, 10, R!Far)>>} ELSE {}
    IN {R!Row(Append(cells, R!Cell(R!Comment, column)), column + tail, later \o own) :
          tail \in <<{1, 5}, {1, 5}, {1}>>[nth], later \in LaterOf(nth, cells), own \in ofComment}

\* Three rows.
Rows(before) ==
    LET nth == Len(before) + 1 IN
    IF nth > 3 THEN {} ELSE UNION {Bare(nth, cells) \union Ended(nth, cells) : cells \in CellsOf(nth)}

RightTable(rows) == \A strict \in BOOLEAN : R!AlignedWhereFits(rows, strict)
GiveTables == asks = "tables" /\ \E row \in Rows(given) : Given(row)

\* What expanding a file does to the origins, a step at a time.
Step(is, at, with, path) == [is |-> is, at |-> at, with |-> with, path |-> path]

Taken(state, step) ==
    CASE step.is = "file" -> O!Opened(state, step.path)
      [] step.is = "call" -> O!Called(state, step.at, step.with)
      [] step.is = "more" -> O!More(state, step.with)
      [] step.is = "make" -> O!Made(state)
      [] step.is = "include" -> O!Included(state, step.at, step.path)

RECURSIVE Reached(_)
Reached(steps) == IF steps = <<>> THEN O!Start ELSE Taken(Reached(Front(steps)), Last(steps))

Expansions(steps) ==
    LET state == Reached(steps)
        tokens == DOMAIN state.tokens
        sites == IF Len(steps) < 4 THEN tokens ELSE {Len(state.tokens)}
    IN
    CASE steps = <<>> -> {Step("file", 0, 0, "a")}
      [] Len(steps) > 4 -> {}
      [] OTHER ->
            {Step("call", at, with, "") : at \in sites, with \in tokens}
            \union {Step("include", at, 0, path) : at \in sites, path \in {"a", "b"}}
            \union (IF Last(state.tokens).calls = <<>> THEN {}
                    ELSE {Step("make", 0, 0, "")} \union {Step("more", 0, with, "") : with \in tokens})

RightOrigins(steps) ==
    LET state == Reached(steps) IN
    /\ O!OriginsAreTrue(state)
    /\ \A at \in DOMAIN state.tokens, path \in {"a", "b"} : O!IncludesAreOpen(state, at, path)
GiveOrigins == asks = "origins" /\ \E step \in Expansions(given) : Given(step)

Next ==
    \/ GiveCandidates \/ GiveQueries \/ GiveFeatures \/ GiveOverrides
    \/ GiveIndex \/ GiveBits \/ GiveLayout \/ GiveEvents \/ GiveBuilding
    \/ GiveSelects \/ GivePatterns \/ GiveMissed \/ GiveDrivers \/ GiveInterfaces \/ GiveUndriven
    \/ GiveNames \/ GiveClasses \/ GiveInstances \/ GiveExpressions \/ GiveTables
    \/ GiveCalls \/ GiveAccesses \/ GiveWidths \/ GiveOrigins

Spec == Init /\ [][Next]_vars

---------------------------------------------------------------------------
\* Each property is of what is given after a step: a part more.
Asked(what, parts, count) == asks = what /\ Len(parts) = count

\* Sets of candidates mean what the solver takes them for, and the highest of
\* one is (version.rs); in the design and enabled is exactly what something
\* asks for (features.rs); and what is left when overrides have replaced files
\* still declares every name (overrides.rs).
PackagesAreRight ==
    [][\A parts \in {given'} :
        /\ Asked("candidates", parts, 2) =>
            Exact(parts[1], parts[2], 0 .. 3) /\ HighestHeld(parts[1], 0 .. 3)
        /\ Asked("features", parts, 2) =>
            \A asked \in {{}, {"f"}} :
                S!OnlyWhatIsAsked(0 :> parts[1] @@ 1 :> parts[2].one @@ 2 :> parts[2].two, asked)
        /\ Asked("overrides", parts, 5) => V!StillDeclared(parts[1], Tail(parts))]_vars

\* What constants answer does not depend on which is asked first, but where
\* it may become unknown (elab.rs); and a call of a constant function is worth
\* what its statements mean, within the limits of depth and steps (call.rs).
AnswersAreRight ==
    [][\A parts \in {given'} :
        /\ Asked("queries", parts, 3) =>
             \A order \in {<<1, 2, 3>>, <<3, 2, 1>>} : Q!KnownIsRight(parts, order)
        /\ asks = "calls" => E!RightCalls(parts)]_vars

\* Names mean their bodies, and a top's files are those it needs, in order
\* (index.rs).
IndexIsRight ==
    [][\A parts \in {given'} : asks = "index" =>
        /\ I!MeansItsBody(parts)
        /\ \A tops \in {<<1>>, <<Len(parts), 1>>} : I!NeededInOrder(parts, tops)]_vars

\* Four-state values are the bits they stand for, wherever limbs end, and what
\* is known of an expression is what it is, sized and signed by what is around
\* it, whatever is not known of its operands (value/bits.rs, expr.rs).
BitsAreRight ==
    [][\A parts \in {given'} :
        /\ Asked("bits", parts, 2) =>
            /\ \A at \in -1 .. 3 : B!MovedWhole(parts[1], parts[2], at)
            /\ parts[1].width = parts[2].width => B!ReadsExactly(parts[1], parts[2])
            /\ B!DecidesExactly(parts[1], parts[2])
        /\ asks = "expressions" => E!RightExpressions(parts)]_vars

\* Documents are printed tidily, and broken where they must be and nowhere
\* else; what is in a table lines up where no line is moved past the width for
\* it (doc.rs, align.rs).
LinesAreRight ==
    [][\A parts \in {given'} :
        /\ asks = "layout" =>
            \A doc \in Documents(parts) : L!WrittenTidily(doc) /\ L!BrokenWhereNeeded(doc)
        /\ asks = "tables" => RightTable(parts)]_vars

\* The tree is what rules meant, whatever they took back, and holds every
\* token and comment where it belongs (event.rs, build.rs); every token of a
\* file expanded tells where its bytes are and the calls around it, and no file
\* is included in itself (origins.rs).
TreeIsWhole ==
    [][\A parts \in {given'} :
        /\ asks = "events" => T!ResolvesToMeant(parts)
        /\ (asks = "building" /\ Len(parts) = Count(parts[1], "token") + 2) =>
            T!BuiltWhole(parts[1], FlattenSeq(Tail(parts)))
        /\ asks = "origins" => RightOrigins(parts)]_vars

\* A select reads, reaches and writes the same bits, a pattern fills what it
\* names, and a lint names the bits it misses (select.rs, pattern.rs).
SelectsAreRight == [][\A parts \in {given'} : E!RightSelects(asks, parts)]_vars

\* What is driven twice, or not at all, is told of, once, and nothing else
\* is (drivers.rs of astli-sema and of astli-lint); every use of a name reads or
\* writes it, and is part of what drives it, as what is around it says
\* (access.rs); and a value that loses bits, or is extended into bits it does
\* not reach, is told of (widths.rs).
DriversAreTold ==
    [][\A parts \in {given'} :
        /\ E!RightDrivers(asks, parts)
        /\ asks = "accesses" => E!RightAccesses(parts)
        /\ asks = "widths" => E!RightWidths(parts)]_vars

\* A name means the nearest it may mean, and is said to be declared nowhere
\* only if it is so whatever is not seen (design.rs, resolve.rs).
NamesAreRight == [][\A parts \in {given'} : E!RightNames(asks, parts)]_vars

\* Every instance has the parameters, interfaces and binds that name it, and
\* instances share a body only if what is in them is the same (tree.rs).
InstancesAreRight == [][\A parts \in {given'} : E!RightInstances(asks, parts)]_vars
=============================================================================
