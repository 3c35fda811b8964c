------------------------------- MODULE Scopes -------------------------------
(***************************************************************************)
(* What names refer to (astli-sema: design.rs, resolve.rs).                *)
(*                                                                         *)
(* A design is a sequence of files, a file one of scopes, the first that   *)
(* of the file itself.  A scope is [is, parent, nets, members]: parent 0   *)
(* for the file's, nets whether a definition lets nets be implicit.  A     *)
(* member is a declaration [is |-> "declare", kind, name, scope, of], scope *)
(* what it opens and of the type or class it names, of no, one or two      *)
(* names; a block [is |-> "block", scope]; an import or an export; what    *)
(* is assigned or connected [is |-> "nets", uses]; or a region not         *)
(* lowered [is |-> "opaque", names].  A symbol is <<file, scope, member>>. *)
(***************************************************************************)
EXTENDS Integers, Sequences, SequencesExt, FiniteSets

CONSTANTS ExportDepth, BaseDepth, StdNames, ClassMethods

Unknown == <<"unknown">>
Undeclared == <<"undeclared">>
Found(symbol) == <<"declared", symbol>>
Implicit(use) == <<"implicit", use>>
IsFound(answer) == answer[1] \in {"declared", "implicit"}

\* The first of several answers that is found; unknown if one is.
Best(answers) ==
    LET found == SelectSeq(answers, IsFound)
    IN CASE found # <<>> -> Head(found)
         [] found = <<>> /\ \E i \in DOMAIN answers : answers[i] = Unknown -> Unknown
         [] OTHER -> Undeclared

Symbol(design, at) == design[at[1]][at[2]].members[at[3]]

\* The scopes from one outwards.
RECURSIVE Around(_, _)
Around(file, scope) == IF scope = 0 THEN <<>> ELSE <<scope>> \o Around(file, file[scope].parent)

Members(file, scope, is) == {i \in DOMAIN file[scope].members : file[scope].members[i].is = is}
IsOpaque(file, scope) == Members(file, scope, "opaque") # {}

Least(indices) == {i \in indices : \A j \in indices : i <= j}
Greatest(indices) == {i \in indices : \A j \in indices : j <= i}

-----------------------------------------------------------------------------
(* The tables of a design.                                                 *)

Announces(kind) == kind \in {"forward", "extern"}

\* What a scope declares as a name: the first, but what announces another
\* gives way to it.
Declared(design, f, scope, name) ==
    LET file == design[f]
        Named == {i \in Members(file, scope, "declare") : file[scope].members[i].name = name}
        Standing == {i \in Named : ~Announces(file[scope].members[i].kind)}
    IN {<<f, scope, i>> : i \in Least(IF Standing # {} THEN Standing ELSE Named)}

\* What the files declare at their top level as a name, first to last.
AtTop(design, name, kinds) ==
    LET In(f) == {i \in Members(design[f], 1, "declare") :
                    design[f][1].members[i].name = name /\ design[f][1].members[i].kind \in kinds}
    IN FlattenSeq([f \in DOMAIN design |-> [n \in 1 .. Cardinality(In(f)) |->
            <<f, 1, CHOOSE i \in In(f) : Cardinality({j \in In(f) : j <= i}) = n>>]])

LastOf(symbols) == IF symbols = <<>> THEN {} ELSE {Last(symbols)}

\* The last body of a name, or else the last that announces it.
Definition(design, name) ==
    LET bodies == AtTop(design, name, {"module"})
    IN LastOf(IF bodies # <<>> THEN bodies ELSE AtTop(design, name, {"extern"}))

Package(design, name) == LastOf(AtTop(design, name, {"package"}))
IsAmbiguous(design, name) == Len(AtTop(design, name, {"package"})) > 1

SpelledOpaque(design, name) ==
    \E f \in DOMAIN design : \E i \in Members(design[f], 1, "opaque") :
        name \in design[f][1].members[i].names

-----------------------------------------------------------------------------
(* What is imported, exported and inherited.                               *)

RECURSIVE MemberOf(_, _, _, _)

\* By name, or else by wildcard.  An item its package lacks is the import's
\* error.
Imported(design, f, scope, name, depth) ==
    LET members == design[f][scope].members
        imports == SelectSeq(members, LAMBDA m : m.is = "import")
        byName == SelectSeq(imports, LAMBDA m : m.item = <<name>>)
        wildcards == SelectSeq(imports, LAMBDA m : m.item = <<>>)
    IN IF byName # <<>>
       THEN LET found == MemberOf(design, Head(byName).package, name, depth)
            IN IF found = Undeclared THEN Unknown ELSE found
       ELSE Best([i \in DOMAIN wildcards |-> MemberOf(design, wildcards[i].package, name, depth)])

\* What a package declares or exports.
MemberOf(design, package, name, depth) ==
    LET at == Package(design, package) IN
    IF at = {} THEN IF package = "std" /\ name \notin StdNames THEN Undeclared ELSE Unknown
    ELSE LET symbol == CHOOSE s \in at : TRUE
             f == symbol[1]
             scope == Symbol(design, symbol).scope
             members == design[f][scope].members
             own == Declared(design, f, scope, name)
             From(m) ==
                CASE m.is = "opaque" -> Unknown
                  [] m.is = "export" /\ m.package = "*" -> Imported(design, f, scope, name, depth + 1)
                  [] m.is = "export" /\ m.package # "*" /\ m.item \in {<<>>, <<name>>} ->
                        MemberOf(design, m.package, name, depth + 1)
                  [] OTHER -> Undeclared
         IN CASE own # {} -> Found(CHOOSE s \in own : TRUE)
              [] own = {} /\ depth = ExportDepth -> Unknown
              [] OTHER -> Best([i \in DOMAIN members |-> From(members[i])]
                               \o IF IsAmbiguous(design, package) THEN <<Unknown>> ELSE <<>>)

\* What a name is declared or imported as from a scope outwards.
Visible(design, f, scope, name) ==
    LET At(s) ==
            LET own == Declared(design, f, s, name) IN
            IF own # {} THEN Found(CHOOSE o \in own : TRUE) ELSE Imported(design, f, s, name, 0)
        scopes == Around(design[f], scope)
        found == Best([n \in DOMAIN scopes |-> At(scopes[n])])
    IN IF IsFound(found) THEN found ELSE Unknown

\* The class a type names, through typedefs, if it is known.
RECURSIVE ClassNamed(_, _, _, _, _)
ClassNamed(design, f, scope, of, depth) ==
    LET found == CASE Len(of) = 1 -> Visible(design, f, scope, of[1])
                   [] Len(of) = 2 -> MemberOf(design, of[1], of[2], 0)
                   [] OTHER -> Unknown
    IN IF ~IsFound(found) THEN {}
       ELSE LET symbol == Symbol(design, found[2]) IN
            CASE symbol.kind = "class" -> {found[2]}
              [] symbol.kind = "typedef" /\ depth < BaseDepth ->
                    ClassNamed(design, found[2][1], found[2][2], symbol.of, depth + 1)
              [] OTHER -> {}

Base(design, class) == ClassNamed(design, class[1], class[2], Symbol(design, class).of, 0)

OfClass(design, class, name) ==
    LET f == class[1]
        scope == Symbol(design, class).scope
        own == Declared(design, f, scope, name)
    IN CASE own # {} -> Found(CHOOSE s \in own : TRUE)
         [] own = {} /\ IsOpaque(design[f], scope) -> Unknown
         [] OTHER -> Undeclared

\* From the classes a class extends, so many of them up.
RECURSIVE InheritedFrom(_, _, _, _)
InheritedFrom(design, class, name, depth) ==
    LET base == Base(design, class)
        own == OfClass(design, CHOOSE b \in base : TRUE, name)
    IN CASE depth = BaseDepth -> Unknown
         [] depth < BaseDepth /\ Symbol(design, class).of = <<>> -> Undeclared
         [] depth < BaseDepth /\ Symbol(design, class).of # <<>> /\ base = {} -> Unknown
         [] OTHER -> IF own # Undeclared THEN own
                     ELSE InheritedFrom(design, CHOOSE b \in base : TRUE, name, depth + 1)

Inherited(design, class, name) == InheritedFrom(design, class, name, 0)

ClassMember(design, class, name) ==
    LET own == OfClass(design, class, name) IN
    IF own # Undeclared THEN own ELSE Inherited(design, class, name)

\* The class a name is of, through a typedef.
ClassAt(design, at) ==
    LET symbol == Symbol(design, at) IN
    CASE symbol.kind = "class" -> {at}
      [] symbol.kind = "typedef" -> ClassNamed(design, at[1], at[2], symbol.of, 0)
      [] OTHER -> {}

-----------------------------------------------------------------------------
(* Names used in a file.  Where the walk is, reached, is a function from   *)
(* the scopes it is among the members of; nets is one from pairs of a      *)
(* scope and a name to the first use of an implicit net.                   *)

Nowhere == [s \in {} |-> 0]

\* The first declaration of its name in its scope, such as a forward one.
Since(file, scope, i) ==
    CHOOSE n \in Least({j \in Members(file, scope, "declare") :
                          file[scope].members[j].name = file[scope].members[i].name}) : TRUE

DeclaredYet(file, reached, symbol) ==
    LET scope == symbol[2]
        i == symbol[3]
    IN \/ scope \notin DOMAIN reached
       \/ file[scope].members[i].kind = "subroutine"
       \/ Since(file, scope, i) <= reached[scope]

\* The class whose scope a scope is.
ClassOf(file, f, scope) ==
    IF file[scope].is # "class" THEN {}
    ELSE {<<f, file[scope].parent, i>> : i \in
            {i \in Members(file, file[scope].parent, "declare") :
                file[file[scope].parent].members[i].scope = scope}}

\* A wrong one: what a scope imports is looked for before the nets it
\* declares implicitly, and it does not wait for what it declares.
OffersBelow(design, f, scope, name, ordered, reached, nets) ==
    LET own == Declared(design, f, scope, name)
        class == ClassOf(design[f], f, scope)
    IN CASE own # {} -> Found(CHOOSE s \in own : TRUE)
         [] <<scope, name>> \in DOMAIN nets -> Implicit(nets[<<scope, name>>])
         [] OTHER -> Best(<<Imported(design, f, scope, name, 0)>>
                          \o SetToSeq({Inherited(design, c, name) : c \in class})
                          \o IF IsOpaque(design[f], scope) THEN <<Unknown>> ELSE <<>>)

\* What one scope has as a name: what it declares, by where the walk is if
\* ordered, then its implicit nets, then its imports, then what it inherits.
Offers(design, f, scope, name, ordered, reached, nets) ==
    LET own == {s \in Declared(design, f, scope, name) :
                    ordered => DeclaredYet(design[f], reached, s)}
        class == ClassOf(design[f], f, scope)
    IN CASE own # {} -> Found(CHOOSE s \in own : TRUE)
         [] own = {} /\ <<scope, name>> \in DOMAIN nets -> Implicit(nets[<<scope, name>>])
         [] OTHER -> Best(<<Imported(design, f, scope, name, 0)>>
                          \o SetToSeq({Inherited(design, c, name) : c \in class})
                          \o IF IsOpaque(design[f], scope) THEN <<Unknown>> ELSE <<>>)

\* In a scope and those around it, then among the design's elements.
FindFrom(design, f, scope, name, ordered, reached, nets) ==
    LET scopes == Around(design[f], scope)
        element == Definition(design, name)
    IN Best([n \in DOMAIN scopes |-> Offers(design, f, scopes[n], name, ordered, reached, nets)]
            \o SetToSeq({Found(e) : e \in element})
            \o IF name \in StdNames \/ SpelledOpaque(design, name) THEN <<Unknown>> ELSE <<>>)

\* The innermost declaration that stands below the use.
Below(design, f, scope, name, ordered, reached) ==
    LET scopes == Around(design[f], scope)
        skipped == FlattenSeq([n \in DOMAIN scopes |-> SetToSeq(
                        {s \in Declared(design, f, scopes[n], name) :
                            ordered /\ ~DeclaredYet(design[f], reached, s)})])
    IN IF skipped = <<>> THEN {} ELSE {Head(skipped)}

\* What a name refers to, and the declaration it is above if it is early.
Find(design, f, scope, name, ordered, reached, nets) ==
    LET found == FindFrom(design, f, scope, name, ordered, reached, nets)
        below == Below(design, f, scope, name, ordered, reached)
    IN IF IsFound(found) \/ below = {} THEN [found |-> found, early |-> {}]
       ELSE [found |-> Found(CHOOSE b \in below : TRUE),
             early |-> IF found = Undeclared THEN below ELSE {}]

Lookup(design, f, scope, name, nets) == Find(design, f, scope, name, FALSE, Nowhere, nets).found

\* `this.name` and `super.name`.
This(design, f, scope, super, name) ==
    LET scopes == Around(design[f], scope)
        classes == FlattenSeq([n \in DOMAIN scopes |-> SetToSeq(ClassOf(design[f], f, scopes[n]))])
        found == IF super THEN Inherited(design, Head(classes), name)
                 ELSE ClassMember(design, Head(classes), name)
    IN IF classes = <<>> \/ (found = Undeclared /\ name \in ClassMethods) THEN Unknown ELSE found

\* A name used by an instance that is bound into a definition.
LookupBound(design, target, name) ==
    LET found == Visible(design, target[1], target[2], name)
        element == Definition(design, name)
    IN IF IsFound(found) THEN found
       ELSE IF element # {} THEN Found(CHOOSE e \in element : TRUE) ELSE Unknown

\* `base::name`: a class in scope comes before a package.
Scoped(design, f, scope, base, name, nets) ==
    LET found == Lookup(design, f, scope, base, nets)
        kind == IF found[1] = "declared" THEN Symbol(design, found[2]).kind ELSE "none"
        class == kind \notin {"none", "module", "extern", "package"}
        named == IF found[1] = "declared" THEN ClassAt(design, found[2]) ELSE {}
        member == ClassMember(design, CHOOSE n \in named : TRUE, name)
    IN CASE named # {} -> IF member = Undeclared /\ name \in ClassMethods THEN Unknown ELSE member
         [] named = {} /\ ~class /\ (Package(design, base) # {} \/ base = "std") ->
                MemberOf(design, base, name, 0)
         [] OTHER -> Unknown

-----------------------------------------------------------------------------
(* Implicit nets, found before any other use.                              *)

AllowsImplicit(file, scope) ==
    LET definitions == SelectSeq(Around(file, scope), LAMBDA s : file[s].is = "definition")
    IN definitions = <<>> \/ file[Head(definitions)].nets

\* Scope after scope, each use of a name that nothing declares, first to last.
ImplicitNets(design, f) ==
    LET file == design[f]
        Uses(scope) ==
            IF ~AllowsImplicit(file, scope) THEN <<>>
            ELSE FlattenSeq([i \in DOMAIN file[scope].members |->
                    LET m == file[scope].members[i] IN
                    IF m.is # "nets" THEN <<>>
                    ELSE [n \in DOMAIN m.uses |-> [scope |-> scope, name |-> m.uses[n], use |-> <<scope, i, n>>]]])
    IN FoldLeft(LAMBDA nets, u :
                    IF Lookup(design, f, u.scope, u.name, nets) # Undeclared THEN nets
                    ELSE [at \in DOMAIN nets \union {<<u.scope, u.name>>} |->
                            IF at \in DOMAIN nets THEN nets[at] ELSE u.use],
                [at \in {} |-> <<>>], FlattenSeq([s \in DOMAIN file |-> Uses(s)]))

\* Where the walk is when it is at a member of a scope: in each scope around
\* it, at what the inner one is opened by.
Opens(file, inner, outer) ==
    CHOOSE i \in DOMAIN file[outer].members :
        file[outer].members[i].is \in {"declare", "block"} /\ file[outer].members[i].scope = inner

Reached(file, scope, i) ==
    LET scopes == Around(file, scope)
        Nth(s) == CHOOSE n \in DOMAIN scopes : scopes[n] = s
    IN [s \in ToSet(scopes) |-> IF s = scope THEN i ELSE Opens(file, scopes[Nth(s) - 1], s)]

-----------------------------------------------------------------------------
(* What they promise.                                                      *)

Cells(design) == UNION {{<<f, s, i>> : s \in DOMAIN design[f], i \in 1 .. 9} : f \in DOMAIN design}
All(design) == {at \in Cells(design) : at[3] \in DOMAIN design[at[1]][at[2]].members}
Those(design, is) == {at \in All(design) : Symbol(design, at).is = is}
Packages(design) == {Symbol(design, at).name : at \in {at \in Those(design, "declare") :
                        at[2] = 1 /\ Symbol(design, at).kind = "package"}}

Held(design, package) ==
    LET at == CHOOSE s \in Package(design, package) : TRUE
    IN ToSet(design[at[1]][Symbol(design, at).scope].members)

\* The packages one exports a name of.
Leads(design, package, name) ==
    {m.package : m \in {m \in Held(design, package) :
        \/ m.is = "export" /\ m.item \in {<<>>, <<name>>}
        \/ /\ m.is = "import" /\ m.item \in {<<>>, <<name>>}
           /\ \E e \in Held(design, package) : e.is = "export" /\ e.package = "*"}}
        \intersect Packages(design)

\* What packages have as a name, from nothing on, as far as exports lead; what
\* one declares itself comes first.
Exposed(design, name) ==
    LET At(p) == CHOOSE s \in Package(design, p) : TRUE
        Own(p) == Declared(design, At(p)[1], Symbol(design, At(p)).scope, name)
    IN FoldSet(LAMBDA n, known : [p \in Packages(design) |->
                    IF Own(p) # {} THEN Own(p) ELSE UNION {known[o] : o \in Leads(design, p, name)}],
               [p \in Packages(design) |-> {}], 0 .. Cardinality(Packages(design)))

Has(exposed, package) == IF package \in DOMAIN exposed THEN exposed[package] ELSE {}

\* An import by name of what its package lacks.
Lacks(design, f, scope, name) ==
    \E s \in ToSet(Around(design[f], scope)) : \E m \in ToSet(design[f][s].members) :
        m.is = "import" /\ m.item = <<name>>

\* Packages that export a name from each other.
InCircles(design, name) ==
    LET led == FoldSet(LAMBDA n, known : [p \in Packages(design) |->
                            Leads(design, p, name) \union UNION {known[o] : o \in Leads(design, p, name)}],
                       [p \in Packages(design) |-> {}], Packages(design))
    IN \E p \in Packages(design) : p \in led[p]

\* The classes above one, none of them twice.
AllAbove(design, class) ==
    FoldSet(LAMBDA n, above :
                LET next == Base(design, IF above = <<>> THEN class ELSE Last(above)) \ ToSet(above)
                IN above \o SetToSeq(next),
            <<>>, 1 .. BaseDepth)

\* A class around a scope extends one not known, or itself.
Untold(design, f, scope) ==
    \E s \in ToSet(Around(design[f], scope)) : \E c \in ClassOf(design[f], f, s) :
        LET classes == <<c>> \o AllAbove(design, c)
        IN Symbol(design, Last(classes)).of # <<>>

\* What a name used at a member of a scope may mean, the nearest first.
Meanings(design, f, scope, i, name, nets) ==
    LET file == design[f]
        reached == Reached(file, scope, i)
        exposed == Exposed(design, name)
        scopes == Around(file, scope)
        Imports(s, item) == UNION {Has(exposed, m.package) : m \in
                                {m \in ToSet(file[s].members) : m.is = "import" /\ m.item = item}}
        Tiers(s) ==
            LET class == ClassOf(file, f, s)
                own == Declared(design, f, s, name)
                above == IF class = {} THEN <<>> ELSE AllAbove(design, CHOOSE c \in class : TRUE)
            IN <<{Found(o) : o \in {o \in own :
                    \/ Symbol(design, o).kind = "subroutine"
                    \/ \E j \in 1 .. reached[s] : file[s].members[j].is = "declare" /\ file[s].members[j].name = name}},
                 {Implicit(nets[at]) : at \in DOMAIN nets \intersect {<<s, name>>}},
                 {Found(o) : o \in Imports(s, <<name>>)},
                 {Found(o) : o \in Imports(s, <<>>)}>>
               \o [n \in DOMAIN above |->
                    {Found(o) : o \in Declared(design, above[n][1], Symbol(design, above[n]).scope, name)}]
    IN FlattenSeq([n \in DOMAIN scopes |-> Tiers(scopes[n])])
       \o <<{Found(d) : d \in Definition(design, name)}>>
       \o [n \in DOMAIN scopes |-> {Found(o) : o \in Declared(design, f, scopes[n], name)}]

Wanted(design) == {Symbol(design, at).package : at \in Those(design, "import") \union Those(design, "export")} \ {"*"}
Complete(design) ==
    /\ Those(design, "opaque") = {}
    /\ Wanted(design) \subseteq Packages(design)
    /\ \A p \in Packages(design) : ~IsAmbiguous(design, p)
    /\ \A at \in Those(design, "declare") :
            Symbol(design, at).kind = "class" /\ Symbol(design, at).of # <<>> => Base(design, at) # {}

Gone == [is |-> "none"]
Variable(name) == [is |-> "declare", kind |-> "variable", name |-> name, scope |-> 0, of |-> <<>>]
File(package, members) ==
    << [is |-> "unit", parent |-> 0, nets |-> TRUE,
        members |-> <<[is |-> "declare", kind |-> "package", name |-> package, scope |-> 2, of |-> <<>>]>>],
       [is |-> "definition", parent |-> 1, nets |-> TRUE, members |-> members] >>

Replaced(design, at, member) == [design EXCEPT ![at[1]][at[2]].members[at[3]] = member]

\* What a design may turn out to be: what is opaque declares a name or not, for
\* other files a module if it spells it and is at the top of one, a package no file declares does, and of one declared twice either stays.
Completed(design, name) ==
    LET Filled(designs, at) ==
            UNION {{Replaced(d, at, fill) : fill \in
                        {Gone, Variable(name)} \union
                        (IF at[2] = 1 /\ name \in Symbol(design, at).names
                         THEN {[Variable(name) EXCEPT !.kind = "module"]} ELSE {})} : d \in designs}
        opaque == Those(design, "opaque")
        filled == FoldSet(LAMBDA at, designs : Filled(designs, at), {design}, opaque)
        missing == Wanted(design) \ Packages(design)
        added == FoldSet(LAMBDA p, designs :
                            UNION {{Append(d, File(p, <<>>)), Append(d, File(p, <<Variable(name)>>))} : d \in designs},
                         filled, missing)
        Kept(d, p) == {at \in Those(d, "declare") : at[2] = 1 /\ Symbol(d, at).kind = "package" /\ Symbol(d, at).name = p}
        Only(d, p) == {FoldSet(LAMBDA at, left : Replaced(left, at, Gone), d, Kept(d, p) \ {keep}) : keep \in Kept(d, p)}
    IN FoldSet(LAMBDA p, designs : UNION {Only(d, p) : d \in designs}, added,
               {p \in Packages(design) : IsAmbiguous(design, p)})

\* A name means the nearest of what it may mean, where nothing is hidden; a
\* name said to be declared nowhere, or only below, is so however what is
\* hidden turns out; and a name not known may be declared there.
NamesAreSure(design, f, scope, i, name) ==
    LET Answer(d) == Find(d, f, scope, name, TRUE, Reached(d[f], scope, i), ImplicitNets(d, f))
        answer == Answer(design)
        meanings == SelectSeq(Meanings(design, f, scope, i, name, ImplicitNets(design, f)), LAMBDA m : m # {})
    IN /\ Complete(design) =>
            \/ answer.found \in (IF meanings = <<>> THEN {Undeclared} ELSE Head(meanings))
            \/ answer.found = Unknown /\ (InCircles(design, name) \/ (meanings = <<>> /\ (Lacks(design, f, scope, name) \/ Untold(design, f, scope))))
       /\ answer.found = Undeclared \/ answer.early # {} =>
            \A d \in Completed(design, name) : Answer(d) = answer
       /\ answer.found = Unknown =>
            \/ InCircles(design, name) \/ Lacks(design, f, scope, name) \/ Untold(design, f, scope)
            \/ \E p \in Packages(design) : IsAmbiguous(design, p)
            \/ \E d \in Completed(design, name) : IsFound(Answer(d).found)

\* The same of a member of a class: one it declares, or the nearest class
\* above it does.  In the class the name means that too, and what it means
\* around the class if the class has no such member.
MembersAreSure(design, class, name) ==
    LET f == class[1]
        scope == Symbol(design, class).scope
        Answer(d) == This(d, f, scope, FALSE, name)
        answer == Answer(design)
        Used(s) == Lookup(design, f, s, name, ImplicitNets(design, f))
        classes == <<class>> \o AllAbove(design, class)
        Own(c) == Declared(design, c[1], Symbol(design, c).scope, name)
        having == SelectSeq(classes, LAMBDA c : Own(c) # {})
        circle == Base(design, Last(classes)) # {}
    IN /\ Complete(design) =>
            \/ answer = IF having = <<>> THEN Undeclared ELSE Found(CHOOSE o \in Own(Head(having)) : TRUE)
            \/ answer = Unknown /\ circle
       /\ answer = Undeclared =>
            /\ \A d \in Completed(design, name) : Answer(d) = Undeclared
            /\ Used(scope) = Used(class[2])
       /\ IsFound(answer) => Used(scope) = answer
       /\ This(design, f, scope, TRUE, name) # answer => Own(class) # {} \/ IsOpaque(design[f], scope)

\* A net is implicit where nothing else declares it, and a name assigned or
\* connected is declared nowhere only if its definition allows no such nets.
NetsAreSure(design, f, name) ==
    LET file == design[f]
        nets == ImplicitNets(design, f)
        Used(scope) == \E m \in ToSet(file[scope].members) : m.is = "nets" /\ name \in ToSet(m.uses)
    IN \A scope \in DOMAIN file :
        /\ <<scope, name>> \in DOMAIN nets =>
            /\ Used(scope) /\ AllowsImplicit(file, scope)
            /\ Lookup(design, f, scope, name, [at \in {} |-> <<>>]) = Undeclared
        /\ Used(scope) /\ Lookup(design, f, scope, name, nets) = Undeclared => ~AllowsImplicit(file, scope)

\* `base::name` is said to be declared nowhere only where it is not, however
\* what is hidden turns out, and means what the name means there.
ScopedIsSure(design, f, scope, base, name) ==
    LET Answer(d) == Scoped(d, f, scope, base, name, ImplicitNets(d, f))
        answer == Answer(design)
    IN /\ answer = Undeclared => \A d \in Completed(design, name) : Answer(d) = Undeclared
       /\ IsFound(answer) =>
            \/ \E c \in ClassAt(design, Lookup(design, f, scope, base, ImplicitNets(design, f))[2]) :
                    answer = This(design, c[1], Symbol(design, c).scope, FALSE, name)
            \/ answer[2] \in Has(Exposed(design, name), base)

\* The class whose members one inherits is the one its extends clause names,
\* unless the class declares that name itself or it is declared below.
BasesAgree(design, class) ==
    LET f == class[1]
        file == design[f]
        of == Symbol(design, class).of
        scope == Symbol(design, class).scope
        named == Find(design, f, scope, of[1], TRUE, Reached(file, class[2], class[3]), ImplicitNets(design, f))
        below == \E s \in ToSet(Around(file, class[2])) : \E at \in Declared(design, f, s, of[1]) :
                    ~DeclaredYet(file, Reached(file, class[2], class[3]), at)
    IN Len(of) = 1 /\ Declared(design, f, scope, of[1]) = {} /\ ~below =>
        /\ named.found[1] = "declared" /\ Symbol(design, named.found[2]).kind = "class" =>
                Base(design, class) = {named.found[2]}
        /\ Base(design, class) # {} => named.found[1] = "declared"

\* A name in an instance bound into a definition is what it is there, and
\* never said to be declared nowhere.
BoundAsThere(design, target, name) ==
    LET bound == LookupBound(design, target, name)
        there == Lookup(design, target[1], target[2], name, ImplicitNets(design, target[1]))
    IN IF there[1] = "declared" THEN bound = there ELSE bound = Unknown
=============================================================================
