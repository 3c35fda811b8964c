----------------------------- MODULE Candidates -----------------------------
(***************************************************************************)
(* Sets of versions as resolution hands them to PubGrub (astli-resolve,    *)
(* version.rs): the candidates listed, or all but those listed.  A         *)
(* repository may have candidates no set lists.                            *)
(***************************************************************************)
EXTENDS Naturals

CONSTANT Known   \* the candidates, numbers in their order

ASSUME KnownAssumption == Known \subseteq Nat

Sets == [allBut : BOOLEAN, members : SUBSET Known]

Of(members) == [allBut |-> FALSE, members |-> members]
Empty == Of({})
Singleton(c) == Of({c})

Complement(a) == [a EXCEPT !.allBut = ~a.allBut]

Intersection(a, b) ==
    [allBut |-> a.allBut /\ b.allBut,
     members |-> IF ~a.allBut /\ ~b.allBut THEN a.members \intersect b.members
                 ELSE IF ~a.allBut THEN a.members \ b.members
                 ELSE IF ~b.allBut THEN b.members \ a.members
                 ELSE a.members \union b.members]

Holds(a, c) == (c \in a.members) # a.allBut

\* What the solver derives of these.
Full == Complement(Empty)
Union(a, b) == Complement(Intersection(Complement(a), Complement(b)))
Disjoint(a, b) == Intersection(a, b) = Empty
SubsetOf(a, b) == a = Intersection(a, b)

\* The highest of known a set holds; none is \{\}.
Highest(a, known) ==
    LET held == IF a.allBut THEN known \ a.members ELSE a.members IN
    {c \in held : \A d \in held : d <= c}

---------------------------------------------------------------------------
\* What a set means: which candidates it holds, among any that are.
Meaning(a, all) == IF a.allBut THEN all \ a.members ELSE a.members

\* The solver's operations are those on what the sets mean, wherever there is
\* a candidate no set lists, and equal sets are those that mean the same
\* (VersionSet for Candidates).
Exact(a, b, all) ==
    /\ \A c \in all : Holds(a, c) <=> c \in Meaning(a, all)
    /\ Meaning(Complement(a), all) = all \ Meaning(a, all)
    /\ Meaning(Intersection(a, b), all) = Meaning(a, all) \intersect Meaning(b, all)
    /\ Meaning(Union(a, b), all) = Meaning(a, all) \union Meaning(b, all)
    /\ Disjoint(a, b) <=> Meaning(a, all) \intersect Meaning(b, all) = {}
    /\ SubsetOf(a, b) <=> Meaning(a, all) \subseteq Meaning(b, all)
    /\ (a = b) <=> (Meaning(a, all) = Meaning(b, all))

\* The highest of the candidates there are that a set holds, if it holds one
\* (highest).
HighestHeld(a, all) ==
    LET held == Meaning(a, all) IN
    IF held = {} THEN Highest(a, all) = {}
    ELSE \E c \in held : Highest(a, all) = {c} /\ \A d \in held : d <= c
=============================================================================
