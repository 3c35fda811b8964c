------------------------------ MODULE Features ------------------------------
(***************************************************************************)
(* Which packages are in the design and which of their features are        *)
(* enabled (astli-package, features.rs).  Package 0 is the root.  A        *)
(* feature brings in dependencies alone, <<package, None>>, or with a      *)
(* feature of theirs, <<package, feature>>; a dependency some feature      *)
(* brings in alone is optional.  Every package named is among those        *)
(* resolution found.                                                       *)
(***************************************************************************)
EXTENDS Naturals, Sequences, FiniteSets

CONSTANTS
    Packages,  \* the root and what resolution found
    None       \* no feature of a dependency: the dependency itself

\* packages gives each package
\*   requires : what it requires, each a record of a package (to), whether
\*              the defaults are wanted (defaults) and features,
\*   features : what each feature it declares brings,
\*   default  : the features on by default;
\* asked is what is enabled of the root: its own features, or those named.
Optional(package, to) == \E f \in DOMAIN package.features : <<to, None>> \in package.features[f]

Required(package, enabled) ==
    {r \in package.requires :
        \/ ~Optional(package, r.to)
        \/ \E f \in enabled \intersect DOMAIN package.features :
                \E brought \in package.features[f] : brought[1] = r.to}

RECURSIVE Grown(_, _)
Grown(direct, from) ==
    LET next == from \union UNION {{r.to : r \in direct[p]} : p \in from} IN
    IF next = from THEN from ELSE Grown(direct, next)

\* A wrong asking: packages outside the design have their say.
WantedOfAll(packages, direct, reached) ==
    LET required == UNION {direct[p] : p \in DOMAIN direct} IN
    UNION {{<<r.to, f>> : f \in r.features \union
                                IF r.defaults THEN packages[r.to].default ELSE {}} : r \in required}

\* What those in the design ask for: the features of requirements, and the
\* defaults of what some requirement wants them of.
Wanted(packages, direct, reached) ==
    LET required == UNION {direct[p] : p \in reached} IN
    UNION {{<<r.to, f>> : f \in r.features \union
                                IF r.defaults THEN packages[r.to].default ELSE {}} : r \in required}

Declared(packages, on) == on[2] \in DOMAIN packages[on[1]].features

\* Features enabled by those enabled, one of which nobody declares if
\* anything asks for it.
RECURSIVE Followed(_, _)
Followed(packages, on) ==
    LET brought == UNION {packages[o[1]].features[o[2]] : o \in {o \in on : Declared(packages, o)}}
        next == on \union {b \in brought : b[2] # None}
    IN IF next = on THEN on ELSE Followed(packages, next)

\* One turn after another, until what is in the design and what is enabled
\* both stay.
RECURSIVE Turn(_, _, _, _)
Turn(packages, asked, inDesign, enabled) ==
    LET On(p) == {o[2] : o \in {o \in enabled : o[1] = p}}
        direct == [p \in Packages |-> Required(packages[p], On(p))]
        reached == Grown(direct, {0})
        next == Followed(packages, {<<0, f>> : f \in asked} \union Wanted(packages, direct, reached))
    IN IF \E o \in next : ~Declared(packages, o) THEN [fails |-> TRUE]
       ELSE IF reached = inDesign /\ next = enabled
       THEN [fails |-> FALSE, inDesign |-> reached, enabled |-> next,
             needs |-> [p \in Packages \ {0} |-> Grown(direct, {r.to : r \in direct[p]})]]
       ELSE Turn(packages, asked, reached, next)

Select(packages, asked) == Turn(packages, asked, {}, {})

---------------------------------------------------------------------------
(* What selecting means, one fact at a time: <<p, None>> that p is in the  *)
(* design, <<p, f>> that f of p is enabled.                                *)

Follows(packages, facts) ==
    LET In(p) == <<p, None>> \in facts
        Says(p, r) ==
            In(p) /\ \/ \A f \in DOMAIN packages[p].features : <<r.to, None>> \notin packages[p].features[f]
                     \/ \E f \in DOMAIN packages[p].features :
                            <<p, f>> \in facts /\ r.to \in {b[1] : b \in packages[p].features[f]}
        ByRequirement ==
            UNION {UNION {{<<r.to, None>>} \union {<<r.to, f>> : f \in r.features} \union
                            {<<r.to, f>> : f \in {f \in packages[r.to].default : r.defaults}}
                          : r \in {r \in packages[p].requires : Says(p, r)}} : p \in Packages}
        ByFeature ==
            UNION {{b \in packages[p].features[f] : b[2] # None} :
                    <<p, f>> \in {o \in facts : o[2] # None /\ Declared(packages, o)}}
    IN ByRequirement \union ByFeature

RECURSIVE Closure(_, _)
Closure(packages, facts) ==
    LET next == facts \union Follows(packages, facts) IN
    IF next = facts THEN facts ELSE Closure(packages, next)

\* Exactly what something asks for is in the design and enabled, nothing
\* that only the package itself would bring in; it fails only if a feature
\* asked for is declared by nobody; and what a package in the design needs is
\* in the design too (Dependencies::select).
OnlyWhatIsAsked(packages, asked) ==
    LET selected == Select(packages, asked)
        facts == Closure(packages, {<<0, None>>} \union {<<0, f>> : f \in asked})
        enabled == {o \in facts : o[2] # None}
    IN IF \E o \in enabled : ~Declared(packages, o) THEN selected.fails
       ELSE /\ ~selected.fails
            /\ selected.inDesign = {p \in Packages : <<p, None>> \in facts}
            /\ selected.enabled = enabled
            /\ \A p \in selected.inDesign \ {0} : selected.needs[p] \subseteq selected.inDesign
=============================================================================
