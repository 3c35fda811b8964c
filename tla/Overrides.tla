----------------------------- MODULE Overrides -----------------------------
(***************************************************************************)
(* Which files of a design's packages overrides replace (astli-package,    *)
(* overrides.rs).  Units are files in order, each with the package it is   *)
(* of and the names it declares; a grant lets a package (by) replace names *)
(* of another (of).  Packages are known by their place.                    *)
(***************************************************************************)
EXTENDS Naturals, FiniteSets

\* The units that replace a name of a package.
Replacing(grants, units, of, name) ==
    {u \in DOMAIN units :
        /\ name \in units[u].names
        /\ \E g \in grants : g.by = units[u].package /\ g.of = of /\ name \in g.names}

\* The names of a unit that are replaced.
Gone(grants, units, u) ==
    {n \in units[u].names : Replacing(grants, units, units[u].package, n) # {}}

\* Fails if two packages replace one name, or a file would be dropped in part.
Replaced(grants, units) ==
    LET twice == \E g \in grants : \E n \in g.names :
            Cardinality({units[u].package : u \in Replacing(grants, units, g.of, n)}) > 1
        partly == \E u \in DOMAIN units : Gone(grants, units, u) \notin {{}, units[u].names}
    IN [fails |-> twice \/ partly,
        dropped |-> {u \in DOMAIN units : Gone(grants, units, u) # {}}]

---------------------------------------------------------------------------
\* Who has leave to replace a name, and of whom.
Leads(grants, name) == {<<g.by, g.of>> : g \in {g \in grants : name \in g.names}}
Granted(grants) == {g.by : g \in grants} \union {g.of : g \in grants}

\* The packages a package may replace the name of, or that those may, and so
\* on: those in every set closed under leave.
Reached(grants, name, p) ==
    {q \in Granted(grants) : \A ps \in SUBSET Granted(grants) :
        (\A l \in Leads(grants, name) : l[1] \in ps \union {p} => l[2] \in ps) => q \in ps}

\* Whether packages have leave to replace one name of each other, all round.
Round(grants, name) == \E p \in Granted(grants) : p \in Reached(grants, name, p)

\* Unless packages may replace a name of each other, every name declared is
\* declared by what is left, and once where each package but one lets another
\* replace it; a file is left whole if nothing replaces what it declares
\* (Dependencies::replaced).
StillDeclared(grants, units) ==
    LET replaced == Replaced(grants, units)
        left == DOMAIN units \ replaced.dropped
        Declaring(n, us) == {u \in us : n \in units[u].names}
    IN ~replaced.fails =>
       \A n \in UNION {units[u].names : u \in DOMAIN units} :
          /\ ~Round(grants, n) => Declaring(n, left) # {}
          /\ \A u, v \in Declaring(n, left) :
                ~\E g \in grants : g.by = units[u].package /\ g.of = units[v].package /\ n \in g.names

=============================================================================
