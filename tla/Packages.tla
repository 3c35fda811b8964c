------------------------------ MODULE Packages ------------------------------
(***************************************************************************)
(* The order of a design's packages, what each needs, and the packages     *)
(* refused because they depend on each other (astli-package,               *)
(* dependencies.rs).  Packages are known by their place among those found, *)
(* the root is 0, and a name is its place among the names in their order.  *)
(***************************************************************************)
EXTENDS Naturals, Sequences, FiniteSets

CONSTANTS
    PackageCount, \* how many packages were found
    MaxRequired   \* how many one requires at most

ASSUME PackageCountIsNat == PackageCount \in Nat
ASSUME MaxRequiredIsNat == MaxRequired \in Nat

Root == 0
Packages == 1 .. PackageCount
Lists == UNION {[1 .. n -> Packages] : n \in 0 .. MaxRequired}

VARIABLES
    names, root, required,                    \* what was found
    depth, waiting, settled, open, seeing,    \* how far each is from the root
    refused, order,                           \* what comes of it
    searched, left, seen, below,              \* what each reaches
    stage

found == <<names, root, required>>
settling == <<depth, waiting, settled, open, seeing>>
searching == <<searched, left, seen, below>>
orderVars == <<found, settling, refused, order, searching, stage>>

Requires(p) == IF p = Root THEN root ELSE required[p]

\* Where a list, and which place of it, requires a package.
Places(p) ==
    {at \in (0 .. PackageCount) \X (1 .. MaxRequired) :
        at[2] \in DOMAIN Requires(at[1]) /\ Requires(at[1])[at[2]] = p}

\* All that following what packages require from a list reaches: what is in
\* every set that holds the list and what its members require.
Closed(ps) == \A p \in ps : \A i \in DOMAIN required[p] : required[p][i] \in ps
Below(list) ==
    {p \in Packages : \A ps \in SUBSET Packages :
        Closed(ps) /\ (\A i \in DOMAIN list : list[i] \in ps) => p \in ps}

Searched(n) == IF refused THEN n ELSE order[n]

---------------------------------------------------------------------------
\* Everything found is required, by the root or by what it requires.
OrderInit ==
    /\ names \in {f \in [Packages -> Packages] : \A p, q \in Packages : f[p] = f[q] => p = q}
    /\ root \in Lists
    /\ required \in [Packages -> Lists]
    /\ Below(root) = Packages
    /\ depth = [p \in Packages |-> 0]
    /\ waiting = [p \in Packages |-> Cardinality(Places(p))]
    /\ settled = 0
    /\ open = <<>>
    /\ seeing = [of |-> Root, from |-> 0, at |-> 1]
    /\ refused = FALSE
    /\ order = <<>>
    /\ searched = 0
    /\ left = <<>>
    /\ seen = {}
    /\ below = [p \in Packages |-> {}]
    /\ stage = "settling"

Larger(m, n) == IF m > n THEN m ELSE n

\* A wrong one: a package is settled when it is first seen.
SeeFirst ==
    /\ stage = "settling" /\ seeing.at \in DOMAIN Requires(seeing.of)
    /\ LET to == Requires(seeing.of)[seeing.at]
           far == Larger(depth[to], seeing.from + 1)
       IN /\ depth' = [depth EXCEPT ![to] = far]
          /\ waiting' = [waiting EXCEPT ![to] = waiting[to] - 1]
          /\ IF depth[to] = 0
             THEN settled' = settled + 1 /\ open' = Append(open, [of |-> to, from |-> far])
             ELSE UNCHANGED <<settled, open>>
    /\ seeing' = [seeing EXCEPT !.at = seeing.at + 1]
    /\ UNCHANGED <<found, refused, order, searching, stage>>

\* A package required is as far as the farthest that requires it, and settled
\* once none of them waits to be seen.
See ==
    /\ stage = "settling" /\ seeing.at \in DOMAIN Requires(seeing.of)
    /\ LET to == Requires(seeing.of)[seeing.at]
           far == Larger(depth[to], seeing.from + 1)
       IN /\ depth' = [depth EXCEPT ![to] = far]
          /\ waiting' = [waiting EXCEPT ![to] = waiting[to] - 1]
          /\ IF waiting[to] = 1
             THEN settled' = settled + 1 /\ open' = Append(open, [of |-> to, from |-> far])
             ELSE UNCHANGED <<settled, open>>
    /\ seeing' = [seeing EXCEPT !.at = seeing.at + 1]
    /\ UNCHANGED <<found, refused, order, searching, stage>>

\* What was opened last is seen next.
Pop ==
    /\ stage = "settling" /\ seeing.at \notin DOMAIN Requires(seeing.of) /\ open # <<>>
    /\ LET last == open[Len(open)] IN seeing' = [of |-> last.of, from |-> last.from, at |-> 1]
    /\ open' = SubSeq(open, 1, Len(open) - 1)
    /\ UNCHANGED <<found, depth, waiting, settled, refused, order, searching, stage>>

\* Not all are settled: which of them reach themselves is to be told.
Refuse ==
    /\ stage = "settling" /\ seeing.at \notin DOMAIN Requires(seeing.of) /\ open = <<>>
    /\ settled < PackageCount
    /\ refused' = TRUE
    /\ stage' = "next"
    /\ UNCHANGED <<found, settling, order, searching>>

Before(p, q) == depth[p] > depth[q] \/ (depth[p] = depth[q] /\ names[p] < names[q])

\* The farthest from the root first, ties by name.
SortPackages ==
    /\ stage = "settling" /\ seeing.at \notin DOMAIN Requires(seeing.of) /\ open = <<>>
    /\ settled >= PackageCount
    /\ order' \in {o \in [Packages -> Packages] : \A i, j \in Packages : i < j => Before(o[i], o[j])}
    /\ stage' = "next"
    /\ UNCHANGED <<found, settling, refused, searching>>

\* What a package reaches, itself only if it is in a cycle.
Start ==
    /\ stage = "next" /\ searched < PackageCount
    /\ searched' = searched + 1
    /\ left' = required[Searched(searched + 1)]
    /\ seen' = {}
    /\ stage' = "searching"
    /\ UNCHANGED <<found, settling, refused, order, below>>

Look ==
    /\ stage = "searching" /\ left # <<>>
    /\ LET last == left[Len(left)]
           rest == SubSeq(left, 1, Len(left) - 1)
       IN /\ seen' = seen \union {last}
          /\ left' = IF last \in seen THEN rest ELSE rest \o required[last]
    /\ UNCHANGED <<found, settling, refused, order, searched, below, stage>>

Told ==
    /\ stage = "searching" /\ left = <<>>
    /\ below' = [below EXCEPT ![Searched(searched)] = seen]
    /\ stage' = "next"
    /\ UNCHANGED <<found, settling, refused, order, searched, left, seen>>

Finish ==
    /\ stage = "next" /\ searched = PackageCount
    /\ stage' = "done"
    /\ UNCHANGED <<found, settling, refused, order, searching>>

OrderNext == See \/ Pop \/ Refuse \/ SortPackages \/ Start \/ Look \/ Told \/ Finish

OrderSpec == OrderInit /\ [][OrderNext]_orderVars /\ WF_orderVars(OrderNext)

---------------------------------------------------------------------------
(* What is promised of it.                                                 *)

\* How many of what requires a package waits to be seen never goes below none
\* (a usize in the code), and packages are told apart.
OrderTypeOK ==
    /\ names \in [Packages -> Packages] /\ root \in Lists /\ required \in [Packages -> Lists]
    /\ depth \in [Packages -> Nat] /\ waiting \in [Packages -> Nat] /\ settled \in 0 .. PackageCount
    /\ open \in Seq([of : Packages, from : Nat])
    /\ seeing \in [of : 0 .. PackageCount, from : Nat, at : 1 .. MaxRequired + 1]
    /\ refused \in BOOLEAN
    /\ order \in [Packages -> Packages] \union {<<>>}
    /\ searched \in 0 .. PackageCount /\ left \in Seq(Packages)
    /\ seen \in SUBSET Packages /\ below \in [Packages -> SUBSET Packages]
    /\ stage \in {"settling", "next", "searching", "done"}

\* Chains of requirements of a length, from the root to a package.
Chains(p, length) ==
    {c \in [1 .. length -> Packages] :
        /\ c[length] = p
        /\ \E i \in DOMAIN root : root[i] = c[1]
        /\ \A k \in 1 .. length - 1 : \E i \in DOMAIN required[c[k]] : required[c[k]][i] = c[k + 1]}

\* Whether the longest chain to one is at least as long as that to another.
\* A chain longer than there are packages is round.
AsFar(p, q) ==
    \A n \in Packages : Chains(q, n) # {} => \E m \in Packages : m >= n /\ Chains(p, m) # {}

\* Design and order are refused exactly if packages depend on each other, and
\* those told are the ones that do, not those only below them (ordered).
CyclesAreRefused ==
    stage = "done" =>
        /\ refused <=> \E p \in Packages : p \in Below(required[p])
        /\ refused => \A p \in Packages : p \in below[p] <=> p \in Below(required[p])

\* Otherwise each comes once and after all it requires, those with the longest
\* chain from the root first and ties by name, so in an order that does not
\* depend on how they were found (Dependencies::ordered).
FarthestComeFirst ==
    stage = "done" /\ ~refused =>
        /\ \A p \in Packages : \E i \in Packages : order[i] = p
        /\ \A i, j \in Packages : order[j] \in Below(required[order[i]]) => j < i
        /\ \A i, j \in Packages : i < j =>
              /\ AsFar(order[i], order[j])
              /\ AsFar(order[j], order[i]) => names[order[i]] < names[order[j]]

\* And what a package needs is what it requires and what that needs, with
\* nothing else (Dependency::needs, whose headers it may include).
NeedsAreBelow ==
    stage = "done" /\ ~refused => \A p \in Packages : below[p] = Below(required[p])

\* The order, or the refusal, is right, and every count is one (ordered, and
\* the searches of Dependencies::ordered).
OrderIsRight == OrderTypeOK /\ CyclesAreRefused /\ FarthestComeFirst /\ NeedsAreBelow
=============================================================================
