--------------------------- MODULE PackageProofs ---------------------------
(***************************************************************************)
(* The order of packages, what each needs and which are refused are right  *)
(* for any packages, however they require each other; and what overrides   *)
(* leave of their files declares all that was declared.                    *)
(***************************************************************************)
EXTENDS Packages, Overrides, Candidates, FiniteSetTheorems, SequenceTheorems, WellFoundedInduction, TLAPS

---------------------------------------------------------------------------
(* The inductive invariant.                                                *)

\* How far a package is, or the root, and whether what it requires was, or is
\* to be, seen.
Far(p) == IF p = Root THEN 0 ELSE depth[p]
Opened(p) == p = Root \/ waiting[p] = 0
IsOpen(p) == \E i \in DOMAIN open : open[i].of = p

\* The places seen: of all lists opened, but those still open, up to where the
\* one being seen is.
SeenAt(at) == Opened(at[1]) /\ ~IsOpen(at[1]) /\ (at[1] = seeing.of => at[2] < seeing.at)
Unseen(p) == {at \in Places(p) : ~SeenAt(at)}
Settled == {p \in Packages : waiting[p] = 0}

OpenInv ==
    /\ seeing.of \in 0 .. PackageCount /\ Opened(seeing.of) /\ ~IsOpen(seeing.of)
    /\ seeing.from = Far(seeing.of)
    /\ seeing.at <= Len(Requires(seeing.of)) + 1
    /\ \A i \in DOMAIN open : waiting[open[i].of] = 0 /\ open[i].from = depth[open[i].of]
    /\ \A i, j \in DOMAIN open : open[i].of = open[j].of => i = j

WaitingInv ==
    /\ \A p \in Packages : waiting[p] = Cardinality(Unseen(p)) /\ Places(p) # {}
    /\ settled = Cardinality(Settled)

DepthInv ==
    /\ \A p \in Packages : \A at \in Places(p) : SeenAt(at) => depth[p] > Far(at[1])
    /\ \A p \in Packages : depth[p] > 0 => Chains(p, depth[p]) # {}
    /\ \A p \in Packages : depth[p] <= settled + 1 /\ (waiting[p] = 0 => depth[p] <= settled)

ResultInv ==
    /\ stage = "settling" => ~refused /\ searched = 0
    /\ stage # "settling" =>
        /\ open = <<>> /\ seeing.at = Len(Requires(seeing.of)) + 1
        /\ refused <=> settled < PackageCount
        /\ ~refused => /\ order \in [Packages -> Packages]
                       /\ \A i, j \in Packages : i < j => Before(order[i], order[j])

Reaching == {left[i] : i \in DOMAIN left} \union seen

SearchInv ==
    /\ stage = "done" => searched = PackageCount
    /\ \A n \in 1 .. searched :
        n < searched \/ stage # "searching" => below[Searched(n)] = Below(required[Searched(n)])
    /\ stage = "searching" =>
        /\ searched \in Packages
        /\ Reaching \subseteq Below(required[Searched(searched)])
        /\ \A i \in DOMAIN required[Searched(searched)] : required[Searched(searched)][i] \in Reaching
        /\ \A p \in seen : \A i \in DOMAIN required[p] : required[p][i] \in Reaching

IInv == OrderTypeOK /\ Below(root) = Packages /\ OpenInv /\ WaitingInv /\ DepthInv /\ ResultInv /\ SearchInv

---------------------------------------------------------------------------
(* Lists, and what following them reaches.                                 *)

LEMMA ListFacts ==
    ASSUME NEW list \in Lists
    PROVE  /\ list \in Seq(Packages) /\ DOMAIN list = 1 .. Len(list)
           /\ Len(list) \in 0 .. MaxRequired
           /\ \A i \in DOMAIN list : list[i] \in Packages
<1>1. PICK n \in 0 .. MaxRequired : list \in [1 .. n -> Packages] BY DEF Lists
<1>2. n \in Nat BY <1>1, MaxRequiredIsNat
<1> QED BY <1>1, <1>2

LEMMA RequiresFacts ==
    ASSUME OrderTypeOK, NEW p \in 0 .. PackageCount
    PROVE  Requires(p) \in Lists
BY PackageCountIsNat DEF OrderTypeOK, Requires, Root, Packages

\* Without what was opened last, the rest is open as it was.
LEMMA RestFacts ==
    ASSUME NEW S, NEW list \in Seq(S), list # <<>>
    PROVE  /\ Len(list) \in Nat \ {0} /\ list[Len(list)] \in S
           /\ SubSeq(list, 1, Len(list) - 1) \in Seq(S)
           /\ Len(SubSeq(list, 1, Len(list) - 1)) = Len(list) - 1
           /\ \A i \in 1 .. Len(list) - 1 : SubSeq(list, 1, Len(list) - 1)[i] = list[i]
<1> DEFINE n == Len(list) - 1
<1>1. Len(list) \in Nat \ {0} /\ n \in Nat BY EmptySeq
<1>2. \A i \in 1 .. Len(list) : list[i] \in S BY ElementOfSeq
<1>3. /\ SubSeq(list, 1, n) \in Seq(S)
      /\ Len(SubSeq(list, 1, n)) = (IF 1 <= n THEN n - 1 + 1 ELSE 0)
      /\ \A i \in 1 .. n - 1 + 1 : SubSeq(list, 1, n)[i] = list[1 + i - 1]
  <2>1. 1 \in Int /\ n \in Int /\ \A i \in 1 .. n : list[i] \in S BY <1>1, <1>2
  <2> HIDE DEF n
  <2> QED BY <2>1, SubSeqProperties
<1>4. n - 1 + 1 = n /\ (IF 1 <= n THEN n ELSE 0) = n /\ \A i \in 1 .. n : 1 + i - 1 = i
  <2>1. n \in Nat BY <1>1
  <2> HIDE DEF n
  <2>2. \A i \in 1 .. n : 1 + i - 1 = i BY <2>1
  <2>3. n - 1 + 1 = n BY <2>1
  <2>4. (IF 1 <= n THEN n ELSE 0) = n BY <2>1
  <2> QED BY <2>2, <2>3, <2>4
<1>5. Len(list) \in 1 .. Len(list) BY <1>1
<1>6. /\ Len(SubSeq(list, 1, n)) = n
      /\ \A i \in 1 .. n : SubSeq(list, 1, n)[i] = list[i]
  <2> HIDE DEF n
  <2> QED BY <1>3, <1>4
<1> QED BY <1>1, <1>2, <1>3, <1>5, <1>6

LEMMA OpenFacts ==
    ASSUME OrderTypeOK
    PROVE  /\ Len(open) \in Nat /\ DOMAIN open = 1 .. Len(open)
           /\ \A i \in DOMAIN open : open[i].of \in Packages /\ open[i].from \in Nat
<1> DEFINE S == [of : Packages, from : Nat]
<1>1. open \in Seq(S) BY DEF OrderTypeOK
<1>2. \A e \in S : e.of \in Packages /\ e.from \in Nat OBVIOUS
<1> HIDE DEF S
<1>3. Len(open) \in Nat /\ DOMAIN open = 1 .. Len(open) BY <1>1, LenProperties
<1>4. \A i \in DOMAIN open : open[i] \in S BY <1>1, <1>3, ElementOfSeq
<1> QED BY <1>2, <1>3, <1>4

LEMMA BelowFacts ==
    ASSUME required \in [Packages -> Lists], NEW list \in Lists
    PROVE  /\ Below(list) \subseteq Packages
           /\ \A i \in DOMAIN list : list[i] \in Below(list)
           /\ \A p \in Below(list) : \A i \in DOMAIN required[p] : required[p][i] \in Below(list)
           /\ \A p \in Below(list) : Below(required[p]) \subseteq Below(list)
<1>1. Below(list) \subseteq Packages BY DEF Below
<1>2. \A i \in DOMAIN list : list[i] \in Below(list) BY ListFacts DEF Below
<1>3. ASSUME NEW p \in Below(list), NEW i \in DOMAIN required[p]
      PROVE  required[p][i] \in Below(list)
  <2>1. required[p] \in Lists BY <1>1
  <2>2. required[p][i] \in Packages BY <2>1, ListFacts
  <2> QED BY <1>3, <2>2 DEF Below, Closed
<1>4. ASSUME NEW p \in Below(list) PROVE Below(required[p]) \subseteq Below(list)
  <2>1. Closed(Below(list)) BY <1>3 DEF Closed
  <2> QED BY <1>1, <1>3, <2>1 DEF Below
<1> QED BY <1>1, <1>2, <1>3, <1>4

LEMMA BelowLeast ==
    ASSUME NEW list, NEW ps \in SUBSET Packages, Closed(ps), \A i \in DOMAIN list : list[i] \in ps
    PROVE  Below(list) \subseteq ps
BY DEF Below

LEMMA PlacesFinite ==
    ASSUME NEW p
    PROVE  /\ IsFiniteSet(Places(p))
           /\ IsFiniteSet(Unseen(p)) /\ Cardinality(Unseen(p)) \in Nat
           /\ Unseen(p) = {} <=> Cardinality(Unseen(p)) = 0
<1> DEFINE All == (0 .. PackageCount) \X (1 .. MaxRequired)
<1>1. IsFiniteSet(0 .. PackageCount) /\ IsFiniteSet(1 .. MaxRequired)
  BY PackageCountIsNat, MaxRequiredIsNat, FS_Interval
<1>2. IsFiniteSet(All) BY <1>1, FS_Product
<1>3. Places(p) \in SUBSET All /\ Unseen(p) \in SUBSET All BY DEF Places, Unseen
<1> HIDE DEF All
<1>4. IsFiniteSet(Places(p)) /\ IsFiniteSet(Unseen(p)) BY <1>2, <1>3, FS_Subset
<1> QED BY <1>4, FS_CardinalityType, FS_EmptySet

LEMMA PackagesFinite ==
    /\ IsFiniteSet(Packages) /\ Cardinality(Packages) = PackageCount
    /\ IsFiniteSet(Settled) /\ Cardinality(Settled) \in 0 .. PackageCount
    /\ Cardinality(Settled) = PackageCount <=> Settled = Packages
<1>1. IsFiniteSet(Packages) /\ Cardinality(Packages) = PackageCount
  BY PackageCountIsNat, FS_Interval DEF Packages
<1>2. Settled \in SUBSET Packages BY DEF Settled
<1> QED BY <1>1, <1>2, FS_Subset, FS_CardinalityType, PackageCountIsNat

---------------------------------------------------------------------------
(* Seeing what a list requires.                                            *)

\* Where it is being looked is not seen yet, and what is required there waits.
LEMMA SeeFacts ==
    ASSUME IInv, stage = "settling", seeing.at \in DOMAIN Requires(seeing.of),
           NEW to, to = Requires(seeing.of)[seeing.at],
           NEW at, at = <<seeing.of, seeing.at>>
    PROVE  /\ to \in Packages /\ to # seeing.of
           /\ at \in Places(to) /\ at \in Unseen(to)
           /\ waiting[to] \in Nat \ {0}
           /\ seeing.at + 1 \in 1 .. MaxRequired + 1
           /\ seeing.at + 1 <= Len(Requires(seeing.of)) + 1
<1>1. seeing.of \in 0 .. PackageCount /\ OrderTypeOK BY DEF IInv, OpenInv
<1>2. Requires(seeing.of) \in Lists BY <1>1, RequiresFacts
<1>3. to \in Packages /\ seeing.at \in 1 .. Len(Requires(seeing.of)) /\ Len(Requires(seeing.of)) \in 0 .. MaxRequired
  BY <1>2, ListFacts
<1>4. at \in Places(to) BY <1>1, <1>3, MaxRequiredIsNat DEF Places
<1>5. at \in Unseen(to) BY <1>3, <1>4 DEF Unseen, SeenAt
<1>6. waiting[to] \in Nat \ {0}
  BY <1>1, <1>3, <1>5, PlacesFinite DEF IInv, WaitingInv
<1>7. to # seeing.of BY <1>3, <1>6, PackageCountIsNat DEF IInv, OpenInv, Opened, Root, Packages
<1> QED BY <1>3, <1>4, <1>5, <1>6, <1>7, MaxRequiredIsNat

\* Once a place is looked at, it and what was seen before is what is seen.
LEMMA SeeSees ==
    ASSUME IInv, See, NEW at, at = <<seeing.of, seeing.at>>
    PROVE  /\ \A q \in 0 .. PackageCount : Requires(q)' = Requires(q)
           /\ \A p \in Packages : Places(p)' = Places(p)
           /\ \A it \in (0 .. PackageCount) \X (1 .. MaxRequired) : SeenAt(it)' <=> SeenAt(it) \/ it = at
           /\ OpenInv'
<1> DEFINE to == Requires(seeing.of)[seeing.at]
           far == Larger(depth[to], seeing.from + 1)
<1>1. /\ to \in Packages /\ to # seeing.of /\ waiting[to] \in Nat \ {0}
      /\ seeing.at + 1 <= Len(Requires(seeing.of)) + 1
  BY SeeFacts DEF See
<1>2. OrderTypeOK /\ OpenInv BY DEF IInv
<1>3. \A q : Requires(q)' = Requires(q) BY DEF See, found, Requires
<1>4. \A p : Places(p)' = Places(p) BY <1>3 DEF Places
<1>5. /\ seeing'.of = seeing.of /\ seeing'.from = seeing.from /\ seeing'.at = seeing.at + 1
  BY <1>2 DEF See, OrderTypeOK
<1>6. /\ waiting' = [waiting EXCEPT ![to] = waiting[to] - 1]
      /\ depth' = [depth EXCEPT ![to] = far]
      /\ waiting[to] = 1 => open' = Append(open, [of |-> to, from |-> far])
      /\ waiting[to] # 1 => open' = open
  BY DEF See
<1>7. far \in Nat /\ depth'[to] = far
  <2>1. depth[to] \in Nat /\ seeing.from \in Nat BY <1>1, <1>2 DEF OrderTypeOK
  <2>2. to \in DOMAIN depth BY <1>1, <1>2 DEF OrderTypeOK
  <2>3. far \in Nat BY <2>1 DEF Larger
  <2> HIDE DEF far
  <2> QED BY <1>6, <2>2, <2>3
<1>8. \A q \in 0 .. PackageCount : /\ Opened(q)' <=> Opened(q) \/ (q = to /\ waiting[to] = 1)
                            /\ ~Opened(to)
  <2> HIDE DEF to
  <2>1. to # Root /\ ~Opened(to) BY <1>1, PackageCountIsNat DEF Opened, Packages, Root
  <2>2. \A q \in 0 .. PackageCount : q # Root => q \in Packages BY PackageCountIsNat DEF Packages, Root
  <2>3. \A q \in Packages : waiting'[q] = IF q = to THEN waiting[q] - 1 ELSE waiting[q]
    BY <1>1, <1>2, <1>6 DEF OrderTypeOK
  <2> QED BY <1>1, <2>1, <2>2, <2>3 DEF Opened
\* What is opened is what is settled by this.
<1>9. /\ \A i \in DOMAIN open : open[i].of # to
      /\ waiting[to] = 1 => /\ DOMAIN open' = DOMAIN open \union {Len(open) + 1}
                            /\ Len(open) + 1 \notin DOMAIN open
                            /\ \A i \in DOMAIN open : open'[i] = open[i]
                            /\ open'[Len(open) + 1] = [of |-> to, from |-> far]
  <2>1. \A i \in DOMAIN open : open[i].of # to BY <1>1, <1>2 DEF OpenInv
  <2>2. [of |-> to, from |-> far] \in [of : Packages, from : Nat] BY <1>1, <1>7
  <2>3. open \in Seq([of : Packages, from : Nat]) BY <1>2 DEF OrderTypeOK
  <2>4. ASSUME waiting[to] = 1
        PROVE  /\ DOMAIN open = 1 .. Len(open) /\ DOMAIN open' = 1 .. Len(open) + 1
               /\ Len(open) \in Nat
               /\ \A i \in 1 .. Len(open) : open'[i] = open[i]
               /\ open'[Len(open) + 1] = [of |-> to, from |-> far]
    <3> DEFINE e == [of |-> to, from |-> far]
               S == [of : Packages, from : Nat]
    <3>1. e \in S /\ open \in Seq(S) /\ open' = Append(open, e) BY <1>6, <2>2, <2>3, <2>4
    <3> HIDE DEF e, S
    <3>2. /\ open' \in Seq(S) /\ Len(open') = Len(open) + 1
          /\ \A i \in 1 .. Len(open) : open'[i] = open[i]
          /\ open'[Len(open) + 1] = e
      BY <3>1, AppendProperties
    <3>3. DOMAIN open = 1 .. Len(open) /\ DOMAIN open' = 1 .. Len(open') /\ Len(open) \in Nat
      BY <3>1, <3>2, LenProperties
    <3> QED BY <3>2, <3>3 DEF e
  <2>5. Len(open) \in Nat => /\ 1 .. Len(open) + 1 = 1 .. Len(open) \union {Len(open) + 1}
                             /\ Len(open) + 1 \notin 1 .. Len(open)
    OBVIOUS
  <2> HIDE DEF to, far
  <2> QED BY <2>1, <2>4, <2>5
<1>10. \A q : IsOpen(q)' <=> IsOpen(q) \/ (q = to /\ waiting[to] = 1)
  <2>1. CASE waiting[to] = 1 BY <1>9, <2>1 DEF IsOpen
  <2>2. CASE waiting[to] # 1 BY <1>6, <2>2 DEF IsOpen
  <2> QED BY <2>1, <2>2
<1>11. \A it \in (0 .. PackageCount) \X (1 .. MaxRequired) : SeenAt(it)' <=> SeenAt(it) \/ it = at
  <2> SUFFICES ASSUME NEW it \in (0 .. PackageCount) \X (1 .. MaxRequired)
               PROVE  SeenAt(it)' <=> SeenAt(it) \/ it = at
    OBVIOUS
  <2>1. it[1] \in 0 .. PackageCount /\ it[2] \in 1 .. MaxRequired /\ it = <<it[1], it[2]>> OBVIOUS
  <2>2. SeenAt(it)' <=> Opened(it[1])' /\ ~IsOpen(it[1])' /\ (it[1] = seeing'.of => it[2] < seeing'.at)
    BY DEF SeenAt
  <2>3. CASE it[1] = to
    <3>1. ~SeenAt(it) /\ it # at BY <1>1, <1>8, <2>1, <2>3 DEF SeenAt
    <3>2. ~SeenAt(it)' BY <1>8, <1>10, <2>1, <2>2, <2>3
    <3> QED BY <3>1, <3>2
  <2>4. CASE it[1] # to /\ it[1] # seeing.of
    BY <1>5, <1>8, <1>10, <2>1, <2>2, <2>4 DEF SeenAt
  <2>5. CASE it[1] = seeing.of
    <3>1. Opened(it[1])' /\ ~IsOpen(it[1])' BY <1>1, <1>2, <1>8, <1>10, <2>5 DEF OpenInv
    <3>2. Opened(it[1]) /\ ~IsOpen(it[1]) BY <1>2, <2>5 DEF OpenInv
    <3>3. SeenAt(it)' <=> it[2] < seeing.at + 1 BY <1>5, <2>2, <2>5, <3>1
    <3>4. SeenAt(it) <=> it[2] < seeing.at BY <2>5, <3>2 DEF SeenAt
    <3>5. seeing.at \in Nat BY <1>2, MaxRequiredIsNat DEF OrderTypeOK
    <3>6. it[2] < seeing.at + 1 <=> it[2] < seeing.at \/ it[2] = seeing.at BY <2>1, <3>5, MaxRequiredIsNat
    <3> QED BY <2>1, <2>5, <3>3, <3>4, <3>6
  <2> QED BY <2>3, <2>4, <2>5
<1>12. OpenInv'
  <2>1. seeing'.of \in 0 .. PackageCount /\ Opened(seeing.of)' /\ ~IsOpen(seeing.of)'
    BY <1>1, <1>2, <1>5, <1>8, <1>10 DEF OpenInv
  <2>2. seeing'.from = Far(seeing.of)'
    BY <1>1, <1>2, <1>5, <1>6 DEF OpenInv, Far, OrderTypeOK
  <2>3. seeing'.at <= Len(Requires(seeing.of)') + 1 BY <1>1, <1>3, <1>5
  <2>4. /\ \A i \in DOMAIN open' : waiting'[open'[i].of] = 0 /\ open'[i].from = depth'[open'[i].of]
        /\ \A i, j \in DOMAIN open' : open'[i].of = open'[j].of => i = j
    <3>1. \A i \in DOMAIN open : /\ open[i].of \in Packages
                                 /\ waiting'[open[i].of] = 0 /\ open[i].from = depth'[open[i].of]
      <4>1. \A i \in DOMAIN open : open[i].of \in Packages BY <1>2, OpenFacts
      <4> QED BY <1>2, <1>6, <1>9, <4>1 DEF OpenInv, OrderTypeOK
    <3>2. CASE waiting[to] # 1 BY <1>2, <1>6, <3>1, <3>2 DEF OpenInv
    <3>3. CASE waiting[to] = 1
      <4>1. waiting'[to] = 0 BY <1>1, <1>2, <1>6, <3>3 DEF OrderTypeOK
      <4> QED BY <1>2, <1>7, <1>9, <3>1, <3>3, <4>1 DEF OpenInv
    <3> QED BY <3>2, <3>3
  <2> QED BY <1>5, <2>1, <2>2, <2>3, <2>4 DEF OpenInv, Opened, IsOpen, Far, Requires
<1> QED BY <1>3, <1>4, <1>11, <1>12

\* The counts stay those of the places not seen, and of the packages settled.
LEMMA SeeCounts ==
    ASSUME IInv, See
    PROVE  /\ waiting' \in [Packages -> Nat] /\ settled' \in 0 .. PackageCount
           /\ WaitingInv'
<1> DEFINE to == Requires(seeing.of)[seeing.at]
           at == <<seeing.of, seeing.at>>
<1>1. /\ to \in Packages /\ waiting[to] \in Nat \ {0}
      /\ at \in Places(to) /\ at \in Unseen(to)
  BY SeeFacts DEF See
<1>2. OrderTypeOK /\ OpenInv /\ WaitingInv BY DEF IInv
<1>3. waiting' = [waiting EXCEPT ![to] = waiting[to] - 1]
      /\ (waiting[to] = 1 => settled' = settled + 1) /\ (waiting[to] # 1 => settled' = settled)
  BY DEF See
<1>4. /\ \A p \in Packages : Places(p)' = Places(p)
      /\ \A it \in (0 .. PackageCount) \X (1 .. MaxRequired) : SeenAt(it)' <=> SeenAt(it) \/ it = at
  BY SeeSees
<1>5. \A p \in Packages : \A it \in Places(p) : it \in (0 .. PackageCount) \X (1 .. MaxRequired)
                                                /\ Requires(it[1])[it[2]] = p
  BY DEF Places
<1>6. ASSUME NEW p \in Packages PROVE Unseen(p)' = IF p = to THEN Unseen(to) \ {at} ELSE Unseen(p)
  <2>1. Unseen(p)' = {it \in Places(p) : ~(SeenAt(it) \/ it = at)} BY <1>4, <1>5 DEF Unseen
  <2>2. p # to => at \notin Places(p) BY <1>5
  <2> QED BY <2>1, <2>2 DEF Unseen
<1> HIDE DEF to, at
<1>7. \A p \in Packages : Cardinality(Unseen(p))' = waiting'[p]
  <2> SUFFICES ASSUME NEW p \in Packages PROVE Cardinality(Unseen(p))' = waiting'[p]
    OBVIOUS
  <2>1. CASE p # to BY <1>2, <1>3, <1>6, <2>1 DEF WaitingInv, OrderTypeOK
  <2>2. CASE p = to
    <3>1. Cardinality(Unseen(to) \ {at}) = Cardinality(Unseen(to)) - 1
      BY <1>1, PlacesFinite, FS_RemoveElement
    <3> QED BY <1>1, <1>2, <1>3, <1>6, <2>2, <3>1 DEF WaitingInv, OrderTypeOK
  <2> QED BY <2>1, <2>2
<1>8. waiting' \in [Packages -> Nat] /\ \A p \in Packages : waiting'[p] = IF p = to THEN waiting[to] - 1 ELSE waiting[p]
  BY <1>1, <1>2, <1>3 DEF OrderTypeOK
<1>9. settled' = Cardinality(Settled)' /\ settled' \in 0 .. PackageCount
  <2>1. Settled' = (IF waiting[to] = 1 THEN Settled \union {to} ELSE Settled) BY <1>1, <1>8 DEF Settled
  <2>2. to \notin Settled BY <1>1 DEF Settled
  <2>3. Cardinality(Settled \union {to}) = Cardinality(Settled) + 1
    BY <2>2, PackagesFinite, FS_AddElement
  <2>4. settled' = Cardinality(Settled')
    BY <1>1, <1>2, <1>3, <2>1, <2>3 DEF WaitingInv
  <2>5. Settled' \in SUBSET Packages BY DEF Settled
  <2>6. Cardinality(Settled') \in 0 .. PackageCount
    BY <2>5, PackagesFinite, FS_Subset, FS_CardinalityType, PackageCountIsNat
  <2> QED BY <2>4, <2>6
<1> QED BY <1>2, <1>4, <1>7, <1>8, <1>9 DEF WaitingInv

\* A chain to what requires a package goes on to it.
LEMMA ChainGoesOn ==
    ASSUME OrderTypeOK, NEW q \in 0 .. PackageCount, NEW i \in DOMAIN Requires(q),
           NEW n \in Nat, q = Root => n = 0, q # Root => n > 0 /\ Chains(q, n) # {}
    PROVE  Chains(Requires(q)[i], n + 1) # {}
<1> DEFINE p == Requires(q)[i]
<1>1. Requires(q) \in Lists BY RequiresFacts
<1>2. p \in Packages BY <1>1, ListFacts
<1>3. CASE q = Root
  <2> DEFINE c == [k \in 1 .. 1 |-> p]
  <2>1. c \in [1 .. n + 1 -> Packages] /\ c[n + 1] = p /\ root[i] = c[1] /\ i \in DOMAIN root
    BY <1>2, <1>3 DEF Requires
  <2>2. \A k \in 1 .. n + 1 - 1 : FALSE BY <1>3
  <2>3. \A k \in 1 .. n + 1 - 1 : \E j \in DOMAIN required[c[k]] : required[c[k]][j] = c[k + 1]
    BY <2>2
  <2>4. \E j \in DOMAIN root : root[j] = c[1] BY <2>1
  <2> HIDE DEF c, p
  <2>5. c \in Chains(p, n + 1) BY <2>1, <2>3, <2>4 DEF Chains
  <2> QED BY <2>5 DEF p
<1>4. CASE q # Root
  <2>1. PICK c : c \in Chains(q, n) BY <1>4
  <2>2. /\ c \in [1 .. n -> Packages] /\ c[n] = q
        /\ \E j \in DOMAIN root : root[j] = c[1]
        /\ \A k \in 1 .. n - 1 : \E j \in DOMAIN required[c[k]] : required[c[k]][j] = c[k + 1]
    BY <2>1 DEF Chains
  <2> DEFINE d == [k \in 1 .. n + 1 |-> IF k = n + 1 THEN p ELSE c[k]]
  <2>3. d \in [1 .. n + 1 -> Packages] /\ d[n + 1] = p /\ d[1] = c[1] /\ \A k \in 1 .. n : d[k] = c[k]
    BY <1>2, <1>4, <2>2
  <2>4. required[q][i] = p /\ i \in DOMAIN required[q] BY <1>4 DEF Requires
  <2> HIDE DEF d, p
  <2>5. \A k \in 1 .. n + 1 - 1 : \E j \in DOMAIN required[d[k]] : required[d[k]][j] = d[k + 1]
    <3> SUFFICES ASSUME NEW k \in 1 .. n
                 PROVE  \E j \in DOMAIN required[d[k]] : required[d[k]][j] = d[k + 1]
      OBVIOUS
    <3>1. CASE k = n BY <1>4, <2>2, <2>3, <2>4, <3>1
    <3>2. CASE k # n
      <4>1. k \in 1 .. n - 1 /\ k + 1 \in 1 .. n BY <3>2
      <4> QED BY <2>2, <2>3, <4>1
    <3> QED BY <3>1, <3>2
  <2>6. \E j \in DOMAIN root : root[j] = d[1] BY <2>2, <2>3
  <2>7. d \in Chains(p, n + 1) BY <2>3, <2>5, <2>6 DEF Chains
  <2> QED BY <2>7 DEF p
<1> QED BY <1>3, <1>4

\* Depths stay above those of what was seen to require it, and are those of
\* chains.
LEMMA SeeDepths ==
    ASSUME IInv, See
    PROVE  depth' \in [Packages -> Nat] /\ DepthInv'
<1> DEFINE to == Requires(seeing.of)[seeing.at]
           at == <<seeing.of, seeing.at>>
           far == Larger(depth[to], seeing.from + 1)
<1>1. to \in Packages /\ to # seeing.of /\ waiting[to] \in Nat \ {0} /\ at \in Places(to)
  BY SeeFacts DEF See
<1>2. OrderTypeOK /\ OpenInv /\ WaitingInv /\ DepthInv BY DEF IInv
<1>3. /\ depth' = [depth EXCEPT ![to] = far]
      /\ waiting' = [waiting EXCEPT ![to] = waiting[to] - 1]
      /\ (waiting[to] = 1 => settled' = settled + 1) /\ (waiting[to] # 1 => settled' = settled)
  BY DEF See
<1>4. /\ \A p \in Packages : Places(p)' = Places(p)
      /\ \A it \in (0 .. PackageCount) \X (1 .. MaxRequired) : SeenAt(it)' <=> SeenAt(it) \/ it = at
  BY SeeSees
<1>5. seeing.from = Far(seeing.of) /\ seeing.of \in 0 .. PackageCount /\ Opened(seeing.of) /\ seeing.from \in Nat
  BY <1>2 DEF OpenInv, OrderTypeOK
<1>6. depth[to] \in Nat /\ far \in Nat /\ far >= depth[to] /\ far >= seeing.from + 1
      /\ far \in {depth[to], seeing.from + 1}
  BY <1>1, <1>2, <1>5 DEF OrderTypeOK, Larger
<1>7. seeing.from <= settled /\ seeing.from \in Nat /\ settled \in Nat
  BY <1>2, <1>5, PackageCountIsNat DEF DepthInv, OrderTypeOK, Far, Opened, Packages, Root
<1> HIDE DEF far
<1>8. /\ depth' \in [Packages -> Nat]
      /\ \A p \in Packages : depth'[p] = IF p = to THEN far ELSE depth[p]
      /\ \A p \in Packages : waiting'[p] = IF p = to THEN waiting[to] - 1 ELSE waiting[p]
  BY <1>1, <1>2, <1>3, <1>6 DEF OrderTypeOK
<1>9. \A p \in Packages : \A it \in Places(p)' : SeenAt(it)' => depth'[p] > Far(it[1])'
  <2> SUFFICES ASSUME NEW p \in Packages, NEW it \in Places(p), SeenAt(it) \/ it = at
               PROVE  depth'[p] > Far(it[1])'
    <3>1. \A p \in Packages : \A it \in Places(p) : it \in (0 .. PackageCount) \X (1 .. MaxRequired) BY DEF Places
    <3> QED BY <1>4, <3>1
  <2>1. it[1] \in 0 .. PackageCount /\ Requires(it[1])[it[2]] = p BY DEF Places
  <2>2. Opened(it[1]) BY <1>5, <2>1 DEF SeenAt
  <2>3. Far(it[1])' = Far(it[1]) /\ Far(it[1]) \in Nat
    <3>1. it[1] # to BY <1>1, <2>2, PackageCountIsNat DEF Opened, Root, Packages
    <3>2. it[1] = Root \/ it[1] \in Packages BY <2>1, PackageCountIsNat DEF Root, Packages
    <3> QED BY <1>2, <1>8, <3>1, <3>2 DEF Far, OrderTypeOK
  <2>4. CASE SeenAt(it)
    <3>1. depth[p] > Far(it[1]) BY <1>2, <2>4 DEF DepthInv
    <3>2. depth[p] \in Nat BY <1>2 DEF OrderTypeOK
    <3> QED BY <1>6, <1>8, <2>3, <3>1, <3>2
  <2>5. CASE it = at
    <3>1. p = to /\ it[1] = seeing.of BY <2>1, <2>5
    <3> QED BY <1>5, <1>6, <1>8, <2>3, <3>1
  <2> QED BY <2>4, <2>5
<1>10. \A p \in Packages : depth'[p] > 0 => Chains(p, depth[p])' # {}
  <2>2. seeing.of # Root => seeing.from > 0
    <3> SUFFICES ASSUME seeing.of # Root PROVE seeing.from > 0 OBVIOUS
    <3>1. seeing.of \in Packages /\ waiting[seeing.of] = 0
      BY <1>5, PackageCountIsNat DEF Opened, Root, Packages
    <3>2. PICK it \in Places(seeing.of) : SeenAt(it)
      BY <1>2, <3>1, PlacesFinite DEF WaitingInv, Unseen
    <3>3. depth[seeing.of] > Far(it[1]) BY <1>2, <3>1, <3>2 DEF DepthInv
    <3>4. it[1] \in 0 .. PackageCount BY DEF Places
    <3>5. Far(it[1]) \in Nat /\ depth[seeing.of] \in Nat
      <4>1. it[1] = Root \/ it[1] \in Packages BY <3>4, PackageCountIsNat DEF Root, Packages
      <4> QED BY <1>2, <3>1, <4>1 DEF Far, OrderTypeOK
    <3> QED BY <1>5, <3>3, <3>5 DEF Far
  <2>3. Chains(to, seeing.from + 1) # {}
    <3>1. seeing.of # Root => Chains(seeing.of, seeing.from) # {}
      BY <1>2, <1>5, <2>2, PackageCountIsNat DEF DepthInv, Far, Root, Packages
    <3>2. seeing.of = Root => seeing.from = 0 BY <1>5 DEF Far
    <3>3. seeing.at \in DOMAIN Requires(seeing.of) BY DEF See
    <3> QED BY <1>2, <1>5, <2>2, <3>1, <3>2, <3>3, ChainGoesOn
  <2>4. Chains(to, far) # {} BY <1>1, <1>2, <1>6, <1>7, <2>3 DEF DepthInv
  <2>5. \A p \in Packages : Chains(p, depth[p])' = Chains(p, depth'[p])
    BY DEF See, found, Chains
  <2>6. \A p \in Packages : depth[p] > 0 => Chains(p, depth[p]) # {} BY <1>2 DEF DepthInv
  <2> HIDE DEF to
  <2> QED BY <1>1, <1>8, <2>4, <2>5, <2>6
<1>11. \A p \in Packages : depth'[p] <= settled' + 1 /\ (waiting'[p] = 0 => depth'[p] <= settled')
  <2> SUFFICES ASSUME NEW p \in Packages
               PROVE  depth'[p] <= settled' + 1 /\ (waiting'[p] = 0 => depth'[p] <= settled')
    OBVIOUS
  <2>1. settled' \in Nat /\ settled <= settled' BY <1>3, <1>7
  <2>2. /\ depth[p] <= settled + 1 /\ (waiting[p] = 0 => depth[p] <= settled)
        /\ depth[to] <= settled + 1 /\ depth[p] \in Nat
    BY <1>1, <1>2 DEF DepthInv, OrderTypeOK
  <2>3. CASE p # to BY <1>7, <1>8, <2>1, <2>2, <2>3
  <2>4. CASE p = to
    <3>1. far <= settled + 1 BY <1>6, <1>7, <2>2
    <3>2. waiting'[p] = 0 => settled' = settled + 1 BY <1>1, <1>3, <1>8, <2>4
    <3> QED BY <1>6, <1>7, <1>8, <2>1, <2>4, <3>1, <3>2
  <2> QED BY <2>3, <2>4
<1> QED BY <1>8, <1>9, <1>10, <1>11 DEF DepthInv

---------------------------------------------------------------------------
(* The other steps.                                                        *)

\* What was opened last is no longer open and not seen yet, and what was being
\* seen is seen wholly.
LEMMA PopKeeps ==
    ASSUME IInv, Pop
    PROVE  /\ open' \in Seq([of : Packages, from : Nat])
           /\ seeing' \in [of : 0 .. PackageCount, from : Nat, at : 1 .. MaxRequired + 1]
           /\ OpenInv' /\ WaitingInv' /\ DepthInv'
<1>0. PICK last : last = open[Len(open)] OBVIOUS
<1>1. OrderTypeOK /\ OpenInv /\ WaitingInv /\ DepthInv BY DEF IInv
<1>2. /\ open' \in Seq([of : Packages, from : Nat])
      /\ Len(open) \in Nat \ {0} /\ DOMAIN open = 1 .. Len(open)
      /\ DOMAIN open' = 1 .. Len(open) - 1 /\ \A i \in 1 .. Len(open) - 1 : open'[i] = open[i]
  <2> DEFINE S == [of : Packages, from : Nat]
  <2>1. open \in Seq(S) /\ open # <<>> BY <1>1 DEF OrderTypeOK, Pop
  <2>2. open' = SubSeq(open, 1, Len(open) - 1) BY DEF Pop
  <2> HIDE DEF S
  <2>3. /\ Len(open) \in Nat \ {0} /\ open' \in Seq(S) /\ Len(open') = Len(open) - 1
        /\ \A i \in 1 .. Len(open) - 1 : open'[i] = open[i]
    BY <2>1, <2>2, RestFacts
  <2>4. DOMAIN open = 1 .. Len(open) /\ DOMAIN open' = 1 .. Len(open') BY <2>1, <2>3, LenProperties
  <2> QED BY <2>3, <2>4 DEF S
<1>3. last.of \in Packages /\ last.from \in Nat /\ Len(open) \in DOMAIN open
  BY <1>0, <1>1, <1>2, OpenFacts
<1>4. seeing' = [of |-> last.of, from |-> last.from, at |-> 1]
      /\ UNCHANGED <<names, root, required, depth, waiting, settled>>
  BY <1>0 DEF Pop, found
<1>5. /\ \A p : IsOpen(p) <=> IsOpen(p)' \/ p = last.of
      /\ ~IsOpen(last.of)'
  <2>1. \A i \in DOMAIN open : i \in DOMAIN open' \/ i = Len(open) BY <1>2
  <2>2. \A i \in DOMAIN open' : i \in DOMAIN open /\ i # Len(open) /\ open'[i] = open[i] BY <1>2
  <2>3. \A i, j \in DOMAIN open : open[i].of = open[j].of => i = j BY <1>1 DEF OpenInv
  <2>4. ASSUME NEW p PROVE IsOpen(p) <=> IsOpen(p)' \/ p = last.of
    BY <1>0, <1>3, <2>1, <2>2 DEF IsOpen
  <2>5. ~IsOpen(last.of)' BY <1>0, <1>3, <2>2, <2>3 DEF IsOpen
  <2> QED BY <2>4, <2>5
<1>6. /\ \A p : Opened(p)' <=> Opened(p)
      /\ \A p : Requires(p)' = Requires(p)
      /\ \A p : Far(p)' = Far(p)
      /\ \A p \in Packages : Places(p)' = Places(p)
  BY <1>4 DEF Opened, Requires, Far, Places
<1>7. seeing'.of = last.of /\ seeing'.from = last.from /\ seeing'.at = 1 BY <1>4
<1>8. last.of # seeing.of /\ Opened(last.of) /\ last.from = depth[last.of] /\ last.of # Root
  <2>1. IsOpen(last.of) BY <1>5
  <2> QED BY <1>0, <1>1, <1>3, <2>1, PackageCountIsNat DEF OpenInv, Opened, Packages, Root
<1>9. ASSUME NEW p \in Packages, NEW it \in Places(p) PROVE SeenAt(it)' <=> SeenAt(it)
  <2>1. /\ it[1] \in 0 .. PackageCount /\ it[2] \in 1 .. MaxRequired /\ it[2] \in DOMAIN Requires(it[1])
    BY DEF Places
  <2>2. SeenAt(it)' <=> Opened(it[1]) /\ ~IsOpen(it[1])' /\ (it[1] = last.of => it[2] < 1)
    BY <1>6, <1>7 DEF SeenAt
  <2>3. CASE it[1] = last.of
    <3>1. ~(it[2] < 1) BY <2>1, MaxRequiredIsNat
    <3>2. ~SeenAt(it) BY <1>5, <2>3 DEF SeenAt
    <3> QED BY <2>2, <2>3, <3>1, <3>2
  <2>4. CASE it[1] # last.of /\ it[1] # seeing.of BY <1>5, <2>2, <2>4 DEF SeenAt
  <2>5. CASE it[1] = seeing.of
    <3>1. seeing.at \notin DOMAIN Requires(seeing.of) /\ seeing.at \in 1 .. MaxRequired + 1
      BY <1>1 DEF Pop, OrderTypeOK
    <3>2. Requires(seeing.of) \in Lists BY <1>1, RequiresFacts DEF OpenInv
    <3>3. it[2] < seeing.at
      <4>1. DOMAIN Requires(seeing.of) = 1 .. Len(Requires(seeing.of)) /\ Len(Requires(seeing.of)) \in Nat
        BY <3>2, ListFacts, MaxRequiredIsNat
      <4> QED BY <2>1, <2>5, <3>1, <4>1, MaxRequiredIsNat
    <3> QED BY <1>1, <1>5, <1>8, <2>2, <2>5, <3>3 DEF SeenAt, OpenInv
  <2> QED BY <2>3, <2>4, <2>5
<1>10. \A p \in Packages : Unseen(p)' = Unseen(p) BY <1>6, <1>9 DEF Unseen
<1>11. OpenInv'
  <2>1. \A i \in DOMAIN open' : i \in DOMAIN open /\ open'[i] = open[i] BY <1>2
  <2>2. 1 <= Len(Requires(last.of)) + 1
    <3>1. Requires(last.of) \in Lists BY <1>1, <1>3, PackageCountIsNat, RequiresFacts DEF Packages
    <3> QED BY <3>1, ListFacts, MaxRequiredIsNat
  <2>3. /\ \A i \in DOMAIN open' : waiting'[open'[i].of] = 0 /\ open'[i].from = depth'[open'[i].of]
        /\ \A i, j \in DOMAIN open' : open'[i].of = open'[j].of => i = j
    BY <1>1, <1>4, <2>1 DEF OpenInv
  <2>4. /\ seeing'.of \in 0 .. PackageCount /\ Opened(last.of)' /\ ~IsOpen(last.of)'
        /\ seeing'.from = Far(last.of)' /\ seeing'.at <= Len(Requires(last.of)') + 1
    BY <1>3, <1>5, <1>6, <1>7, <1>8, <2>2, PackageCountIsNat DEF Far, Packages
  <2>5. /\ Opened(seeing.of)' /\ ~IsOpen(seeing.of)' /\ seeing'.from = Far(seeing.of)'
        /\ seeing'.at <= Len(Requires(seeing.of)') + 1
    BY <1>7, <2>4 DEF Opened, IsOpen, Far, Requires
  <2> QED BY <2>3, <2>4, <2>5 DEF OpenInv
<1>12. WaitingInv'
  <2>1. Settled' = Settled BY <1>4 DEF Settled
  <2> QED BY <1>1, <1>4, <1>6, <1>10, <2>1 DEF WaitingInv
<1>13. DepthInv'
  <2>1. \A p \in Packages : Chains(p, depth[p])' = Chains(p, depth[p]) BY <1>4 DEF Chains
  <2>2. \A p \in Packages : \A it \in Places(p)' : SeenAt(it)' => depth'[p] > Far(it[1])'
    BY <1>1, <1>4, <1>6, <1>9 DEF DepthInv
  <2>3. \A p \in Packages : depth'[p] > 0 => Chains(p, depth[p])' # {}
    BY <1>1, <1>4, <2>1 DEF DepthInv
  <2>4. \A p \in Packages : depth'[p] <= settled' + 1 /\ (waiting'[p] = 0 => depth'[p] <= settled')
    BY <1>1, <1>4 DEF DepthInv
  <2> QED BY <2>2, <2>3, <2>4 DEF DepthInv
<1>14. seeing' \in [of : 0 .. PackageCount, from : Nat, at : 1 .. MaxRequired + 1]
  BY <1>3, <1>4, PackageCountIsNat, MaxRequiredIsNat DEF Packages
<1> QED BY <1>2, <1>11, <1>12, <1>13, <1>14

\* Steps after all is settled change nothing of how it was.
LEMMA SettlingStays ==
    ASSUME OpenInv, WaitingInv, DepthInv, UNCHANGED <<found, settling>>
    PROVE  OpenInv' /\ WaitingInv' /\ DepthInv'
<1> USE DEF found, settling
<1>1. /\ \A p : Opened(p)' <=> Opened(p)
      /\ \A p : IsOpen(p)' <=> IsOpen(p)
      /\ \A p : Requires(p)' = Requires(p)
      /\ \A p : Far(p)' = Far(p)
      /\ \A p : Places(p)' = Places(p)
      /\ Settled' = Settled
  BY DEF Opened, IsOpen, Requires, Far, Places, Settled
<1>2. \A it : SeenAt(it)' <=> SeenAt(it) BY DEF SeenAt, Opened, IsOpen
<1>3. \A p : Unseen(p)' = Unseen(p) BY <1>1, <1>2 DEF Unseen
<1>4. OpenInv' BY DEF OpenInv, Opened, IsOpen, Far, Requires
<1>5. WaitingInv' BY <1>1, <1>3 DEF WaitingInv
<1>6. DepthInv'
  <2>1. \A p \in Packages : Chains(p, depth[p])' = Chains(p, depth[p]) BY DEF Chains
  <2>2. \A p \in Packages : \A it \in Places(p)' : SeenAt(it)' => depth'[p] > Far(it[1])'
    BY <1>1, <1>2 DEF DepthInv
  <2>3. \A p \in Packages : depth'[p] > 0 => Chains(p, depth[p])' # {} BY <2>1 DEF DepthInv
  <2>4. \A p \in Packages : depth'[p] <= settled' + 1 /\ (waiting'[p] = 0 => depth'[p] <= settled')
    BY DEF DepthInv
  <2> QED BY <2>2, <2>3, <2>4 DEF DepthInv
<1> QED BY <1>4, <1>5, <1>6

LEMMA SearchedFacts ==
    ASSUME OrderTypeOK, ResultInv, stage # "settling", NEW n \in Packages
    PROVE  /\ Searched(n) \in Packages /\ required[Searched(n)] \in Lists
           /\ required[Searched(n)] \in Seq(Packages)
<1>1. Searched(n) \in Packages BY DEF ResultInv, Searched
<1>2. required[Searched(n)] \in Lists BY <1>1 DEF OrderTypeOK
<1> QED BY <1>1, <1>2, ListFacts

\* Looking for what a package reaches keeps to what it does reach, and leaves
\* nothing out.
LEMMA LookKeeps ==
    ASSUME IInv, Look
    PROVE  left' \in Seq(Packages) /\ seen' \in SUBSET Packages /\ SearchInv'
<1> DEFINE list == required[Searched(searched)]
<1>1. OrderTypeOK /\ ResultInv /\ SearchInv /\ stage = "searching" BY DEF IInv, Look
<1>2. searched \in Packages BY <1>1 DEF SearchInv
<1>3. list \in Lists /\ list \in Seq(Packages) BY <1>1, <1>2, SearchedFacts
<1>4. PICK last : last = left[Len(left)] OBVIOUS
<1>5. PICK rest : rest = SubSeq(left, 1, Len(left) - 1) OBVIOUS
<1>6. /\ seen' = seen \union {last}
      /\ left' = IF last \in seen THEN rest ELSE rest \o required[last]
      /\ left # <<>>
      /\ UNCHANGED <<names, root, required, settling, refused, order, searched, below, stage>>
  BY <1>4, <1>5 DEF Look, found
<1>7. /\ Len(left) \in Nat \ {0} /\ last \in Packages /\ rest \in Seq(Packages)
      /\ Len(rest) = Len(left) - 1 /\ \A i \in 1 .. Len(left) - 1 : rest[i] = left[i]
  BY <1>1, <1>4, <1>5, <1>6, RestFacts DEF OrderTypeOK
<1>8. /\ DOMAIN left = 1 .. Len(left) /\ DOMAIN rest = 1 .. Len(left) - 1
      /\ \A i \in DOMAIN left : left[i] = last \/ \E j \in DOMAIN rest : rest[j] = left[i]
      /\ \A i \in DOMAIN rest : i \in DOMAIN left /\ rest[i] = left[i]
  <2>1. DOMAIN left = 1 .. Len(left) /\ DOMAIN rest = 1 .. Len(left) - 1
    BY <1>1, <1>7, LenProperties DEF OrderTypeOK
  <2>2. \A i \in DOMAIN left : i = Len(left) \/ i \in DOMAIN rest BY <1>7, <2>1
  <2> QED BY <1>4, <1>7, <2>1, <2>2
<1>9. required[last] \in Lists /\ required[last] \in Seq(Packages)
  BY <1>1, <1>7, ListFacts DEF OrderTypeOK
<1>10. /\ last \notin seen => left' = rest \o required[last]
       /\ last \in seen => left' = rest
  BY <1>6
\* What is reached is as before, and what is required by what was new.
<1>11. /\ left' \in Seq(Packages)
       /\ last \in seen => {left'[i] : i \in DOMAIN left'} = {rest[i] : i \in DOMAIN rest}
       /\ last \notin seen => {left'[i] : i \in DOMAIN left'} =
             {rest[i] : i \in DOMAIN rest} \union {required[last][i] : i \in DOMAIN required[last]}
  <2>1. CASE last \in seen BY <1>7, <1>10, <2>1
  <2>2. CASE last \notin seen
    <3>1. left' = rest \o required[last] BY <1>10, <2>2
    <3>2. /\ rest \o required[last] \in Seq(Packages)
          /\ Len(rest \o required[last]) = Len(rest) + Len(required[last])
          /\ \A i \in 1 .. Len(rest) + Len(required[last]) : (rest \o required[last])[i] =
                IF i <= Len(rest) THEN rest[i] ELSE required[last][i - Len(rest)]
      BY <1>7, <1>9, ConcatProperties
    <3>3. DOMAIN rest = 1 .. Len(rest) /\ Len(rest) \in Nat BY <1>7, LenProperties
    <3>4. DOMAIN required[last] = 1 .. Len(required[last]) /\ Len(required[last]) \in Nat
      BY <1>9, LenProperties
    <3>5. DOMAIN left' = 1 .. Len(rest) + Len(required[last]) BY <3>1, <3>2, LenProperties
    <3>6. \A i \in DOMAIN rest : i \in DOMAIN left' /\ left'[i] = rest[i]
      BY <3>1, <3>2, <3>3, <3>4, <3>5
    <3>7. \A i \in DOMAIN required[last] :
             Len(rest) + i \in DOMAIN left' /\ left'[Len(rest) + i] = required[last][i]
      BY <3>1, <3>2, <3>3, <3>4, <3>5
    <3>8. \A i \in DOMAIN left' : \/ i \in DOMAIN rest /\ left'[i] = rest[i]
                                  \/ /\ i - Len(rest) \in DOMAIN required[last]
                                     /\ left'[i] = required[last][i - Len(rest)]
      BY <3>1, <3>2, <3>3, <3>4, <3>5
    <3>9. \A p \in {left'[i] : i \in DOMAIN left'} :
             p \in {rest[i] : i \in DOMAIN rest} \union {required[last][i] : i \in DOMAIN required[last]}
      BY <3>8
    <3>10. \A p \in {rest[i] : i \in DOMAIN rest} \union {required[last][i] : i \in DOMAIN required[last]} :
             p \in {left'[i] : i \in DOMAIN left'}
      BY <3>6, <3>7
    <3> QED BY <2>2, <3>1, <3>2, <3>9, <3>10
  <2> QED BY <2>1, <2>2
<1>12. PICK reached : reached = Reaching OBVIOUS
<1>13. /\ last \in reached
       /\ last \in seen => Reaching' = reached
       /\ last \notin seen => Reaching' = reached \union {required[last][i] : i \in DOMAIN required[last]}
  <2>1. {left[i] : i \in DOMAIN left} = {rest[i] : i \in DOMAIN rest} \union {last}
    BY <1>4, <1>7, <1>8
  <2> QED BY <1>6, <1>11, <1>12, <2>1 DEF Reaching
<1>14. /\ reached \subseteq Below(list)
       /\ \A i \in DOMAIN list : list[i] \in reached
       /\ \A p \in seen : \A i \in DOMAIN required[p] : required[p][i] \in reached
  BY <1>1, <1>12 DEF SearchInv
<1>15. Below(list)' = Below(list) /\ list' = list BY <1>6 DEF Below, Closed, Searched
<1>16. Reaching' \subseteq Below(list) /\ reached \subseteq Reaching'
  <2>1. last \in Below(list) BY <1>13, <1>14
  <2>2. \A i \in DOMAIN required[last] : required[last][i] \in Below(list)
    BY <1>1, <1>3, <2>1, BelowFacts DEF OrderTypeOK
  <2> QED BY <1>13, <1>14, <2>2
<1>17. \A p \in seen' : \A i \in DOMAIN required[p] : required[p][i] \in Reaching'
  BY <1>6, <1>13, <1>14, <1>16
<1>18. SearchInv'
  <2>1. stage' = "searching" /\ searched' \in Packages BY <1>1, <1>2, <1>6
  <2>2. ASSUME NEW n \in 1 .. searched, n < searched
        PROVE  below'[Searched(n)'] = Below(required[Searched(n)])'
    <3>1. below[Searched(n)] = Below(required[Searched(n)]) BY <1>1, <2>2 DEF SearchInv
    <3>2. Searched(n)' = Searched(n) BY <1>6 DEF Searched
    <3>3. Below(required[Searched(n)])' = Below(required[Searched(n)])
      BY <1>6 DEF Below, Closed, Searched
    <3> QED BY <1>6, <3>1, <3>2, <3>3
  <2>3. /\ Reaching' \subseteq Below(required[Searched(searched)])'
        /\ \A i \in DOMAIN list' : list'[i] \in Reaching'
    BY <1>14, <1>15, <1>16
  <2>4. \A p \in seen' : \A i \in DOMAIN required'[p] : required'[p][i] \in Reaching' BY <1>6, <1>17
  <2> QED BY <1>6, <2>1, <2>2, <2>3, <2>4 DEF SearchInv
<1>19. seen' \in SUBSET Packages BY <1>1, <1>6, <1>7 DEF OrderTypeOK
<1> QED BY <1>11, <1>18, <1>19

\* What was looked for is told when there is nothing left to look at.
LEMMA ToldKeeps ==
    ASSUME IInv, Told
    PROVE  below' \in [Packages -> SUBSET Packages] /\ SearchInv'
<1>1. OrderTypeOK /\ ResultInv /\ SearchInv /\ stage = "searching" /\ left = <<>> BY DEF IInv, Told
<1>2. searched \in Packages BY <1>1 DEF SearchInv
<1>3. PICK p \in Packages : p = Searched(searched) /\ required[p] \in Lists BY <1>1, <1>2, SearchedFacts
<1>4. Reaching = seen BY <1>1 DEF Reaching
<1>5. seen = Below(required[p])
  <2>1. /\ seen \subseteq Below(required[p])
        /\ \A i \in DOMAIN required[p] : required[p][i] \in seen
        /\ \A q \in seen : \A i \in DOMAIN required[q] : required[q][i] \in seen
    BY <1>1, <1>3, <1>4 DEF SearchInv
  <2>2. Closed(seen) /\ seen \in SUBSET Packages BY <1>1, <2>1 DEF Closed, OrderTypeOK
  <2> QED BY <2>1, <2>2, BelowLeast
<1>6. /\ below' = [below EXCEPT ![p] = seen] /\ stage' = "next"
      /\ UNCHANGED <<names, root, required, settling, refused, order, searched, left, seen>>
  BY <1>3 DEF Told, found
<1>7. below' \in [Packages -> SUBSET Packages] /\ below'[p] = seen BY <1>1, <1>6 DEF OrderTypeOK
<1>8. ASSUME NEW n \in 1 .. searched
      PROVE  below'[Searched(n)'] = Below(required[Searched(n)])'
  <2>1. Searched(n)' = Searched(n) /\ Below(required[Searched(n)])' = Below(required[Searched(n)])
    BY <1>6 DEF Below, Closed, Searched
  <2>2. CASE Searched(n) = p BY <1>5, <1>7, <2>1, <2>2
  <2>3. CASE Searched(n) # p
    <3>1. n < searched BY <1>2, <1>3, <2>3, PackageCountIsNat DEF Packages
    <3>2. below[Searched(n)] = Below(required[Searched(n)]) BY <1>1, <3>1 DEF SearchInv
    <3>3. n \in Packages BY <1>2, PackageCountIsNat DEF Packages
    <3>4. Searched(n) \in Packages BY <1>1, <3>3, SearchedFacts
    <3> QED BY <1>1, <1>6, <2>1, <2>3, <3>2, <3>4 DEF OrderTypeOK
  <2> QED BY <2>2, <2>3
<1>9. SearchInv' BY <1>6, <1>8 DEF SearchInv
<1> QED BY <1>7, <1>9

LEMMA Initially == OrderInit => IInv
<1> SUFFICES ASSUME OrderInit PROVE IInv OBVIOUS
<1>1. /\ \A p \in Packages : Places(p) # {}
  <2> SUFFICES ASSUME NEW p \in Packages, Places(p) = {} PROVE FALSE OBVIOUS
  <2> DEFINE ps == Packages \ {p}
  <2>1. ASSUME NEW q \in 0 .. PackageCount, NEW i \in DOMAIN Requires(q) PROVE Requires(q)[i] \in ps
    <3>1. Requires(q) \in Lists BY PackageCountIsNat DEF OrderInit, Requires, Root, Packages
    <3>2. Requires(q)[i] \in Packages /\ i \in 1 .. MaxRequired BY <3>1, ListFacts, MaxRequiredIsNat
    <3>3. Requires(q)[i] = p => <<q, i>> \in Places(p) BY <3>2 DEF Places
    <3> QED BY <3>2, <3>3
  <2>2. Closed(ps)
    <3>1. \A q \in Packages : q \in 0 .. PackageCount /\ Requires(q) = required[q]
      BY PackageCountIsNat DEF Packages, Requires, Root
    <3> QED BY <2>1, <3>1 DEF Closed
  <2>3. \A i \in DOMAIN root : root[i] \in ps
    <3>1. Root \in 0 .. PackageCount /\ Requires(Root) = root BY PackageCountIsNat DEF Requires, Root
    <3> QED BY <2>1, <3>1
  <2>4. Below(root) \subseteq ps BY <2>2, <2>3, BelowLeast
  <2> QED BY <2>4 DEF OrderInit
<1>2. \A p \in Packages : Unseen(p) = Places(p)
  <2> SUFFICES ASSUME NEW p \in Packages, NEW at \in Places(p) PROVE ~SeenAt(at) BY DEF Unseen
  <2>1. at[1] \in 0 .. PackageCount /\ at[2] \in 1 .. MaxRequired BY DEF Places
  <2>2. at[1] # Root => ~Opened(at[1])
    <3> SUFFICES ASSUME at[1] # Root PROVE ~Opened(at[1]) OBVIOUS
    <3>1. at[1] \in Packages BY <2>1, PackageCountIsNat DEF Root, Packages
    <3>2. Unseen(at[1]) \subseteq Places(at[1]) BY DEF Unseen
    <3>3. Cardinality(Places(at[1])) # 0 BY <1>1, <3>1, PlacesFinite, FS_EmptySet
    <3> QED BY <3>1, <3>3 DEF OrderInit, Opened
  <2> QED BY <2>1, <2>2, MaxRequiredIsNat DEF OrderInit, SeenAt, Root
<1>3. OrderTypeOK
  <2>1. waiting \in [Packages -> Nat]
    BY PlacesFinite, FS_CardinalityType DEF OrderInit
  <2>2. /\ open \in Seq([of : Packages, from : Nat]) /\ left \in Seq(Packages)
        /\ seeing \in [of : 0 .. PackageCount, from : Nat, at : 1 .. MaxRequired + 1]
    <3>1. 0 \in 0 .. PackageCount /\ 1 \in 1 .. MaxRequired + 1 BY PackageCountIsNat, MaxRequiredIsNat
    <3> QED BY <3>1, EmptySeq DEF OrderInit, Root
  <2>3. settled \in 0 .. PackageCount /\ searched \in 0 .. PackageCount BY PackageCountIsNat DEF OrderInit
  <2> QED BY <2>1, <2>2, <2>3 DEF OrderInit, OrderTypeOK
<1>4. OpenInv
  <2>1. Requires(Root) \in Lists BY DEF OrderInit, Requires
  <2>2. 1 <= Len(Requires(Root)) + 1 /\ Root \in 0 .. PackageCount
    BY <2>1, ListFacts, PackageCountIsNat, MaxRequiredIsNat DEF Root
  <2>3. open = <<>> /\ DOMAIN open = {} BY DEF OrderInit
  <2> QED BY <2>2, <2>3 DEF OrderInit, OpenInv, Opened, IsOpen, Far
<1>5. WaitingInv
  <2>1. Settled = {}
    <3>1. \A p \in Packages : Cardinality(Places(p)) # 0 BY <1>1, PlacesFinite, FS_EmptySet
    <3> QED BY <3>1 DEF OrderInit, Settled
  <2> QED BY <1>1, <1>2, <2>1, FS_EmptySet DEF OrderInit, WaitingInv
<1>6. DepthInv
  <2>1. \A p \in Packages : \A at \in Places(p) : ~SeenAt(at) BY <1>2 DEF Unseen
  <2>2. \A p \in Packages : depth[p] = 0 BY DEF OrderInit
  <2>3. settled = 0 BY DEF OrderInit
  <2> QED BY <2>1, <2>2, <2>3 DEF DepthInv
<1>7. ResultInv /\ SearchInv BY DEF OrderInit, ResultInv, SearchInv
<1> QED BY <1>3, <1>4, <1>5, <1>6, <1>7 DEF OrderInit, IInv

\* Nothing is left to see when all that is open has been.
LEMMA SeenWholly ==
    ASSUME OrderTypeOK, OpenInv, seeing.at \notin DOMAIN Requires(seeing.of)
    PROVE  seeing.at = Len(Requires(seeing.of)) + 1
<1>1. seeing.of \in 0 .. PackageCount BY DEF OpenInv
<1>2. Requires(seeing.of) \in Lists BY <1>1, RequiresFacts
<1>3. DOMAIN Requires(seeing.of) = 1 .. Len(Requires(seeing.of)) /\ Len(Requires(seeing.of)) \in Nat
  BY <1>2, ListFacts, MaxRequiredIsNat
<1>4. seeing.at \in Nat /\ seeing.at >= 1 /\ seeing.at <= Len(Requires(seeing.of)) + 1
  BY MaxRequiredIsNat DEF OrderTypeOK, OpenInv
<1> QED BY <1>3, <1>4

LEMMA StepKeeps == IInv /\ [OrderNext]_orderVars => IInv'
<1> SUFFICES ASSUME IInv, [OrderNext]_orderVars PROVE IInv' OBVIOUS
<1>1. /\ OrderTypeOK /\ Below(root) = Packages /\ OpenInv /\ WaitingInv /\ DepthInv /\ ResultInv /\ SearchInv
  BY DEF IInv
<1>2. ASSUME UNCHANGED found PROVE (Below(root) = Packages)'
  BY <1>1, <1>2 DEF found, Below, Closed
<1>3. CASE See
  <2>1. /\ OpenInv' /\ WaitingInv' /\ DepthInv'
        /\ waiting' \in [Packages -> Nat] /\ settled' \in 0 .. PackageCount /\ depth' \in [Packages -> Nat]
    BY <1>3, SeeSees, SeeCounts, SeeDepths
  <2>2. /\ UNCHANGED <<names, root, required, refused, order, searched, left, seen, below, stage>>
        /\ stage = "settling"
    BY <1>3 DEF See, found, searching
  <2>3. open' \in Seq([of : Packages, from : Nat])
    <3> DEFINE to == Requires(seeing.of)[seeing.at]
               far == Larger(depth[to], seeing.from + 1)
               e == [of |-> to, from |-> far]
               S == [of : Packages, from : Nat]
    <3>1. to \in Packages BY <1>3, SeeFacts DEF See
    <3>2. far \in Nat
      <4>1. depth[to] \in Nat /\ seeing.from \in Nat BY <1>1, <3>1 DEF OrderTypeOK
      <4> QED BY <4>1 DEF Larger
    <3>3. e \in S BY <3>1, <3>2
    <3>4. open' = open \/ open' = Append(open, e) BY <1>3 DEF See
    <3>5. open \in Seq(S) BY <1>1 DEF OrderTypeOK
    <3> HIDE DEF e, S
    <3>6. open' \in Seq(S) BY <3>3, <3>4, <3>5, AppendProperties
    <3> QED BY <3>6 DEF S
  <2>4. seeing' \in [of : 0 .. PackageCount, from : Nat, at : 1 .. MaxRequired + 1]
    <3>1. seeing.at + 1 \in 1 .. MaxRequired + 1 BY <1>3, SeeFacts DEF See
    <3>2. seeing' = [seeing EXCEPT !.at = seeing.at + 1] BY <1>3 DEF See
    <3> QED BY <1>1, <3>1, <3>2 DEF OrderTypeOK
  <2>5. OrderTypeOK' BY <1>1, <2>1, <2>2, <2>3, <2>4 DEF OrderTypeOK
  <2>6. ResultInv' /\ SearchInv' BY <1>1, <2>2 DEF ResultInv, SearchInv
  <2> QED BY <1>2, <2>1, <2>2, <2>5, <2>6 DEF IInv, found
<1>4. CASE Pop
  <2>1. /\ OpenInv' /\ WaitingInv' /\ DepthInv' /\ open' \in Seq([of : Packages, from : Nat])
        /\ seeing' \in [of : 0 .. PackageCount, from : Nat, at : 1 .. MaxRequired + 1]
    BY <1>4, PopKeeps
  <2>2. /\ UNCHANGED <<names, root, required, depth, waiting, settled, refused, order>>
        /\ UNCHANGED <<searched, left, seen, below, stage>> /\ stage = "settling"
    BY <1>4 DEF Pop, found, searching
  <2>3. OrderTypeOK' BY <1>1, <2>1, <2>2 DEF OrderTypeOK
  <2>4. ResultInv' /\ SearchInv' BY <1>1, <2>2 DEF ResultInv, SearchInv
  <2> QED BY <1>2, <2>1, <2>2, <2>3, <2>4 DEF IInv, found
<1>5. CASE Refuse
  <2>1. /\ UNCHANGED <<names, root, required, depth, waiting, settled, open, seeing, order>>
        /\ UNCHANGED <<searched, left, seen, below>> /\ refused' = TRUE /\ stage' = "next"
        /\ stage = "settling" /\ open = <<>> /\ settled < PackageCount
        /\ seeing.at \notin DOMAIN Requires(seeing.of)
    BY <1>5 DEF Refuse, found, settling, searching
  <2>2. OpenInv' /\ WaitingInv' /\ DepthInv' BY <1>1, <2>1, SettlingStays DEF found, settling
  <2>3. ResultInv' BY <1>1, <2>1, SeenWholly DEF ResultInv, Requires
  <2>4. SearchInv' BY <1>1, <2>1 DEF ResultInv, SearchInv
  <2>5. OrderTypeOK' BY <1>1, <2>1 DEF OrderTypeOK
  <2> QED BY <1>2, <2>1, <2>2, <2>3, <2>4, <2>5 DEF IInv, found
<1>6. CASE SortPackages
  <2>1. /\ UNCHANGED <<names, root, required, depth, waiting, settled, open, seeing, refused>>
        /\ UNCHANGED <<searched, left, seen, below>> /\ stage' = "next"
        /\ stage = "settling" /\ open = <<>> /\ settled >= PackageCount
        /\ seeing.at \notin DOMAIN Requires(seeing.of)
        /\ order' \in [Packages -> Packages]
        /\ \A i, j \in Packages : i < j => Before(order'[i], order'[j])
    BY <1>6 DEF SortPackages, found, settling, searching
  <2>2. OpenInv' /\ WaitingInv' /\ DepthInv' BY <1>1, <2>1, SettlingStays DEF found, settling
  <2>3. ResultInv'
    <3>1. ~refused' /\ ~(settled' < PackageCount)
      BY <1>1, <2>1, PackageCountIsNat DEF ResultInv, OrderTypeOK
    <3>2. seeing'.at = Len(Requires(seeing.of)') + 1 BY <1>1, <2>1, SeenWholly DEF Requires
    <3>3. \A p, q : Before(p, q)' <=> Before(p, q) BY <2>1 DEF Before
    <3>4. \A i, j \in Packages : i < j => Before(order[i], order[j])' BY <2>1, <3>3 DEF Before
    <3> QED BY <2>1, <3>1, <3>2, <3>4 DEF ResultInv
  <2>4. SearchInv' BY <1>1, <2>1 DEF ResultInv, SearchInv
  <2>5. OrderTypeOK' BY <1>1, <2>1 DEF OrderTypeOK
  <2> QED BY <1>2, <2>1, <2>2, <2>3, <2>4, <2>5 DEF IInv, found
\* From here on nothing changes of how all was settled, and of what came of it.
<1>7. ASSUME UNCHANGED <<found, settling, refused, order>>, stage # "settling", stage' # "settling"
      PROVE  /\ (Below(root) = Packages)' /\ OpenInv' /\ WaitingInv' /\ DepthInv' /\ ResultInv'
             /\ \A n : Searched(n)' = Searched(n)
             /\ \A n : Below(required[Searched(n)])' = Below(required[Searched(n)])
  <2>1. UNCHANGED <<names, root, required, depth, waiting, settled, open, seeing, refused, order>>
    BY <1>7 DEF found, settling
  <2>2. OpenInv' /\ WaitingInv' /\ DepthInv' BY <1>1, <1>7, SettlingStays
  <2>3. ResultInv' BY <1>1, <1>7, <2>1 DEF ResultInv, Requires, Before
  <2>4. \A n : Searched(n)' = Searched(n) BY <2>1 DEF Searched
  <2>5. \A n : Below(required[Searched(n)])' = Below(required[Searched(n)])
    BY <2>1 DEF Searched, Below, Closed
  <2> QED BY <1>2, <1>7, <2>2, <2>3, <2>4, <2>5
<1>8. CASE Start
  <2> DEFINE p == Searched(searched + 1)
  <2>1. /\ stage = "next" /\ searched < PackageCount /\ searched' = searched + 1
        /\ left' = required[p] /\ seen' = {} /\ stage' = "searching"
        /\ UNCHANGED <<found, settling, refused, order, below>>
    BY <1>8 DEF Start
  <2>2. searched + 1 \in Packages BY <1>1, <2>1, PackageCountIsNat DEF OrderTypeOK, Packages
  <2>3. p \in Packages /\ required[p] \in Lists /\ required[p] \in Seq(Packages)
    BY <1>1, <2>1, <2>2, SearchedFacts
  <2>4. OrderTypeOK'
    <3>1. searched' \in 0 .. PackageCount BY <2>1, <2>2, PackageCountIsNat DEF Packages
    <3> QED BY <1>1, <2>1, <2>3, <3>1 DEF OrderTypeOK, found, settling
  <2>5. /\ (Below(root) = Packages)' /\ OpenInv' /\ WaitingInv' /\ DepthInv' /\ ResultInv'
        /\ \A n : Searched(n)' = Searched(n)
        /\ \A n : Below(required[Searched(n)])' = Below(required[Searched(n)])
    BY <1>7, <2>1
  <2>6. SearchInv'
    <3>1. \A n \in 1 .. searched' :
             n < searched' => below'[Searched(n)'] = Below(required[Searched(n)])'
      <4> SUFFICES ASSUME NEW n \in 1 .. searched + 1, n < searched + 1
                   PROVE  below'[Searched(n)'] = Below(required[Searched(n)])'
        BY <2>1
      <4>1. n \in 1 .. searched BY <1>1, PackageCountIsNat DEF OrderTypeOK
      <4>2. below[Searched(n)] = Below(required[Searched(n)]) BY <1>1, <2>1, <4>1 DEF SearchInv
      <4> QED BY <2>1, <2>5, <4>2
    <3>2. Searched(searched)' = p BY <2>1 DEF Searched
    <3>3. required' = required BY <2>1 DEF found
    <3>4. Below(required[Searched(searched)])' = Below(required[p])
      BY <3>2, <3>3 DEF Below, Closed
    <3>5. Reaching' = {required[p][i] : i \in DOMAIN required[p]} BY <2>1 DEF Reaching
    <3>6. Reaching' \subseteq Below(required[p]) BY <1>1, <2>3, <3>5, BelowFacts DEF OrderTypeOK
    <3>7. \A i \in DOMAIN required[p] : required[p][i] \in Reaching' BY <3>5
    <3>8. searched' \in Packages /\ stage' = "searching" /\ seen' = {} BY <2>1, <2>2
    <3> HIDE DEF p
    <3> QED BY <3>1, <3>2, <3>3, <3>4, <3>6, <3>7, <3>8 DEF SearchInv
  <2> QED BY <2>4, <2>5, <2>6 DEF IInv
<1>9. CASE Look
  <2>1. left' \in Seq(Packages) /\ seen' \in SUBSET Packages /\ SearchInv' BY <1>9, LookKeeps
  <2>2. /\ stage = "searching" /\ stage' = "searching"
        /\ UNCHANGED <<found, settling, refused, order, searched, below>>
    BY <1>9 DEF Look
  <2>3. OrderTypeOK' BY <1>1, <2>1, <2>2 DEF OrderTypeOK, found, settling
  <2> QED BY <1>7, <2>1, <2>2, <2>3 DEF IInv
<1>10. CASE Told
  <2>1. below' \in [Packages -> SUBSET Packages] /\ SearchInv' BY <1>10, ToldKeeps
  <2>2. /\ stage = "searching" /\ stage' = "next"
        /\ UNCHANGED <<found, settling, refused, order, searched, left, seen>>
    BY <1>10 DEF Told
  <2>3. OrderTypeOK' BY <1>1, <2>1, <2>2 DEF OrderTypeOK, found, settling
  <2> QED BY <1>7, <2>1, <2>2, <2>3 DEF IInv
<1>11. CASE Finish
  <2>1. /\ stage = "next" /\ stage' = "done" /\ searched = PackageCount
        /\ UNCHANGED <<found, settling, refused, order, searched, left, seen, below>>
    BY <1>11 DEF Finish, searching
  <2>2. OrderTypeOK' BY <1>1, <2>1 DEF OrderTypeOK, found, settling
  <2>3. SearchInv' BY <1>1, <1>7, <2>1 DEF SearchInv
  <2> QED BY <1>7, <2>1, <2>2, <2>3 DEF IInv
<1>12. CASE UNCHANGED orderVars
  <2>1. UNCHANGED <<found, settling, refused, order, searching, stage>> BY <1>12 DEF orderVars
  <2>2. OrderTypeOK' BY <1>1, <2>1 DEF OrderTypeOK, found, settling, searching
  <2>3. OpenInv' /\ WaitingInv' /\ DepthInv' BY <1>1, <2>1, SettlingStays
  <2>4. ResultInv' BY <1>1, <2>1 DEF ResultInv, Requires, Before, Root, found, settling, searching
  <2>5. SearchInv'
    BY <1>1, <2>1 DEF SearchInv, Searched, Below, Closed, Reaching, found, searching
  <2> QED BY <1>2, <2>1, <2>2, <2>3, <2>4, <2>5 DEF IInv
<1> QED BY <1>3, <1>4, <1>5, <1>6, <1>8, <1>9, <1>10, <1>11, <1>12 DEF OrderNext

---------------------------------------------------------------------------
(* What follows when all is done.                                          *)

\* Where each of some packages is required by one of them, one reaches itself:
\* of those from which most is reached, what requires it would reach more.
LEMMA RoundSomewhere ==
    ASSUME required \in [Packages -> Lists], NEW ps \in SUBSET Packages, ps # {},
           \A p \in ps : \E q \in ps : \E i \in DOMAIN required[q] : required[q][i] = p
    PROVE  \E p \in Packages : p \in Below(required[p])
<1> SUFFICES ASSUME \A p \in Packages : p \notin Below(required[p]) PROVE FALSE
  OBVIOUS
<1> DEFINE Rest(p) == Packages \ Below(required[p])
           Rests == {Rest(p) : p \in ps}
           Less == StrictSubsetOrdering(Packages)
<1>1. Rests # {} /\ Rests \subseteq FiniteSubsetsOf(Packages)
  <2>1. \A p \in ps : IsFiniteSet(Rest(p)) /\ Rest(p) \subseteq Packages
    BY PackagesFinite, FS_Subset
  <2> HIDE DEF Rest
  <2> QED BY <2>1 DEF FiniteSubsetsOf
<1>2. PICK least \in Rests : \A rest \in Rests : <<rest, least>> \notin Less
  <2> HIDE DEF Rests
  <2> QED BY <1>1, FS_StrictSubsetOrderingWellFounded, WFMin
<1>3. PICK p \in ps : least = Rest(p) OBVIOUS
<1>4. PICK q \in ps : \E i \in DOMAIN required[q] : required[q][i] = p OBVIOUS
<1>5. required[q] \in Lists OBVIOUS
<1>6. p \in Below(required[q]) /\ Below(required[p]) \subseteq Below(required[q])
  BY <1>4, <1>5, BelowFacts
<1>7. Rest(q) \subseteq Rest(p) /\ Rest(q) # Rest(p) BY <1>6
<1>8. Rest(q) \in SUBSET Packages /\ Rest(p) \in SUBSET Packages /\ Rest(q) \in Rests OBVIOUS
<1>9. <<Rest(q), Rest(p)>> \in Less BY <1>7, <1>8 DEF StrictSubsetOrdering
<1> QED BY <1>2, <1>3, <1>8, <1>9

\* All places of what is settled were seen once nothing is open.
LEMMA SettledSeen ==
    ASSUME IInv, stage # "settling"
    PROVE  /\ \A q \in 0 .. PackageCount : \A i \in DOMAIN Requires(q) :
                /\ Requires(q)[i] \in Packages /\ <<q, i>> \in Places(Requires(q)[i])
                /\ Opened(q) <=> SeenAt(<<q, i>>)
<1> SUFFICES ASSUME NEW q \in 0 .. PackageCount, NEW i \in DOMAIN Requires(q)
             PROVE  /\ Requires(q)[i] \in Packages /\ <<q, i>> \in Places(Requires(q)[i])
                    /\ Opened(q) <=> SeenAt(<<q, i>>)
  OBVIOUS
<1>1. OrderTypeOK /\ OpenInv /\ ResultInv BY DEF IInv
<1>2. Requires(q) \in Lists BY <1>1, RequiresFacts
<1>3. /\ Requires(q)[i] \in Packages /\ i \in 1 .. Len(Requires(q))
      /\ Len(Requires(q)) \in 0 .. MaxRequired
  BY <1>2, ListFacts
<1>4. <<q, i>> \in Places(Requires(q)[i]) BY <1>3, MaxRequiredIsNat DEF Places
<1>5. ~IsOpen(q) BY <1>1 DEF ResultInv, IsOpen
<1>6. q = seeing.of => i < seeing.at BY <1>1, <1>3, MaxRequiredIsNat DEF ResultInv
<1> QED BY <1>3, <1>4, <1>5, <1>6 DEF SeenAt

\* Everything is settled exactly where no package reaches itself.
LEMMA SettledUnlessRound ==
    ASSUME IInv, stage # "settling"
    PROVE  /\ refused <=> \E p \in Packages : p \in Below(required[p])
           /\ ~refused => Settled = Packages
<1>1. OrderTypeOK /\ OpenInv /\ WaitingInv /\ DepthInv /\ ResultInv BY DEF IInv
<1>2. ~refused <=> Settled = Packages
  BY <1>1, PackagesFinite, PackageCountIsNat DEF ResultInv, WaitingInv
\* What is not settled is required by something else that is not.
<1>3. ASSUME refused PROVE \E p \in Packages : p \in Below(required[p])
  <2> DEFINE ps == Packages \ Settled
  <2>1. ps \in SUBSET Packages /\ ps # {} BY <1>2, <1>3 DEF Settled
  <2>2. ASSUME NEW p \in ps PROVE \E q \in ps : \E i \in DOMAIN required[q] : required[q][i] = p
    <3>1. p \in Packages /\ waiting[p] # 0 BY DEF Settled
    <3>2. PICK at \in Places(p) : ~SeenAt(at)
      BY <1>1, <3>1, PlacesFinite DEF WaitingInv, Unseen
    <3>3. /\ at[1] \in 0 .. PackageCount /\ at[2] \in DOMAIN Requires(at[1]) /\ Requires(at[1])[at[2]] = p
          /\ at = <<at[1], at[2]>>
      BY DEF Places
    <3>4. ~Opened(at[1]) BY <3>2, <3>3, SettledSeen
    <3>5. at[1] \in ps BY <3>3, <3>4, PackageCountIsNat DEF Opened, Settled, Root, Packages
    <3>6. Requires(at[1]) = required[at[1]] BY <3>4 DEF Opened, Requires
    <3> QED BY <3>3, <3>5, <3>6
  <2> HIDE DEF ps
  <2> QED BY <1>1, <2>1, <2>2, RoundSomewhere DEF OrderTypeOK
\* Depths rise along what is required, so none comes back to itself.
<1>4. ASSUME ~refused, NEW p \in Packages, p \in Below(required[p]) PROVE FALSE
  <2> DEFINE ps == {q \in Packages : depth[q] > depth[p]}
  <2>1. \A q \in Packages : \A i \in DOMAIN required[q] :
           required[q][i] \in Packages /\ depth[required[q][i]] > depth[q]
    <3> SUFFICES ASSUME NEW q \in Packages, NEW i \in DOMAIN required[q]
                 PROVE  required[q][i] \in Packages /\ depth[required[q][i]] > depth[q]
      OBVIOUS
    <3>1. q \in 0 .. PackageCount /\ q # Root /\ Requires(q) = required[q] /\ Far(q) = depth[q]
      BY PackageCountIsNat DEF Packages, Root, Requires, Far
    <3>2. Opened(q) BY <1>2, <1>4 DEF Opened, Settled
    <3>3. /\ required[q][i] \in Packages /\ <<q, i>> \in Places(required[q][i])
          /\ SeenAt(<<q, i>>)
      BY <3>1, <3>2, SettledSeen
    <3> QED BY <1>1, <3>1, <3>3 DEF DepthInv
  <2>2. \A q \in Packages : depth[q] \in Nat BY <1>1 DEF OrderTypeOK
  <2>3. Closed(ps)
    <3> SUFFICES ASSUME NEW q \in ps, NEW i \in DOMAIN required[q] PROVE required[q][i] \in ps
      BY DEF Closed
    <3>1. PICK r : r = required[q][i] OBVIOUS
    <3>2. r \in Packages /\ depth[r] > depth[q] /\ depth[q] > depth[p] BY <2>1, <3>1
    <3> QED BY <2>2, <3>1, <3>2
  <2>4. \A i \in DOMAIN required[p] : required[p][i] \in ps BY <2>1
  <2>5. Below(required[p]) \subseteq ps BY <2>3, <2>4, BelowLeast
  <2>6. depth[p] > depth[p] BY <1>4, <2>5
  <2> QED BY <2>2, <2>6
<1> QED BY <1>2, <1>3, <1>4

\* What each package reaches was looked for once all is done.
LEMMA AllLookedFor ==
    ASSUME IInv, stage = "done"
    PROVE  /\ \A p \in Packages : \E n \in Packages : Searched(n) = p
           /\ \A p \in Packages : below[p] = Below(required[p])
<1>1. OrderTypeOK /\ ResultInv /\ SearchInv /\ searched = PackageCount BY DEF IInv, SearchInv
<1>2. \A p \in Packages : \E n \in Packages : Searched(n) = p
  <2>1. CASE refused BY <2>1 DEF Searched
  <2>2. CASE ~refused
    <3>1. order \in [Packages -> Packages] /\ \A i, j \in Packages : i < j => Before(order[i], order[j])
      BY <1>1, <2>2 DEF ResultInv
    <3>2. \A p \in Packages : ~Before(p, p) BY <1>1 DEF Before, OrderTypeOK, Packages
    <3>3. \A i, j \in Packages : order[i] = order[j] => i = j
      <4> SUFFICES ASSUME NEW i \in Packages, NEW j \in Packages, order[i] = order[j], i # j PROVE FALSE
        OBVIOUS
      <4>1. i < j \/ j < i BY PackageCountIsNat DEF Packages
      <4>2. Before(order[i], order[j]) \/ Before(order[j], order[i]) BY <3>1, <4>1
      <4>3. order[i] \in Packages BY <3>1
      <4> QED BY <3>2, <4>2, <4>3
    <3>4. order \in Injection(Packages, Packages) BY <3>1, <3>3 DEF Injection, IsInjective
    <3>5. order \in Surjection(Packages, Packages) BY <3>4, PackagesFinite, FS_Injection
    <3> QED BY <2>2, <3>5 DEF Surjection, Searched
  <2> QED BY <2>1, <2>2
<1>3. \A n \in Packages : below[Searched(n)] = Below(required[Searched(n)])
  BY <1>1 DEF SearchInv, Packages
<1> QED BY <1>2, <1>3

\* A package is as far as the longest chain to it.
LEMMA ChainsReach ==
    ASSUME IInv, stage # "settling", ~refused, NEW p \in Packages
    PROVE  /\ depth[p] \in Packages /\ Chains(p, depth[p]) # {}
           /\ \A n \in Packages : Chains(p, n) # {} => n <= depth[p]
<1>1. OrderTypeOK /\ DepthInv /\ WaitingInv /\ Settled = Packages BY SettledUnlessRound DEF IInv
\* Whatever requires one is opened, and so nearer.
<1>2. \A q \in 0 .. PackageCount : \A i \in DOMAIN Requires(q) :
         Requires(q)[i] \in Packages /\ depth[Requires(q)[i]] > Far(q)
  <2> SUFFICES ASSUME NEW q \in 0 .. PackageCount, NEW i \in DOMAIN Requires(q)
               PROVE  Requires(q)[i] \in Packages /\ depth[Requires(q)[i]] > Far(q)
    OBVIOUS
  <2>1. Opened(q) BY <1>1, PackageCountIsNat DEF Opened, Settled, Root, Packages
  <2>2. /\ Requires(q)[i] \in Packages /\ <<q, i>> \in Places(Requires(q)[i])
        /\ SeenAt(<<q, i>>)
    BY <2>1, SettledSeen
  <2> QED BY <1>1, <2>2 DEF DepthInv
<1>3. depth[p] > 0
  <2>1. PICK at \in Places(p) : TRUE BY <1>1 DEF WaitingInv
  <2>2. at[1] \in 0 .. PackageCount /\ at[2] \in DOMAIN Requires(at[1]) /\ Requires(at[1])[at[2]] = p
    BY DEF Places
  <2>3. depth[p] > Far(at[1]) BY <1>2, <2>2
  <2>4. Far(at[1]) \in Nat /\ depth[p] \in Nat
    <3>1. at[1] = Root \/ at[1] \in Packages BY <2>2, PackageCountIsNat DEF Root, Packages
    <3> QED BY <1>1, <3>1 DEF Far, OrderTypeOK
  <2> QED BY <2>3, <2>4
<1>4. depth[p] \in Packages
  <2>1. depth[p] <= settled /\ depth[p] \in Nat /\ settled \in 0 .. PackageCount
    BY <1>1 DEF DepthInv, Settled, OrderTypeOK
  <2> QED BY <1>3, <2>1, PackageCountIsNat DEF Packages
<1>5. ASSUME NEW n \in Packages, NEW c \in Chains(p, n), n > depth[p] PROVE FALSE
  <2> DEFINE ks == {k \in 1 .. n : k > depth[c[k]]}
             Less == {t \in Nat \X Nat : t[1] < t[2]}
  <2>1. /\ c \in [1 .. n -> Packages] /\ c[n] = p /\ n \in Nat \ {0}
        /\ \E i \in DOMAIN root : root[i] = c[1]
        /\ \A k \in 1 .. n - 1 : \E i \in DOMAIN required[c[k]] : required[c[k]][i] = c[k + 1]
    <3>1. n \in Nat \ {0} BY PackageCountIsNat DEF Packages
    <3> QED BY <1>5, <3>1 DEF Chains
  <2>2. n \in ks /\ ks \subseteq Nat BY <1>5, <2>1
  <2>3. PICK k \in ks : \A m \in ks : ~(m < k)
    <3>1. IsWellFoundedOn(Less, Nat) BY NatLessThanWellFounded DEF OpToRel
    <3>2. PICK k \in ks : \A m \in ks : <<m, k>> \notin Less
      <4> HIDE DEF ks, Less
      <4> QED BY <2>2, <3>1, WFMin
    <3> QED BY <2>2, <3>2
  <2>4. k \in 1 .. n /\ k > depth[c[k]] /\ c[k] \in Packages /\ depth[c[k]] \in Nat
    BY <1>1, <2>1 DEF OrderTypeOK
  <2>5. CASE k = 1
    <3>1. PICK i \in DOMAIN root : root[i] = c[1] BY <2>1
    <3>2. Requires(Root) = root /\ Root \in 0 .. PackageCount /\ Far(Root) = 0
      BY PackageCountIsNat DEF Requires, Root, Far
    <3>3. depth[c[1]] > 0 BY <1>2, <3>1, <3>2
    <3> QED BY <2>4, <2>5, <3>3
  <2>6. CASE k # 1
    <3>1. k - 1 \in 1 .. n - 1 /\ k - 1 \in 1 .. n /\ k - 1 + 1 = k /\ k - 1 < k BY <2>1, <2>4, <2>6
    <3>2. c[k - 1] \in Packages /\ depth[c[k - 1]] \in Nat BY <1>1, <2>1, <3>1 DEF OrderTypeOK
    <3>3. PICK i \in DOMAIN required[c[k - 1]] : required[c[k - 1]][i] = c[k] BY <2>1, <3>1
    <3>4. depth[c[k]] > depth[c[k - 1]]
      <4>1. c[k - 1] \in 0 .. PackageCount /\ c[k - 1] # Root BY <3>2, PackageCountIsNat DEF Packages, Root
      <4>2. Requires(c[k - 1]) = required[c[k - 1]] /\ Far(c[k - 1]) = depth[c[k - 1]]
        BY <4>1 DEF Requires, Far
      <4> QED BY <1>2, <3>3, <4>1, <4>2
    <3>5. k - 1 > depth[c[k - 1]] BY <2>4, <3>2, <3>4
    <3> QED BY <2>3, <3>1, <3>5
  <2> QED BY <2>5, <2>6
<1>6. \A n \in Packages : Chains(p, n) # {} => n <= depth[p]
  <2> SUFFICES ASSUME NEW n \in Packages, Chains(p, n) # {}, ~(n <= depth[p]) PROVE FALSE
    OBVIOUS
  <2>1. n > depth[p] BY <1>4, PackageCountIsNat DEF Packages
  <2> QED BY <1>5, <2>1
<1> QED BY <1>1, <1>3, <1>4, <1>6 DEF DepthInv

---------------------------------------------------------------------------
(* The theorems.                                                           *)

\* How packages stand to the lists seen, counted and measured of them holds at
\* every step, for any packages and lists.
THEOREM OrderInvariance == OrderSpec => []IInv
<1>1. OrderInit => IInv BY Initially
<1>2. IInv /\ [OrderNext]_orderVars => IInv' BY StepKeeps
<1> QED BY <1>1, <1>2, PTL DEF OrderSpec

\* All counts are of their types: of what requires a package and waits to be
\* seen, the count never goes below none (ordered).
THEOREM OrderTypeCorrect == OrderSpec => []OrderTypeOK
<1>1. IInv => OrderTypeOK BY DEF IInv
<1> QED BY <1>1, OrderInvariance, PTL

\* A design is refused exactly if packages of it depend on each other, and
\* those told are exactly the ones that do (ordered).
THEOREM CyclesRefused == OrderSpec => []CyclesAreRefused
<1>1. IInv => CyclesAreRefused
  <2> SUFFICES ASSUME IInv, stage = "done" PROVE CyclesAreRefused BY DEF CyclesAreRefused
  <2> QED BY SettledUnlessRound, AllLookedFor DEF CyclesAreRefused
<1> QED BY <1>1, OrderInvariance, PTL

\* Packages come once each and after all they require, those the longest chain
\* of requirements leads to first and ties by name (Dependencies::ordered).
THEOREM FarthestFirst == OrderSpec => []FarthestComeFirst
<1>1. IInv => FarthestComeFirst
  <2> SUFFICES ASSUME IInv, stage = "done", ~refused PROVE FarthestComeFirst
    BY DEF FarthestComeFirst
  <2>1. OrderTypeOK /\ ResultInv BY DEF IInv
  <2>2. order \in [Packages -> Packages] /\ \A i, j \in Packages : i < j => Before(order[i], order[j])
    BY <2>1 DEF ResultInv
  <2>3. \A p \in Packages : \E i \in Packages : order[i] = p BY AllLookedFor DEF Searched
  <2>4. \A p \in Packages : depth[p] \in Nat /\ names[p] \in Nat
    BY <2>1, PackageCountIsNat DEF OrderTypeOK, Packages
\* What is below a package is farther than it, as what it requires is.
  <2>5. ASSUME NEW p \in Packages, NEW q \in Below(required[p]) PROVE q \in Packages /\ depth[q] > depth[p]
    <3> DEFINE ps == {r \in Packages : depth[r] > depth[p]}
    <3>1. \A r \in Packages : \A i \in DOMAIN required[r] :
             required[r][i] \in Packages /\ depth[required[r][i]] > depth[r]
      <4> SUFFICES ASSUME NEW r \in Packages, NEW i \in DOMAIN required[r]
                   PROVE  required[r][i] \in Packages /\ depth[required[r][i]] > depth[r]
        OBVIOUS
      <4>1. r \in 0 .. PackageCount /\ r # Root /\ Requires(r) = required[r] /\ Far(r) = depth[r]
        BY PackageCountIsNat DEF Packages, Root, Requires, Far
      <4>2. Opened(r) BY SettledUnlessRound DEF Opened, Settled
      <4>3. /\ required[r][i] \in Packages /\ <<r, i>> \in Places(required[r][i])
            /\ SeenAt(<<r, i>>)
        BY <4>1, <4>2, SettledSeen
      <4> QED BY <4>1, <4>3 DEF IInv, DepthInv
    <3>2. Closed(ps)
      <4> SUFFICES ASSUME NEW r \in ps, NEW i \in DOMAIN required[r] PROVE required[r][i] \in ps
        BY DEF Closed
      <4>1. PICK s : s = required[r][i] OBVIOUS
      <4>2. s \in Packages /\ depth[s] > depth[r] /\ depth[r] > depth[p] BY <3>1, <4>1
      <4> QED BY <2>4, <4>1, <4>2
    <3>3. \A i \in DOMAIN required[p] : required[p][i] \in ps BY <3>1
    <3> QED BY <2>5, <3>2, <3>3, BelowLeast
  <2>6. ASSUME NEW i \in Packages, NEW j \in Packages, order[j] \in Below(required[order[i]])
        PROVE  j < i
    <3>1. order[i] \in Packages /\ order[j] \in Packages /\ depth[order[j]] > depth[order[i]]
      BY <2>2, <2>5, <2>6
    <3>2. ~Before(order[i], order[j]) /\ order[i] # order[j] BY <2>4, <3>1 DEF Before
    <3>3. ~(i < j) /\ i # j BY <2>2, <3>2
    <3> QED BY <3>3, PackageCountIsNat DEF Packages
  <2>7. ASSUME NEW i \in Packages, NEW j \in Packages, i < j
        PROVE  /\ AsFar(order[i], order[j])
               /\ AsFar(order[j], order[i]) => names[order[i]] < names[order[j]]
    <3>1. PICK p \in Packages, q \in Packages : p = order[i] /\ q = order[j] BY <2>2
    <3>2. Before(p, q) BY <2>2, <2>7, <3>1
    <3>3. /\ depth[p] \in Packages /\ Chains(p, depth[p]) # {}
          /\ \A n \in Packages : Chains(p, n) # {} => n <= depth[p]
      BY ChainsReach
    <3>4. /\ depth[q] \in Packages /\ Chains(q, depth[q]) # {}
          /\ \A n \in Packages : Chains(q, n) # {} => n <= depth[q]
      BY ChainsReach
    <3>5. depth[p] >= depth[q] BY <2>4, <3>2 DEF Before
    <3>6. AsFar(p, q)
      <4> SUFFICES ASSUME NEW n \in Packages, Chains(q, n) # {} PROVE depth[p] >= n
        BY <3>3 DEF AsFar
      <4>1. n <= depth[q] BY <3>4
      <4> QED BY <2>4, <3>5, <4>1, PackageCountIsNat DEF Packages
    <3>7. ASSUME AsFar(q, p) PROVE names[p] < names[q]
      <4>1. PICK m \in Packages : m >= depth[p] /\ Chains(q, m) # {} BY <3>3, <3>7 DEF AsFar
      <4>2. m <= depth[q] BY <3>4, <4>1
      <4>3. ~(depth[p] > depth[q]) BY <2>4, <4>1, <4>2, PackageCountIsNat DEF Packages
      <4> QED BY <3>2, <4>3 DEF Before
    <3> QED BY <3>1, <3>6, <3>7
  <2> QED BY <2>3, <2>6, <2>7 DEF FarthestComeFirst
<1> QED BY <1>1, OrderInvariance, PTL

\* What a package needs is exactly what it requires and all that needs
\* (Dependency::needs).
THEOREM NeedsBelow == OrderSpec => []NeedsAreBelow
<1>1. IInv => NeedsAreBelow BY AllLookedFor DEF NeedsAreBelow
<1> QED BY <1>1, OrderInvariance, PTL

\* The order of the packages, or their refusal, is right, for any packages and
\* whatever each requires (ordered).
THEOREM OrderComesRight == OrderSpec => []OrderIsRight
<1>1. OrderTypeOK /\ CyclesAreRefused /\ FarthestComeFirst /\ NeedsAreBelow => OrderIsRight
  BY DEF OrderIsRight
<1> QED BY <1>1, OrderTypeCorrect, CyclesRefused, FarthestFirst, NeedsBelow, PTL

---------------------------------------------------------------------------
(* Which files overrides replace.                                          *)

\* Leave reaches what it is of, and all that reaches.
LEMMA LeaveReaches ==
    ASSUME NEW grants, NEW n, NEW g \in grants, n \in g.names
    PROVE  /\ g.of \in Reached(grants, n, g.by)
           /\ Reached(grants, n, g.of) \subseteq Reached(grants, n, g.by)
<1>1. <<g.by, g.of>> \in Leads(grants, n) /\ g.of \in Granted(grants) BY DEF Leads, Granted
<1>2. g.of \in Reached(grants, n, g.by) BY <1>1 DEF Reached
<1>3. ASSUME NEW q \in Reached(grants, n, g.of), NEW ps \in SUBSET Granted(grants),
             \A l \in Leads(grants, n) : l[1] \in ps \union {g.by} => l[2] \in ps
      PROVE  q \in ps
  <2>1. g.of \in ps BY <1>1, <1>3
  <2>2. \A l \in Leads(grants, n) : l[1] \in ps \union {g.of} => l[2] \in ps BY <1>3, <2>1
  <2> QED BY <1>3, <2>2 DEF Reached
<1> QED BY <1>2, <1>3 DEF Reached

\* Whatever packages, files, names and grants there are: what overrides leave
\* declares every name that was declared, where leave does not go round, and
\* no name of it is still to be replaced (Dependencies::replaced).
THEOREM NamesStayDeclared ==
    ASSUME NEW count \in Nat, NEW grants, NEW units,
           \A g \in grants : g.by \in 0 .. count /\ g.of \in 0 .. count
    PROVE  StillDeclared(grants, units)
<1> DEFINE replaced == Replaced(grants, units)
           staying == DOMAIN units \ replaced.dropped
           Declaring(n, us) == {u \in us : n \in units[u].names}
<1>1. SUFFICES ASSUME ~replaced.fails, NEW n \in UNION {units[u].names : u \in DOMAIN units}
               PROVE  /\ ~Round(grants, n) => Declaring(n, staying) # {}
                      /\ \A u, v \in Declaring(n, staying) :
                            ~\E g \in grants : /\ g.by = units[u].package
                                               /\ g.of = units[v].package /\ n \in g.names
  BY DEF StillDeclared
\* A unit whose name nothing replaces is left, as it would be dropped whole.
<1>2. ASSUME NEW u \in DOMAIN units, n \in units[u].names
      PROVE  u \in staying <=> Replacing(grants, units, units[u].package, n) = {}
  <2>1. Gone(grants, units, u) \in {{}, units[u].names} BY <1>1 DEF Replaced
  <2>2. n \in Gone(grants, units, u) <=> Replacing(grants, units, units[u].package, n) # {}
    BY <1>2 DEF Gone
  <2>3. u \in staying <=> Gone(grants, units, u) = {} BY DEF Replaced
  <2> QED BY <1>2, <2>1, <2>2, <2>3
<1>3. ASSUME NEW u \in Declaring(n, staying), NEW v \in Declaring(n, staying), NEW g \in grants,
             g.by = units[u].package, g.of = units[v].package, n \in g.names
      PROVE  FALSE
  <2>1. u \in Replacing(grants, units, units[v].package, n) BY <1>3 DEF Replacing
  <2> QED BY <1>2, <1>3, <2>1
\* Of the packages that declare it, one from which leave reaches most.
<1>4. ASSUME ~Round(grants, n), Declaring(n, staying) = {} PROVE FALSE
  <2> DEFINE P == Granted(grants)
             Rest(u) == P \ Reached(grants, n, units[u].package)
             Rests == {Rest(u) : u \in Declaring(n, DOMAIN units)}
             Less == StrictSubsetOrdering(P)
  <2>1. IsFiniteSet(P)
    <3>1. P \subseteq Nat /\ \A p \in P : p <= count BY DEF Granted
    <3> HIDE DEF P
    <3> QED BY <3>1, FS_BoundedSetOfNaturals
  <2>2. Rests # {} /\ Rests \subseteq FiniteSubsetsOf(P)
    <3>1. \A u \in Declaring(n, DOMAIN units) : IsFiniteSet(Rest(u)) /\ Rest(u) \subseteq P
      BY <2>1, FS_Subset
    <3>2. \A u \in Declaring(n, DOMAIN units) : Rest(u) \in FiniteSubsetsOf(P)
      <4> HIDE DEF Rest, P
      <4> QED BY <3>1 DEF FiniteSubsetsOf
    <3>3. Declaring(n, DOMAIN units) # {} BY <1>1
    <3> HIDE DEF Rest, P
    <3> QED BY <3>2, <3>3
  <2>3. PICK least \in Rests : \A rest \in Rests : <<rest, least>> \notin Less
    <3> HIDE DEF Rests
    <3> QED BY <2>2, FS_StrictSubsetOrderingWellFounded, WFMin
  <2>4. PICK v \in Declaring(n, DOMAIN units) : least = Rest(v) OBVIOUS
  <2>5. Replacing(grants, units, units[v].package, n) # {} BY <1>2, <1>4
  <2>6. PICK u \in DOMAIN units, g \in grants :
            n \in units[u].names /\ g.by = units[u].package /\ g.of = units[v].package /\ n \in g.names
    BY <2>5 DEF Replacing
  <2>7. /\ g.of \in Reached(grants, n, g.by)
        /\ Reached(grants, n, g.of) \subseteq Reached(grants, n, g.by)
    BY <2>6, LeaveReaches
  <2>8. g.of \in P /\ g.of \notin Reached(grants, n, g.of) BY <1>4, <2>6 DEF Round, Granted
  <2>9. Rest(u) \subseteq Rest(v) /\ Rest(u) # Rest(v) BY <2>6, <2>7, <2>8
  <2>10. Rest(u) \in Rests BY <2>6
  <2>11. Rest(u) \in SUBSET P /\ Rest(v) \in SUBSET P OBVIOUS
  <2>12. <<Rest(u), Rest(v)>> \in Less BY <2>9, <2>11 DEF StrictSubsetOrdering
  <2> QED BY <2>3, <2>4, <2>10, <2>12
<1> QED BY <1>3, <1>4

---------------------------------------------------------------------------
(* The algebra of candidates is exact, and the highest a set holds is      *)
(* found, for any candidates.                                              *)

\* For any two sets over any candidates of which one is listed in neither,
\* what PubGrub is told of complements, intersections, unions, disjointness,
\* inclusion and equality is so.
THEOREM AlgebraIsExact ==
    ASSUME NEW a \in Sets, NEW b \in Sets, NEW all, Known \subseteq all, all # Known
    PROVE  Exact(a, b, all)
<1> USE DEF Sets, Meaning
<1>1. PICK other \in all : other \notin Known OBVIOUS
<1>2. \A c \in all : Holds(a, c) <=> c \in Meaning(a, all) BY DEF Holds
<1>3. \A c \in Sets : /\ Complement(c) \in Sets
                      /\ Meaning(Complement(c), all) = all \ Meaning(c, all)
  BY DEF Complement
<1>4. \A c, d \in Sets :
        /\ Intersection(c, d) \in Sets
        /\ Meaning(Intersection(c, d), all) = Meaning(c, all) \intersect Meaning(d, all)
  <2> SUFFICES ASSUME NEW c \in Sets, NEW d \in Sets
               PROVE  /\ Intersection(c, d) \in Sets
                      /\ Meaning(Intersection(c, d), all)
                            = Meaning(c, all) \intersect Meaning(d, all)
    OBVIOUS
  <2>1. CASE c.allBut /\ d.allBut BY <2>1 DEF Intersection
  <2>2. CASE c.allBut /\ ~d.allBut BY <2>2 DEF Intersection
  <2>3. CASE ~c.allBut /\ d.allBut BY <2>3 DEF Intersection
  <2>4. CASE ~c.allBut /\ ~d.allBut BY <2>4 DEF Intersection
  <2> QED BY <2>1, <2>2, <2>3, <2>4
\* What a set lists is told from what it does not by the candidate unlisted.
<1>5. \A c, d \in Sets : Meaning(c, all) = Meaning(d, all) => c = d
  <2> SUFFICES ASSUME NEW c \in Sets, NEW d \in Sets, Meaning(c, all) = Meaning(d, all)
               PROVE  c = d
    OBVIOUS
  <2>1. c.allBut <=> other \in Meaning(c, all) BY <1>1
  <2>2. d.allBut <=> other \in Meaning(d, all) BY <1>1
  <2>3. c.allBut = d.allBut BY <2>1, <2>2
  <2>4. c.members = d.members BY <2>3
  <2> QED BY <2>3, <2>4
<1> HIDE DEF Meaning
<1>6. Meaning(Union(a, b), all) = Meaning(a, all) \union Meaning(b, all)
  <2>1. Complement(a) \in Sets /\ Complement(b) \in Sets BY <1>3
  <2>2. Intersection(Complement(a), Complement(b)) \in Sets BY <1>4, <2>1
  <2>3. Meaning(Union(a, b), all) = all \ ((all \ Meaning(a, all)) \intersect (all \ Meaning(b, all)))
    BY <1>3, <1>4, <2>1, <2>2 DEF Union
  <2>4. Meaning(a, all) \subseteq all /\ Meaning(b, all) \subseteq all BY DEF Meaning
  <2> QED BY <2>3, <2>4
<1>7. Disjoint(a, b) <=> Meaning(a, all) \intersect Meaning(b, all) = {}
  <2>1. Empty \in Sets /\ Meaning(Empty, all) = {} BY DEF Empty, Of, Meaning
  <2>2. /\ Intersection(a, b) \in Sets
        /\ Meaning(Intersection(a, b), all) = Meaning(a, all) \intersect Meaning(b, all)
    BY <1>4
  <2>3. Intersection(a, b) = Empty <=> Meaning(Intersection(a, b), all) = {}
    BY <1>5, <2>1, <2>2
  <2> QED BY <2>2, <2>3 DEF Disjoint
<1>8. SubsetOf(a, b) <=> Meaning(a, all) \subseteq Meaning(b, all)
  <2>1. SubsetOf(a, b) <=> Meaning(a, all) = Meaning(a, all) \intersect Meaning(b, all)
    BY <1>4, <1>5 DEF SubsetOf
  <2> QED BY <2>1
<1>9. (a = b) <=> (Meaning(a, all) = Meaning(b, all)) BY <1>5
<1> QED BY <1>2, <1>3, <1>4, <1>6, <1>7, <1>8, <1>9 DEF Exact

\* Numbers none of which is above a bound have a highest.
LEMMA HasHighest ==
    ASSUME NEW ns \in SUBSET Nat, ns # {}, NEW bound \in Nat, \A n \in ns : n <= bound
    PROVE  \E n \in ns : \A m \in ns : m <= n
<1> DEFINE Short == {s \in Nat : \E n \in ns : n + s = bound}
           Less == {p \in Nat \X Nat : p[1] < p[2]}
<1>1. \A n \in ns : n \in Nat /\ bound - n \in Nat /\ n + (bound - n) = bound OBVIOUS
<1>2. Short \subseteq Nat /\ Short # {}
  <2>1. PICK n \in ns : TRUE OBVIOUS
  <2>2. bound - n \in Short BY <1>1, <2>1
  <2> QED BY <2>2
<1>3. IsWellFoundedOn(Less, Nat) BY NatLessThanWellFounded DEF OpToRel
<1>4. PICK least \in Short : \A short \in Short : <<short, least>> \notin Less
  <2> HIDE DEF Short, Less
  <2> QED BY <1>2, <1>3, WFMin
<1>5. PICK n \in ns : n + least = bound OBVIOUS
<1>6. ASSUME NEW m \in ns PROVE m <= n
  <2>1. bound - m \in Short BY <1>1, <1>6
  <2>2. least \in Nat /\ ~(bound - m < least)
    <3> HIDE DEF Short
    <3> QED BY <1>1, <1>2, <1>4, <2>1
  <2> QED BY <1>1, <1>5, <1>6, <2>2
<1> QED BY <1>6

\* Of any candidates, finitely many, that a set holds, what is handed to
\* PubGrub to decide on is the highest, and none where it holds none.
THEOREM HighestIsHeld ==
    ASSUME NEW a \in Sets, NEW all \in SUBSET Nat, Known \subseteq all,
           NEW bound \in Nat, \A c \in all : c <= bound
    PROVE  HighestHeld(a, all)
<1> DEFINE held == Meaning(a, all)
<1>1. Highest(a, all) = {c \in held : \A d \in held : d <= c} BY DEF Highest, Meaning
<1>2. held \subseteq all BY DEF Sets, Meaning
<1> HIDE DEF held
<1>3. CASE held = {} BY <1>1, <1>3 DEF HighestHeld, held
<1>4. CASE held # {}
  <2>1. PICK c \in held : \A d \in held : d <= c BY <1>2, <1>4, HasHighest
  <2>2. \A d \in held : (\A e \in held : e <= d) => d = c BY <1>2, <2>1
  <2>3. Highest(a, all) = {c} BY <1>1, <2>1, <2>2
  <2> QED BY <1>4, <2>1, <2>3 DEF HighestHeld, held
<1> QED BY <1>3, <1>4
=============================================================================
