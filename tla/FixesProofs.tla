---------------------------- MODULE FixesProofs ----------------------------
(***************************************************************************)
(* That fixes are applied whole or not at all, and all else of the text is *)
(* kept, for any text and any fixes.  Up to each fix, those taken are      *)
(* whole and clash with none, and those left clash with one taken before;  *)
(* up to each place of the source, the text has what it is to have.        *)
(***************************************************************************)
EXTENDS Fixes, FiniteSetTheorems, SequenceTheorems, TLAPS

\* The fixes taken.
Chosen == {k \in DOMAIN fixes : \E a \in DOMAIN chosen : chosen[a][1] = k}

\* Of those gone by, the ones taken are taken whole and the others clash.
TakenWhole ==
    /\ applied = Cardinality(Chosen)
    /\ \A a \in DOMAIN chosen :
          /\ chosen[a][1] < next /\ chosen[a][1] \in DOMAIN fixes
          /\ chosen[a][2] \in DOMAIN fixes[chosen[a][1]]
    /\ \A k \in Chosen : \A i \in DOMAIN fixes[k] : \E a \in DOMAIN chosen : chosen[a] = <<k, i>>
    /\ \A a, b \in DOMAIN chosen : a # b => ~Clash(Of(chosen[a]), Of(chosen[b]))
    /\ \A k \in DOMAIN fixes : k < next /\ k \notin Chosen =>
          \/ fixes[k] = <<>>
          \/ \E i \in DOMAIN fixes[k], a \in DOMAIN chosen :
                chosen[a][1] < k /\ Clash(fixes[k][i], Of(chosen[a]))

\* What is sorted is what is taken, and each edit starts where the one before
\* it has ended.
SortedApart ==
    /\ \A a \in DOMAIN chosen : \E i \in DOMAIN sorted : sorted[i] = chosen[a]
    /\ \A i \in DOMAIN sorted : \E a \in DOMAIN chosen : sorted[i] = chosen[a]
    /\ \A i, j \in DOMAIN sorted : i < j =>
          Of(sorted[i]).start < Of(sorted[j]).start /\ Of(sorted[i]).end <= Of(sorted[j]).start

\* Whether an edit already put replaces a place.
Replaced(place) ==
    \E i \in DOMAIN sorted :
        i < putting /\ Of(sorted[i]).start <= place /\ place < Of(sorted[i]).end

\* How far the source is gone through.
Through == IF fixing = "done" THEN Size ELSE upto

\* The text up to there is all it is to be.
OutSoFar ==
    /\ \A i \in DOMAIN sorted : i < putting => Of(sorted[i]).end <= upto
    /\ fixing = "putting" => \A i \in DOMAIN sorted : i >= putting => upto <= Of(sorted[i]).start
    /\ \A i \in DOMAIN sorted : i < putting => \E p \in DOMAIN text : text[p] = Edited(sorted[i])
    /\ \A p \in DOMAIN text : text[p].fix # 0 =>
          \E i \in DOMAIN sorted : i < putting /\ text[p] = Edited(sorted[i])
    /\ \A place \in 0 .. Size - 1 :
          (\E p \in DOMAIN text : text[p] = Piece(place)) <=> place < Through /\ ~Replaced(place)
    /\ \A p \in DOMAIN text : text[p].end <= Through
    /\ \A p, q \in DOMAIN text : p < q => text[p].end <= text[q].start /\ text[p] # text[q]

IInv ==
    /\ FixTypeOK
    /\ TakenWhole
    /\ fixing = "taking" => sorted = <<>> /\ putting = 1 /\ text = <<>> /\ upto = 0
    /\ fixing # "taking" => next = Len(fixes) + 1 /\ SortedApart
    /\ fixing = "done" => putting = Len(sorted) + 1
    /\ OutSoFar

---------------------------------------------------------------------------
(* The operators.                                                          *)

LEMMA ClashSymmetric ==
    ASSUME NEW e \in Edits, NEW f \in Edits
    PROVE  Clash(e, f) <=> Clash(f, e)
BY SizeIsNat DEF Edits, Clash

\* What the code takes for a clash is an overlap.
LEMMA ClashIsOverlap ==
    ASSUME NEW e \in Edits, NEW f \in Edits
    PROVE  Clash(e, f) <=> Overlap(e, f)
<1>1. /\ e.start \in Nat /\ e.end \in Nat /\ e.start <= e.end
      /\ f.start \in Nat /\ f.end \in Nat /\ f.start <= f.end
  BY SizeIsNat DEF Edits
<1>2. ASSUME NEW x \in (e.start .. e.end - 1) \intersect (f.start .. f.end - 1)
      PROVE  Clash(e, f)
  <2>1. x \in Int /\ e.start <= x /\ x < e.end /\ f.start <= x /\ x < f.end BY <1>1
  <2> QED BY <1>1, <2>1 DEF Clash
<1>3. (e.start .. e.end - 1) \intersect (f.start .. f.end - 1) # {} => Clash(e, f) BY <1>2
<1>4. e.start < f.start /\ f.start < e.end => Clash(e, f) BY <1>1 DEF Clash
<1>5. f.start < e.start /\ e.start < f.end => Clash(e, f) BY <1>1 DEF Clash
<1>6. e.start = f.start => Clash(e, f) BY DEF Clash
<1>7. Clash(e, f) =>
         \/ e.start < f.start /\ f.start < e.end
         \/ f.start < e.start /\ e.start < f.end
         \/ e.start = f.start
  BY <1>1 DEF Clash
<1> QED BY <1>3, <1>4, <1>5, <1>6, <1>7 DEF Overlap

\* Of two edits that do not clash, the one that starts first ends first.
LEMMA ApartInOrder ==
    ASSUME NEW e \in Edits, NEW f \in Edits, ~Clash(e, f), e.start <= f.start
    PROVE  e.start < f.start /\ e.end <= f.start
BY SizeIsNat DEF Edits, Clash

LEMMA Joined ==
    ASSUME NEW S, NEW s \in Seq(S), NEW t \in Seq(S)
    PROVE  /\ s \o t \in Seq(S)
           /\ \A p \in DOMAIN s : p \in DOMAIN (s \o t) /\ (s \o t)[p] = s[p]
           /\ \A q \in DOMAIN t : Len(s) + q \in DOMAIN (s \o t) /\ (s \o t)[Len(s) + q] = t[q]
           /\ \A p \in DOMAIN (s \o t) :
                 p \in DOMAIN s \/ \E q \in DOMAIN t : p = Len(s) + q
<1>1. /\ s \o t \in Seq(S) /\ Len(s \o t) = Len(s) + Len(t)
      /\ \A i \in 1 .. Len(s) + Len(t) :
            (s \o t)[i] = IF i <= Len(s) THEN s[i] ELSE t[i - Len(s)]
  BY ConcatProperties
<1>2. /\ Len(s) \in Nat /\ DOMAIN s = 1 .. Len(s) /\ Len(t) \in Nat /\ DOMAIN t = 1 .. Len(t)
      /\ DOMAIN (s \o t) = 1 .. Len(s) + Len(t)
  BY <1>1, LenProperties
<1>3. ASSUME NEW p \in DOMAIN s PROVE p \in DOMAIN (s \o t) /\ (s \o t)[p] = s[p]
  BY <1>1, <1>2
<1>4. ASSUME NEW q \in DOMAIN t
      PROVE  Len(s) + q \in DOMAIN (s \o t) /\ (s \o t)[Len(s) + q] = t[q]
  <2>1. Len(s) + q \in 1 .. Len(s) + Len(t) /\ ~(Len(s) + q <= Len(s)) /\ Len(s) + q - Len(s) = q
    BY <1>2
  <2> QED BY <1>1, <1>2, <2>1
<1>5. ASSUME NEW p \in DOMAIN (s \o t), p \notin DOMAIN s
      PROVE  \E q \in DOMAIN t : p = Len(s) + q
  <2>1. p - Len(s) \in DOMAIN t /\ p = Len(s) + (p - Len(s)) BY <1>2, <1>5
  <2> QED BY <2>1
<1> QED BY <1>1, <1>3, <1>4, <1>5

LEMMA KeptFacts ==
    ASSUME NEW from \in 0 .. Size, NEW to \in 0 .. Size
    PROVE  /\ Kept(from, to) \in Seq({Piece(place) : place \in 0 .. Size - 1})
           /\ \A i \in DOMAIN Kept(from, to) :
                 /\ from + i - 1 \in from .. to - 1
                 /\ Kept(from, to)[i] = Piece(from + i - 1)
           /\ \A place \in from .. to - 1 : \E i \in DOMAIN Kept(from, to) :
                 i = place + 1 - from /\ Kept(from, to)[i] = Piece(place)
<1> DEFINE k == Kept(from, to)
<1>1. from \in Nat /\ to \in Nat /\ from <= Size /\ to <= Size /\ Size \in Nat BY SizeIsNat
<1>2. DOMAIN k = 1 .. to - from /\ \A i \in 1 .. to - from : k[i] = Piece(from + i - 1)
  BY <1>1 DEF Kept
<1>3. \A i \in 1 .. to - from : from + i - 1 \in from .. to - 1 /\ from + i - 1 \in 0 .. Size - 1
  BY <1>1
<1>4. k \in Seq({Piece(place) : place \in 0 .. Size - 1})
  <2> DEFINE S == {Piece(place) : place \in 0 .. Size - 1}
  <2>1. \A i \in 1 .. to - from : k[i] \in S BY <1>2, <1>3
  <2>2. k = [i \in 1 .. to - from |-> k[i]] BY <1>2 DEF Kept
  <2>3. PICK n \in Nat : 1 .. n = 1 .. to - from
    <3>1. CASE to >= from
      <4>1. to - from \in Nat BY <1>1, <3>1
      <4> QED BY <4>1
    <3>2. CASE to < from
      <4>1. 1 .. 0 = 1 .. to - from BY <1>1, <3>2
      <4> QED BY <4>1
    <3> QED BY <1>1, <3>1, <3>2
  <2>4. k \in [1 .. n -> S] 
    <3> HIDE DEF S, k
    <3> QED BY <2>1, <2>2, <2>3
  <2>5. k \in Seq(S)
    <3> HIDE DEF S, k
    <3> QED BY <2>3, <2>4
  <2> QED BY <2>5
<1>5. ASSUME NEW place \in from .. to - 1
      PROVE  \E i \in DOMAIN k : i = place + 1 - from /\ k[i] = Piece(place)
  <2>1. place + 1 - from \in 1 .. to - from /\ from + (place + 1 - from) - 1 = place BY <1>1
  <2> QED BY <1>2, <2>1
<1> QED BY <1>2, <1>3, <1>4, <1>5

---------------------------------------------------------------------------
(* What the variables hold.                                                *)

Named == (1 .. Len(fixes)) \X (1 .. MaxEdits)

LEMMA FixFacts ==
    ASSUME NEW fix \in Fixes
    PROVE  /\ fix \in Seq(Edits) /\ Len(fix) \in 0 .. MaxEdits /\ DOMAIN fix = 1 .. Len(fix)
           /\ \A i \in DOMAIN fix : fix[i] \in Edits
           /\ \A i, j \in DOMAIN fix : i # j => ~Clash(fix[i], fix[j])
           /\ fix = <<>> <=> DOMAIN fix = {}
<1>1. PICK n \in 0 .. MaxEdits : fix \in [1 .. n -> Edits] BY DEF Fixes
<1>2. n \in Nat BY <1>1, MaxEditsIsNat
<1>3. fix \in Seq(Edits) /\ Len(fix) = n BY <1>1, <1>2
<1>4. fix = <<>> <=> Len(fix) = 0 BY <1>3, EmptySeq
<1>5. DOMAIN fix = {} <=> Len(fix) = 0 BY <1>1, <1>2, <1>3
<1> QED BY <1>1, <1>3, <1>4, <1>5 DEF Fixes

LEMMA FixesFacts ==
    ASSUME FixTypeOK
    PROVE  /\ Len(fixes) \in Nat /\ DOMAIN fixes = 1 .. Len(fixes)
           /\ \A k \in DOMAIN fixes : fixes[k] \in Fixes
           /\ \A k \in DOMAIN fixes : \A i \in DOMAIN fixes[k] :
                 fixes[k][i] \in Edits /\ <<k, i>> \in Named
<1>1. Len(fixes) \in Nat /\ DOMAIN fixes = 1 .. Len(fixes) BY LenProperties DEF FixTypeOK
<1>2. \A k \in DOMAIN fixes : fixes[k] \in Fixes BY <1>1, ElementOfSeq DEF FixTypeOK
<1>3. ASSUME NEW k \in DOMAIN fixes, NEW i \in DOMAIN fixes[k]
      PROVE  fixes[k][i] \in Edits /\ <<k, i>> \in Named
  <2>1. /\ fixes[k][i] \in Edits /\ DOMAIN fixes[k] = 1 .. Len(fixes[k])
        /\ Len(fixes[k]) \in 0 .. MaxEdits
    BY <1>2, FixFacts
  <2>2. i \in 1 .. MaxEdits BY <2>1, MaxEditsIsNat
  <2> QED BY <1>1, <2>1, <2>2 DEF Named
<1> QED BY <1>1, <1>2, <1>3

\* What is taken are edits of the fixes.
LEMMA TakenFacts ==
    ASSUME FixTypeOK, TakenWhole
    PROVE  /\ chosen \in Seq(Named) /\ Len(chosen) \in Nat /\ DOMAIN chosen = 1 .. Len(chosen)
           /\ \A a \in DOMAIN chosen :
                 /\ chosen[a] \in Named /\ chosen[a] = <<chosen[a][1], chosen[a][2]>>
                 /\ chosen[a][1] \in DOMAIN fixes /\ chosen[a][2] \in DOMAIN fixes[chosen[a][1]]
                 /\ Of(chosen[a]) \in Edits
<1>1. chosen \in Seq(Named) BY DEF FixTypeOK, Named
<1>2. Len(chosen) \in Nat /\ DOMAIN chosen = 1 .. Len(chosen) BY <1>1, LenProperties
<1>3. \A a \in DOMAIN chosen : chosen[a] \in Named BY <1>1, <1>2, ElementOfSeq
<1>4. \A a \in DOMAIN chosen : chosen[a] = <<chosen[a][1], chosen[a][2]>> BY <1>3 DEF Named
<1>5. \A a \in DOMAIN chosen :
         chosen[a][1] \in DOMAIN fixes /\ chosen[a][2] \in DOMAIN fixes[chosen[a][1]]
  BY DEF TakenWhole
<1>6. \A a \in DOMAIN chosen : Of(chosen[a]) \in Edits BY <1>5, FixesFacts DEF Of
<1> QED BY <1>1, <1>2, <1>3, <1>4, <1>5, <1>6

\* And so is what is sorted, each once.
LEMMA SortedFacts ==
    ASSUME FixTypeOK, TakenWhole, fixing # "taking" => SortedApart, fixing = "taking" => sorted = <<>>
    PROVE  /\ Len(sorted) \in Nat /\ DOMAIN sorted = 1 .. Len(sorted)
           /\ \A i \in DOMAIN sorted :
                 /\ sorted[i] \in Named
                 /\ sorted[i][1] \in DOMAIN fixes /\ sorted[i][2] \in DOMAIN fixes[sorted[i][1]]
                 /\ sorted[i] = <<sorted[i][1], sorted[i][2]>>
                 /\ Of(sorted[i]) \in Edits /\ Edited(sorted[i]) \in Pieces
                 /\ Edited(sorted[i]).fix # 0
           /\ \A i, j \in DOMAIN sorted : Edited(sorted[i]) = Edited(sorted[j]) => i = j
<1>1. Len(sorted) \in Nat /\ DOMAIN sorted = 1 .. Len(sorted) BY LenProperties DEF FixTypeOK
<1>2. ASSUME NEW i \in DOMAIN sorted PROVE fixing # "taking" /\ SortedApart
  <2>1. CASE fixing = "taking"
    <3>1. DOMAIN sorted = {} BY <1>1, <2>1, EmptySeq
    <3> QED BY <3>1
  <2> QED BY <2>1
<1>3. ASSUME NEW i \in DOMAIN sorted
      PROVE  /\ sorted[i] \in Named
             /\ sorted[i][1] \in DOMAIN fixes /\ sorted[i][2] \in DOMAIN fixes[sorted[i][1]]
             /\ sorted[i] = <<sorted[i][1], sorted[i][2]>>
             /\ Of(sorted[i]) \in Edits /\ Edited(sorted[i]) \in Pieces
             /\ Edited(sorted[i]).fix # 0
  <2>1. PICK a \in DOMAIN chosen : sorted[i] = chosen[a] BY <1>2, <1>3 DEF SortedApart
  <2>2. /\ sorted[i] \in Named
        /\ sorted[i][1] \in DOMAIN fixes /\ sorted[i][2] \in DOMAIN fixes[sorted[i][1]]
        /\ sorted[i] = <<sorted[i][1], sorted[i][2]>> /\ Of(sorted[i]) \in Edits
    BY <2>1, TakenFacts
  <2>3. Len(fixes) \in Nat BY FixesFacts
  <2>4. sorted[i][1] \in 1 .. Len(fixes) /\ sorted[i][2] \in 1 .. MaxEdits BY <2>2 DEF Named
  <2>5. sorted[i][1] \in 0 .. Len(fixes) /\ sorted[i][2] \in 0 .. MaxEdits /\ sorted[i][1] # 0
    BY <2>3, <2>4, MaxEditsIsNat
  <2>6. Of(sorted[i]).start \in 0 .. Size /\ Of(sorted[i]).end \in 0 .. Size BY <2>2 DEF Edits
  <2> QED BY <2>2, <2>5, <2>6 DEF Edited, Pieces
<1>4. ASSUME NEW i \in DOMAIN sorted, NEW j \in DOMAIN sorted,
             Edited(sorted[i]) = Edited(sorted[j]), i < j
      PROVE  FALSE
  <2>1. Of(sorted[i]).start < Of(sorted[j]).start BY <1>2, <1>4 DEF SortedApart
  <2>2. Of(sorted[i]).start = Of(sorted[j]).start BY <1>4 DEF Edited
  <2>3. Of(sorted[i]).start \in Nat BY <1>3, SizeIsNat DEF Edits
  <2> QED BY <2>1, <2>2, <2>3
<1>5. \A i, j \in DOMAIN sorted : Edited(sorted[i]) = Edited(sorted[j]) => i = j
  <2> SUFFICES ASSUME NEW i \in DOMAIN sorted, NEW j \in DOMAIN sorted,
                      Edited(sorted[i]) = Edited(sorted[j])
               PROVE  i = j
    OBVIOUS
  <2>1. i < j \/ j < i \/ i = j BY <1>1
  <2> QED BY <1>4, <2>1
<1> QED BY <1>1, <1>3, <1>5

LEMMA OutFacts ==
    ASSUME FixTypeOK
    PROVE  /\ Len(text) \in Nat /\ DOMAIN text = 1 .. Len(text)
           /\ \A p \in DOMAIN text : text[p] \in Pieces /\ text[p].start \in Nat /\ text[p].end \in Nat
<1>1. text \in Seq(Pieces) BY DEF FixTypeOK
<1>2. Len(text) \in Nat /\ DOMAIN text = 1 .. Len(text) BY <1>1, LenProperties
<1>3. \A p \in DOMAIN text : text[p] \in Pieces BY <1>1, <1>2, ElementOfSeq
<1>4. \A e \in Pieces : e.start \in Nat /\ e.end \in Nat BY SizeIsNat DEF Pieces
<1> QED BY <1>2, <1>3, <1>4

LEMMA PartOfInterval ==
    ASSUME NEW n \in Nat, NEW S \in SUBSET (1 .. n)
    PROVE  IsFiniteSet(S) /\ Cardinality(S) \in 0 .. n
<1>1. IsFiniteSet(1 .. n) /\ Cardinality(1 .. n) = n
  <2>1. 1 \in Int /\ n \in Int OBVIOUS
  <2>2. IsFiniteSet(1 .. n) /\ Cardinality(1 .. n) = IF 1 > n THEN 0 ELSE n - 1 + 1
    BY <2>1, FS_Interval
  <2> QED BY <2>2
<1>2. IsFiniteSet(S) /\ Cardinality(S) <= n BY <1>1, FS_Subset
<1>3. Cardinality(S) \in Nat BY <1>2, FS_CardinalityType
<1> QED BY <1>2, <1>3

---------------------------------------------------------------------------
(* Every step keeps the invariant.                                         *)

LEMMA InitIInv == FixInit => IInv
<1> SUFFICES ASSUME FixInit PROVE IInv
  OBVIOUS
<1>1. FixTypeOK
  <2>1. PICK n \in 0 .. MaxFixes : fixes \in [1 .. n -> Fixes] BY DEF FixInit, FixLists
  <2>2. n \in Nat /\ fixes \in Seq(Fixes) /\ Len(fixes) = n BY <2>1, MaxFixesIsNat
  <2>3. \A S : <<>> \in Seq(S) BY EmptySeq
  <2>4. 0 \in 0 .. Size /\ 0 \in 0 .. Len(fixes) /\ 1 \in 1 .. Len(fixes) + 1
    BY <2>2, SizeIsNat
  <2>5. Len(<<>>) = 0 /\ 1 \in 1 .. 0 + 1 OBVIOUS
  <2> QED BY <2>2, <2>3, <2>4, <2>5 DEF FixInit, FixTypeOK
<1>2. DOMAIN chosen = {} /\ DOMAIN sorted = {} /\ DOMAIN text = {} BY DEF FixInit
<1>3. TakenWhole
  <2>1. Chosen = {} BY <1>2 DEF Chosen
  <2>2. applied = Cardinality(Chosen) BY <2>1, FS_EmptySet DEF FixInit
  <2>3. DOMAIN fixes = 1 .. Len(fixes) /\ Len(fixes) \in Nat BY <1>1, FixesFacts
  <2>4. \A k \in DOMAIN fixes : ~(k < next) BY <2>3 DEF FixInit
  <2> QED BY <1>2, <2>1, <2>2, <2>4 DEF TakenWhole
<1>4. OutSoFar
  <2>1. Through = 0 BY DEF Through, FixInit
  <2>2. \A place \in 0 .. Size - 1 : ~(place < Through) BY <2>1, SizeIsNat
  <2> QED BY <1>2, <2>2 DEF OutSoFar
<1> QED BY <1>1, <1>3, <1>4 DEF IInv, FixInit

LEMMA TakeStep ==
    ASSUME IInv, TakeFix
    PROVE  IInv'
<1> DEFINE new == [i \in DOMAIN fixes[next] |-> <<next, i>>]
<1>1. /\ FixTypeOK /\ TakenWhole /\ OutSoFar
      /\ sorted = <<>> /\ putting = 1 /\ text = <<>> /\ upto = 0
      /\ fixing = "taking" /\ next \in DOMAIN fixes /\ fixes[next] # <<>>
      /\ chosen' = chosen \o new
      /\ applied' = applied + 1 /\ next' = next + 1
      /\ UNCHANGED <<fixes, sorted, putting, text, upto, fixing>>
  BY DEF IInv, TakeFix
<1>2. \A i \in DOMAIN fixes[next], a \in DOMAIN chosen : ~Clash(fixes[next][i], Of(chosen[a]))
  BY DEF TakeFix, Clashes
<1>3. /\ Len(fixes) \in Nat /\ DOMAIN fixes = 1 .. Len(fixes) /\ next \in 1 .. Len(fixes)
      /\ DOMAIN fixes[next] = 1 .. Len(fixes[next]) /\ Len(fixes[next]) \in Nat
      /\ DOMAIN fixes[next] # {}
      /\ \A i \in DOMAIN fixes[next] : fixes[next][i] \in Edits /\ <<next, i>> \in Named
      /\ \A i, j \in DOMAIN fixes[next] : i # j => ~Clash(fixes[next][i], fixes[next][j])
  BY <1>1, FixesFacts, FixFacts, MaxEditsIsNat
<1>4. /\ chosen \in Seq(Named) /\ Len(chosen) \in Nat /\ DOMAIN chosen = 1 .. Len(chosen)
      /\ \A a \in DOMAIN chosen :
            /\ chosen[a][1] \in DOMAIN fixes /\ chosen[a][2] \in DOMAIN fixes[chosen[a][1]]
            /\ Of(chosen[a]) \in Edits
  BY <1>1, TakenFacts
<1>5. new \in Seq(Named) /\ DOMAIN new = DOMAIN fixes[next]
      /\ \A i \in DOMAIN new : new[i] = <<next, i>>
  <2>1. \A i \in 1 .. Len(fixes[next]) : <<next, i>> \in Named BY <1>3
  <2>2. new \in [1 .. Len(fixes[next]) -> Named] BY <1>3, <2>1
  <2>3. new \in Seq(Named)
    <3> HIDE DEF new
    <3> QED BY <1>3, <2>2
  <2> QED BY <2>3
<1>6. /\ chosen' \in Seq(Named)
      /\ \A a \in DOMAIN chosen : a \in DOMAIN chosen' /\ chosen'[a] = chosen[a]
      /\ \A i \in DOMAIN fixes[next] :
            Len(chosen) + i \in DOMAIN chosen' /\ chosen'[Len(chosen) + i] = <<next, i>>
      /\ \A a \in DOMAIN chosen' : a \notin DOMAIN chosen =>
            \E i \in DOMAIN fixes[next] : a = Len(chosen) + i /\ chosen'[a] = <<next, i>>
  <2> HIDE DEF new
  <2> QED BY <1>1, <1>4, <1>5, Joined
<1>7. \A e : Of(e)' = Of(e)
  BY <1>1 DEF Of
<1>8. Chosen' = Chosen \union {next} /\ next \notin Chosen
  <2>1. next \notin Chosen
    <3>1. \A a \in DOMAIN chosen : chosen[a][1] < next BY <1>1 DEF TakenWhole
    <3> QED BY <1>3, <3>1 DEF Chosen
  <2>2. \A k \in Chosen : k \in Chosen' BY <1>1, <1>6 DEF Chosen
  <2>3. next \in Chosen'
    <3>1. PICK i \in DOMAIN fixes[next] : TRUE BY <1>3
    <3>2. Len(chosen) + i \in DOMAIN chosen' /\ chosen'[Len(chosen) + i][1] = next BY <1>6
    <3> QED BY <1>1, <3>2 DEF Chosen
  <2>4. \A k \in Chosen' : k \in Chosen \/ k = next BY <1>1, <1>6 DEF Chosen
  <2> QED BY <2>1, <2>2, <2>3, <2>4
<1>9. applied' = Cardinality(Chosen') /\ applied' \in 0 .. Len(fixes)
  <2>1. Chosen \in SUBSET (1 .. Len(fixes)) /\ Chosen' \in SUBSET (1 .. Len(fixes))
    BY <1>1, <1>3, <1>8 DEF Chosen
  <2>2. IsFiniteSet(Chosen) /\ Cardinality(Chosen') \in 0 .. Len(fixes)
    BY <1>3, <2>1, PartOfInterval
  <2>3. Cardinality(Chosen') = Cardinality(Chosen) + 1 BY <1>8, <2>2, FS_AddElement
  <2>4. applied = Cardinality(Chosen) BY <1>1 DEF TakenWhole
  <2> QED BY <1>1, <2>2, <2>3, <2>4
<1>10. FixTypeOK'
  <2>1. next' \in 1 .. Len(fixes) + 1 BY <1>1, <1>3
  <2> QED BY <1>1, <1>6, <1>9, <2>1 DEF FixTypeOK, Named
<1>11. TakenWhole'
  <2>1. \A a \in DOMAIN chosen' :
           /\ chosen'[a][1] < next' /\ chosen'[a][1] \in DOMAIN fixes
           /\ chosen'[a][2] \in DOMAIN fixes[chosen'[a][1]]
    <3>1. ASSUME NEW a \in DOMAIN chosen
          PROVE  /\ chosen'[a][1] < next' /\ chosen'[a][1] \in DOMAIN fixes
                 /\ chosen'[a][2] \in DOMAIN fixes[chosen'[a][1]]
      <4>1. chosen[a][1] < next BY <1>1 DEF TakenWhole
      <4> QED BY <1>1, <1>3, <1>4, <1>6, <4>1
    <3>2. ASSUME NEW a \in DOMAIN chosen', a \notin DOMAIN chosen
          PROVE  /\ chosen'[a][1] < next' /\ chosen'[a][1] \in DOMAIN fixes
                 /\ chosen'[a][2] \in DOMAIN fixes[chosen'[a][1]]
      BY <1>1, <1>3, <1>6, <3>2
    <3> QED BY <3>1, <3>2
  <2>2. \A k \in Chosen' : \A i \in DOMAIN fixes[k] : \E a \in DOMAIN chosen' : chosen'[a] = <<k, i>>
    <3>1. \A k \in Chosen : \A i \in DOMAIN fixes[k] : \E a \in DOMAIN chosen : chosen[a] = <<k, i>>
      BY <1>1 DEF TakenWhole
    <3>2. \A k \in Chosen : \A i \in DOMAIN fixes[k] : \E a \in DOMAIN chosen' : chosen'[a] = <<k, i>>
      BY <1>6, <3>1
    <3>3. \A i \in DOMAIN fixes[next] : \E a \in DOMAIN chosen' : chosen'[a] = <<next, i>> BY <1>6
    <3> QED BY <1>8, <3>2, <3>3
  <2>3. \A a, b \in DOMAIN chosen' : a # b => ~Clash(Of(chosen'[a]), Of(chosen'[b]))
    <3>1. \A a, b \in DOMAIN chosen : a # b => ~Clash(Of(chosen[a]), Of(chosen[b]))
      BY <1>1 DEF TakenWhole
    <3>2. \A i \in DOMAIN fixes[next] : Of(<<next, i>>) = fixes[next][i] BY DEF Of
    <3>3. ASSUME NEW a \in DOMAIN chosen, NEW b \in DOMAIN chosen', b \notin DOMAIN chosen
          PROVE  ~Clash(Of(chosen'[a]), Of(chosen'[b])) /\ ~Clash(Of(chosen'[b]), Of(chosen'[a]))
      <4>1. PICK i \in DOMAIN fixes[next] : chosen'[b] = <<next, i>> BY <1>6, <3>3
      <4>2. Of(chosen'[b]) = fixes[next][i] /\ Of(chosen'[a]) = Of(chosen[a]) BY <1>6, <3>2, <4>1
      <4>3. ~Clash(fixes[next][i], Of(chosen[a])) BY <1>2
      <4>4. fixes[next][i] \in Edits /\ Of(chosen[a]) \in Edits BY <1>3, <1>4
      <4> QED BY <4>2, <4>3, <4>4, ClashSymmetric
    <3>4. ASSUME NEW a \in DOMAIN chosen', a \notin DOMAIN chosen,
                 NEW b \in DOMAIN chosen', b \notin DOMAIN chosen, a # b
          PROVE  ~Clash(Of(chosen'[a]), Of(chosen'[b]))
      <4>1. PICK i \in DOMAIN fixes[next] : a = Len(chosen) + i /\ chosen'[a] = <<next, i>>
        BY <1>6, <3>4
      <4>2. PICK j \in DOMAIN fixes[next] : b = Len(chosen) + j /\ chosen'[b] = <<next, j>>
        BY <1>6, <3>4
      <4>3. i # j BY <3>4, <4>1, <4>2
      <4> QED BY <1>3, <3>2, <4>1, <4>2, <4>3
    <3> QED BY <1>6, <3>1, <3>3, <3>4
  <2>4. ASSUME NEW k \in DOMAIN fixes, k < next', k \notin Chosen'
        PROVE  \/ fixes[k] = <<>>
               \/ \E i \in DOMAIN fixes[k], a \in DOMAIN chosen' :
                     chosen'[a][1] < k /\ Clash(fixes[k][i], Of(chosen'[a]))
    <3>1. k < next /\ k \notin Chosen BY <1>1, <1>3, <1>8, <2>4
    <3>2. \/ fixes[k] = <<>>
          \/ \E i \in DOMAIN fixes[k], a \in DOMAIN chosen :
                chosen[a][1] < k /\ Clash(fixes[k][i], Of(chosen[a]))
      BY <1>1, <3>1 DEF TakenWhole
    <3> QED BY <1>6, <3>2
  <2> QED BY <1>1, <1>7, <1>9, <2>1, <2>2, <2>3, <2>4 DEF TakenWhole, Of
<1>12. OutSoFar'
  BY <1>1, <1>7 DEF OutSoFar, Through, Replaced, Edited, Of, Piece
<1> QED BY <1>1, <1>10, <1>11, <1>12 DEF IInv

LEMMA LeaveStep ==
    ASSUME IInv, Leave
    PROVE  IInv'
<1>1. /\ FixTypeOK /\ TakenWhole /\ OutSoFar
      /\ sorted = <<>> /\ putting = 1 /\ text = <<>> /\ upto = 0
      /\ fixing = "taking" /\ next \in DOMAIN fixes /\ next' = next + 1
      /\ UNCHANGED <<fixes, chosen, applied, sorted, putting, text, upto, fixing>>
  BY DEF IInv, Leave
<1>2. fixes[next] = <<>> \/ \E i \in DOMAIN fixes[next], a \in DOMAIN chosen :
                               Clash(fixes[next][i], Of(chosen[a]))
  BY DEF Leave, Clashes
<1>3. Len(fixes) \in Nat /\ DOMAIN fixes = 1 .. Len(fixes) /\ next \in 1 .. Len(fixes)
  BY <1>1, FixesFacts
<1>4. FixTypeOK'
  <2>1. next' \in 1 .. Len(fixes) + 1 BY <1>1, <1>3
  <2> QED BY <1>1, <2>1 DEF FixTypeOK
<1>5. TakenWhole'
  <2>1. \A a \in DOMAIN chosen : chosen[a][1] < next /\ chosen[a][1] \in DOMAIN fixes
    BY <1>1 DEF TakenWhole
  <2>2. \A a \in DOMAIN chosen : chosen[a][1] < next' BY <1>1, <1>3, <2>1
  <2>3. Chosen' = Chosen BY <1>1 DEF Chosen
  <2>4. ASSUME NEW k \in DOMAIN fixes, k < next', k \notin Chosen
        PROVE  \/ fixes[k] = <<>>
               \/ \E i \in DOMAIN fixes[k], a \in DOMAIN chosen :
                     chosen[a][1] < k /\ Clash(fixes[k][i], Of(chosen[a]))
    <3>1. CASE k < next BY <1>1, <2>4, <3>1 DEF TakenWhole
    <3>2. CASE k = next BY <1>2, <2>1, <3>2
    <3> QED BY <1>1, <1>3, <2>4, <3>1, <3>2
  <2> QED BY <1>1, <2>2, <2>3, <2>4 DEF TakenWhole, Of
<1>6. OutSoFar'
  BY <1>1 DEF OutSoFar, Through, Replaced, Edited, Of, Piece
<1> QED BY <1>1, <1>4, <1>5, <1>6 DEF IInv

LEMMA SortStep ==
    ASSUME IInv, Sort
    PROVE  IInv'
<1>1. /\ FixTypeOK /\ TakenWhole /\ OutSoFar
      /\ sorted = <<>> /\ putting = 1 /\ text = <<>> /\ upto = 0
      /\ fixing = "taking" /\ next \notin DOMAIN fixes /\ fixing' = "putting"
      /\ UNCHANGED <<fixes, next, chosen, applied, putting, text, upto>>
  BY DEF IInv, Sort
<1>2. /\ sorted' \in [DOMAIN chosen -> {chosen[a] : a \in DOMAIN chosen}]
      /\ \A a \in DOMAIN chosen : \E i \in DOMAIN sorted' : sorted'[i] = chosen[a]
      /\ \A i, j \in DOMAIN sorted' : i < j => Of(sorted'[i]).start <= Of(sorted'[j]).start
  BY DEF Sort
<1>3. /\ chosen \in Seq(Named) /\ Len(chosen) \in Nat /\ DOMAIN chosen = 1 .. Len(chosen)
      /\ \A a \in DOMAIN chosen : chosen[a] \in Named /\ Of(chosen[a]) \in Edits
  BY <1>1, TakenFacts
<1>4. sorted' \in Seq(Named) /\ Len(sorted') = Len(chosen) /\ DOMAIN sorted' = 1 .. Len(chosen)
  <2>1. \A i \in DOMAIN sorted' : sorted'[i] \in Named BY <1>2, <1>3
  <2>2. sorted' \in [1 .. Len(chosen) -> Named] BY <1>2, <1>3, <2>1
  <2> QED BY <1>3, <2>2
<1>5. FixTypeOK'
  <2>1. putting' \in 1 .. Len(sorted') + 1 BY <1>1, <1>3, <1>4
  <2> QED BY <1>1, <1>4, <2>1 DEF FixTypeOK, Named
<1>6. TakenWhole' BY <1>1 DEF TakenWhole, Chosen, Of
<1>7. next' = Len(fixes) + 1
  <2>1. Len(fixes) \in Nat /\ DOMAIN fixes = 1 .. Len(fixes) BY <1>1, FixesFacts
  <2>2. next \in 1 .. Len(fixes) + 1 BY <1>1 DEF FixTypeOK
  <2> QED BY <1>1, <2>1, <2>2
\* Those of one place in the order are one, so others do not clash.
<1>8. \A i, j \in DOMAIN sorted' : i < j =>
         Of(sorted'[i]).start < Of(sorted'[j]).start /\ Of(sorted'[i]).end <= Of(sorted'[j]).start
  <2> DEFINE T == {chosen[a] : a \in DOMAIN chosen}
  <2>1. IsFiniteSet(DOMAIN chosen) /\ Cardinality(DOMAIN chosen) = Len(chosen)
    <3>1. 1 \in Int /\ Len(chosen) \in Int BY <1>3
    <3>2. /\ IsFiniteSet(1 .. Len(chosen))
          /\ Cardinality(1 .. Len(chosen)) = IF 1 > Len(chosen) THEN 0 ELSE Len(chosen) - 1 + 1
      BY <3>1, FS_Interval
    <3> QED BY <1>3, <3>2
  <2>2. \A a, b \in DOMAIN chosen : chosen[a] = chosen[b] => a = b
    <3> SUFFICES ASSUME NEW a \in DOMAIN chosen, NEW b \in DOMAIN chosen,
                        chosen[a] = chosen[b], a # b
                 PROVE  FALSE
      OBVIOUS
    <3>1. ~Clash(Of(chosen[a]), Of(chosen[b])) BY <1>1 DEF TakenWhole
    <3> QED BY <3>1 DEF Clash
  <2>3. \A i, j \in DOMAIN sorted' : sorted'[i] = sorted'[j] => i = j
    <3> DEFINE Where(a) == CHOOSE i \in DOMAIN chosen : sorted'[i] = chosen[a]
               inv == [a \in DOMAIN chosen |-> Where(a)]
    <3>1. \A a \in DOMAIN chosen : Where(a) \in DOMAIN chosen /\ sorted'[Where(a)] = chosen[a]
      BY <1>2
    <3>2. inv \in Injection(DOMAIN chosen, DOMAIN chosen)
      <4>1. inv \in [DOMAIN chosen -> DOMAIN chosen] BY <3>1
      <4>2. ASSUME NEW a \in DOMAIN chosen, NEW b \in DOMAIN chosen, inv[a] = inv[b]
            PROVE  a = b
        <5>1. Where(a) = Where(b) BY <4>2
        <5>2. chosen[a] = chosen[b] BY <3>1, <5>1
        <5> QED BY <2>2, <5>2
      <4> HIDE DEF inv
      <4> QED BY <4>1, <4>2 DEF Injection, IsInjective
    <3>3. inv \in Surjection(DOMAIN chosen, DOMAIN chosen)
      <4> HIDE DEF inv
      <4> QED BY <2>1, <3>2, FS_Injection
    <3>4. \A i \in DOMAIN chosen : \E a \in DOMAIN chosen : Where(a) = i
      <4>1. \A i \in DOMAIN chosen : \E a \in DOMAIN chosen : inv[a] = i
        <5> HIDE DEF inv
        <5> QED BY <3>3 DEF Surjection
      <4> QED BY <4>1
    <3> HIDE DEF Where, inv
    <3> SUFFICES ASSUME NEW i \in DOMAIN chosen, NEW j \in DOMAIN chosen, sorted'[i] = sorted'[j]
                 PROVE  i = j
      BY <1>2
    <3>5. PICK a \in DOMAIN chosen : Where(a) = i BY <3>4
    <3>6. PICK b \in DOMAIN chosen : Where(b) = j BY <3>4
    <3>7. chosen[a] = chosen[b] BY <3>1, <3>5, <3>6
    <3>8. a = b BY <2>2, <3>7
    <3> QED BY <3>5, <3>6, <3>8
  <2> SUFFICES ASSUME NEW i \in DOMAIN sorted', NEW j \in DOMAIN sorted', i < j
               PROVE  /\ Of(sorted'[i]).start < Of(sorted'[j]).start
                      /\ Of(sorted'[i]).end <= Of(sorted'[j]).start
    OBVIOUS
  <2>4. PICK a \in DOMAIN chosen : sorted'[i] = chosen[a] BY <1>2
  <2>5. PICK b \in DOMAIN chosen : sorted'[j] = chosen[b] BY <1>2
  <2>6. i # j BY <1>3, <1>4
  <2>7. a # b BY <2>3, <2>4, <2>5, <2>6
  <2>8. ~Clash(Of(chosen[a]), Of(chosen[b])) BY <1>1, <2>7 DEF TakenWhole
  <2>9. Of(sorted'[i]).start <= Of(sorted'[j]).start BY <1>2
  <2> QED BY <1>3, <2>4, <2>5, <2>8, <2>9, ApartInOrder
<1>9. SortedApart' BY <1>1, <1>2, <1>8 DEF SortedApart, Of
<1>10. OutSoFar'
  <2>1. Through' = 0 /\ DOMAIN text' = {} BY <1>1 DEF Through
  <2>2. \A i \in DOMAIN sorted' : ~(i < putting') /\ upto' <= Of(sorted'[i]).start
    <3>1. ASSUME NEW i \in DOMAIN sorted' PROVE ~(i < putting') /\ upto' <= Of(sorted'[i]).start
      <4>1. PICK a \in DOMAIN chosen : sorted'[i] = chosen[a] BY <1>2
      <4>2. Of(sorted'[i]).start \in Nat BY <1>3, <4>1, SizeIsNat DEF Edits
      <4> QED BY <1>1, <1>3, <1>4, <4>2
    <3> QED BY <3>1
  <2>3. \A place \in 0 .. Size - 1 : ~(place < Through') BY <2>1, SizeIsNat
  <2> QED BY <1>1, <2>1, <2>2, <2>3 DEF OutSoFar, Of
<1> QED BY <1>1, <1>5, <1>6, <1>7, <1>9, <1>10 DEF IInv

\* The text with more of the source kept.
LEMMA Grown ==
    ASSUME FixTypeOK, NEW to \in upto .. Size,
           \A p \in DOMAIN text : text[p].end <= upto,
           \A p, q \in DOMAIN text : p < q => text[p].end <= text[q].start /\ text[p] # text[q],
           NEW grown, grown = text \o Kept(upto, to)
    PROVE  /\ grown \in Seq(Pieces)
           /\ \A p \in DOMAIN text : p \in DOMAIN grown /\ grown[p] = text[p]
           /\ \A p \in DOMAIN grown : p \in DOMAIN text \/ \E place \in upto .. to - 1 : grown[p] = Piece(place)
           /\ \A place \in upto .. to - 1 : \E p \in DOMAIN grown : grown[p] = Piece(place)
           /\ \A p \in DOMAIN grown : grown[p].end <= to
           /\ \A p, q \in DOMAIN grown : p < q => grown[p].end <= grown[q].start /\ grown[p] # grown[q]
<1> DEFINE kept == Kept(upto, to)
<1>1. upto \in Nat /\ to \in Nat /\ upto <= to /\ upto \in 0 .. Size /\ to \in 0 .. Size /\ Size \in Nat
  BY SizeIsNat DEF FixTypeOK
<1>2. /\ Len(text) \in Nat /\ DOMAIN text = 1 .. Len(text) /\ text \in Seq(Pieces)
      /\ \A p \in DOMAIN text : text[p].start \in Nat /\ text[p].end \in Nat
  BY OutFacts DEF FixTypeOK
<1>3. /\ kept \in Seq({Piece(place) : place \in 0 .. Size - 1})
      /\ \A i \in DOMAIN kept : upto + i - 1 \in upto .. to - 1 /\ kept[i] = Piece(upto + i - 1)
      /\ \A place \in upto .. to - 1 : \E i \in DOMAIN kept : kept[i] = Piece(place)
  <2> DEFINE S == {Piece(place) : place \in 0 .. Size - 1}
  <2>1. /\ Kept(upto, to) \in Seq(S)
        /\ \A i \in DOMAIN Kept(upto, to) :
              upto + i - 1 \in upto .. to - 1 /\ Kept(upto, to)[i] = Piece(upto + i - 1)
        /\ \A place \in upto .. to - 1 : \E i \in DOMAIN Kept(upto, to) :
              i = place + 1 - upto /\ Kept(upto, to)[i] = Piece(place)
    BY <1>1, KeptFacts
  <2> HIDE DEF S
  <2>2. kept \in Seq(S) BY <2>1
  <2>3. \A place \in upto .. to - 1 : \E i \in DOMAIN kept : kept[i] = Piece(place) BY <2>1
  <2>4. \A i \in DOMAIN kept : upto + i - 1 \in upto .. to - 1 /\ kept[i] = Piece(upto + i - 1) BY <2>1
  <2> QED BY <2>2, <2>3, <2>4 DEF S
<1>4. {Piece(place) : place \in 0 .. Size - 1} \subseteq Pieces
  <2>1. Len(fixes) \in Nat BY FixesFacts
  <2>2. \A place \in 0 .. Size - 1 : place \in 0 .. Size /\ place + 1 \in 0 .. Size BY <1>1
  <2>3. 0 \in 0 .. Len(fixes) /\ 0 \in 0 .. MaxEdits BY <2>1, MaxEditsIsNat
  <2> QED BY <2>2, <2>3 DEF Piece, Pieces
<1> HIDE DEF kept
<1>5. kept \in Seq(Pieces) BY <1>3, <1>4
<1>6. DOMAIN kept \subseteq Nat BY <1>5
<1>7. /\ grown \in Seq(Pieces)
      /\ \A p \in DOMAIN text : p \in DOMAIN grown /\ grown[p] = text[p]
      /\ \A i \in DOMAIN kept : Len(text) + i \in DOMAIN grown /\ grown[Len(text) + i] = kept[i]
      /\ \A p \in DOMAIN grown : p \in DOMAIN text \/ \E i \in DOMAIN kept : p = Len(text) + i
  <2>1. grown = text \o kept BY DEF kept
  <2>2. text \in Seq(Pieces) BY <1>2
  <2>3. /\ text \o kept \in Seq(Pieces)
        /\ \A p \in DOMAIN text : p \in DOMAIN (text \o kept) /\ (text \o kept)[p] = text[p]
        /\ \A i \in DOMAIN kept :
              Len(text) + i \in DOMAIN (text \o kept) /\ (text \o kept)[Len(text) + i] = kept[i]
        /\ \A p \in DOMAIN (text \o kept) :
              p \in DOMAIN text \/ \E i \in DOMAIN kept : p = Len(text) + i
    BY <1>5, <2>2, Joined
  <2> QED BY <2>1, <2>3
<1>8. ASSUME NEW p \in DOMAIN grown, p \notin DOMAIN text
      PROVE  \E place \in upto .. to - 1 : p = Len(text) + place - upto + 1 /\ grown[p] = Piece(place)
  <2>1. PICK i \in DOMAIN kept : p = Len(text) + i /\ grown[p] = kept[i] BY <1>7, <1>8
  <2>2. upto + i - 1 \in upto .. to - 1 /\ grown[p] = Piece(upto + i - 1) BY <1>3, <2>1
  <2>3. p = Len(text) + (upto + i - 1) - upto + 1 BY <1>1, <1>2, <1>6, <2>1
  <2> QED BY <2>2, <2>3
<1>9. \A place : Piece(place).start = place /\ Piece(place).end = place + 1 BY DEF Piece
<1>10. \A place \in upto .. to - 1 : \E p \in DOMAIN grown : grown[p] = Piece(place) BY <1>3, <1>7
<1>11. ASSUME NEW p \in DOMAIN grown PROVE grown[p].end <= to
  <2>1. CASE p \in DOMAIN text BY <1>1, <1>2, <1>7, <2>1
  <2>2. CASE p \notin DOMAIN text
    <3>1. PICK place \in upto .. to - 1 : grown[p] = Piece(place) BY <1>8, <2>2
    <3> QED BY <1>1, <1>9, <3>1
  <2> QED BY <2>1, <2>2
<1>12. ASSUME NEW p \in DOMAIN grown, NEW q \in DOMAIN grown, p < q
       PROVE  grown[p].end <= grown[q].start /\ grown[p] # grown[q]
  <2>1. CASE p \in DOMAIN text /\ q \in DOMAIN text BY <1>7, <1>12, <2>1
  <2>2. CASE p \in DOMAIN text /\ q \notin DOMAIN text
    <3>1. PICK place \in upto .. to - 1 : grown[q] = Piece(place) BY <1>8, <2>2
    <3>2. grown[p] = text[p] /\ text[p].end <= upto /\ text[p].end \in Nat BY <1>2, <1>7, <2>2
    <3>3. grown[q].start = place /\ grown[q].end = place + 1 BY <1>9, <3>1
    <3> QED BY <1>1, <3>2, <3>3
  <2>3. CASE p \notin DOMAIN text
    <3>1. PICK x \in upto .. to - 1 : p = Len(text) + x - upto + 1 /\ grown[p] = Piece(x) BY <1>8, <2>3
    <3>2. q \notin DOMAIN text
      <4>1. p > Len(text) BY <1>1, <1>2, <3>1
      <4>2. \A m \in 1 .. Len(text) : ~(p < m) BY <1>1, <1>2, <3>1
      <4> QED BY <1>2, <1>12, <4>2
    <3>3. PICK y \in upto .. to - 1 : q = Len(text) + y - upto + 1 /\ grown[q] = Piece(y) BY <1>8, <3>2
    <3>4. x < y BY <1>1, <1>2, <1>12, <3>1, <3>3
    <3>5. grown[p].end = x + 1 /\ grown[q].start = y /\ grown[p].start = x BY <1>9, <3>1, <3>3
    <3> QED BY <1>1, <3>4, <3>5
  <2> QED BY <2>1, <2>2, <2>3
<1> QED BY <1>7, <1>8, <1>10, <1>11, <1>12

LEMMA PutStep ==
    ASSUME IInv, Put
    PROVE  IInv'
<1>1. /\ FixTypeOK /\ TakenWhole /\ OutSoFar /\ SortedApart
      /\ next = Len(fixes) + 1 /\ fixing = "putting" /\ putting \in DOMAIN sorted
      /\ putting' = putting + 1
      /\ UNCHANGED <<fixes, next, chosen, applied, sorted, fixing>>
  BY DEF IInv, Put
<1> DEFINE edit == sorted[putting]
           from == Of(edit).start
<1>2. /\ text' = (text \o Kept(upto, from)) \o <<Edited(edit)>>
      /\ upto' = Of(edit).end
  BY DEF Put
<1>3. /\ Len(sorted) \in Nat /\ DOMAIN sorted = 1 .. Len(sorted) /\ putting \in Nat
      /\ \A i \in DOMAIN sorted :
            /\ Of(sorted[i]) \in Edits /\ Edited(sorted[i]) \in Pieces /\ Edited(sorted[i]).fix # 0
      /\ \A i, j \in DOMAIN sorted : Edited(sorted[i]) = Edited(sorted[j]) => i = j
  BY <1>1, SortedFacts
<1>4. /\ upto \in Nat /\ from \in Nat /\ upto <= from /\ upto' \in Nat /\ from <= upto'
      /\ from \in upto .. Size /\ upto' \in 0 .. Size /\ upto <= upto' /\ Size \in Nat
  <2>1. upto <= from BY <1>1, <1>3 DEF OutSoFar
  <2>2. upto \in 0 .. Size BY <1>1 DEF FixTypeOK
  <2>3. Of(edit) \in Edits BY <1>1, <1>3
  <2>4. from \in 0 .. Size /\ Of(edit).end \in 0 .. Size /\ from <= Of(edit).end BY <2>3 DEF Edits
  <2> HIDE DEF from, edit
  <2> QED BY <1>2, <2>1, <2>2, <2>4, SizeIsNat
<1> DEFINE grown == text \o Kept(upto, from)
<1>5. /\ grown \in Seq(Pieces)
      /\ \A p \in DOMAIN text : p \in DOMAIN grown /\ grown[p] = text[p]
      /\ \A p \in DOMAIN grown : p \in DOMAIN text \/ \E place \in upto .. from - 1 : grown[p] = Piece(place)
      /\ \A place \in upto .. from - 1 : \E p \in DOMAIN grown : grown[p] = Piece(place)
      /\ \A p \in DOMAIN grown : grown[p].end <= from
      /\ \A p, q \in DOMAIN grown : p < q => grown[p].end <= grown[q].start /\ grown[p] # grown[q]
  <2>1. /\ \A p \in DOMAIN text : text[p].end <= upto
        /\ \A p, q \in DOMAIN text : p < q => text[p].end <= text[q].start /\ text[p] # text[q]
    BY <1>1 DEF OutSoFar, Through
  <2> HIDE DEF from
  <2> QED BY <1>1, <1>4, <2>1, Grown
<1>6. /\ Edited(edit) \in Pieces /\ Edited(edit).fix # 0
      /\ Edited(edit).start = from /\ Edited(edit).end = upto'
  BY <1>1, <1>2, <1>3 DEF Edited
<1>7. /\ text' \in Seq(Pieces)
      /\ \A p \in DOMAIN grown : p \in DOMAIN text' /\ text'[p] = grown[p]
      /\ Len(grown) + 1 \in DOMAIN text' /\ text'[Len(grown) + 1] = Edited(edit)
      /\ \A p \in DOMAIN text' : p \in DOMAIN grown \/ p = Len(grown) + 1
      /\ DOMAIN grown = 1 .. Len(grown) /\ Len(grown) \in Nat
  <2> HIDE DEF grown, edit
  <2>1. DOMAIN <<Edited(edit)>> = {1} /\ <<Edited(edit)>>[1] = Edited(edit)
        /\ <<Edited(edit)>> \in Seq(Pieces)
    BY <1>6
  <2>2. text' = grown \o <<Edited(edit)>> BY <1>2 DEF grown
  <2>3. DOMAIN grown = 1 .. Len(grown) /\ Len(grown) \in Nat BY <1>5, LenProperties
  <2>4. /\ text' \in Seq(Pieces)
        /\ \A p \in DOMAIN grown : p \in DOMAIN text' /\ text'[p] = grown[p]
        /\ \A q \in {1} : Len(grown) + q \in DOMAIN text' /\ text'[Len(grown) + q] = <<Edited(edit)>>[q]
        /\ \A p \in DOMAIN text' : p \in DOMAIN grown \/ \E q \in {1} : p = Len(grown) + q
    BY <1>5, <2>1, <2>2, Joined
  <2> QED BY <2>1, <2>3, <2>4
<1>8. \A p \in DOMAIN grown : grown[p].start \in Nat /\ grown[p].end \in Nat
  <2>1. \A p \in DOMAIN grown : grown[p] \in Pieces
    <3> HIDE DEF grown
    <3> QED BY <1>5, <1>7, ElementOfSeq
  <2>2. \A e \in Pieces : e.start \in Nat /\ e.end \in Nat BY SizeIsNat DEF Pieces
  <2> QED BY <2>1, <2>2
<1>9. /\ \A i \in DOMAIN sorted : i < putting => Of(sorted[i]).end <= upto
      /\ \A i \in DOMAIN sorted : i < putting => \E p \in DOMAIN text : text[p] = Edited(sorted[i])
      /\ \A p \in DOMAIN text : text[p].fix # 0 =>
            \E i \in DOMAIN sorted : i < putting /\ text[p] = Edited(sorted[i])
      /\ \A place \in 0 .. Size - 1 :
            (\E p \in DOMAIN text : text[p] = Piece(place)) <=> place < upto /\ ~Replaced(place)
  BY <1>1 DEF OutSoFar, Through
<1>10. \A place : Piece(place).fix = 0 /\ Piece(place).end = place + 1 BY DEF Piece
<1>11. \A place : Replaced(place)' <=> Replaced(place) \/ (from <= place /\ place < Of(edit).end)
  <2>1. \A i \in DOMAIN sorted : i < putting + 1 <=> i < putting \/ i = putting BY <1>3
  <2> QED BY <1>1, <2>1 DEF Replaced, Of
<1>12. FixTypeOK'
  <2>1. putting' \in 1 .. Len(sorted) + 1 BY <1>1, <1>3
  <2> QED BY <1>1, <1>4, <1>7, <2>1 DEF FixTypeOK, Pieces
<1>13. TakenWhole' BY <1>1 DEF TakenWhole, Chosen, Of
<1>14. SortedApart' BY <1>1 DEF SortedApart, Of
<1>15. OutSoFar'
  <2>1. ASSUME NEW i \in DOMAIN sorted, i < putting + 1
        PROVE  Of(sorted[i]).end <= upto' /\ \E p \in DOMAIN text' : text'[p] = Edited(sorted[i])
    <3>1. CASE i = putting
      <4>1. Of(sorted[i]).end = upto' BY <1>2, <3>1
      <4>2. Of(sorted[i]).end <= upto' BY <1>4, <4>1
      <4>3. \E p \in DOMAIN text' : text'[p] = Edited(sorted[i])
        <5>1. edit = sorted[i] BY <3>1
        <5> HIDE DEF edit, grown, from
        <5> QED BY <1>7, <5>1
      <4> QED BY <4>2, <4>3
    <3>2. CASE i # putting
      <4>1. i < putting BY <1>3, <2>1, <3>2
      <4>2. Of(sorted[i]).end <= upto /\ Of(sorted[i]).end \in Nat
        <5>1. Of(sorted[i]) \in Edits BY <1>3
        <5> QED BY <1>9, <4>1, <5>1, SizeIsNat DEF Edits
      <4>3. PICK p \in DOMAIN text : text[p] = Edited(sorted[i]) BY <1>9, <4>1
      <4>4. p \in DOMAIN text' /\ text'[p] = text[p] BY <1>5, <1>7
      <4>5. Of(sorted[i]).end <= upto' BY <1>4, <4>2
      <4> QED BY <4>3, <4>4, <4>5
    <3> QED BY <3>1, <3>2
  <2>2. ASSUME NEW i \in DOMAIN sorted, i >= putting + 1
        PROVE  upto' <= Of(sorted[i]).start
    <3>1. putting < i BY <1>3, <2>2
    <3> QED BY <1>1, <1>2, <3>1 DEF SortedApart
  <2>3. ASSUME NEW p \in DOMAIN text', text'[p].fix # 0
        PROVE  \E i \in DOMAIN sorted : i < putting + 1 /\ text'[p] = Edited(sorted[i])
    <3>1. CASE p \in DOMAIN text
      <4>1. text'[p] = text[p] BY <1>5, <1>7, <3>1
      <4>2. PICK i \in DOMAIN sorted : i < putting /\ text[p] = Edited(sorted[i])
        BY <1>9, <2>3, <3>1, <4>1
      <4>3. i < putting + 1 BY <1>3, <4>2
      <4> QED BY <4>1, <4>2, <4>3
    <3>2. CASE p \in DOMAIN grown /\ p \notin DOMAIN text
      <4>1. PICK place \in upto .. from - 1 : grown[p] = Piece(place) BY <1>5, <3>2
      <4> QED BY <1>7, <1>10, <2>3, <3>2, <4>1
    <3>3. CASE p = Len(grown) + 1
      <4>1. putting < putting + 1 BY <1>3
      <4> QED BY <1>1, <1>7, <3>3, <4>1
    <3> QED BY <1>7, <3>1, <3>2, <3>3
  <2>4. ASSUME NEW place \in 0 .. Size - 1, NEW p \in DOMAIN text', text'[p] = Piece(place)
        PROVE  place < upto' /\ ~Replaced(place)'
    <3>1. p \in DOMAIN grown /\ grown[p] = Piece(place) BY <1>6, <1>7, <1>10, <2>4
    <3>2. CASE p \in DOMAIN text
      <4>1. text[p] = Piece(place) BY <1>5, <3>1, <3>2
      <4>2. place < upto /\ ~Replaced(place) BY <1>9, <3>2, <4>1
      <4>3. place < upto' /\ ~(from <= place) BY <1>4, <4>2
      <4> QED BY <1>11, <4>2, <4>3
    <3>3. CASE p \notin DOMAIN text
      <4>1. PICK x \in upto .. from - 1 : grown[p] = Piece(x) BY <1>5, <3>1, <3>3
      <4>2. x = place BY <3>1, <4>1 DEF Piece
      <4>3. upto <= place /\ place < from BY <1>4, <4>1, <4>2
      <4>4. place < upto' /\ ~(from <= place) BY <1>4, <4>3
      <4>5. ~Replaced(place)
        <5>1. ASSUME NEW i \in DOMAIN sorted, i < putting, place < Of(sorted[i]).end PROVE FALSE
          <6>1. Of(sorted[i]).end <= upto BY <1>9, <5>1
          <6>2. Of(sorted[i]) \in Edits BY <1>3
          <6>3. Of(sorted[i]).end \in Nat BY <6>2, SizeIsNat DEF Edits
          <6> QED BY <1>4, <4>3, <5>1, <6>1, <6>3
        <5> QED BY <5>1 DEF Replaced
      <4> QED BY <1>11, <4>4, <4>5
    <3> QED BY <3>2, <3>3
  <2>5. ASSUME NEW place \in 0 .. Size - 1, place < upto', ~Replaced(place)'
        PROVE  \E p \in DOMAIN text' : text'[p] = Piece(place)
    <3>1. ~Replaced(place) /\ ~(from <= place /\ place < upto') BY <1>2, <1>11, <2>5
    <3>2. CASE place < upto
      <4>1. PICK p \in DOMAIN text : text[p] = Piece(place) BY <1>9, <3>1, <3>2
      <4> QED BY <1>5, <1>7, <4>1
    <3>3. CASE ~(place < upto)
      <4>1. place \in upto .. from - 1 BY <1>4, <2>5, <3>1, <3>3
      <4>2. PICK p \in DOMAIN grown : grown[p] = Piece(place) BY <1>5, <4>1
      <4> QED BY <1>7, <4>2
    <3> QED BY <3>2, <3>3
  <2>6. \A p \in DOMAIN grown : grown[p].end <= upto' BY <1>4, <1>5, <1>8
  <2>7. \A p \in DOMAIN text' : text'[p].end <= upto' BY <1>4, <1>6, <1>7, <2>6
  <2>8. ASSUME NEW p \in DOMAIN text', NEW q \in DOMAIN text', p < q
        PROVE  text'[p].end <= text'[q].start /\ text'[p] # text'[q]
    <3>1. CASE p \in DOMAIN grown /\ q \in DOMAIN grown
      <4>1. text'[p] = grown[p] /\ text'[q] = grown[q] BY <1>7, <3>1
      <4>2. grown[p].end <= grown[q].start /\ grown[p] # grown[q]
        <5> HIDE DEF grown
        <5> QED BY <1>5, <2>8, <3>1
      <4> QED BY <4>1, <4>2
    <3>2. CASE p \in DOMAIN grown /\ q = Len(grown) + 1
      <4>1. text'[p].end <= text'[q].start BY <1>5, <1>6, <1>7, <3>2
      <4>2. grown[p] # Edited(edit)
        <5>1. CASE p \in DOMAIN text
          <6>1. grown[p] = text[p] BY <1>5, <5>1
          <6>2. SUFFICES ASSUME text[p] = Edited(edit) PROVE FALSE BY <6>1
          <6>3. PICK i \in DOMAIN sorted : i < putting /\ text[p] = Edited(sorted[i])
            BY <1>6, <1>9, <5>1, <6>2
          <6>4. i = putting BY <1>1, <1>3, <6>2, <6>3
          <6> QED BY <1>3, <6>3, <6>4
        <5>2. CASE p \notin DOMAIN text BY <1>5, <1>6, <1>10, <3>2, <5>2
        <5> QED BY <5>1, <5>2
      <4> QED BY <1>7, <3>2, <4>1, <4>2
    <3>3. ~(p = Len(grown) + 1) BY <1>7, <2>8
    <3> QED BY <1>7, <3>1, <3>2, <3>3
  <2>9. Through' = upto' BY <1>1 DEF Through
  <2> HIDE DEF grown, edit, from
  <2> QED BY <1>1, <2>1, <2>2, <2>3, <2>4, <2>5, <2>7, <2>8, <2>9 DEF OutSoFar, Of, Edited, Piece
<1> QED BY <1>1, <1>12, <1>13, <1>14, <1>15 DEF IInv

LEMMA EndStep ==
    ASSUME IInv, EndText
    PROVE  IInv'
<1>1. /\ FixTypeOK /\ TakenWhole /\ OutSoFar /\ SortedApart
      /\ next = Len(fixes) + 1 /\ fixing = "putting" /\ putting \notin DOMAIN sorted
      /\ fixing' = "done"
      /\ UNCHANGED <<fixes, next, chosen, applied, sorted, putting, upto>>
  BY DEF IInv, EndText
<1>2. /\ Len(sorted) \in Nat /\ DOMAIN sorted = 1 .. Len(sorted)
      /\ \A i \in DOMAIN sorted : Of(sorted[i]) \in Edits
  BY <1>1, SortedFacts
<1>3. putting = Len(sorted) + 1
  <2>1. putting \in 1 .. Len(sorted) + 1 BY <1>1 DEF FixTypeOK
  <2> QED BY <1>1, <1>2, <2>1
<1>4. upto \in 0 .. Size /\ upto \in Nat /\ Size \in upto .. Size /\ Size \in Nat
  <2>1. upto \in 0 .. Size BY <1>1 DEF FixTypeOK
  <2> QED BY <2>1, SizeIsNat
<1>5. /\ text' \in Seq(Pieces)
      /\ \A p \in DOMAIN text : p \in DOMAIN text' /\ text'[p] = text[p]
      /\ \A p \in DOMAIN text' : p \in DOMAIN text \/ \E place \in upto .. Size - 1 : text'[p] = Piece(place)
      /\ \A place \in upto .. Size - 1 : \E p \in DOMAIN text' : text'[p] = Piece(place)
      /\ \A p \in DOMAIN text' : text'[p].end <= Size
      /\ \A p, q \in DOMAIN text' : p < q => text'[p].end <= text'[q].start /\ text'[p] # text'[q]
  <2>1. /\ \A p \in DOMAIN text : text[p].end <= upto
        /\ \A p, q \in DOMAIN text : p < q => text[p].end <= text[q].start /\ text[p] # text[q]
    BY <1>1 DEF OutSoFar, Through
  <2> DEFINE grown == text \o Kept(upto, Size)
  <2>2. /\ grown \in Seq(Pieces)
        /\ \A p \in DOMAIN text : p \in DOMAIN grown /\ grown[p] = text[p]
        /\ \A p \in DOMAIN grown : p \in DOMAIN text \/ \E place \in upto .. Size - 1 : grown[p] = Piece(place)
        /\ \A place \in upto .. Size - 1 : \E p \in DOMAIN grown : grown[p] = Piece(place)
        /\ \A p \in DOMAIN grown : grown[p].end <= Size
        /\ \A p, q \in DOMAIN grown : p < q => grown[p].end <= grown[q].start /\ grown[p] # grown[q]
    BY <1>1, <1>4, <2>1, Grown
  <2>3. text' = grown BY DEF EndText
  <2> HIDE DEF grown
  <2> QED BY <2>2, <2>3
<1>6. /\ \A i \in DOMAIN sorted : i < putting => Of(sorted[i]).end <= upto
      /\ \A i \in DOMAIN sorted : i < putting => \E p \in DOMAIN text : text[p] = Edited(sorted[i])
      /\ \A p \in DOMAIN text : text[p].fix # 0 =>
            \E i \in DOMAIN sorted : i < putting /\ text[p] = Edited(sorted[i])
      /\ \A place \in 0 .. Size - 1 :
            (\E p \in DOMAIN text : text[p] = Piece(place)) <=> place < upto /\ ~Replaced(place)
  BY <1>1 DEF OutSoFar, Through
<1>7. \A place : Piece(place).fix = 0 BY DEF Piece
<1>8. FixTypeOK' BY <1>1, <1>5 DEF FixTypeOK, Pieces
<1>9. TakenWhole' BY <1>1 DEF TakenWhole, Chosen, Of
<1>10. SortedApart' BY <1>1 DEF SortedApart, Of
<1>11. OutSoFar'
  <2>1. \A i \in DOMAIN sorted : i < putting => \E p \in DOMAIN text' : text'[p] = Edited(sorted[i])
    BY <1>5, <1>6
  <2>2. ASSUME NEW p \in DOMAIN text', text'[p].fix # 0
        PROVE  \E i \in DOMAIN sorted : i < putting /\ text'[p] = Edited(sorted[i])
    <3>1. p \in DOMAIN text /\ text'[p] = text[p] BY <1>5, <1>7, <2>2
    <3> QED BY <1>6, <2>2, <3>1
  <2>3. ASSUME NEW place \in 0 .. Size - 1
        PROVE  (\E p \in DOMAIN text' : text'[p] = Piece(place)) <=> ~Replaced(place)
    <3>1. CASE place < upto
      <4>1. ASSUME NEW p \in DOMAIN text', text'[p] = Piece(place)
            PROVE  \E q \in DOMAIN text : text[q] = Piece(place)
        <5>1. CASE p \in DOMAIN text BY <1>5, <4>1, <5>1
        <5>2. CASE p \notin DOMAIN text
          <6>1. PICK x \in upto .. Size - 1 : text'[p] = Piece(x) BY <1>5, <5>2
          <6>2. x = place BY <4>1, <6>1 DEF Piece
          <6> QED BY <1>4, <3>1, <6>1, <6>2
        <5> QED BY <5>1, <5>2
      <4>2. (\E p \in DOMAIN text' : text'[p] = Piece(place)) <=>
            (\E p \in DOMAIN text : text[p] = Piece(place))
        BY <1>5, <4>1
      <4> QED BY <1>6, <3>1, <4>2
    <3>2. CASE ~(place < upto)
      <4>1. place \in upto .. Size - 1 BY <1>4, <3>2
      <4>2. \E p \in DOMAIN text' : text'[p] = Piece(place) BY <1>5, <4>1
      <4>3. ASSUME NEW i \in DOMAIN sorted, i < putting, place < Of(sorted[i]).end PROVE FALSE
        <5>1. Of(sorted[i]).end <= upto BY <1>6, <4>3
        <5>2. Of(sorted[i]).end \in Nat
          <6>1. Of(sorted[i]) \in Edits BY <1>2
          <6> QED BY <6>1, SizeIsNat DEF Edits
        <5> QED BY <1>4, <3>2, <4>3, <5>1, <5>2
      <4> QED BY <4>2, <4>3 DEF Replaced
    <3> QED BY <3>1, <3>2
  <2>4. Through' = Size /\ \A place : Replaced(place)' = Replaced(place)
    BY <1>1 DEF Through, Replaced, Of
  <2>5. \A place \in 0 .. Size - 1 : place < Size BY <1>4
  <2> QED BY <1>1, <1>5, <1>6, <2>1, <2>2, <2>3, <2>4, <2>5 DEF OutSoFar, Of, Edited, Piece
<1> QED BY <1>1, <1>3, <1>8, <1>9, <1>10, <1>11 DEF IInv

\* The inductive invariant: up to each fix, those taken are whole and those
\* left clash with them; up to each place, the text is what it is to be.
THEOREM FixesInvariance == FixSpec => []IInv
<1>1. FixInit => IInv BY InitIInv
<1>2. IInv /\ [FixNext]_fixVars => IInv'
  <2> SUFFICES ASSUME IInv, [FixNext]_fixVars PROVE IInv'
    OBVIOUS
  <2>1. CASE TakeFix BY <2>1, TakeStep
  <2>2. CASE Leave BY <2>2, LeaveStep
  <2>3. CASE Sort BY <2>3, SortStep
  <2>4. CASE Put BY <2>4, PutStep
  <2>5. CASE EndText BY <2>5, EndStep
  <2>6. CASE UNCHANGED fixVars
    <3>1. UNCHANGED <<fixes, next, chosen, applied, sorted, putting, text, upto, fixing>> BY <2>6 DEF fixVars
    <3>2. FixTypeOK' = FixTypeOK BY <3>1 DEF FixTypeOK, Pieces
    <3>3. TakenWhole' = TakenWhole BY <3>1 DEF TakenWhole, Chosen, Of
    <3>4. SortedApart' = SortedApart BY <3>1 DEF SortedApart, Of
    <3>5. OutSoFar' = OutSoFar
      <4>1. Through' = Through /\ \A place : Replaced(place)' = Replaced(place)
        BY <3>1 DEF Through, Replaced, Of
      <4>2. \A e : Edited(e)' = Edited(e) /\ Of(e)' = Of(e) BY <3>1 DEF Edited, Of
      <4> QED BY <3>1, <4>1, <4>2 DEF OutSoFar, Edited, Of
    <3> QED BY <3>1, <3>2, <3>3, <3>4, <3>5 DEF IInv
  <2> QED BY <2>1, <2>2, <2>3, <2>4, <2>5, <2>6 DEF FixNext
<1> QED BY <1>1, <1>2, PTL DEF FixSpec

---------------------------------------------------------------------------
(* What follows of it.                                                     *)

\* The fixes whole in the text are those taken.
LEMMA AppliedIsChosen ==
    ASSUME IInv, fixing = "done"
    PROVE  /\ Applied = Chosen
           /\ \A p \in DOMAIN text : text[p].fix # 0 => text[p].fix \in Applied
           /\ \A k \in Applied : \A i \in DOMAIN fixes[k] : \E m \in DOMAIN sorted : sorted[m] = <<k, i>>
           /\ \A m \in DOMAIN sorted : m < putting /\ sorted[m][1] \in Applied
<1>1. FixTypeOK /\ TakenWhole /\ SortedApart /\ OutSoFar /\ putting = Len(sorted) + 1 BY DEF IInv
<1>2. /\ Len(sorted) \in Nat /\ DOMAIN sorted = 1 .. Len(sorted)
      /\ \A i \in DOMAIN sorted : Edited(sorted[i]).fix # 0
  BY <1>1, SortedFacts
<1>3. \A m \in DOMAIN sorted : m < putting BY <1>1, <1>2
<1>4. \A k \in DOMAIN fixes : fixes[k] = <<>> <=> DOMAIN fixes[k] = {}
  BY <1>1, FixesFacts, FixFacts
<1>5. \A k \in Chosen : \A i \in DOMAIN fixes[k] : \E m \in DOMAIN sorted : sorted[m] = <<k, i>>
  <2> SUFFICES ASSUME NEW k \in Chosen, NEW i \in DOMAIN fixes[k]
               PROVE  \E m \in DOMAIN sorted : sorted[m] = <<k, i>>
    OBVIOUS
  <2>1. PICK a \in DOMAIN chosen : chosen[a] = <<k, i>> BY <1>1 DEF TakenWhole
  <2>2. PICK m \in DOMAIN sorted : sorted[m] = chosen[a] BY <1>1 DEF SortedApart
  <2> QED BY <2>1, <2>2
<1>6. \A m \in DOMAIN sorted : sorted[m][1] \in Chosen
  <2> SUFFICES ASSUME NEW m \in DOMAIN sorted PROVE sorted[m][1] \in Chosen
    OBVIOUS
  <2>1. PICK a \in DOMAIN chosen : sorted[m] = chosen[a] BY <1>1 DEF SortedApart
  <2> QED BY <1>1, <2>1 DEF TakenWhole, Chosen
<1>7. ASSUME NEW k \in Chosen PROVE k \in Applied
  <2>1. k \in DOMAIN fixes BY DEF Chosen
  <2>2. fixes[k] # <<>>
    <3>1. PICK a \in DOMAIN chosen : chosen[a][1] = k BY DEF Chosen
    <3>2. chosen[a][2] \in DOMAIN fixes[k] BY <1>1, <3>1 DEF TakenWhole
    <3> QED BY <1>4, <2>1, <3>2
  <2>3. ASSUME NEW i \in DOMAIN fixes[k] PROVE \E p \in DOMAIN text : text[p] = Edited(<<k, i>>)
    <3>1. PICK m \in DOMAIN sorted : sorted[m] = <<k, i>> BY <1>5
    <3> QED BY <1>1, <1>3, <3>1 DEF OutSoFar
  <2> QED BY <2>1, <2>2, <2>3 DEF Applied
<1>8. \A p \in DOMAIN text : text[p].fix # 0 => text[p].fix \in Chosen
  <2> SUFFICES ASSUME NEW p \in DOMAIN text, text[p].fix # 0 PROVE text[p].fix \in Chosen
    OBVIOUS
  <2>1. PICK m \in DOMAIN sorted : text[p] = Edited(sorted[m]) BY <1>1 DEF OutSoFar
  <2> QED BY <1>6, <2>1 DEF Edited
<1>9. ASSUME NEW k \in Applied PROVE k \in Chosen
  <2>1. k \in DOMAIN fixes /\ fixes[k] # <<>> BY DEF Applied
  <2>2. PICK i \in DOMAIN fixes[k] : TRUE BY <1>4, <2>1
  <2>3. PICK p \in DOMAIN text : text[p] = Edited(<<k, i>>) BY DEF Applied
  <2>4. DOMAIN fixes = 1 .. Len(fixes) /\ Len(fixes) \in Nat BY <1>1, FixesFacts
  <2>5. text[p].fix = k /\ k # 0 BY <2>1, <2>3, <2>4 DEF Edited
  <2> QED BY <1>8, <2>5
<1>10. Applied = Chosen BY <1>7, <1>9
<1> QED BY <1>3, <1>5, <1>6, <1>8, <1>10

LEMMA WholeFollows == IInv => WholeOrNotAtAll
<1> SUFFICES ASSUME IInv, fixing = "done"
             PROVE  /\ applied = Cardinality(Applied)
                    /\ \A p \in DOMAIN text : text[p].fix # 0 => text[p].fix \in Applied
                    /\ \A j, k \in Applied : j < k => ~Overlaps(j, k)
                    /\ \A k \in DOMAIN fixes \ Applied :
                          fixes[k] = <<>> \/ \E j \in Applied : j < k /\ Overlaps(j, k)
  BY DEF WholeOrNotAtAll
<1>1. FixTypeOK /\ TakenWhole /\ next = Len(fixes) + 1 BY DEF IInv
<1>2. Applied = Chosen /\ \A p \in DOMAIN text : text[p].fix # 0 => text[p].fix \in Applied
  BY AppliedIsChosen
<1>3. applied = Cardinality(Applied) BY <1>1, <1>2 DEF TakenWhole
<1>4. /\ Len(fixes) \in Nat /\ DOMAIN fixes = 1 .. Len(fixes)
      /\ \A k \in DOMAIN fixes : \A i \in DOMAIN fixes[k] : fixes[k][i] \in Edits
  BY <1>1, FixesFacts
<1>5. \A k \in Applied : k \in DOMAIN fixes BY DEF Applied
<1>6. ASSUME NEW j \in Applied, NEW k \in Applied, j < k,
             NEW x \in DOMAIN fixes[j], NEW y \in DOMAIN fixes[k]
      PROVE  ~Overlap(fixes[j][x], fixes[k][y])
  <2>1. PICK a \in DOMAIN chosen : chosen[a] = <<j, x>> BY <1>1, <1>2 DEF TakenWhole
  <2>2. PICK b \in DOMAIN chosen : chosen[b] = <<k, y>> BY <1>1, <1>2 DEF TakenWhole
  <2>3. a # b BY <1>4, <1>5, <1>6, <2>1, <2>2
  <2>4. ~Clash(Of(chosen[a]), Of(chosen[b])) BY <1>1, <2>3 DEF TakenWhole
  <2>5. ~Clash(fixes[j][x], fixes[k][y]) BY <2>1, <2>2, <2>4 DEF Of
  <2> QED BY <1>4, <1>5, <2>5, ClashIsOverlap
<1>7. ASSUME NEW k \in DOMAIN fixes, k \notin Applied, fixes[k] # <<>>
      PROVE  \E j \in Applied : j < k /\ Overlaps(j, k)
  <2>1. k < next BY <1>1, <1>4
  <2>2. PICK i \in DOMAIN fixes[k], a \in DOMAIN chosen :
           chosen[a][1] < k /\ Clash(fixes[k][i], Of(chosen[a]))
    BY <1>1, <1>2, <1>7, <2>1 DEF TakenWhole
  <2> DEFINE j == chosen[a][1]
             b == chosen[a][2]
  <2>3. j \in DOMAIN fixes /\ b \in DOMAIN fixes[j] BY <1>1 DEF TakenWhole
  <2>4. j \in Applied BY <1>2, <2>3 DEF Chosen
  <2>5. Clash(fixes[j][b], fixes[k][i]) BY <1>4, <2>2, <2>3, ClashSymmetric DEF Of
  <2>6. Overlap(fixes[j][b], fixes[k][i])
    <3> HIDE DEF j, b
    <3> QED BY <1>4, <2>3, <2>5, ClashIsOverlap
  <2> QED BY <2>2, <2>3, <2>4, <2>6 DEF Overlaps
<1> QED BY <1>2, <1>3, <1>6, <1>7 DEF Overlaps

LEMMA RestFollows == IInv => RestIsKept
<1> SUFFICES ASSUME IInv, fixing = "done"
             PROVE  /\ \A place \in 0 .. Size - 1 :
                          (\E p \in DOMAIN text : text[p] = Piece(place)) <=>
                          ~\E k \in Applied : \E i \in DOMAIN fixes[k] :
                              fixes[k][i].start <= place /\ place < fixes[k][i].end
                    /\ \A p, q \in DOMAIN text :
                          p < q => text[p].end <= text[q].start /\ text[p] # text[q]
  BY DEF RestIsKept
<1>1. FixTypeOK /\ TakenWhole /\ SortedApart /\ OutSoFar BY DEF IInv
<1>2. /\ \A k \in Applied : \A i \in DOMAIN fixes[k] : \E m \in DOMAIN sorted : sorted[m] = <<k, i>>
      /\ \A m \in DOMAIN sorted : m < putting /\ sorted[m][1] \in Applied
  BY AppliedIsChosen
<1>3. \A m \in DOMAIN sorted :
         sorted[m][2] \in DOMAIN fixes[sorted[m][1]] /\ sorted[m] = <<sorted[m][1], sorted[m][2]>>
  BY <1>1, SortedFacts
<1>4. ASSUME NEW place \in 0 .. Size - 1
      PROVE  Replaced(place) <=>
                \E k \in Applied : \E i \in DOMAIN fixes[k] :
                    fixes[k][i].start <= place /\ place < fixes[k][i].end
  <2>1. ASSUME Replaced(place)
        PROVE  \E k \in Applied : \E i \in DOMAIN fixes[k] :
                    fixes[k][i].start <= place /\ place < fixes[k][i].end
    <3>1. PICK m \in DOMAIN sorted : Of(sorted[m]).start <= place /\ place < Of(sorted[m]).end
      BY <2>1 DEF Replaced
    <3> QED BY <1>2, <1>3, <3>1 DEF Of
  <2>2. ASSUME NEW k \in Applied, NEW i \in DOMAIN fixes[k],
               fixes[k][i].start <= place, place < fixes[k][i].end
        PROVE  Replaced(place)
    <3>1. PICK m \in DOMAIN sorted : sorted[m] = <<k, i>> BY <1>2
    <3>2. Of(sorted[m]) = fixes[k][i] BY <3>1 DEF Of
    <3> QED BY <1>2, <2>2, <3>2 DEF Replaced
  <2> QED BY <2>1, <2>2
<1>5. \A place \in 0 .. Size - 1 : place < Through BY SizeIsNat DEF Through
<1>6. \A place \in 0 .. Size - 1 :
         (\E p \in DOMAIN text : text[p] = Piece(place)) <=> ~Replaced(place)
  BY <1>1, <1>5 DEF OutSoFar
<1>7. \A p, q \in DOMAIN text : p < q => text[p].end <= text[q].start /\ text[p] # text[q]
  BY <1>1 DEF OutSoFar
<1> QED BY <1>4, <1>6, <1>7

\* Every state of applying fixes is of its type.
THEOREM FixesTypeCorrect == FixSpec => []FixTypeOK
<1>1. IInv => FixTypeOK BY DEF IInv
<1> QED BY <1>1, FixesInvariance, PTL

\* The source is never sliced from a place to one before, for any fixes the
\* edits of which, each fix's by themselves, do not clash.
THEOREM SourceGoesForwards == FixSpec => []GoesForwards
<1>1. IInv => GoesForwards
  <2> SUFFICES ASSUME IInv, fixing = "putting", putting \in DOMAIN sorted
               PROVE  upto <= Of(sorted[putting]).start
    BY DEF GoesForwards
  <2>1. OutSoFar /\ putting \in Nat BY DEF IInv, FixTypeOK
  <2>2. putting >= putting BY <2>1
  <2> QED BY <2>1, <2>2 DEF OutSoFar
<1> QED BY <1>1, FixesInvariance, PTL

\* Fixes are applied whole or not at all, and left only for one before.
THEOREM FixesAreWhole == FixSpec => []WholeOrNotAtAll
BY WholeFollows, FixesInvariance, PTL

\* All else of the text is kept, once and in order.
THEOREM TextIsKept == FixSpec => []RestIsKept
BY RestFollows, FixesInvariance, PTL

\* What is written is right, whatever the fixes of whatever text (apply).
THEOREM FixesComeOut == FixSpec => []FixesAreRight
<1>1. FixTypeOK /\ GoesForwards /\ WholeOrNotAtAll /\ RestIsKept => FixesAreRight
  BY DEF FixesAreRight
<1> QED BY <1>1, FixesTypeCorrect, SourceGoesForwards, FixesAreWhole, TextIsKept, PTL
=============================================================================
