----------------------------- MODULE PreprocProofs -----------------------------
(***************************************************************************)
(* What is being expanded, and where from, for any files, definitions and  *)
(* depth: what each walk keeps in its frame brings the definitions that    *)
(* were active back when it ends.                                          *)
(***************************************************************************)
EXTENDS Preproc, FiniteSetTheorems, SequenceTheorems, WellFoundedInduction, TLAPS

\* A sequence, of whatever it is a sequence.
Sequence(s) == s \in Seq({s[i] : i \in DOMAIN s})

\* A walk under a frame with formals, whose arguments its caller wrote.
Listed(w) == DOMAIN w.args # {}

\* The fields of a walk.
Shaped(w) ==
    DOMAIN w = {"rest", "args", "caller", "depth", "made", "file", "ends", "inner", "out", "tried"}

\* A caller is a walk further out, and an argument is walked for one of the
\* formals of the walk below.
WellFormed(s) ==
    /\ Sequence(s)
    /\ \A i \in DOMAIN s :
        /\ Shaped(s[i])
        /\ s[i].depth \in Nat
        /\ Listed(s[i]) => s[i].caller \in 1 .. i - 1
        /\ i = 1 => s[i].ends = "back"
        /\ s[i].ends = "actual" => Listed(s[i - 1])

IncludedIn(s) == {i \in DOMAIN s : s[i].ends = "included"}

Bounded(s) ==
    /\ Cardinality(IncludedIn(s)) <= MaxDepth
    /\ \A i, j \in {1} \union IncludedIn(s) : i \in DOMAIN s /\ j \in DOMAIN s =>
        (s[i].file = s[j].file => i = j)

Distinct(a) == \A i, j \in DOMAIN a : a[i] = a[j] => i = j

\* What is active under a walk, b, is what its end makes of it again under the
\* walk below, a.
Linked(below, w, a, b) ==
    IF w.ends = "body" THEN b # <<>> /\ a = SubSeq(b, 1, Len(b) - 1)
    ELSE IF w.ends = "actual"
    THEN b = SubSeq(a, 1, below.depth) /\ a = b \o w.inner
    ELSE b = a

\* A holds what is active under each walk of s, and a under the last.
ActiveAs(s, a, A) ==
    /\ DOMAIN A = DOMAIN s
    /\ \A i \in DOMAIN s : Sequence(A[i]) /\ Distinct(A[i])
    /\ IF s = <<>> THEN a = <<>> ELSE A[1] = <<>> /\ A[Len(s)] = a
    /\ \A i \in DOMAIN s : i > 1 => Linked(s[i - 1], s[i], A[i - 1], A[i])
    /\ \A i \in DOMAIN s : Listed(s[i]) =>
        s[i].depth <= Len(A[i]) /\ s[i].depth = Len(A[s[i].caller])

Inv(s, a) == WellFormed(s) /\ Bounded(s) /\ \E A : ActiveAs(s, a, A)

Inductive == Inv(stack, active)

-----------------------------------------------------------------------------
(* Sequences.                                                              *)

LEMMA SequenceOf == ASSUME NEW S, NEW s \in Seq(S) PROVE Sequence(s)
<1> DEFINE T == {s[i] : i \in DOMAIN s}
<1>1. Len(s) \in Nat /\ DOMAIN s = 1 .. Len(s) BY LenProperties
<1>2. \A i \in 1 .. Len(s) : s[i] \in T BY <1>1
<1> HIDE DEF T
<1>3. SubSeq(s, 1, Len(s)) \in Seq(T) BY <1>1, <1>2, SubSeqProperties
<1>4. SubSeq(s, 1, Len(s)) = s BY SubSeqFull
<1>5. s \in Seq(T) BY <1>3, <1>4
<1> QED BY <1>5 DEF Sequence, T

LEMMA SequenceIs ==
    ASSUME NEW s, Sequence(s)
    PROVE  Len(s) \in Nat /\ DOMAIN s = 1 .. Len(s) /\ (s # <<>> => Len(s) # 0)
           /\ (s = <<>> <=> Len(s) = 0)
<1> DEFINE T == {s[i] : i \in DOMAIN s}
<1>1. s \in Seq(T) BY DEF Sequence
<1> HIDE DEF T
<1> QED BY <1>1, LenProperties, EmptySeq

LEMMA Appended ==
    ASSUME NEW s, Sequence(s), NEW e
    PROVE  /\ Sequence(Append(s, e)) /\ Len(Append(s, e)) = Len(s) + 1
           /\ \A i \in 1 .. Len(s) : Append(s, e)[i] = s[i]
           /\ Append(s, e)[Len(s) + 1] = e
<1> DEFINE T == {s[i] : i \in DOMAIN s} \union {e}
<1>1. s \in Seq(T) BY SeqMonotonic DEF Sequence
<1>2. e \in T OBVIOUS
<1> HIDE DEF T
<1>3. Append(s, e) \in Seq(T) BY <1>1, <1>2, AppendProperties
<1>4. Sequence(Append(s, e)) BY <1>3, SequenceOf
<1> QED BY <1>1, <1>2, <1>4, AppendProperties

LEMMA First ==
    ASSUME NEW s, Sequence(s), NEW n \in 0 .. Len(s)
    PROVE  /\ Sequence(SubSeq(s, 1, n)) /\ Len(SubSeq(s, 1, n)) = n
           /\ \A i \in 1 .. n : SubSeq(s, 1, n)[i] = s[i]
<1> DEFINE T == {s[i] : i \in DOMAIN s}
<1>1. s \in Seq(T) BY DEF Sequence
<1>2. Len(s) \in Nat /\ DOMAIN s = 1 .. Len(s) BY SequenceIs
<1>3. \A i \in 1 .. n : s[i] \in T BY <1>2
<1> HIDE DEF T
<1>4. /\ SubSeq(s, 1, n) \in Seq(T)
      /\ Len(SubSeq(s, 1, n)) = IF 1 <= n THEN n - 1 + 1 ELSE 0
      /\ \A i \in 1 .. n - 1 + 1 : SubSeq(s, 1, n)[i] = s[1 + i - 1]
  BY <1>2, <1>3, SubSeqProperties
<1>5. Sequence(SubSeq(s, 1, n)) BY <1>4, SequenceOf
<1> QED BY <1>2, <1>4, <1>5

\* What is taken off the end of a sequence and put back.
LEMMA Rejoined ==
    ASSUME NEW s, Sequence(s), NEW n \in 0 .. Len(s)
    PROVE  SubSeq(s, 1, n) \o SubSeq(s, n + 1, Len(s)) = s
<1> DEFINE T == {s[i] : i \in DOMAIN s}
<1>1. s \in Seq(T) BY DEF Sequence
<1> HIDE DEF T
<1>2. Len(s) \in Nat BY <1>1, LenProperties
<1>3. 1 \in 1 .. Len(s) + 1 /\ n \in 1 - 1 .. Len(s) /\ Len(s) \in n .. Len(s) BY <1>2
<1>4. SubSeq(s, 1, n) \o SubSeq(s, n + 1, Len(s)) = SubSeq(s, 1, Len(s))
  BY <1>1, <1>3, ConcatAdjacentSubSeq
<1> QED BY <1>1, <1>4, SubSeqFull

LEMMA Unappended ==
    ASSUME NEW s, Sequence(s), NEW e
    PROVE  Append(s, e) # <<>> /\ SubSeq(Append(s, e), 1, Len(Append(s, e)) - 1) = s
<1> DEFINE T == {s[i] : i \in DOMAIN s} \union {e}
           a == Append(s, e)
<1>1. s \in Seq(T) BY SeqMonotonic DEF Sequence
<1>2. Sequence(a) /\ Len(a) = Len(s) + 1 /\ \A i \in 1 .. Len(s) : a[i] = s[i] BY Appended
<1>3. Len(s) \in Nat /\ a # <<>> BY <1>2, SequenceIs
<1> HIDE DEF T, a
<1>4. Len(s) \in 0 .. Len(a) BY <1>2, <1>3
<1>5. /\ Sequence(SubSeq(a, 1, Len(s))) /\ Len(SubSeq(a, 1, Len(s))) = Len(s)
      /\ \A i \in 1 .. Len(s) : SubSeq(a, 1, Len(s))[i] = s[i]
  BY <1>2, <1>4, First
<1>6. SubSeq(a, 1, Len(s)) \in Seq(T)
  <2>1. \A i \in 1 .. Len(s) : a[i] \in T BY <1>1, <1>2, ElementOfSeq
  <2> QED BY <1>3, <2>1, SubSeqProperties
<1>7. SubSeq(a, 1, Len(s)) = s BY <1>1, <1>5, <1>6, SeqEqual
<1> QED BY <1>2, <1>3, <1>7 DEF a

LEMMA Distinctness ==
    ASSUME NEW s, Sequence(s), Distinct(s)
    PROVE  /\ \A n \in 0 .. Len(s) : Distinct(SubSeq(s, 1, n))
           /\ \A e : (\A i \in DOMAIN s : s[i] # e) => Distinct(Append(s, e))
<1>1. Len(s) \in Nat /\ DOMAIN s = 1 .. Len(s) BY SequenceIs
<1>2. ASSUME NEW n \in 0 .. Len(s) PROVE Distinct(SubSeq(s, 1, n))
  <2>1. DOMAIN SubSeq(s, 1, n) = 1 .. n BY First, SequenceIs
  <2>2. \A i \in 1 .. n : SubSeq(s, 1, n)[i] = s[i] BY First
  <2> QED BY <1>1, <2>1, <2>2 DEF Distinct
<1>3. ASSUME NEW e, \A i \in DOMAIN s : s[i] # e PROVE Distinct(Append(s, e))
  <2>1. DOMAIN Append(s, e) = 1 .. Len(s) + 1 BY Appended, SequenceIs
  <2>2. /\ \A i \in 1 .. Len(s) : Append(s, e)[i] = s[i]
        /\ Append(s, e)[Len(s) + 1] = e
    BY Appended
  <2> QED BY <1>1, <1>3, <2>1, <2>2 DEF Distinct
<1> QED BY <1>2, <1>3

-----------------------------------------------------------------------------
(* Walks put on others, and taken off.                                     *)

\* A walk under the same frame as another.
SameFrame(v, w) ==
    /\ Shaped(w)
    /\ w.args = v.args /\ w.caller = v.caller /\ w.depth = v.depth
    /\ w.file = v.file /\ w.ends = v.ends /\ w.inner = v.inner

Same(s, t) ==
    /\ Sequence(t) /\ Len(t) = Len(s)
    /\ \A i \in DOMAIN s : SameFrame(s[i], t[i])

\* A walk that goes on in its text keeps all that is asked of it.
LEMMA GoingOn ==
    ASSUME NEW w, Shaped(w), NEW rest, NEW tried
    PROVE  /\ SameFrame(w, w)
           /\ SameFrame(w, [w EXCEPT !.rest = rest])
           /\ SameFrame(w, [w EXCEPT !.tried = tried])
           /\ SameFrame(w, [w EXCEPT !.rest = rest, !.tried = tried])
<1>1. SameFrame(w, w) BY DEF SameFrame
<1>2. SameFrame(w, [w EXCEPT !.rest = rest]) BY DEF SameFrame, Shaped
<1>3. SameFrame(w, [w EXCEPT !.tried = tried]) BY DEF SameFrame, Shaped
<1>4. SameFrame(w, [w EXCEPT !.rest = rest, !.tried = tried]) BY DEF SameFrame, Shaped
<1> QED BY <1>1, <1>2, <1>3, <1>4

LEMMA TopReplaced ==
    ASSUME NEW s, WellFormed(s), s # <<>>, NEW w, SameFrame(s[Len(s)], w)
    PROVE  /\ Same(s, [s EXCEPT ![Len(s)] = w])
           /\ Same(s, s)
<1> DEFINE T == {s[i] : i \in DOMAIN s} \union {w}
<1>1. s \in Seq(T) BY SeqMonotonic DEF WellFormed, Sequence
<1>2. Len(s) \in 1 .. Len(s) /\ DOMAIN s = 1 .. Len(s) /\ w \in T
  BY SequenceIs DEF WellFormed
<1> HIDE DEF T
<1>3. /\ [s EXCEPT ![Len(s)] = w] \in Seq(T)
      /\ Len([s EXCEPT ![Len(s)] = w]) = Len(s)
      /\ \A j \in 1 .. Len(s) :
            [s EXCEPT ![Len(s)] = w][j] = IF j = Len(s) THEN w ELSE s[j]
  BY <1>1, <1>2, ExceptSeq
<1>4. Sequence([s EXCEPT ![Len(s)] = w]) BY <1>3, SequenceOf
<1>5. \A i \in DOMAIN s : SameFrame(s[i], s[i]) BY DEF WellFormed, SameFrame
<1> QED BY <1>2, <1>3, <1>4, <1>5 DEF Same, WellFormed

LEMMA SameKeeps ==
    ASSUME NEW s, NEW t, NEW a, Inv(s, a), Same(s, t)
    PROVE  Inv(t, a)
<1>1. WellFormed(s) /\ Bounded(s) BY DEF Inv
<1>2. PICK A : ActiveAs(s, a, A) BY DEF Inv
<1>3. /\ DOMAIN s = 1 .. Len(s) /\ DOMAIN t = DOMAIN s /\ Len(s) \in Nat /\ Len(t) = Len(s)
      /\ s = <<>> <=> t = <<>>
  BY <1>1, SequenceIs DEF Same, WellFormed
<1>4. \A i \in DOMAIN s :
        /\ Shaped(t[i]) /\ t[i].args = s[i].args /\ t[i].caller = s[i].caller
        /\ t[i].depth = s[i].depth /\ t[i].file = s[i].file /\ t[i].ends = s[i].ends
        /\ t[i].inner = s[i].inner
  BY DEF Same, SameFrame
<1>5. \A i \in DOMAIN s : i > 1 => i - 1 \in DOMAIN s BY <1>3
<1>6. WellFormed(t)
  <2>1. \A i \in DOMAIN s : s[i].ends = "actual" => i > 1 BY <1>1, <1>3 DEF WellFormed
  <2>2. \A i \in DOMAIN t : t[i].ends = "actual" => Listed(t[i - 1])
    BY <1>1, <1>3, <1>4, <1>5, <2>1 DEF WellFormed, Listed
  <2>3. \A i \in DOMAIN t : Listed(t[i]) => t[i].caller \in 1 .. i - 1
    BY <1>1, <1>3, <1>4 DEF WellFormed, Listed
  <2> QED BY <1>1, <1>3, <1>4, <2>2, <2>3 DEF WellFormed, Same
<1>7. Bounded(t)
  <2>1. IncludedIn(t) = IncludedIn(s) BY <1>3, <1>4 DEF IncludedIn
  <2> QED BY <1>1, <1>3, <1>4, <2>1 DEF Bounded
<1>8. ActiveAs(t, a, A)
  <2>1. ASSUME NEW i \in DOMAIN t, i > 1 PROVE Linked(t[i - 1], t[i], A[i - 1], A[i])
    <3>1. i \in DOMAIN s /\ i - 1 \in DOMAIN s BY <1>3, <1>5, <2>1
    <3>2. /\ t[i - 1].depth = s[i - 1].depth
          /\ t[i].ends = s[i].ends /\ t[i].inner = s[i].inner
      BY <1>4, <3>1
    <3>3. Linked(s[i - 1], s[i], A[i - 1], A[i]) BY <1>2, <2>1, <3>1 DEF ActiveAs
    <3> QED BY <3>2, <3>3 DEF Linked
  <2>2. \A i \in DOMAIN t : Listed(t[i]) =>
          t[i].depth <= Len(A[i]) /\ t[i].depth = Len(A[t[i].caller])
    BY <1>2, <1>3, <1>4 DEF ActiveAs, Listed
  <2> QED BY <1>2, <1>3, <2>1, <2>2 DEF ActiveAs
<1> QED BY <1>6, <1>7, <1>8 DEF Inv

\* A walk put on the others, under which b is active.
LEMMA PushKeeps ==
    ASSUME NEW s, NEW a, NEW w, NEW b, Inv(s, a), s # <<>>,
           Shaped(w), w.depth \in Nat, Sequence(b), Distinct(b),
           w.ends = "actual" => Listed(s[Len(s)]),
           w.ends = "included" =>
               /\ Cardinality(IncludedIn(s)) < MaxDepth
               /\ \A i \in DOMAIN s : s[i].file # w.file,
           Linked(s[Len(s)], w, a, b),
           \A A : ActiveAs(s, a, A) /\ Listed(w) =>
               /\ w.caller \in 1 .. Len(s)
               /\ w.depth <= Len(b) /\ w.depth = Len(A[w.caller])
    PROVE  Inv(Append(s, w), b)
<1> DEFINE t == Append(s, w)
           n == Len(s)
<1>1. WellFormed(s) /\ Bounded(s) BY DEF Inv
<1>2. PICK A : ActiveAs(s, a, A) BY DEF Inv
<1>3. n \in Nat /\ n >= 1 /\ DOMAIN s = 1 .. n BY <1>1, SequenceIs DEF WellFormed
<1>4. Sequence(t) /\ Len(t) = n + 1 /\ (\A i \in 1 .. n : t[i] = s[i]) /\ t[n + 1] = w
  BY <1>1, Appended DEF WellFormed
<1>5. DOMAIN t = 1 .. n + 1 BY <1>4, SequenceIs
<1> HIDE DEF t, n
<1>6. WellFormed(t)
  <2>1. ASSUME NEW i \in 1 .. n + 1
        PROVE  /\ Shaped(t[i]) /\ t[i].depth \in Nat
               /\ Listed(t[i]) => t[i].caller \in 1 .. i - 1
               /\ i = 1 => t[i].ends = "back"
               /\ t[i].ends = "actual" => Listed(t[i - 1])
    <3>1. CASE i = n + 1
      <4>1. t[i] = w /\ t[i - 1] = s[n] BY <1>3, <1>4, <3>1
      <4>2. Listed(w) => w.caller \in 1 .. n BY <1>2 DEF n
      <4> QED BY <1>3, <3>1, <4>1, <4>2 DEF n
    <3>2. CASE i # n + 1
      <4>1. i \in DOMAIN s /\ t[i] = s[i] BY <1>3, <1>4, <3>2
      <4>2. s[i].ends = "actual" => i - 1 \in 1 .. n BY <1>1, <1>3, <4>1 DEF WellFormed
      <4>3. s[i].ends = "actual" => t[i - 1] = s[i - 1] BY <1>4, <4>2
      <4> QED BY <1>1, <4>1, <4>3 DEF WellFormed
    <3> QED BY <3>1, <3>2
  <2> QED BY <1>4, <1>5, <2>1 DEF WellFormed
<1>7. Bounded(t)
  <2>1. IsFiniteSet(IncludedIn(s)) BY <1>3, FS_Interval, FS_Subset DEF IncludedIn
  <2>2. n + 1 \notin IncludedIn(s) BY <1>3 DEF IncludedIn
  <2>3. IncludedIn(t) = IF w.ends = "included" THEN IncludedIn(s) \union {n + 1} ELSE IncludedIn(s)
    BY <1>3, <1>4, <1>5 DEF IncludedIn
  <2>4. Cardinality(IncludedIn(s)) \in Nat BY <2>1, FS_CardinalityType
  <2>5. Cardinality(IncludedIn(t)) <= MaxDepth
    <3>1. CASE w.ends = "included"
      <4>1. IncludedIn(t) = IncludedIn(s) \union {n + 1} BY <2>3, <3>1
      <4>2. Cardinality(IncludedIn(t)) = Cardinality(IncludedIn(s)) + 1
        BY <2>1, <2>2, <4>1, FS_AddElement
      <4> QED BY <2>4, <3>1, <4>2, DepthAssumption
    <3>2. CASE w.ends # "included"
      <4>1. IncludedIn(t) = IncludedIn(s) BY <2>3, <3>2
      <4> QED BY <1>1, <4>1 DEF Bounded
    <3> QED BY <3>1, <3>2
  <2>6. ASSUME NEW i \in {1} \union IncludedIn(t), NEW j \in {1} \union IncludedIn(t),
               i \in DOMAIN t, j \in DOMAIN t, t[i].file = t[j].file
        PROVE  i = j
    <3>1. \A k \in {1} \union IncludedIn(t) :
            \/ k \in {1} \union IncludedIn(s) /\ k \in DOMAIN s /\ t[k] = s[k]
            \/ k = n + 1 /\ w.ends = "included" /\ t[k] = w
      BY <1>3, <1>4, <2>3 DEF IncludedIn
    <3> QED BY <1>1, <2>6, <3>1 DEF Bounded
  <2> QED BY <2>5, <2>6 DEF Bounded
<1> DEFINE B == [i \in 1 .. n + 1 |-> IF i <= n THEN A[i] ELSE b]
<1>8. ActiveAs(t, b, B)
  <2>1. /\ DOMAIN B = 1 .. n + 1 /\ (\A i \in 1 .. n : B[i] = A[i]) /\ B[n + 1] = b
    BY <1>3
  <2>2. A[n] = a /\ A[1] = <<>> BY <1>2, <1>3 DEF ActiveAs, n
  <2> HIDE DEF B
  <2>3. \A i \in 1 .. n + 1 : Sequence(B[i]) /\ Distinct(B[i])
    BY <1>2, <1>3, <2>1 DEF ActiveAs
  <2>4. ASSUME NEW i \in 1 .. n + 1, i > 1
        PROVE  Linked(t[i - 1], t[i], B[i - 1], B[i])
    <3>1. CASE i = n + 1
      <4>1. t[i] = w /\ t[i - 1] = s[n] /\ B[i] = b /\ B[i - 1] = a
        BY <1>3, <1>4, <2>1, <2>2, <3>1
      <4> QED BY <4>1 DEF n
    <3>2. CASE i # n + 1
      <4>1. i \in 1 .. n /\ i - 1 \in 1 .. n BY <1>3, <2>4, <3>2
      <4>2. t[i] = s[i] /\ t[i - 1] = s[i - 1] /\ B[i] = A[i] /\ B[i - 1] = A[i - 1]
        BY <1>4, <2>1, <4>1
      <4> QED BY <1>2, <1>3, <2>4, <4>1, <4>2 DEF ActiveAs
    <3> QED BY <3>1, <3>2
  <2>5. ASSUME NEW i \in 1 .. n + 1, Listed(t[i])
        PROVE  t[i].depth <= Len(B[i]) /\ t[i].depth = Len(B[t[i].caller])
    <3>1. CASE i = n + 1
      <4>1. t[i] = w /\ B[i] = b BY <1>4, <2>1, <3>1
      <4>2. /\ w.caller \in 1 .. n /\ w.depth <= Len(b) /\ w.depth = Len(A[w.caller])
        BY <1>2, <2>5, <4>1 DEF n
      <4> QED BY <2>1, <4>1, <4>2
    <3>2. CASE i # n + 1
      <4>1. i \in 1 .. n /\ t[i] = s[i] /\ B[i] = A[i] BY <1>3, <1>4, <2>1, <3>2
      <4>2. s[i].caller \in 1 .. i - 1 BY <1>1, <1>3, <2>5, <4>1 DEF WellFormed
      <4>3. B[s[i].caller] = A[s[i].caller] BY <1>3, <2>1, <4>1, <4>2
      <4> QED BY <1>2, <1>3, <2>5, <4>1, <4>3 DEF ActiveAs
    <3> QED BY <3>1, <3>2
  <2>6. t # <<>> /\ B[1] = <<>> /\ B[Len(t)] = b BY <1>3, <1>4, <2>1, <2>2, SequenceIs
  <2> QED BY <1>5, <2>1, <2>3, <2>4, <2>5, <2>6 DEF ActiveAs
<1> QED BY <1>6, <1>7, <1>8 DEF Inv, t

\* A walk taken off, and what is then active again.
LEMMA PopKeeps ==
    ASSUME NEW s, NEW a, NEW b, Inv(s, a), s # <<>>,
           IF s[Len(s)].ends = "body" THEN b = SubSeq(a, 1, Len(a) - 1)
           ELSE IF s[Len(s)].ends = "actual" THEN b = a \o s[Len(s)].inner
           ELSE b = a
    PROVE  Inv(SubSeq(s, 1, Len(s) - 1), b)
<1> DEFINE t == SubSeq(s, 1, Len(s) - 1)
           n == Len(s)
<1>1. WellFormed(s) /\ Bounded(s) BY DEF Inv
<1>2. PICK A : ActiveAs(s, a, A) BY DEF Inv
<1>3. n \in Nat /\ n >= 1 /\ DOMAIN s = 1 .. n BY <1>1, SequenceIs DEF WellFormed
<1>4. Sequence(t) /\ Len(t) = n - 1 /\ \A i \in 1 .. n - 1 : t[i] = s[i]
  BY <1>1, <1>3, First DEF WellFormed
<1>5. DOMAIN t = 1 .. n - 1 /\ (t = <<>> <=> n = 1)
  <2>1. DOMAIN t = 1 .. Len(t) /\ (t = <<>> <=> Len(t) = 0) BY <1>4, SequenceIs
  <2> QED BY <1>3, <1>4, <2>1
<1> HIDE DEF t
<1>6. WellFormed(t)
  <2>1. ASSUME NEW i \in 1 .. n - 1 PROVE t[i].ends = "actual" => Listed(t[i - 1])
    <3>1. i \in DOMAIN s /\ t[i] = s[i] BY <1>3, <1>4
    <3>2. t[i].ends = "actual" => i - 1 \in 1 .. n - 1 BY <1>1, <1>3, <3>1 DEF WellFormed
    <3> QED BY <1>1, <1>4, <3>1, <3>2 DEF WellFormed
  <2> QED BY <1>1, <1>3, <1>4, <1>5, <2>1 DEF WellFormed
<1>7. Bounded(t)
  <2>1. IncludedIn(t) \subseteq IncludedIn(s)
    <3>1. SUFFICES ASSUME NEW i \in IncludedIn(t) PROVE i \in IncludedIn(s) OBVIOUS
    <3>2. i \in 1 .. n - 1 /\ t[i].ends = "included" BY <1>5, <3>1 DEF IncludedIn
    <3>3. i \in DOMAIN s /\ t[i] = s[i] BY <1>3, <1>4, <3>2
    <3> QED BY <3>2, <3>3 DEF IncludedIn
  <2>2. IsFiniteSet(IncludedIn(s))
    <3>1. IncludedIn(s) \subseteq 1 .. n BY <1>3 DEF IncludedIn
    <3>2. IsFiniteSet(1 .. n) BY <1>3, FS_Interval
    <3> QED BY <3>1, <3>2, FS_Subset
  <2>3. Cardinality(IncludedIn(t)) <= Cardinality(IncludedIn(s)) BY <2>1, <2>2, FS_Subset
  <2>4. IsFiniteSet(IncludedIn(t)) BY <2>1, <2>2, FS_Subset
  <2>5. Cardinality(IncludedIn(t)) \in Nat /\ Cardinality(IncludedIn(s)) \in Nat
    BY <2>2, <2>4, FS_CardinalityType
  <2>6. Cardinality(IncludedIn(t)) <= MaxDepth BY <1>1, <2>3, <2>5, DepthAssumption DEF Bounded
  <2>7. \A i \in DOMAIN t : i \in DOMAIN s /\ t[i] = s[i] BY <1>3, <1>4, <1>5
  <2>8. \A i, j \in {1} \union IncludedIn(t) : i \in DOMAIN t /\ j \in DOMAIN t =>
          (t[i].file = t[j].file => i = j)
    BY <1>1, <2>1, <2>7 DEF Bounded
  <2> QED BY <2>6, <2>8 DEF Bounded
<1> DEFINE B == [i \in 1 .. n - 1 |-> A[i]]
<1>8. ActiveAs(t, b, B)
  <2>1. DOMAIN B = 1 .. n - 1 /\ \A i \in 1 .. n - 1 : B[i] = A[i] OBVIOUS
  <2>2. A[n] = a /\ A[1] = <<>> BY <1>2, <1>3 DEF ActiveAs
  <2> HIDE DEF B
  <2>3. CASE n = 1
    <3>1. s[n].ends = "back" BY <1>1, <1>3, <2>3 DEF WellFormed
    <3>2. b = <<>> BY <2>2, <2>3, <3>1
    <3> QED BY <1>5, <2>1, <2>3, <3>2 DEF ActiveAs
  <2>4. CASE n > 1
    <3>1. A[n - 1] = b
      <4>1. Linked(s[n - 1], s[n], A[n - 1], A[n]) BY <1>2, <1>3, <2>4 DEF ActiveAs
      <4> QED BY <2>2, <4>1 DEF Linked
    <3>2. t # <<>> /\ B[1] = <<>> /\ B[Len(t)] = b
      BY <1>3, <1>4, <1>5, <2>1, <2>2, <2>4, <3>1
    <3>3. \A i \in 1 .. n - 1 : i \in DOMAIN s /\ t[i] = s[i] /\ B[i] = A[i]
      BY <1>3, <1>4, <2>1
    <3>4. \A i \in 1 .. n - 1 : Sequence(B[i]) /\ Distinct(B[i]) BY <1>2, <3>3 DEF ActiveAs
    <3>5. ASSUME NEW i \in 1 .. n - 1, i > 1 PROVE Linked(t[i - 1], t[i], B[i - 1], B[i])
      <4>1. i - 1 \in 1 .. n - 1 BY <1>3, <3>5
      <4> QED BY <1>2, <3>3, <3>5, <4>1 DEF ActiveAs
    <3>6. ASSUME NEW i \in 1 .. n - 1, Listed(t[i])
          PROVE  t[i].depth <= Len(B[i]) /\ t[i].depth = Len(B[t[i].caller])
      <4>1. i \in DOMAIN s /\ t[i] = s[i] /\ B[i] = A[i] BY <3>3
      <4>2. s[i].caller \in 1 .. i - 1 BY <1>1, <3>6, <4>1 DEF WellFormed
      <4>3. s[i].caller \in 1 .. n - 1 BY <1>3, <4>2
      <4> QED BY <1>2, <3>3, <3>6, <4>1, <4>3 DEF ActiveAs
    <3> QED BY <1>5, <2>1, <3>2, <3>4, <3>5, <3>6 DEF ActiveAs
  <2> QED BY <1>3, <2>3, <2>4
<1> QED BY <1>6, <1>7, <1>8 DEF Inv, t

\* What the top walk says of what is active.
LEMMA TopActive ==
    ASSUME NEW s, NEW a, NEW A, Inv(s, a), ActiveAs(s, a, A), s # <<>>
    PROVE  /\ Len(s) \in Nat /\ Len(s) >= 1 /\ DOMAIN s = 1 .. Len(s)
           /\ Sequence(a) /\ Distinct(a) /\ Shaped(s[Len(s)]) /\ s[Len(s)].depth \in Nat
           /\ Listed(s[Len(s)]) =>
                /\ s[Len(s)].caller \in 1 .. Len(s) - 1
                /\ s[Len(s)].depth <= Len(a)
                /\ s[Len(s)].depth = Len(A[s[Len(s)].caller])
<1>1. WellFormed(s) BY DEF Inv
<1>2. Len(s) \in Nat /\ Len(s) >= 1 /\ DOMAIN s = 1 .. Len(s)
  BY <1>1, SequenceIs DEF WellFormed
<1>3. Len(s) \in DOMAIN s /\ A[Len(s)] = a BY <1>2 DEF ActiveAs
<1> QED BY <1>1, <1>2, <1>3 DEF WellFormed, ActiveAs

\* A walk over a part of the text of the top one.
LEMMA PushWithin ==
    ASSUME NEW s, NEW a, NEW w, Inv(s, a), s # <<>>, Shaped(w),
           w.ends \in {"back", "string", "test"}, w.args = s[Len(s)].args,
           w.caller = s[Len(s)].caller, w.depth = s[Len(s)].depth
    PROVE  Inv(Append(s, w), a)
<1>1. PICK A : ActiveAs(s, a, A) BY DEF Inv
<1>2. w.depth \in Nat /\ Sequence(a) /\ Distinct(a) /\ Len(s) \in Nat BY <1>1, TopActive
<1>3. Linked(s[Len(s)], w, a, a) BY DEF Linked
<1>4. ASSUME NEW B, ActiveAs(s, a, B), Listed(w)
      PROVE  /\ w.caller \in 1 .. Len(s)
             /\ w.depth <= Len(a) /\ w.depth = Len(B[w.caller])
  <2>1. Listed(s[Len(s)]) BY <1>4 DEF Listed
  <2> QED BY <1>2, <1>4, <2>1, TopActive
<1> QED BY <1>2, <1>3, <1>4, PushKeeps

\* A walk with no formals: over a default, or over a file.
LEMMA PushFresh ==
    ASSUME NEW s, NEW a, NEW w, Inv(s, a), s # <<>>, Shaped(w),
           w.ends \in {"back", "included"}, DOMAIN w.args = {}, w.depth = 0,
           w.ends = "included" =>
               /\ Cardinality(IncludedIn(s)) < MaxDepth
               /\ \A i \in DOMAIN s : s[i].file # w.file
    PROVE  Inv(Append(s, w), a)
<1>1. PICK A : ActiveAs(s, a, A) BY DEF Inv
<1>2. Sequence(a) /\ Distinct(a) BY <1>1, TopActive
<1>3. Linked(s[Len(s)], w, a, a) /\ ~Listed(w) BY DEF Linked, Listed
<1> QED BY <1>2, <1>3, PushKeeps

\* A body, which adds its definition.
LEMMA PushBody ==
    ASSUME NEW s, NEW a, NEW w, NEW d, Inv(s, a), s # <<>>, Shaped(w),
           w.ends = "body", w.caller = Len(s), w.depth = Len(a),
           \A i \in DOMAIN a : a[i] # d
    PROVE  Inv(Append(s, w), Append(a, d))
<1>1. PICK A : ActiveAs(s, a, A) BY DEF Inv
<1>2. Sequence(a) /\ Distinct(a) /\ Len(s) \in Nat /\ Len(s) >= 1 BY <1>1, TopActive
<1>3. Len(a) \in Nat BY <1>2, SequenceIs
<1>4. Sequence(Append(a, d)) /\ Len(Append(a, d)) = Len(a) + 1 BY <1>2, Appended
<1>5. Distinct(Append(a, d)) BY <1>2, Distinctness
<1>6. Linked(s[Len(s)], w, a, Append(a, d)) BY <1>2, Unappended DEF Linked
<1>7. ASSUME NEW B, ActiveAs(s, a, B)
      PROVE  /\ w.caller \in 1 .. Len(s)
             /\ w.depth <= Len(Append(a, d)) /\ w.depth = Len(B[w.caller])
  <2>1. B[Len(s)] = a BY <1>7 DEF ActiveAs
  <2> QED BY <1>2, <1>3, <1>4, <2>1
<1> QED BY <1>3, <1>4, <1>5, <1>6, <1>7, PushKeeps

\* An argument, under the frame of the walk its call is written in.
LEMMA PushActual ==
    ASSUME NEW s, NEW a, NEW w, Inv(s, a), s # <<>>, Shaped(w), Listed(s[Len(s)]),
           w.ends = "actual", w.args = s[s[Len(s)].caller].args,
           w.caller = s[s[Len(s)].caller].caller, w.depth = s[s[Len(s)].caller].depth,
           w.inner = SubSeq(a, s[Len(s)].depth + 1, Len(a))
    PROVE  Inv(Append(s, w), SubSeq(a, 1, s[Len(s)].depth))
<1> DEFINE c == s[Len(s)].caller
           d == s[Len(s)].depth
           b == SubSeq(a, 1, d)
<1>1. PICK A : ActiveAs(s, a, A) BY DEF Inv
<1>2. /\ Sequence(a) /\ Distinct(a) /\ Len(s) \in Nat /\ Len(s) >= 1 /\ DOMAIN s = 1 .. Len(s)
      /\ d \in Nat /\ d <= Len(a) /\ c \in 1 .. Len(s) - 1
  BY <1>1, TopActive
<1>3. Len(a) \in Nat BY <1>2, SequenceIs
<1>4. d \in 0 .. Len(a) BY <1>2, <1>3
<1>5. Sequence(b) /\ Len(b) = d /\ Distinct(b) BY <1>2, <1>4, First, Distinctness
<1>6. Linked(s[Len(s)], w, a, b) BY <1>2, <1>4, Rejoined DEF Linked
<1>7. c \in DOMAIN s /\ w.depth \in Nat BY <1>2 DEF Inv, WellFormed
<1>8. ASSUME NEW B, ActiveAs(s, a, B), Listed(w)
      PROVE  /\ w.caller \in 1 .. Len(s)
             /\ w.depth <= Len(b) /\ w.depth = Len(B[w.caller])
  <2>1. Listed(s[c]) BY <1>8 DEF Listed
  <2>2. s[c].caller \in 1 .. c - 1 BY <1>7, <2>1 DEF Inv, WellFormed
  <2>3. s[c].caller \in 1 .. Len(s) BY <1>2, <2>2
  <2>4. s[c].depth <= Len(B[c]) /\ s[c].depth = Len(B[s[c].caller])
    BY <1>7, <1>8, <2>1 DEF ActiveAs
  <2>5. d = Len(B[c]) BY <1>8, TopActive
  <2> QED BY <1>5, <2>3, <2>4, <2>5
<1> HIDE DEF b
<1>9. Inv(Append(s, w), b) BY <1>5, <1>6, <1>7, <1>8, PushKeeps
<1> QED BY <1>9 DEF b

-----------------------------------------------------------------------------
(* Steps.                                                                  *)

\* The walks once the top one has gone on.
LEMMA OnSame ==
    ASSUME Inductive, Running, NEW s, Same(stack, s)
    PROVE  /\ Inv(s, active) /\ s # <<>> /\ Len(s) = Len(stack) /\ DOMAIN s = DOMAIN stack
           /\ Len(stack) \in DOMAIN stack /\ Shaped(Top)
           /\ \A i \in DOMAIN stack :
                /\ s[i].args = stack[i].args /\ s[i].caller = stack[i].caller
                /\ s[i].depth = stack[i].depth /\ s[i].file = stack[i].file
                /\ s[i].ends = stack[i].ends
<1>1. Inv(s, active) BY SameKeeps DEF Inductive
<1>2. Sequence(stack) BY DEF Inductive, Inv, WellFormed
<1>3. Len(stack) \in Nat /\ Len(stack) # 0 /\ DOMAIN stack = 1 .. Len(stack)
  BY <1>2, SequenceIs DEF Running
<1>4. DOMAIN s = DOMAIN stack /\ s # <<>> BY <1>3, SequenceIs DEF Same
<1>5. Len(stack) \in DOMAIN stack BY <1>3
<1>6. Shaped(Top) BY <1>5 DEF Inductive, Inv, WellFormed, Top
<1> QED BY <1>1, <1>4, <1>5, <1>6 DEF Same, SameFrame

LEMMA TopGoesOn ==
    ASSUME Inductive, Running
    PROVE  /\ \A n : Same(stack, Past(n))
           /\ \A opener : Same(stack, Try(opener))
           /\ \A rest : Same(stack, [stack EXCEPT ![Len(stack)].rest = rest])
<1>1. WellFormed(stack) /\ stack # <<>> BY DEF Inductive, Inv, Running
<1>2. Len(stack) \in DOMAIN stack
  <2>1. Len(stack) \in Nat /\ Len(stack) # 0 /\ DOMAIN stack = 1 .. Len(stack)
    BY <1>1, SequenceIs DEF WellFormed
  <2> QED BY <2>1
<1>3. Shaped(Top) /\ Top = stack[Len(stack)] BY <1>1, <1>2 DEF WellFormed, Top
<1>4. ASSUME NEW n PROVE Same(stack, Past(n))
  <2>1. PICK rest : rest = SubSeq(Top.rest, n + 1, Len(Top.rest)) OBVIOUS
  <2>2. PICK w : w = [Top EXCEPT !.rest = rest, !.tried = 0] OBVIOUS
  <2>3. SameFrame(Top, w) BY <1>3, <2>2, GoingOn
  <2>4. Past(n) = [stack EXCEPT ![Len(stack)] = w] BY <2>1, <2>2, Zenon DEF Past, Top
  <2> QED BY <1>1, <1>3, <2>3, <2>4, TopReplaced
<1>5. ASSUME NEW opener PROVE Same(stack, Try(opener))
  <2>1. PICK w : w = [Top EXCEPT !.tried = opener] OBVIOUS
  <2>2. SameFrame(Top, w) BY <1>3, <2>1, GoingOn
  <2>3. Try(opener) = [stack EXCEPT ![Len(stack)] = w] BY <2>1, Zenon DEF Try, Top
  <2> QED BY <1>1, <1>3, <2>2, <2>3, TopReplaced
<1>6. ASSUME NEW rest PROVE Same(stack, [stack EXCEPT ![Len(stack)].rest = rest])
  <2>1. PICK w : w = [Top EXCEPT !.rest = rest] OBVIOUS
  <2>2. SameFrame(Top, w) BY <1>3, <2>1, GoingOn
  <2>3. [stack EXCEPT ![Len(stack)].rest = rest] = [stack EXCEPT ![Len(stack)] = w]
    BY <2>1, Zenon DEF Top
  <2> QED BY <1>1, <1>3, <2>2, <2>3, TopReplaced
<1> QED BY <1>4, <1>5, <1>6

\* The frames of the walks that steps begin.
LEMMA WithinIs ==
    ASSUME Shaped(Top), NEW text, NEW ends
    PROVE  /\ Shaped(Within(text, ends)) /\ Within(text, ends).ends = ends
           /\ Within(text, ends).args = Top.args
           /\ Within(text, ends).caller = Top.caller /\ Within(text, ends).depth = Top.depth
BY DEF Within, Shaped

LEMMA AsideIs ==
    ASSUME NEW v, Shaped(v), NEW written, NEW w, w = [v EXCEPT !.out = written]
    PROVE  /\ Shaped(w) /\ w.ends = v.ends /\ w.args = v.args
           /\ w.caller = v.caller /\ w.depth = v.depth
BY DEF Shaped

LEMMA WalkIs ==
    ASSUME NEW text, NEW file
    PROVE  LET w == Walk(text, file) IN
           /\ Shaped(w) /\ w.ends = "back" /\ w.depth = 0 /\ w.file = file
           /\ DOMAIN w.args = {}
<1> QED BY DEF Walk, Shaped, NoArgs

LEMMA Becomes ==
    ASSUME NEW s, NEW a, Inv(s, a), stack' = s, active' = a
    PROVE  Inductive'
<1>1. WellFormed(s) /\ Bounded(s) BY DEF Inv
<1>2. PICK A : ActiveAs(s, a, A) BY DEF Inv
<1>3. WellFormed(stack)' BY <1>1 DEF WellFormed, Listed, Shaped, Sequence
<1>4. Bounded(stack)' BY <1>1 DEF Bounded, IncludedIn
<1>5. ActiveAs(stack, active, A)'
  BY <1>2 DEF ActiveAs, Linked, Listed, Sequence, Distinct
<1> QED BY <1>3, <1>4, <1>5 DEF Inductive, Inv

LEMMA Begins == Init => Inductive
<1>1. SUFFICES ASSUME Init PROVE Inv(stack, active) BY DEF Inductive
<1>2. PICK w : stack = <<w>> /\ w = Walk(program.files[program.root], program.root)
  BY <1>1 DEF Init
<1>3. active = <<>> BY <1>1 DEF Init
<1>4. Shaped(w) /\ w.ends = "back" /\ w.depth = 0 /\ DOMAIN w.args = {} BY <1>2, WalkIs
<1>5. DOMAIN stack = {1} /\ Len(stack) = 1 /\ stack[1] = w /\ stack # <<>> BY <1>2
<1>6. Sequence(stack)
  <2>1. stack \in Seq({w}) BY <1>2
  <2> QED BY <2>1, SequenceOf
<1>7. ~Listed(w) BY <1>4 DEF Listed
<1>8. WellFormed(stack) BY <1>4, <1>5, <1>6, <1>7 DEF WellFormed
<1>9. Bounded(stack)
  <2>1. IncludedIn(stack) = {} BY <1>4, <1>5 DEF IncludedIn
  <2> QED BY <1>5, <2>1, FS_EmptySet, DepthAssumption DEF Bounded
<1>10. ActiveAs(stack, active, <<active>>)
  <2>1. Distinct(<<>>) BY DEF Distinct
  <2>2. <<>> \in Seq({}) BY EmptySeq
  <2>3. Sequence(<<>>) BY <2>2, SequenceOf
  <2> QED BY <1>3, <1>5, <1>7, <2>1, <2>3 DEF ActiveAs
<1> QED BY <1>8, <1>9, <1>10 DEF Inv

LEMMA StepKeeps == ASSUME Inductive, [Next]_vars PROVE Inductive'
<1>1. ASSUME Running, NEW s, Same(stack, s), stack' = s, active' = active PROVE Inductive'
  BY <1>1, OnSame, Becomes
<1>2. CASE Emit \/ Direct \/ Stray \/ SubstituteNothing \/ IncludeNothing
  <2>1. Running /\ stack' = Past(1) /\ active' = active
    BY <1>2 DEF Emit, Direct, Stray, SubstituteNothing, IncludeNothing, At
  <2> QED BY <1>1, <2>1, TopGoesOn
<1>3. CASE Verbatim
  <2>1. /\ Running /\ active' = active
        /\ \/ stack' = Past(1)
           \/ stack' = [stack EXCEPT ![Len(stack)].rest =
                          Spread(Tok.args) \o Tail(stack[Len(stack)].rest)]
    BY <1>3 DEF Verbatim, At
  <2> QED BY <1>1, <2>1, TopGoesOn
<1>4. CASE SubstituteActual
  <2>1. PICK s, w :
          /\ s = Past(1)
          /\ w = [stack[Top.caller] EXCEPT
                    !.rest = Top.args[Tok.n].text, !.made = TRUE, !.ends = "actual",
                    !.inner = SubSeq(active, Top.depth + 1, Len(active)), !.tried = 0]
          /\ stack' = Append(s, w) /\ active' = SubSeq(active, 1, Top.depth)
          /\ Running /\ Tok.n \in DOMAIN Top.args
    BY <1>4 DEF SubstituteActual, At, Bound, Push
  <2>2. Same(stack, s) BY <2>1, TopGoesOn
  <2>3. /\ Inv(s, active) /\ s # <<>> /\ Len(s) = Len(stack) /\ Len(stack) \in DOMAIN stack
        /\ \A i \in DOMAIN stack :
            /\ s[i].args = stack[i].args /\ s[i].caller = stack[i].caller
            /\ s[i].depth = stack[i].depth
    BY <2>1, <2>2, OnSame
  <2>4. Listed(Top) /\ Listed(s[Len(s)]) BY <2>1, <2>3 DEF Listed, Top
  <2>5. Top.caller \in DOMAIN stack
    <3>1. WellFormed(stack) BY DEF Inductive, Inv
    <3>2. Top.caller \in 1 .. Len(stack) - 1 BY <2>3, <2>4, <3>1 DEF WellFormed, Top
    <3>3. Len(stack) \in Nat /\ DOMAIN stack = 1 .. Len(stack)
      BY <3>1, SequenceIs DEF WellFormed
    <3> QED BY <3>2, <3>3
  <2>6. Shaped(stack[Top.caller]) BY <2>5 DEF Inductive, Inv, WellFormed
  <2>7. /\ Shaped(w) /\ w.ends = "actual" /\ w.args = stack[Top.caller].args
        /\ w.caller = stack[Top.caller].caller /\ w.depth = stack[Top.caller].depth
        /\ w.inner = SubSeq(active, Top.depth + 1, Len(active))
    BY <2>1, <2>6 DEF Shaped
  <2>8. Top.caller = s[Len(s)].caller /\ Top.depth = s[Len(s)].depth BY <2>3 DEF Top
  <2>9. Inv(Append(s, w), SubSeq(active, 1, Top.depth))
    BY <2>3, <2>4, <2>5, <2>7, <2>8, PushActual
  <2> QED BY <2>1, <2>9, Becomes
<1>5. CASE SubstituteDefault
  <2>1. PICK s, v, w :
          /\ s = Past(1) /\ v = Walk(Top.args[Tok.n].text, Top.file)
          /\ w = [v EXCEPT !.made = TRUE]
          /\ stack' = Append(s, w) /\ active' = active /\ Running
    BY <1>5 DEF SubstituteDefault, At, Push
  <2>2. Inv(s, active) /\ s # <<>> BY <2>1, TopGoesOn, OnSame
  <2>3. Shaped(w) /\ w.ends = "back" /\ w.depth = 0 /\ DOMAIN w.args = {}
    BY <2>1, WalkIs DEF Shaped
  <2>4. Inv(Append(s, w), active) BY <2>2, <2>3, PushFresh
  <2> QED BY <2>1, <2>4, Becomes
<1>6. CASE Reference
  <2>1. PICK d, rest, v, args, s, w :
          /\ s = [stack EXCEPT ![Len(stack)].rest = rest] /\ v = Walk(program.defs[d].body, Top.file)
          /\ w = [v EXCEPT !.args = args, !.made = TRUE, !.caller = Len(stack),
                           !.depth = Len(active), !.ends = "body"]
          /\ stack' = Append(s, w) /\ active' = Append(active, d)
          /\ Running /\ ~IsActive(d)
    BY <1>6 DEF Reference, At, Push
  <2>2. Inv(s, active) /\ s # <<>> /\ Len(s) = Len(stack) BY <2>1, TopGoesOn, OnSame
  <2>3. Shaped(v) BY <2>1, WalkIs
  <2>4. Shaped(w) /\ w.ends = "body" /\ w.caller = Len(s) /\ w.depth = Len(active)
    BY <2>1, <2>2, <2>3 DEF Shaped
  <2>5. \A i \in DOMAIN active : active[i] # d BY <2>1 DEF IsActive
  <2>6. Inv(Append(s, w), Append(active, d)) BY <2>2, <2>4, <2>5, PushBody
  <2> QED BY <2>1, <2>6, Becomes
<1>7. ASSUME Running, NEW s, Same(stack, s), NEW w, Shaped(w),
             w.ends \in {"back", "string", "test"}, w.args = Top.args,
             w.caller = Top.caller, w.depth = Top.depth,
             stack' = Append(s, w), active' = active
      PROVE  Inductive'
  <2>1. /\ Inv(s, active) /\ s # <<>> /\ Len(s) = Len(stack) /\ Len(stack) \in DOMAIN stack
        /\ s[Len(stack)].args = Top.args /\ s[Len(stack)].caller = Top.caller
        /\ s[Len(stack)].depth = Top.depth
    BY <1>7, OnSame DEF Top
  <2>2. Inv(Append(s, w), active) BY <1>7, <2>1, PushWithin
  <2> QED BY <1>7, <2>2, Becomes
<1>8. ASSUME Running PROVE Shaped(Top) BY <1>8, TopGoesOn, OnSame
<1>9. CASE Stringify \/ TestName
  <2>1. PICK s, v, w, text, ends :
          /\ s = Past(1) \/ \E opener : s = Try(opener)
          /\ ends \in {"string", "test"}
          /\ v = Within(text, ends) /\ w = [v EXCEPT !.out = out]
          /\ stack' = Append(s, w) /\ active' = active /\ Running
    BY <1>9 DEF Stringify, TestName, At, Push
  <2>2. Same(stack, s) BY <2>1, TopGoesOn
  <2>3. /\ Shaped(w) /\ w.ends = ends /\ w.args = Top.args
        /\ w.caller = Top.caller /\ w.depth = Top.depth
    <3>1. Shaped(Top) BY <1>8, <2>1
    <3>2. /\ Shaped(v) /\ v.ends = ends /\ v.args = Top.args
          /\ v.caller = Top.caller /\ v.depth = Top.depth
      BY <2>1, <3>1, WithinIs
    <3> QED BY <2>1, <3>2, AsideIs
  <2> QED BY <1>7, <2>1, <2>2, <2>3
<1>10. CASE Branch
  <2>1. /\ Running /\ active' = active
        /\ \/ \E n : stack' = Past(n)
           \/ \E opener : stack' = Try(opener)
           \/ \E s, w, text : /\ s = Past(Close(Top.rest)) /\ w = Within(text, "back")
                              /\ stack' = Append(s, w)
    BY <1>10 DEF Branch, At, Enter, Push
  <2>2. CASE (\E n : stack' = Past(n)) \/ (\E opener : stack' = Try(opener))
    BY <1>1, <2>1, <2>2, TopGoesOn
  <2>3. ASSUME NEW s, NEW w, NEW text, s = Past(Close(Top.rest)), w = Within(text, "back"),
               stack' = Append(s, w)
        PROVE  Inductive'
    <3>1. Same(stack, s) BY <2>1, <2>3, TopGoesOn
    <3>2. Shaped(Top) BY <1>8, <2>1
    <3>3. /\ Shaped(w) /\ w.ends = "back" /\ w.args = Top.args
          /\ w.caller = Top.caller /\ w.depth = Top.depth
      BY <2>3, <3>2, WithinIs
    <3> QED BY <1>7, <2>1, <2>3, <3>1, <3>3
  <2> QED BY <2>1, <2>2, <2>3
<1>11. CASE Include
  <2>1. PICK s, v, w :
          /\ s = Past(1) /\ v = Walk(program.files[Found(Tok.n)], Found(Tok.n))
          /\ w = [v EXCEPT !.ends = "included"]
          /\ stack' = Append(s, w) /\ active' = active /\ Running
          /\ IncludeDepth < MaxDepth /\ Found(Tok.n) \notin OpenFiles
    BY <1>11 DEF Include, At, Push
  <2>2. /\ Inv(s, active) /\ s # <<>> /\ DOMAIN s = DOMAIN stack
        /\ \A i \in DOMAIN stack : s[i].file = stack[i].file /\ s[i].ends = stack[i].ends
    BY <2>1, TopGoesOn, OnSame
  <2>3. Shaped(w) /\ w.ends = "included" /\ w.depth = 0 /\ DOMAIN w.args = {}
        /\ w.file = Found(Tok.n)
    BY <2>1, WalkIs DEF Shaped
  <2>4. IncludedIn(s) = {i \in DOMAIN stack : stack[i].ends = "included"}
    BY <2>2 DEF IncludedIn
  <2>5. Cardinality(IncludedIn(s)) < MaxDepth BY <2>1, <2>4 DEF IncludeDepth
  <2>6. \A i \in DOMAIN s : s[i].file # w.file BY <2>1, <2>2, <2>3 DEF OpenFiles
  <2>7. Inv(Append(s, w), active) BY <2>2, <2>3, <2>5, <2>6, PushFresh
  <2> QED BY <2>1, <2>7, Becomes
<1>12. CASE EndText \/ EndString \/ EndBody \/ EndActual
  <2>1. /\ Running /\ stack' = Below
        /\ IF Top.ends = "body" THEN active' = SubSeq(active, 1, Len(active) - 1)
           ELSE IF Top.ends = "actual" THEN active' = active \o Top.inner
           ELSE active' = active
    BY <1>12 DEF EndText, EndString, EndBody, EndActual, Ends
  <2>2. PICK b : b = active' OBVIOUS
  <2>3. Inv(Below, b)
    BY <2>1, <2>2, PopKeeps DEF Inductive, Running, Below, Top
  <2> QED BY <2>1, <2>2, <2>3, Becomes
<1>13. CASE EndTest
  <2>1. Running /\ active' = active /\ Top.ends = "test" BY <1>13 DEF EndTest, Ends
  <2>2. Inv(Below, active) BY <2>1, PopKeeps DEF Inductive, Running, Below, Top
  <2>3. CASE stack' = Below BY <2>1, <2>2, <2>3, Becomes
  <2>4. CASE stack' # Below
    <3>1. PICK asking, rest, body, s, w :
            /\ asking = stack[Len(stack) - 1]
            /\ s = [Below EXCEPT ![Len(Below)] = [Below[Len(Below)] EXCEPT !.rest = rest, !.tried = 0]]
            /\ w = [asking EXCEPT !.rest = body, !.ends = "back", !.inner = <<>>, !.tried = 0]
            /\ stack' = Append(s, w)
      BY <1>13, <2>4 DEF EndTest
    <3>2. /\ Len(stack) \in Nat /\ Len(stack) >= 1 /\ DOMAIN stack = 1 .. Len(stack)
          /\ WellFormed(stack) /\ Sequence(stack)
      <4>1. WellFormed(stack) /\ Sequence(stack) BY DEF Inductive, Inv, WellFormed
      <4> QED BY <2>1, <4>1, SequenceIs DEF Running
    <3>3. Len(stack) > 1 BY <2>1, <3>2 DEF WellFormed, Top
    <3>4. Len(Below) = Len(stack) - 1 /\ Below[Len(Below)] = asking /\ Below # <<>>
          /\ Sequence(Below)
      <4>1. /\ Sequence(Below) /\ Len(Below) = Len(stack) - 1
            /\ \A i \in 1 .. Len(stack) - 1 : Below[i] = stack[i]
        BY <3>2, First DEF Below
      <4> QED BY <3>1, <3>2, <3>3, <4>1, SequenceIs
    <3>5. Shaped(asking) BY <3>1, <3>2, <3>3 DEF WellFormed
    <3>6. PICK t : t = Below OBVIOUS
    <3>7. Inv(t, active) /\ WellFormed(t) /\ t # <<>> /\ t[Len(t)] = asking
      BY <2>2, <3>4, <3>6 DEF Inv
    <3>8. PICK v : v = [asking EXCEPT !.rest = rest, !.tried = 0] OBVIOUS
    <3>9. SameFrame(asking, v) BY <3>5, <3>8, GoingOn
    <3>10. s = [t EXCEPT ![Len(t)] = v] BY <3>1, <3>4, <3>6, <3>8, Zenon
    <3>11. Same(t, s) BY <3>7, <3>9, <3>10, TopReplaced
    <3>12. Inv(s, active) BY <3>7, <3>11, SameKeeps
    <3>13. /\ s # <<>> /\ Len(s) = Len(t)
           /\ s[Len(s)].args = asking.args /\ s[Len(s)].caller = asking.caller
           /\ s[Len(s)].depth = asking.depth
      <4>1. Len(t) \in DOMAIN t /\ Len(t) # 0
        BY <3>7, SequenceIs DEF WellFormed
      <4>2. Sequence(s) /\ Len(s) = Len(t) /\ SameFrame(t[Len(t)], s[Len(t)])
        BY <3>11, <4>1 DEF Same
      <4> QED BY <3>7, <4>1, <4>2, SequenceIs DEF SameFrame
    <3>14. /\ Shaped(w) /\ w.ends = "back" /\ w.args = asking.args
           /\ w.caller = asking.caller /\ w.depth = asking.depth
      BY <3>1, <3>5 DEF Shaped
    <3>15. Inv(Append(s, w), active) BY <3>12, <3>13, <3>14, PushWithin
    <3> QED BY <2>1, <3>1, <3>15, Becomes
  <2> QED BY <2>3, <2>4
<1>14. CASE UNCHANGED vars BY <1>14, Becomes DEF vars, Inductive
<1> QED
  BY <1>2, <1>3, <1>4, <1>5, <1>6, <1>9, <1>10, <1>11, <1>12, <1>13, <1>14
  DEF Next, Expands, Chooses, Returns

-----------------------------------------------------------------------------
(* What the runs check, for any program.                                   *)

LEMMA Invariance == Spec => []Inductive
BY Begins, StepKeeps, PTL DEF Spec

\* However calls, arguments, defaults, includes and new definitions nest, no
\* macro is expanded within its own expansion.
THEOREM NoMacroWithinItself == Spec => []NoneWithinItself
<1>1. Inductive => NoneWithinItself
  <2>1. SUFFICES ASSUME Inductive PROVE Distinct(active) BY DEF NoneWithinItself, Distinct
  <2>2. PICK A : ActiveAs(stack, active, A) BY <2>1 DEF Inductive, Inv
  <2>3. CASE stack = <<>> BY <2>2, <2>3 DEF ActiveAs, Distinct
  <2>4. CASE stack # <<>> BY <2>1, <2>2, <2>4, TopActive DEF Inductive
  <2> QED BY <2>3, <2>4
<1> QED BY <1>1, Invariance, PTL

\* However deep the limit, the files being included are no more than it and
\* the file expanded, and each is a file of its own.
THEOREM IncludesFit == Spec => []IncludesAreBounded
<1>1. Inductive => IncludesAreBounded
  <2>1. SUFFICES ASSUME Inductive PROVE IncludesAreBounded OBVIOUS
  <2> DEFINE files == {i \in DOMAIN stack : i = 1 \/ stack[i].ends = "included"}
  <2>2. WellFormed(stack) /\ Bounded(stack) BY <2>1 DEF Inductive, Inv
  <2>3. files \subseteq {1} \union IncludedIn(stack) /\ files \subseteq DOMAIN stack
    BY DEF IncludedIn
  <2>4. \A i, j \in files : stack[i].file = stack[j].file => i = j
    BY <2>2, <2>3 DEF Bounded
  <2>5. IsFiniteSet(IncludedIn(stack))
    <3>1. Len(stack) \in Nat /\ DOMAIN stack = 1 .. Len(stack)
      BY <2>2, SequenceIs DEF WellFormed
    <3>2. IncludedIn(stack) \subseteq 1 .. Len(stack) BY <3>1 DEF IncludedIn
    <3>3. IsFiniteSet(1 .. Len(stack)) BY <3>1, FS_Interval
    <3> QED BY <3>2, <3>3, FS_Subset
  <2> DEFINE all == IncludedIn(stack) \union {1}
  <2>6. /\ IsFiniteSet(all) /\ Cardinality(IncludedIn(stack)) \in Nat
        /\ \/ Cardinality(all) = Cardinality(IncludedIn(stack))
           \/ Cardinality(all) = Cardinality(IncludedIn(stack)) + 1
    BY <2>5, FS_AddElement, FS_CardinalityType
  <2>7. files \subseteq all BY <2>3
  <2> HIDE DEF files, all
  <2>8. Cardinality(files) <= Cardinality(all) /\ IsFiniteSet(files) BY <2>6, <2>7, FS_Subset
  <2>9. Cardinality(files) \in Nat BY <2>8, FS_CardinalityType
  <2>10. Cardinality(IncludedIn(stack)) <= MaxDepth BY <2>2 DEF Bounded
  <2>11. Cardinality(files) <= MaxDepth + 1 BY <2>6, <2>8, <2>9, <2>10, DepthAssumption
  <2> QED BY <2>4, <2>11 DEF IncludesAreBounded, files
<1> QED BY <1>1, Invariance, PTL

\* What is counted walk by walk is what the frames keep.
LEMMA CountedAs ==
    ASSUME NEW A, Inductive, ActiveAs(stack, active, A)
    PROVE  \A i \in 0 .. Len(stack) :
            ActiveWhereWritten[i] = IF i = 0 THEN 0 ELSE Len(A[i])
<1> DEFINE n == Len(stack)
           Counted(f) ==
             [i \in 0 .. Len(stack) |->
                IF i <= 1 THEN 0
                ELSE IF stack[i].ends = "body" THEN f[i - 1] + 1
                ELSE IF stack[i].ends = "actual" THEN f[stack[i - 1].caller]
                ELSE f[i - 1]]
           kept == [i \in 0 .. n |-> IF i = 0 THEN 0 ELSE Len(A[i])]
<1>1. WellFormed(stack) BY DEF Inductive, Inv
<1>2. n \in Nat /\ DOMAIN stack = 1 .. n BY <1>1, SequenceIs DEF WellFormed
<1>3. \A i \in 1 .. n : Sequence(A[i]) /\ Len(A[i]) \in Nat BY <1>2, SequenceIs DEF ActiveAs
<1>4. \A i \in 1 .. n : stack[i].ends = "actual" /\ i > 1 =>
        /\ stack[i - 1].caller \in 1 .. n /\ stack[i - 1].caller < i
        /\ Len(A[i]) = Len(A[stack[i - 1].caller])
  <2>1. SUFFICES ASSUME NEW i \in 1 .. n, stack[i].ends = "actual", i > 1
                 PROVE  /\ stack[i - 1].caller \in 1 .. n /\ stack[i - 1].caller < i
                        /\ Len(A[i]) = Len(A[stack[i - 1].caller])
    OBVIOUS
  <2>2. i - 1 \in DOMAIN stack /\ Listed(stack[i - 1]) BY <1>1, <1>2, <2>1 DEF WellFormed
  <2>3. stack[i - 1].caller \in 1 .. i - 1 - 1 /\ stack[i - 1].depth \in Nat
    BY <1>1, <2>2 DEF WellFormed
  <2>4. /\ stack[i - 1].depth <= Len(A[i - 1])
        /\ stack[i - 1].depth = Len(A[stack[i - 1].caller])
    BY <2>2 DEF ActiveAs
  <2>5. Linked(stack[i - 1], stack[i], A[i - 1], A[i]) BY <1>2, <2>1 DEF ActiveAs
  <2>6. A[i] = SubSeq(A[i - 1], 1, stack[i - 1].depth) BY <2>1, <2>5 DEF Linked
  <2>7. Len(A[i]) = stack[i - 1].depth
    <3>1. stack[i - 1].depth \in 0 .. Len(A[i - 1]) /\ Sequence(A[i - 1])
      BY <1>2, <1>3, <2>2, <2>3, <2>4
    <3> QED BY <2>6, <3>1, First
  <2> QED BY <1>2, <2>3, <2>4, <2>7
<1>5. \A i \in 1 .. n : stack[i].ends = "body" /\ i > 1 => Len(A[i]) = Len(A[i - 1]) + 1
  <2>1. SUFFICES ASSUME NEW i \in 1 .. n, stack[i].ends = "body", i > 1
                 PROVE  Len(A[i]) = Len(A[i - 1]) + 1
    OBVIOUS
  <2>2. Linked(stack[i - 1], stack[i], A[i - 1], A[i]) BY <1>2, <2>1 DEF ActiveAs
  <2>3. A[i] # <<>> /\ A[i - 1] = SubSeq(A[i], 1, Len(A[i]) - 1) BY <2>1, <2>2 DEF Linked
  <2>4. Len(A[i]) - 1 \in 0 .. Len(A[i]) BY <1>3, <2>3, SequenceIs
  <2>5. Len(A[i - 1]) = Len(A[i]) - 1 BY <1>3, <2>3, <2>4, First
  <2> QED BY <1>3, <2>5
<1>6. \A i \in 1 .. n : stack[i].ends \notin {"body", "actual"} /\ i > 1 => A[i] = A[i - 1]
  BY <1>2 DEF ActiveAs, Linked
<1>7. n # 0 => Len(A[1]) = 0
  <2>1. n # 0 => A[1] = <<>> BY <1>1, SequenceIs DEF ActiveAs, WellFormed
  <2> QED BY <2>1
<1>8. kept = Counted(kept)
  <2>1. ASSUME NEW i \in 0 .. n PROVE kept[i] = Counted(kept)[i]
    <3>1. CASE i <= 1 BY <1>2, <1>7, <3>1
    <3>2. CASE i > 1 /\ stack[i].ends = "body" BY <1>2, <1>5, <3>2
    <3>3. CASE i > 1 /\ stack[i].ends = "actual" BY <1>2, <1>4, <3>3
    <3>4. CASE i > 1 /\ stack[i].ends \notin {"body", "actual"} BY <1>2, <1>6, <3>4
    <3> QED BY <1>2, <3>1, <3>2, <3>3, <3>4
  <2> QED BY <2>1
<1>9. ActiveWhereWritten = CHOOSE f : f = Counted(f) BY Zenon DEF ActiveWhereWritten
<1> HIDE DEF kept
<1>10. ActiveWhereWritten = Counted(ActiveWhereWritten)
  <2> HIDE DEF Counted
  <2> QED BY <1>8, <1>9
<1> DEFINE Wrong == {i \in 0 .. n : ActiveWhereWritten[i] # kept[i]}
           Less == {p \in Nat \X Nat : p[1] < p[2]}
<1>11. Wrong = {}
  <2>1. SUFFICES ASSUME Wrong # {} PROVE FALSE OBVIOUS
  <2>2. IsWellFoundedOn(Less, Nat) BY NatLessThanWellFounded DEF OpToRel
  <2>3. Wrong \subseteq Nat BY <1>2
  <2> HIDE DEF Less, Wrong
  <2>4. PICK i \in Wrong : \A j \in Wrong : <<j, i>> \notin Less BY <2>1, <2>2, <2>3, WFMin
  <2>5. \A j \in Wrong : ~ (j < i) BY <2>3, <2>4 DEF Less
  <2>6. i \in 0 .. n /\ ActiveWhereWritten[i] # kept[i] BY <2>4 DEF Wrong
  <2>7. \A j \in 0 .. n : j < i => ActiveWhereWritten[j] = kept[j] BY <2>5 DEF Wrong
  <2>8. ActiveWhereWritten[i] = Counted(ActiveWhereWritten)[i] BY <1>10
  <2>9. kept[i] = Counted(kept)[i] BY <1>8
  <2>10. Counted(ActiveWhereWritten)[i] = Counted(kept)[i]
    <3>1. CASE i <= 1 BY <2>6, <3>1
    <3>2. CASE i > 1 /\ stack[i].ends = "actual" BY <1>2, <1>4, <2>6, <2>7, <3>2
    <3>3. CASE i > 1 /\ stack[i].ends # "actual"
      <4>1. ActiveWhereWritten[i - 1] = kept[i - 1] BY <1>2, <2>6, <2>7, <3>3
      <4> QED BY <2>6, <3>3, <4>1
    <3> QED BY <1>2, <2>6, <3>1, <3>2, <3>3
  <2> QED BY <2>6, <2>8, <2>9, <2>10
<1> QED BY <1>11 DEF kept

\* Whatever calls and arguments nest, the definitions active where a text is
\* walked are as many as where it is written, and one for each body between.
THEOREM ActiveIsOfTheText == Spec => []ActiveIsWhereWritten
<1>1. Inductive => ActiveIsWhereWritten
  <2>1. SUFFICES ASSUME Inductive PROVE Len(active) = ActiveWhereWritten[Len(stack)]
    BY DEF ActiveIsWhereWritten
  <2>2. PICK A : ActiveAs(stack, active, A) BY <2>1 DEF Inductive, Inv
  <2>3. Len(stack) \in Nat /\ (stack = <<>> <=> Len(stack) = 0)
    BY <2>1, SequenceIs DEF Inductive, Inv, WellFormed
  <2>4. ActiveWhereWritten[Len(stack)] = IF Len(stack) = 0 THEN 0 ELSE Len(A[Len(stack)])
    BY <2>1, <2>2, <2>3, CountedAs
  <2>5. IF stack = <<>> THEN active = <<>> ELSE A[Len(stack)] = active
    BY <2>2 DEF ActiveAs
  <2> QED BY <2>3, <2>4, <2>5
<1> QED BY <1>1, Invariance, PTL
=============================================================================
