-------------------------- MODULE FileOrderProofs --------------------------
(***************************************************************************)
(* That a design is compiled of exactly the files it needs, each once,     *)
(* after those it depends on and otherwise as given, for any files however *)
(* they refer to each other.  The visits open are a way from the file      *)
(* given to the one visited, so whatever is found open on the way reaches  *)
(* back.                                                                   *)
(***************************************************************************)
EXTENDS FileOrder, FiniteSetTheorems, SequenceTheorems, TLAPS

\* What is needed is what was followed and what follows from what is open.
ReachInv ==
    /\ reached \union Members(toFollow) \subseteq Needed(Members(tops))
    /\ Members(tops) \subseteq reached \union Members(toFollow)
    /\ \A f \in reached : Members(depends[f]) \union Members(bound[f]) \subseteq reached \union Members(toFollow)
    /\ phase = "reaching" => given = <<>>
    /\ phase # "reaching" /\ tops # <<>> => toFollow = <<>> /\ Wanted = reached

Visited == {stack[i].file : i \in DOMAIN stack}

\* What is seen is what is being visited or put, each once, and what a visit
\* has gone by.
VisitInv ==
    /\ visited = Visited \union Members(compiled) /\ visited \subseteq Wanted
    /\ \A i, j \in DOMAIN stack : stack[i].file = stack[j].file => i = j
    /\ \A i, j \in DOMAIN compiled : compiled[i] = compiled[j] => i = j
    /\ \A i \in DOMAIN stack : stack[i].file \notin Members(compiled)
    /\ \A i \in DOMAIN stack : stack[i].at <= Len(depends[stack[i].file]) + 1
    /\ \A i \in DOMAIN stack : \A d \in DOMAIN depends[stack[i].file] :
          d < stack[i].at /\ depends[stack[i].file][d] \in Wanted => depends[stack[i].file][d] \in visited

\* The visits open are a way, from the last begun of those given.
WayInv ==
    /\ \A i, j \in DOMAIN stack : i <= j => Reaches(stack[i].file, stack[j].file)
    /\ stack # <<>> => going > 1 /\ stack[1].file = given[going - 1]
    /\ \A p \in DOMAIN given : p < going =>
          given[p] \in Members(compiled) \/ (p = going - 1 /\ stack # <<>>)

\* What is put comes after what it needs, and not before what is given
\* earlier, unless that needs it.
OutInv ==
    /\ \A i \in DOMAIN compiled : \A f \in Members(depends[compiled[i]]) \intersect Wanted :
          (\E j \in DOMAIN compiled : j < i /\ compiled[j] = f) \/ Reaches(f, compiled[i])
    /\ \A i \in DOMAIN compiled : \A p \in DOMAIN given :
          (\E j \in DOMAIN compiled : j <= i /\ compiled[j] = given[p]) \/ \E h \in 1 .. p : Reaches(given[h], compiled[i])
    /\ phase = "reaching" => visited = {} /\ going = 1 /\ stack = <<>> /\ compiled = <<>>
    /\ phase = "done" => stack = <<>> /\ going = Len(given) + 1

IInv == FileTypeOK /\ ReachInv /\ VisitInv /\ WayInv /\ OutInv

---------------------------------------------------------------------------
(* Lists, and what their members reach.                                    *)

LEMMA ListFacts ==
    ASSUME NEW n \in Nat, NEW list \in FileLists(n)
    PROVE  /\ list \in Seq(Indexed) /\ DOMAIN list = 1 .. Len(list)
           /\ Len(list) \in 0 .. n
           /\ \A i \in DOMAIN list : list[i] \in Indexed
           /\ \A i, j \in DOMAIN list : list[i] = list[j] => i = j
<1>1. PICK m \in 0 .. n : list \in [1 .. m -> Indexed] BY DEF FileLists
<1>2. m \in Nat BY <1>1
<1> QED BY <1>1, <1>2 DEF FileLists

LEMMA MembersIn ==
    ASSUME NEW S, NEW list \in Seq(S)
    PROVE  /\ Len(list) \in Nat /\ DOMAIN list = 1 .. Len(list)
           /\ \A i \in DOMAIN list : list[i] \in S
           /\ Members(list) \subseteq S
           /\ list = <<>> <=> Len(list) = 0
<1>1. Len(list) \in Nat /\ DOMAIN list = 1 .. Len(list) BY LenProperties
<1>2. \A i \in DOMAIN list : list[i] \in S BY <1>1, ElementOfSeq
<1>3. list = <<>> <=> Len(list) = 0 BY EmptySeq
<1> QED BY <1>1, <1>2, <1>3 DEF Members

\* Without its last, a list is as it was.
LEMMA FrontFacts ==
    ASSUME NEW S, NEW list \in Seq(S), list # <<>>
    PROVE  /\ Len(list) \in Nat \ {0} /\ Len(list) \in DOMAIN list /\ list[Len(list)] \in S
           /\ SubSeq(list, 1, Len(list) - 1) \in Seq(S)
           /\ DOMAIN SubSeq(list, 1, Len(list) - 1) = 1 .. Len(list) - 1
           /\ Len(SubSeq(list, 1, Len(list) - 1)) = Len(list) - 1
           /\ \A i \in 1 .. Len(list) - 1 : SubSeq(list, 1, Len(list) - 1)[i] = list[i]
           /\ Members(list) = Members(SubSeq(list, 1, Len(list) - 1)) \union {list[Len(list)]}
<1> DEFINE n == Len(list) - 1
<1>1. Len(list) \in Nat \ {0} /\ n \in Nat /\ DOMAIN list = 1 .. Len(list) BY EmptySeq
<1>2. \A i \in 1 .. Len(list) : list[i] \in S BY ElementOfSeq
<1>3. /\ SubSeq(list, 1, n) \in Seq(S)
      /\ Len(SubSeq(list, 1, n)) = (IF 1 <= n THEN n - 1 + 1 ELSE 0)
      /\ \A i \in 1 .. n - 1 + 1 : SubSeq(list, 1, n)[i] = list[1 + i - 1]
  <2>1. 1 \in Int /\ n \in Int /\ \A i \in 1 .. n : list[i] \in S BY <1>1, <1>2
  <2> HIDE DEF n
  <2> QED BY <2>1, SubSeqProperties
<1>4. n - 1 + 1 = n /\ (IF 1 <= n THEN n ELSE 0) = n /\ \A i \in 1 .. n : 1 + i - 1 = i
  <2>1. n \in Nat BY <1>1
  <2> HIDE DEF n
  <2>2. \A i \in 1 .. n : 1 + i - 1 = i BY <2>1
  <2>3. n - 1 + 1 = n BY <2>1
  <2>4. (IF 1 <= n THEN n ELSE 0) = n BY <2>1
  <2> QED BY <2>2, <2>3, <2>4
<1>5. Len(list) \in 1 .. Len(list) BY <1>1
<1>6. /\ Len(SubSeq(list, 1, n)) = n
      /\ DOMAIN SubSeq(list, 1, n) = 1 .. n
      /\ \A i \in 1 .. n : SubSeq(list, 1, n)[i] = list[i]
  <2> HIDE DEF n
  <2>1. Len(SubSeq(list, 1, n)) = n /\ \A i \in 1 .. n : SubSeq(list, 1, n)[i] = list[i]
    BY <1>3, <1>4
  <2> QED BY <1>3, <2>1, LenProperties
<1>7. Members(list) = Members(SubSeq(list, 1, n)) \union {list[Len(list)]}
  <2>1. \A i \in DOMAIN list : i \in 1 .. n \/ i = Len(list) BY <1>1
  <2>2. \A i \in 1 .. n : i \in DOMAIN list BY <1>1
  <2> HIDE DEF n
  <2> QED BY <1>1, <1>5, <1>6, <2>1, <2>2 DEF Members
<1> QED BY <1>1, <1>2, <1>3, <1>5, <1>6, <1>7

LEMMA AddedFacts ==
    ASSUME NEW S, NEW list \in Seq(S), NEW e \in S
    PROVE  /\ Append(list, e) \in Seq(S) /\ Len(Append(list, e)) = Len(list) + 1
           /\ DOMAIN Append(list, e) = 1 .. Len(list) + 1
           /\ \A i \in DOMAIN list : i \in DOMAIN Append(list, e) /\ Append(list, e)[i] = list[i]
           /\ Append(list, e)[Len(list) + 1] = e
           /\ Append(list, e) # <<>>
           /\ Members(Append(list, e)) = Members(list) \union {e}
<1>1. /\ Append(list, e) \in Seq(S) /\ Len(Append(list, e)) = Len(list) + 1
      /\ Append(list, e) # <<>>
      /\ \A i \in 1 .. Len(list) : Append(list, e)[i] = list[i]
      /\ Append(list, e)[Len(list) + 1] = e
  BY AppendProperties
<1>2. /\ DOMAIN list = 1 .. Len(list) /\ DOMAIN Append(list, e) = 1 .. Len(list) + 1
      /\ Len(list) \in Nat
  BY <1>1, LenProperties
<1>3. \A i \in DOMAIN list : i \in DOMAIN Append(list, e) BY <1>2
<1>4. \A i \in DOMAIN Append(list, e) : i \in DOMAIN list \/ i = Len(list) + 1 BY <1>2
<1>5. Len(list) + 1 \in DOMAIN Append(list, e) BY <1>2
<1>6. Members(Append(list, e)) = Members(list) \union {e}
  BY <1>1, <1>2, <1>3, <1>4, <1>5 DEF Members
<1> QED BY <1>1, <1>2, <1>3, <1>6

LEMMA JoinedMembers ==
    ASSUME NEW S, NEW s \in Seq(S), NEW t \in Seq(S)
    PROVE  s \o t \in Seq(S) /\ Members(s \o t) = Members(s) \union Members(t)
<1>1. /\ s \o t \in Seq(S) /\ Len(s \o t) = Len(s) + Len(t)
      /\ \A i \in 1 .. Len(s) + Len(t) :
            (s \o t)[i] = IF i <= Len(s) THEN s[i] ELSE t[i - Len(s)]
  BY ConcatProperties
<1>2. /\ Len(s) \in Nat /\ DOMAIN s = 1 .. Len(s) /\ Len(t) \in Nat /\ DOMAIN t = 1 .. Len(t)
      /\ DOMAIN (s \o t) = 1 .. Len(s) + Len(t)
  BY <1>1, LenProperties
<1>3. ASSUME NEW i \in DOMAIN (s \o t) PROVE (s \o t)[i] \in Members(s) \union Members(t)
  <2>1. CASE i <= Len(s)
    <3>1. i \in DOMAIN s /\ (s \o t)[i] = s[i] BY <1>1, <1>2, <2>1
    <3> QED BY <3>1 DEF Members
  <2>2. CASE ~(i <= Len(s))
    <3>1. i - Len(s) \in DOMAIN t /\ (s \o t)[i] = t[i - Len(s)] BY <1>1, <1>2, <2>2
    <3> QED BY <3>1 DEF Members
  <2> QED BY <2>1, <2>2
<1>4. \A i \in DOMAIN s : i \in DOMAIN (s \o t) /\ (s \o t)[i] = s[i] BY <1>1, <1>2
<1>5. ASSUME NEW i \in DOMAIN t PROVE Len(s) + i \in DOMAIN (s \o t) /\ (s \o t)[Len(s) + i] = t[i]
  <2>1. Len(s) + i \in 1 .. Len(s) + Len(t) /\ ~(Len(s) + i <= Len(s)) /\ Len(s) + i - Len(s) = i
    BY <1>2
  <2> QED BY <1>1, <1>2, <2>1
<1>6. Members(s \o t) \subseteq Members(s) \union Members(t)
  <2>1. \A f \in Members(s \o t) : \E i \in DOMAIN (s \o t) : f = (s \o t)[i] BY DEF Members
  <2> QED BY <1>3, <2>1
<1>7. Members(s) \subseteq Members(s \o t)
  <2>1. \A f \in Members(s) : \E i \in DOMAIN s : f = s[i] BY DEF Members
  <2>2. \A i \in DOMAIN (s \o t) : (s \o t)[i] \in Members(s \o t) BY DEF Members
  <2> QED BY <1>4, <2>1, <2>2
<1>8. Members(t) \subseteq Members(s \o t)
  <2>1. \A f \in Members(t) : \E i \in DOMAIN t : f = t[i] BY DEF Members
  <2>2. \A i \in DOMAIN (s \o t) : (s \o t)[i] \in Members(s \o t) BY DEF Members
  <2> QED BY <1>5, <2>1, <2>2
<1> QED BY <1>1, <1>6, <1>7, <1>8

\* As many files as places, if none is in two.
LEMMA AsManyAsMembers ==
    ASSUME NEW list \in Seq(Indexed), \A i, j \in DOMAIN list : list[i] = list[j] => i = j
    PROVE  IsFiniteSet(Members(list)) /\ Len(list) = Cardinality(Members(list)) /\ Len(list) <= FileCount
<1> DEFINE n == Len(list)
           M == Members(list)
<1>1. n \in Nat /\ DOMAIN list = 1 .. n /\ M \subseteq Indexed BY MembersIn
<1>2. IsFiniteSet(1 .. n) /\ Cardinality(1 .. n) = n
  <2>1. 1 \in Int /\ n \in Int BY <1>1
  <2> HIDE DEF n
  <2>2. IsFiniteSet(1 .. n) /\ Cardinality(1 .. n) = IF 1 > n THEN 0 ELSE n - 1 + 1
    BY <2>1, FS_Interval
  <2> QED BY <1>1, <2>2
<1>3. IsFiniteSet(Indexed) /\ Cardinality(Indexed) = FileCount
  <2>1. 1 \in Int /\ FileCount \in Int BY FileCountIsNat
  <2>2. IsFiniteSet(1 .. FileCount) /\ Cardinality(1 .. FileCount) = IF 1 > FileCount THEN 0 ELSE FileCount - 1 + 1
    BY <2>1, FS_Interval
  <2> QED BY <2>2, FileCountIsNat DEF Indexed
<1>4. IsFiniteSet(M) /\ Cardinality(M) <= FileCount BY <1>1, <1>3, FS_Subset
<1>5. list \in [1 .. n -> M]
  <2>1. \A i \in 1 .. n : list[i] \in M BY <1>1 DEF Members
  <2>2. list = [i \in 1 .. n |-> list[i]] BY <1>1
  <2> HIDE DEF n, M
  <2> QED BY <2>1, <2>2
<1>6. list \in Injection(1 .. n, M) /\ list \in Surjection(1 .. n, M)
  <2>1. list \in Injection(1 .. n, M)
    <3> HIDE DEF n, M
    <3> QED BY <1>1, <1>5 DEF Injection, IsInjective
  <2>2. \A f \in M : \E i \in 1 .. n : list[i] = f BY <1>1 DEF Members
  <2> HIDE DEF n, M
  <2> QED BY <1>5, <2>1, <2>2 DEF Surjection
<1>7. n = Cardinality(M)
  <2> HIDE DEF n, M
  <2> QED BY <1>2, <1>4, <1>6, FS_Injection
<1> QED BY <1>4, <1>7

\* What a set needs holds it, and is closed; and is in every set that is so.
LEMMA NeededFacts ==
    ASSUME NEW fs \in SUBSET Indexed,
           \A g \in Indexed : Members(depends[g]) \union Members(bound[g]) \subseteq Indexed
    PROVE  /\ fs \subseteq Needed(fs) /\ Needed(fs) \subseteq Indexed
           /\ \A g \in Needed(fs) : Members(depends[g]) \union Members(bound[g]) \subseteq Needed(fs)
           /\ \A set \in SUBSET Indexed :
                 /\ fs \subseteq set
                 /\ \A g \in set : Members(depends[g]) \union Members(bound[g]) \subseteq set
                 => Needed(fs) \subseteq set
BY DEF Needed

\* Files reach themselves, what they depend on, and what that reaches.
LEMMA ReachesFacts ==
    /\ \A f : Reaches(f, f)
    /\ \A f, g, h : Reaches(f, g) /\ Reaches(g, h) => Reaches(f, h)
    /\ \A f, g : g \in Members(depends[f]) \intersect Wanted => Reaches(f, g)
<1>1. \A f : Reaches(f, f) BY DEF Reaches
<1>2. \A f, g, h : Reaches(f, g) /\ Reaches(g, h) => Reaches(f, h) BY DEF Reaches
<1>3. \A f, g : g \in Members(depends[f]) \intersect Wanted => Reaches(f, g) BY DEF Reaches
<1> QED BY <1>1, <1>2, <1>3

---------------------------------------------------------------------------
(* What the variables hold.                                                *)

LEMMA GraphFacts ==
    ASSUME FileTypeOK
    PROVE  /\ \A f \in Indexed : depends[f] \in Seq(Indexed) /\ bound[f] \in Seq(Indexed)
           /\ \A f \in Indexed : /\ DOMAIN depends[f] = 1 .. Len(depends[f])
                               /\ Len(depends[f]) \in 0 .. MaxDepends
           /\ \A f \in Indexed : Members(depends[f]) \union Members(bound[f]) \subseteq Indexed
           /\ \A f \in Indexed : Following(f) \in Seq(Indexed)
                               /\ Members(Following(f)) = Members(depends[f]) \union Members(bound[f])
<1>1. ASSUME NEW f \in Indexed
      PROVE  /\ depends[f] \in Seq(Indexed) /\ bound[f] \in Seq(Indexed)
             /\ DOMAIN depends[f] = 1 .. Len(depends[f]) /\ Len(depends[f]) \in 0 .. MaxDepends
             /\ Members(depends[f]) \union Members(bound[f]) \subseteq Indexed
             /\ Following(f) \in Seq(Indexed)
             /\ Members(Following(f)) = Members(depends[f]) \union Members(bound[f])
  <2>1. depends[f] \in FileLists(MaxDepends) /\ bound[f] \in FileLists(MaxBound) BY DEF FileTypeOK
  <2>2. MaxDepends \in Nat /\ MaxBound \in Nat BY BoundsAreNat
  <2>3. /\ depends[f] \in Seq(Indexed) /\ bound[f] \in Seq(Indexed)
        /\ DOMAIN depends[f] = 1 .. Len(depends[f]) /\ Len(depends[f]) \in 0 .. MaxDepends
    BY <2>1, <2>2, ListFacts
  <2>4. Members(depends[f]) \subseteq Indexed /\ Members(bound[f]) \subseteq Indexed BY <2>3, MembersIn
  <2> QED BY <2>3, <2>4, JoinedMembers DEF Following
<1> QED BY <1>1

LEMMA GivenFacts ==
    ASSUME FileTypeOK
    PROVE  /\ given \in Seq(Indexed) /\ Len(given) \in Nat /\ DOMAIN given = 1 .. Len(given)
           /\ \A i \in DOMAIN given : given[i] \in Indexed /\ given[i] \in Wanted
           /\ \A i, j \in DOMAIN given : given[i] = given[j] => i = j
           /\ going \in Nat \ {0} /\ going <= Len(given) + 1
<1>1. given \in FileLists(FileCount) BY DEF FileTypeOK
<1>2. /\ given \in Seq(Indexed) /\ DOMAIN given = 1 .. Len(given) /\ Len(given) \in 0 .. FileCount
      /\ \A i \in DOMAIN given : given[i] \in Indexed
      /\ \A i, j \in DOMAIN given : given[i] = given[j] => i = j
  BY <1>1, FileCountIsNat, ListFacts
<1>3. Len(given) \in Nat BY <1>2, FileCountIsNat
<1>4. going \in 1 .. Len(given) + 1 BY DEF FileTypeOK
<1> QED BY <1>2, <1>3, <1>4 DEF Wanted, Members

Visits == [file : Indexed, at : 1 .. MaxDepends + 1]

LEMMA StackFacts ==
    ASSUME FileTypeOK
    PROVE  /\ Len(stack) \in Nat /\ DOMAIN stack = 1 .. Len(stack)
           /\ \A i \in DOMAIN stack : stack[i].file \in Indexed /\ stack[i].at \in Nat \ {0}
           /\ stack # <<>> =>
                /\ Len(stack) \in DOMAIN stack /\ 1 \in DOMAIN stack
                /\ Top \in Visits /\ Top.file \in Indexed /\ Top.at \in Nat \ {0} /\ Top.file \in Visited
                /\ Rest \in Seq(Visits) /\ Len(Rest) = Len(stack) - 1
                /\ DOMAIN Rest = 1 .. Len(stack) - 1
                /\ \A i \in DOMAIN Rest : i \in DOMAIN stack /\ i # Len(stack) /\ Rest[i] = stack[i]
                /\ \A i \in DOMAIN stack : i = Len(stack) \/ i \in DOMAIN Rest
<1>1. stack \in Seq(Visits) BY DEF FileTypeOK, Visits
<1>2. Len(stack) \in Nat /\ DOMAIN stack = 1 .. Len(stack) /\ \A i \in DOMAIN stack : stack[i] \in Visits
  BY <1>1, MembersIn
<1>3. \A v \in Visits : v.file \in Indexed /\ v.at \in Nat \ {0} BY BoundsAreNat DEF Visits
<1>4. ASSUME stack # <<>>
      PROVE  /\ Len(stack) \in DOMAIN stack /\ 1 \in DOMAIN stack
             /\ Top \in Visits /\ Top.file \in Indexed /\ Top.at \in Nat \ {0} /\ Top.file \in Visited
             /\ Rest \in Seq(Visits) /\ Len(Rest) = Len(stack) - 1
             /\ DOMAIN Rest = 1 .. Len(stack) - 1
             /\ \A i \in DOMAIN Rest : i \in DOMAIN stack /\ i # Len(stack) /\ Rest[i] = stack[i]
             /\ \A i \in DOMAIN stack : i = Len(stack) \/ i \in DOMAIN Rest
  <2>1. /\ Len(stack) \in Nat \ {0} /\ Len(stack) \in DOMAIN stack /\ Top \in Visits
        /\ Rest \in Seq(Visits) /\ DOMAIN Rest = 1 .. Len(stack) - 1 /\ Len(Rest) = Len(stack) - 1
        /\ \A i \in 1 .. Len(stack) - 1 : Rest[i] = stack[i]
    BY <1>1, <1>4, FrontFacts DEF Top, Rest
  <2>2. 1 \in DOMAIN stack BY <1>2, <2>1
  <2>3. Top.file \in Visited BY <2>1 DEF Top, Visited
  <2>4. \A i \in DOMAIN Rest : i \in DOMAIN stack /\ i # Len(stack) /\ Rest[i] = stack[i]
    BY <1>2, <2>1
  <2>5. \A i \in DOMAIN stack : i = Len(stack) \/ i \in DOMAIN Rest BY <1>2, <2>1
  <2> QED BY <1>3, <2>1, <2>2, <2>3, <2>4, <2>5
<1> QED BY <1>2, <1>3, <1>4

\* No file is visited twice at once, so the visits are not deeper than there
\* are files.
LEMMA StackIsBounded ==
    ASSUME NEW visits \in Seq(Visits),
           \A i, j \in DOMAIN visits : visits[i].file = visits[j].file => i = j
    PROVE  Len(visits) <= FileCount
<1> DEFINE files == [i \in DOMAIN visits |-> visits[i].file]
<1>1. Len(visits) \in Nat /\ DOMAIN visits = 1 .. Len(visits) /\ \A i \in DOMAIN visits : visits[i] \in Visits
  BY MembersIn
<1>2. \A i \in DOMAIN visits : visits[i].file \in Indexed BY <1>1 DEF Visits
<1>3. files \in [1 .. Len(visits) -> Indexed] BY <1>1, <1>2
<1>4. files \in Seq(Indexed) /\ Len(files) = Len(visits)
  <2> HIDE DEF files
  <2> QED BY <1>1, <1>3
<1>5. \A i, j \in DOMAIN files : files[i] = files[j] => i = j OBVIOUS
<1> HIDE DEF files
<1> QED BY <1>4, <1>5, AsManyAsMembers

---------------------------------------------------------------------------
(* Every step keeps the invariant.                                         *)

\* While nothing is visited there is nothing to keep of visits.
LEMMA NothingVisited ==
    ASSUME stack = <<>>, compiled = <<>>, visited = {}, going = 1, given \in Seq(Indexed), phase # "done"
    PROVE  VisitInv /\ WayInv /\ OutInv
<1>1. DOMAIN stack = {} /\ DOMAIN compiled = {} OBVIOUS
<1>2. Visited = {} /\ Members(compiled) = {} BY <1>1 DEF Visited, Members
<1>3. VisitInv BY <1>1, <1>2 DEF VisitInv
<1>4. \A p \in DOMAIN given : ~(p < going)
  <2>1. DOMAIN given = 1 .. Len(given) /\ Len(given) \in Nat BY LenProperties
  <2> QED BY <2>1
<1>5. WayInv BY <1>1, <1>4 DEF WayInv
<1>6. OutInv BY <1>1 DEF OutInv
<1> QED BY <1>3, <1>5, <1>6

LEMMA InitIInv == FileInit => IInv
<1> SUFFICES ASSUME FileInit PROVE IInv
  OBVIOUS
<1>1. /\ tops \in Seq(Indexed) /\ given \in FileLists(FileCount) /\ phase # "done"
      /\ phase = "reaching" => given = <<>>
      /\ phase # "reaching" => tops = <<>>
  <2>1. <<>> \in Seq(Indexed) /\ <<>> \in [1 .. 0 -> Indexed] /\ DOMAIN <<>> = {} BY EmptySeq
  <2>2. <<>> \in FileLists(FileCount)
    <3>1. <<>> \in UNION {[1 .. n -> Indexed] : n \in 0 .. FileCount} BY <2>1, FileCountIsNat
    <3> QED BY <3>1 DEF FileLists
  <2>3. ASSUME tops \in UNION {[1 .. n -> Indexed] : n \in 1 .. MaxTops} PROVE tops \in Seq(Indexed)
    <3>1. PICK n \in 1 .. MaxTops : tops \in [1 .. n -> Indexed] BY <2>3
    <3> QED BY <3>1, BoundsAreNat
  <2> QED BY <2>1, <2>2, <2>3 DEF FileInit
<1>2. given \in Seq(Indexed) /\ Len(given) \in Nat
  <2>1. given \in Seq(Indexed) /\ Len(given) \in 0 .. FileCount BY <1>1, FileCountIsNat, ListFacts
  <2> QED BY <2>1, FileCountIsNat
<1>3. FileTypeOK
  <2>1. \A S : <<>> \in Seq(S) /\ Len(<<>>) = 0 BY EmptySeq
  <2>2. 1 \in 1 .. Len(given) + 1 BY <1>2
  <2>3. Len(stack) <= FileCount BY <2>1, FileCountIsNat DEF FileInit
  <2> QED BY <1>1, <2>1, <2>2, <2>3 DEF FileInit, FileTypeOK
<1>4. VisitInv /\ WayInv /\ OutInv BY <1>1, <1>2, NothingVisited DEF FileInit
<1>5. ReachInv
  <2>1. Members(tops) \subseteq Indexed BY <1>1, MembersIn
  <2>2. Members(tops) \subseteq Needed(Members(tops)) BY <1>3, <2>1, GraphFacts, NeededFacts
  <2>3. toFollow = tops /\ reached = {} BY DEF FileInit
  <2> QED BY <1>1, <2>2, <2>3 DEF ReachInv
<1> QED BY <1>3, <1>4, <1>5 DEF IInv

LEMMA ReachStep ==
    ASSUME IInv, Reach
    PROVE  IInv'
<1> DEFINE last == toFollow[Len(toFollow)]
           rest == SubSeq(toFollow, 1, Len(toFollow) - 1)
<1>1. /\ FileTypeOK /\ ReachInv /\ OutInv
      /\ phase = "reaching" /\ toFollow # <<>>
      /\ UNCHANGED <<depends, bound, tops, given, going, stack, visited, compiled, phase>>
  BY DEF IInv, Reach, graph
<1>2. reached' = reached \union {last} /\ toFollow' = IF last \in reached THEN rest ELSE rest \o Following(last)
  BY DEF Reach
<1>3. last \in Indexed /\ rest \in Seq(Indexed) /\ Members(toFollow) = Members(rest) \union {last}
  <2>1. toFollow \in Seq(Indexed) BY <1>1 DEF FileTypeOK
  <2> QED BY <1>1, <2>1, FrontFacts
<1> DEFINE follow == Members(depends[last]) \union Members(bound[last])
<1>4. /\ toFollow' \in Seq(Indexed)
      /\ Members(toFollow') = IF last \in reached THEN Members(rest) ELSE Members(rest) \union follow
  <2> HIDE DEF last, rest, follow
  <2>1. Following(last) \in Seq(Indexed) /\ Members(Following(last)) = follow
    BY <1>1, <1>3, GraphFacts DEF follow
  <2>2. /\ rest \o Following(last) \in Seq(Indexed)
        /\ Members(rest \o Following(last)) = Members(rest) \union follow
    BY <1>3, <2>1, JoinedMembers
  <2> QED BY <1>2, <1>3, <2>2
<1>5. FileTypeOK'
  <2> HIDE DEF last
  <2>1. reached' \in SUBSET Indexed BY <1>1, <1>2, <1>3 DEF FileTypeOK
  <2> QED BY <1>1, <1>4, <2>1 DEF FileTypeOK
<1>6. ReachInv'
  <2>1. Needed(Members(tops))' = Needed(Members(tops)) BY <1>1 DEF Needed
  <2>2. \A g \in Needed(Members(tops)) :
           Members(depends[g]) \union Members(bound[g]) \subseteq Needed(Members(tops))
    <3>1. Members(tops) \subseteq Indexed
      <4>1. tops \in Seq(Indexed) BY <1>1 DEF FileTypeOK
      <4> QED BY <4>1, MembersIn
    <3> QED BY <1>1, <3>1, GraphFacts, NeededFacts
  <2>3. last \in Needed(Members(tops)) BY <1>1, <1>3 DEF ReachInv
  <2>4. reached' \union Members(toFollow') \subseteq Needed(Members(tops))
    <3>1. follow \subseteq Needed(Members(tops)) BY <2>2, <2>3
    <3> HIDE DEF last, rest, follow
    <3> QED BY <1>1, <1>2, <1>3, <1>4, <2>3, <3>1 DEF ReachInv
  <2>5. /\ reached \union Members(toFollow) \subseteq reached' \union Members(toFollow')
        /\ last \notin reached => follow \subseteq Members(toFollow')
    <3> HIDE DEF last, rest, follow
    <3> QED BY <1>2, <1>3, <1>4
  <2>6. Members(tops) \subseteq reached' \union Members(toFollow') BY <1>1, <2>5 DEF ReachInv
  <2>7. \A f \in reached' :
           Members(depends[f]) \union Members(bound[f]) \subseteq reached' \union Members(toFollow')
    <3> SUFFICES ASSUME NEW f \in reached'
                 PROVE  Members(depends[f]) \union Members(bound[f]) \subseteq reached' \union Members(toFollow')
      OBVIOUS
    <3>1. CASE f \in reached BY <1>1, <2>5, <3>1 DEF ReachInv
    <3>2. CASE f \notin reached
      <4>1. f = last BY <1>2, <3>2
      <4> QED BY <2>5, <3>2, <4>1
    <3> QED BY <3>1, <3>2
  <2>8. given = <<>> BY <1>1 DEF ReachInv
  <2> HIDE DEF last, rest, follow
  <2> QED BY <1>1, <2>1, <2>4, <2>6, <2>7, <2>8 DEF ReachInv
<1>7. VisitInv' /\ WayInv' /\ OutInv'
  <2>1. Wanted' = Wanted /\ Visited' = Visited BY <1>1 DEF Wanted, Visited, Members
  <2>2. \A f, g : Reaches(f, g)' = Reaches(f, g) BY <1>1, <2>1 DEF Reaches
  <2>3. VisitInv' = VisitInv BY <1>1, <2>1 DEF VisitInv
  <2>4. WayInv' = WayInv BY <1>1 DEF WayInv, Reaches, Wanted, Members
  <2>5. OutInv' = OutInv BY <1>1, <2>1, <2>2 DEF OutInv, Reaches
  <2> QED BY <2>3, <2>4, <2>5 DEF IInv
<1> QED BY <1>5, <1>6, <1>7 DEF IInv

LEMMA ListStep ==
    ASSUME IInv, List
    PROVE  IInv'
<1>1. /\ FileTypeOK /\ ReachInv /\ OutInv
      /\ phase = "reaching" /\ toFollow = <<>> /\ phase' = "ordering"
      /\ given' \in FileLists(FileCount) /\ Members(given') = reached
      /\ UNCHANGED <<depends, bound, tops, toFollow, reached, going, stack, visited, compiled>>
  BY DEF IInv, List, graph
<1>2. stack = <<>> /\ compiled = <<>> /\ visited = {} /\ going = 1 BY <1>1 DEF OutInv
<1>3. DOMAIN given' = 1 .. Len(given') /\ Len(given') \in Nat
  <2>1. DOMAIN given' = 1 .. Len(given') /\ Len(given') \in 0 .. FileCount BY <1>1, FileCountIsNat, ListFacts
  <2> QED BY <2>1, FileCountIsNat
<1>4. FileTypeOK'
  <2>1. going \in 1 .. Len(given') + 1 BY <1>2, <1>3
  <2> QED BY <1>1, <2>1 DEF FileTypeOK
<1>5. ReachInv'
  <2>1. Needed(Members(tops))' = Needed(Members(tops)) BY <1>1 DEF Needed
  <2>2. Wanted' = reached BY <1>1 DEF Wanted
  <2> QED BY <1>1, <2>1, <2>2 DEF ReachInv
<1>6. DOMAIN stack' = {} /\ DOMAIN compiled' = {} /\ Visited' = {} /\ Members(compiled') = {} /\ visited' = {}
  BY <1>1, <1>2 DEF Visited, Members
<1>7. VisitInv' BY <1>6 DEF VisitInv
<1>8. WayInv'
  <2>1. \A p \in DOMAIN given' : ~(p < going') BY <1>1, <1>2, <1>3
  <2> QED BY <1>1, <1>2, <1>6, <2>1 DEF WayInv
<1>9. OutInv' BY <1>1, <1>6 DEF OutInv
<1> QED BY <1>4, <1>5, <1>7, <1>8, <1>9 DEF IInv

\* A step of ordering changes nothing of what is needed or reaches what.
LEMMA OrderingStays ==
    ASSUME IInv, phase = "ordering", phase' # "reaching",
           UNCHANGED <<depends, bound, tops, toFollow, reached, given>>
    PROVE  ReachInv' /\ Wanted' = Wanted /\ \A f, g : Reaches(f, g)' <=> Reaches(f, g)
<1>1. Wanted' = Wanted BY DEF Wanted
<1>2. Needed(Members(tops))' = Needed(Members(tops)) BY DEF Needed
<1>3. ReachInv' BY <1>1, <1>2 DEF IInv, ReachInv
<1> QED BY <1>1, <1>3 DEF Reaches

LEMMA BeginStep ==
    ASSUME IInv, Begin
    PROVE  IInv'
<1> DEFINE f == given[going]
           visit == [file |-> f, at |-> 1]
<1>1. /\ FileTypeOK /\ VisitInv /\ WayInv /\ OutInv
      /\ phase = "ordering" /\ stack = <<>> /\ going \in DOMAIN given
      /\ going' = going + 1
      /\ UNCHANGED <<depends, bound, tops, toFollow, reached, given, compiled, phase>>
      /\ f \in visited => UNCHANGED <<stack, visited>>
      /\ f \notin visited => stack' = <<visit>> /\ visited' = visited \union {f}
  BY DEF IInv, Begin, graph
<1>2. ReachInv' /\ Wanted' = Wanted /\ \A g, h : Reaches(g, h)' <=> Reaches(g, h)
  BY <1>1, OrderingStays
<1>3. /\ given \in Seq(Indexed) /\ Len(given) \in Nat /\ DOMAIN given = 1 .. Len(given)
      /\ going \in Nat \ {0} /\ f \in Indexed /\ f \in Wanted /\ going <= Len(given)
  BY <1>1, GivenFacts
<1>4. Visited = {} /\ visited = Members(compiled) BY <1>1 DEF VisitInv, Visited
<1> HIDE DEF f
<1>5. f \notin visited => /\ DOMAIN stack' = {1} /\ stack'[1].file = f /\ stack'[1].at = 1
                       /\ Visited' = {f} /\ stack' # <<>>
  <2>1. ASSUME f \notin visited
        PROVE  DOMAIN stack' = {1} /\ stack'[1] = visit /\ Len(stack') = 1
    BY <1>1, <2>1
  <2> QED BY <2>1, EmptySeq DEF Visited
<1>6. f \in visited => DOMAIN stack' = {} /\ Visited' = {} BY <1>1 DEF Visited
<1>7. FileTypeOK'
  <2>1. going' \in 1 .. Len(given) + 1 BY <1>1, <1>3
  <2>2. stack' \in Seq([file : Indexed, at : 1 .. MaxDepends + 1]) /\ Len(stack') <= FileCount
    <3>1. CASE f \in visited BY <1>1, <3>1 DEF FileTypeOK
    <3>2. CASE f \notin visited
      <4>1. 1 \in 1 .. MaxDepends + 1 BY BoundsAreNat
      <4>2. visit \in [file : Indexed, at : 1 .. MaxDepends + 1] BY <1>3, <4>1
      <4> HIDE DEF visit
      <4>3. stack' = <<visit>> BY <1>1, <3>2 DEF visit
      <4>4. \A S : visit \in S => <<visit>> \in Seq(S) /\ Len(<<visit>>) = 1 OBVIOUS
      <4>5. stack' \in Seq([file : Indexed, at : 1 .. MaxDepends + 1]) /\ Len(stack') = 1
        BY <4>2, <4>3, <4>4
      <4>6. 1 <= FileCount BY <1>3, FileCountIsNat DEF Indexed
      <4> QED BY <4>5, <4>6
    <3> QED BY <3>1, <3>2
  <2>3. visited' \in SUBSET Indexed BY <1>1, <1>3 DEF FileTypeOK
  <2> HIDE DEF visit
  <2> QED BY <1>1, <2>1, <2>2, <2>3 DEF FileTypeOK
<1>8. VisitInv'
  <2>1. CASE f \in visited
    <3>1. stack' = stack /\ visited' = visited BY <1>1, <2>1
    <3> QED BY <1>1, <1>2, <3>1 DEF VisitInv, Visited
  <2>2. CASE f \notin visited
    <3>1. visited' = Visited' \union Members(compiled') /\ visited' \subseteq Wanted
      BY <1>1, <1>3, <1>4, <1>5, <2>2 DEF VisitInv
    <3>2. \A i, j \in DOMAIN compiled' : compiled'[i] = compiled'[j] => i = j BY <1>1 DEF VisitInv
    <3>3. \A i \in DOMAIN stack' : i = 1 BY <1>5, <2>2
    <3>4. stack'[1].file \notin Members(compiled') BY <1>1, <1>4, <1>5, <2>2
    <3>5. stack'[1].at <= Len(depends[stack'[1].file]) + 1
      <4>1. Len(depends[f]) \in Nat
        <5>1. Len(depends[f]) \in 0 .. MaxDepends BY <1>1, <1>3, GraphFacts
        <5> QED BY <5>1, BoundsAreNat
      <4> QED BY <1>5, <2>2, <4>1
    <3>6. \A d \in DOMAIN depends[stack'[1].file] : ~(d < stack'[1].at)
      <4>1. DOMAIN depends[f] = 1 .. Len(depends[f]) /\ depends[f] \in Seq(Indexed)
        BY <1>1, <1>3, GraphFacts
      <4> QED BY <1>5, <2>2, <4>1
    <3> QED BY <1>1, <1>2, <3>1, <3>2, <3>3, <3>4, <3>5, <3>6 DEF VisitInv
  <2> QED BY <2>1, <2>2
<1>9. WayInv'
  <2>1. going' - 1 = going /\ going' > 1 BY <1>1, <1>3
  <2>2. \A p \in DOMAIN given : p < going => given[p] \in Members(compiled) BY <1>1 DEF WayInv
  <2>3. \A p \in DOMAIN given : p < going' => p < going \/ p = going BY <1>1, <1>3
  <2>4. CASE f \in visited
    <3>1. given[going] \in Members(compiled) BY <1>4, <2>4 DEF f
    <3>2. stack' = <<>> /\ DOMAIN stack' = {} BY <1>1, <1>6, <2>4
    <3> QED BY <1>1, <2>2, <2>3, <3>1, <3>2 DEF WayInv
  <2>5. CASE f \notin visited
    <3>1. \A i, j \in DOMAIN stack' : Reaches(stack'[i].file, stack'[j].file)
      BY <1>5, <2>5, ReachesFacts
    <3>2. stack'[1].file = given[going' - 1] /\ stack' # <<>> BY <1>5, <2>1, <2>5 DEF f
    <3> QED BY <1>1, <1>2, <2>1, <2>2, <2>3, <3>1, <3>2 DEF WayInv, Reaches
  <2> QED BY <2>4, <2>5
<1>10. OutInv'
  BY <1>1, <1>2 DEF OutInv, Reaches
<1> QED BY <1>2, <1>7, <1>8, <1>9, <1>10 DEF IInv

\* The visits, once the last has gone by what it was at.
LEMMA BelowFacts ==
    ASSUME FileTypeOK, stack # <<>>, Top.at \in DOMAIN depends[Top.file]
    PROVE  /\ Advanced \in Seq(Visits) /\ Advanced # <<>> /\ Len(Advanced) = Len(stack)
           /\ DOMAIN Advanced = DOMAIN stack
           /\ \A i \in DOMAIN stack : Advanced[i].file = stack[i].file
           /\ \A i \in DOMAIN stack : i # Len(stack) => Advanced[i].at = stack[i].at
           /\ Advanced[Len(stack)].at = Top.at + 1
<1> DEFINE gone == [Top EXCEPT !.at = Top.at + 1]
<1>1. /\ Top \in Visits /\ Top.file \in Indexed /\ Rest \in Seq(Visits) /\ Len(Rest) = Len(stack) - 1
      /\ DOMAIN Rest = 1 .. Len(stack) - 1 /\ Len(stack) \in DOMAIN stack
      /\ Len(stack) \in Nat /\ DOMAIN stack = 1 .. Len(stack)
      /\ \A i \in DOMAIN Rest : i \in DOMAIN stack /\ i # Len(stack) /\ Rest[i] = stack[i]
      /\ \A i \in DOMAIN stack : i = Len(stack) \/ i \in DOMAIN Rest
  BY StackFacts
<1>2. Top.at + 1 \in 1 .. MaxDepends + 1
  <2>1. DOMAIN depends[Top.file] = 1 .. Len(depends[Top.file]) /\ Len(depends[Top.file]) \in 0 .. MaxDepends
    BY <1>1, GraphFacts
  <2> QED BY <2>1, BoundsAreNat
<1>3. gone \in Visits /\ gone.file = Top.file /\ gone.at = Top.at + 1
  BY <1>1, <1>2 DEF Visits
<1>4. Len(Rest) + 1 = Len(stack) BY <1>1
<1> HIDE DEF gone
<1>5. /\ Append(Rest, gone) \in Seq(Visits) /\ Len(Append(Rest, gone)) = Len(Rest) + 1
      /\ DOMAIN Append(Rest, gone) = 1 .. Len(Rest) + 1
      /\ \A i \in DOMAIN Rest : i \in DOMAIN Append(Rest, gone) /\ Append(Rest, gone)[i] = Rest[i]
      /\ Append(Rest, gone)[Len(Rest) + 1] = gone
      /\ Append(Rest, gone) # <<>>
  BY <1>1, <1>3, AddedFacts
<1>6. Advanced = Append(Rest, gone) BY DEF Advanced, gone
<1> HIDE DEF Advanced
<1>7. /\ \A i \in DOMAIN Rest : Advanced[i] = stack[i]
      /\ Advanced[Len(stack)] = gone
      /\ Advanced \in Seq(Visits) /\ Advanced # <<>> /\ Len(Advanced) = Len(stack)
      /\ DOMAIN Advanced = DOMAIN stack
  BY <1>1, <1>4, <1>5, <1>6
<1>8. \A i \in DOMAIN stack : Advanced[i].file = stack[i].file
  <2>1. stack[Len(stack)].file = gone.file BY <1>3 DEF Top
  <2> QED BY <1>1, <1>7, <2>1
<1>9. \A i \in DOMAIN stack : i # Len(stack) => Advanced[i].at = stack[i].at BY <1>1, <1>7
<1> QED BY <1>3, <1>7, <1>8, <1>9

LEMMA DescendStep ==
    ASSUME IInv, Descend
    PROVE  IInv'
<1> DEFINE f == depends[Top.file][Top.at]
           n == Len(stack)
           visit == [file |-> f, at |-> 1]
           goes == f \in Wanted /\ f \notin visited
<1>1. /\ FileTypeOK /\ VisitInv /\ WayInv /\ OutInv
      /\ phase = "ordering" /\ stack # <<>> /\ Top.at \in DOMAIN depends[Top.file]
      /\ UNCHANGED <<depends, bound, tops, toFollow, reached, given, going, compiled, phase>>
      /\ goes => stack' = Append(Advanced, visit) /\ visited' = visited \union {f}
      /\ ~goes => stack' = Advanced /\ visited' = visited
  BY DEF IInv, Descend, graph
<1>2. ReachInv' /\ Wanted' = Wanted /\ \A g, h : Reaches(g, h)' <=> Reaches(g, h)
  BY <1>1, OrderingStays
<1>3. /\ n \in Nat /\ DOMAIN stack = 1 .. n /\ n \in DOMAIN stack /\ 1 \in DOMAIN stack
      /\ \A i \in DOMAIN stack : stack[i].file \in Indexed /\ stack[i].at \in Nat \ {0}
      /\ Top.file \in Indexed /\ Top.at \in Nat \ {0}
      /\ stack[n].file = Top.file /\ stack[n].at = Top.at
  BY <1>1, StackFacts DEF Top
<1>4. /\ f \in Indexed /\ f \in Members(depends[Top.file])
      /\ DOMAIN depends[Top.file] = 1 .. Len(depends[Top.file])
      /\ \A g \in Indexed : Len(depends[g]) \in Nat /\ DOMAIN depends[g] = 1 .. Len(depends[g])
  <2>1. depends[Top.file] \in Seq(Indexed) BY <1>1, <1>3, GraphFacts
  <2>2. \A g \in Indexed : Len(depends[g]) \in 0 .. MaxDepends /\ DOMAIN depends[g] = 1 .. Len(depends[g])
    BY <1>1, GraphFacts
  <2>3. f \in Indexed /\ f \in Members(depends[Top.file]) BY <1>1, <2>1, MembersIn DEF Members
  <2> QED BY <1>3, <2>2, <2>3, BoundsAreNat
<1>5. visit \in Visits /\ visit.file = f /\ visit.at = 1
  <2>1. 1 \in 1 .. MaxDepends + 1 BY BoundsAreNat
  <2> QED BY <1>4, <2>1 DEF Visits
<1>6. /\ Advanced \in Seq(Visits) /\ Advanced # <<>> /\ Len(Advanced) = n
      /\ DOMAIN Advanced = DOMAIN stack
      /\ \A i \in DOMAIN stack : Advanced[i].file = stack[i].file
      /\ \A i \in DOMAIN stack : i # n => Advanced[i].at = stack[i].at
      /\ Advanced[n].at = Top.at + 1
  BY <1>1, BelowFacts
<1> HIDE DEF visit, f
<1>7. /\ stack' \in Seq(Visits) /\ stack' # <<>>
      /\ \A i \in DOMAIN stack : i \in DOMAIN stack' /\ stack'[i].file = stack[i].file
      /\ \A i \in DOMAIN stack : i # n => stack'[i].at = stack[i].at
      /\ stack'[n].at = Top.at + 1
      /\ \A i \in DOMAIN stack' : i \in DOMAIN stack \/ (goes /\ i = n + 1)
      /\ goes => n + 1 \in DOMAIN stack' /\ stack'[n + 1].file = f /\ stack'[n + 1].at = 1
  <2>1. CASE goes
    <3>1. /\ Append(Advanced, visit) \in Seq(Visits)
          /\ DOMAIN Append(Advanced, visit) = 1 .. Len(Advanced) + 1
          /\ \A i \in DOMAIN Advanced : i \in DOMAIN Append(Advanced, visit)
                                     /\ Append(Advanced, visit)[i] = Advanced[i]
          /\ Append(Advanced, visit)[Len(Advanced) + 1] = visit
          /\ Append(Advanced, visit) # <<>>
      BY <1>5, <1>6, AddedFacts
    <3>2. stack' = Append(Advanced, visit) BY <1>1, <2>1
    <3>3. \A i \in DOMAIN stack : i \in DOMAIN stack' /\ stack'[i] = Advanced[i] BY <1>6, <3>1, <3>2
    <3>4. DOMAIN stack' = 1 .. n + 1 /\ stack'[n + 1] = visit BY <1>6, <3>1, <3>2
    <3>5. n + 1 \in DOMAIN stack' /\ \A i \in DOMAIN stack' : i \in DOMAIN stack \/ i = n + 1
      BY <1>3, <3>4
    <3>6. stack' \in Seq(Visits) /\ stack' # <<>> BY <3>1, <3>2
    <3> HIDE DEF n
    <3> QED BY <1>3, <1>5, <1>6, <2>1, <3>3, <3>4, <3>5, <3>6
  <2>2. CASE ~goes BY <1>1, <1>3, <1>6, <2>2
  <2> QED BY <2>1, <2>2
<1>8. visited' = IF goes THEN visited \union {f} ELSE visited BY <1>1
<1>9. Visited' = IF goes THEN Visited \union {f} ELSE Visited
  <2>1. \A i \in DOMAIN stack : stack[i].file \in Visited' BY <1>7 DEF Visited
  <2>2. goes => f \in Visited' BY <1>7 DEF Visited
  <2>3. \A i \in DOMAIN stack' : stack'[i].file \in Visited \/ (goes /\ stack'[i].file = f)
    BY <1>7 DEF Visited
  <2>4. /\ Visited = {stack[i].file : i \in DOMAIN stack}
        /\ Visited' = {stack'[i].file : i \in DOMAIN stack'}
    BY DEF Visited
  <2> HIDE DEF goes
  <2>5. Visited \subseteq Visited' BY <2>1, <2>4
  <2>6. \A g \in Visited' : g \in Visited \/ (goes /\ g = f) BY <2>3, <2>4
  <2> QED BY <2>2, <2>5, <2>6
<1>10. \A i \in DOMAIN stack : stack[i].file \in visited BY <1>1 DEF VisitInv, Visited
<1>11. VisitInv'
  <2>1. visited' = Visited' \union Members(compiled') /\ visited' \subseteq Wanted'
    <3>1. visited = Visited \union Members(compiled) /\ visited \subseteq Wanted /\ Members(compiled') = Members(compiled)
      BY <1>1 DEF VisitInv
    <3> QED BY <1>2, <1>8, <1>9, <3>1
  <2>2. \A i, j \in DOMAIN stack' : stack'[i].file = stack'[j].file => i = j
    <3>1. \A i, j \in DOMAIN stack : stack[i].file = stack[j].file => i = j BY <1>1 DEF VisitInv
    <3> QED BY <1>7, <1>10, <3>1
  <2>3. \A i, j \in DOMAIN compiled' : compiled'[i] = compiled'[j] => i = j BY <1>1 DEF VisitInv
  <2>4. \A i \in DOMAIN stack' : stack'[i].file \notin Members(compiled')
    <3>1. /\ \A i \in DOMAIN stack : stack[i].file \notin Members(compiled)
          /\ Members(compiled) \subseteq visited /\ Members(compiled') = Members(compiled)
      BY <1>1 DEF VisitInv
    <3> QED BY <1>7, <3>1
  <2>5. \A i \in DOMAIN stack' : stack'[i].at <= Len(depends[stack'[i].file]) + 1
    <3>1. \A i \in DOMAIN stack : stack[i].at <= Len(depends[stack[i].file]) + 1 BY <1>1 DEF VisitInv
    <3>2. stack'[n].at <= Len(depends[stack'[n].file]) + 1 BY <1>1, <1>3, <1>4, <1>7
    <3>3. goes => 1 <= Len(depends[f]) + 1 BY <1>4
    <3> HIDE DEF n
    <3> QED BY <1>7, <3>1, <3>2, <3>3
  <2>6. ASSUME NEW i \in DOMAIN stack', NEW d \in DOMAIN depends[stack'[i].file],
               d < stack'[i].at, depends[stack'[i].file][d] \in Wanted
        PROVE  depends[stack'[i].file][d] \in visited'
    <3>1. visited \subseteq visited' /\ (f \in Wanted => f \in visited') BY <1>8
    <3>2. CASE i \in DOMAIN stack
      <4>1. stack'[i].file = stack[i].file BY <1>7, <3>2
      <4>2. d < stack[i].at => depends[stack[i].file][d] \in visited
        BY <1>1, <2>6, <3>2, <4>1 DEF VisitInv
      <4>3. CASE i # n
        <5>1. stack'[i].at = stack[i].at BY <1>7, <3>2, <4>3
        <5> QED BY <2>6, <3>1, <4>1, <4>2, <5>1
      <4>4. CASE i = n
        <5>1. d < Top.at + 1 /\ stack'[i].file = Top.file BY <1>3, <1>7, <2>6, <4>1, <4>4
        <5>2. d \in Nat BY <1>4, <5>1
        <5>3. d < stack[i].at \/ d = Top.at BY <1>3, <4>4, <5>1, <5>2
        <5>4. CASE d = Top.at BY <2>6, <3>1, <5>1, <5>4 DEF f
        <5> QED BY <3>1, <4>1, <4>2, <5>3, <5>4
      <4> QED BY <4>3, <4>4
    <3>3. CASE i \notin DOMAIN stack
      <4>1. stack'[i].at = 1 /\ stack'[i].file = f BY <1>7, <3>3
      <4>2. d \in Nat /\ d >= 1 BY <1>4, <4>1
      <4> QED BY <2>6, <4>1, <4>2
    <3> QED BY <3>2, <3>3
  <2> HIDE DEF n, goes
  <2> QED BY <1>1, <1>2, <2>1, <2>2, <2>3, <2>4, <2>5, <2>6 DEF VisitInv
<1>12. FileTypeOK'
  <2>1. Len(stack') <= FileCount
    <3>1. \A i, j \in DOMAIN stack' : stack'[i].file = stack'[j].file => i = j BY <1>11 DEF VisitInv
    <3> QED BY <1>7, <3>1, StackIsBounded
  <2>2. visited' \in SUBSET Indexed BY <1>1, <1>4, <1>8 DEF FileTypeOK
  <2>3. stack' \in Seq([file : Indexed, at : 1 .. MaxDepends + 1]) BY <1>7 DEF Visits
  <2> HIDE DEF n, goes
  <2> QED BY <1>1, <2>1, <2>2, <2>3 DEF FileTypeOK
<1>13. WayInv'
  <2>1. goes => Reaches(Top.file, f) BY <1>4, ReachesFacts
  <2>2. \A i \in DOMAIN stack : Reaches(stack[i].file, Top.file)
    <3>1. \A i \in DOMAIN stack : i <= n BY <1>3
    <3> QED BY <1>1, <1>3, <3>1 DEF WayInv
  <2>3. \A i, j \in DOMAIN stack' : i <= j => Reaches(stack'[i].file, stack'[j].file)
    <3> SUFFICES ASSUME NEW i \in DOMAIN stack', NEW j \in DOMAIN stack', i <= j
                 PROVE  Reaches(stack'[i].file, stack'[j].file)
      OBVIOUS
    <3>1. CASE i \in DOMAIN stack /\ j \in DOMAIN stack BY <1>1, <1>7, <3>1 DEF WayInv
    <3>2. CASE i \in DOMAIN stack /\ j \notin DOMAIN stack
      <4>1. goes /\ stack'[j].file = f /\ stack'[i].file = stack[i].file BY <1>7, <3>2
      <4> HIDE DEF goes
      <4> QED BY <2>1, <2>2, <3>2, <4>1, ReachesFacts
    <3>3. CASE i \notin DOMAIN stack
      <4>1. i = n + 1 BY <1>7, <3>3
      <4>2. j \in DOMAIN stack => j <= n BY <1>3
      <4>3. j = i BY <1>3, <1>7, <4>1, <4>2
      <4> QED BY <4>3, ReachesFacts
    <3> QED BY <3>1, <3>2, <3>3
  <2>4. going > 1 /\ stack'[1].file = given[going - 1] BY <1>1, <1>3, <1>7 DEF WayInv
  <2>5. \A p \in DOMAIN given : p < going => given[p] \in Members(compiled) \/ p = going - 1
    BY <1>1 DEF WayInv
  <2>6. (\A i, j \in DOMAIN stack : i <= j => Reaches(stack[i].file, stack[j].file))'
    BY <1>1, <1>2, <2>3 DEF Reaches
  <2>7. Members(compiled)' = Members(compiled) BY <1>1 DEF Members
  <2> HIDE DEF n, goes
  <2> QED BY <1>1, <1>7, <2>4, <2>5, <2>6, <2>7 DEF WayInv
<1>14. OutInv' BY <1>1, <1>2 DEF OutInv, Reaches
<1> QED BY <1>2, <1>11, <1>12, <1>13, <1>14 DEF IInv

LEMMA PutStep ==
    ASSUME IInv, PutFile
    PROVE  IInv'
<1> DEFINE t == Top.file
           n == Len(stack)
           m == Len(compiled)
<1>1. /\ FileTypeOK /\ VisitInv /\ WayInv /\ OutInv
      /\ phase = "ordering" /\ stack # <<>> /\ Top.at \notin DOMAIN depends[Top.file]
      /\ UNCHANGED <<depends, bound, tops, toFollow, reached, given, going, visited, phase>>
      /\ compiled' = Append(compiled, t) /\ stack' = Rest
  BY DEF IInv, PutFile, graph
<1>2. ReachInv' /\ Wanted' = Wanted /\ \A g, h : Reaches(g, h)' <=> Reaches(g, h)
  BY <1>1, OrderingStays
<1>3. /\ n \in Nat /\ DOMAIN stack = 1 .. n /\ n \in DOMAIN stack /\ 1 \in DOMAIN stack
      /\ t \in Indexed /\ Top.at \in Nat \ {0} /\ t \in Visited
      /\ stack[n].file = t /\ stack[n].at = Top.at
      /\ Rest \in Seq(Visits) /\ Len(Rest) = n - 1 /\ DOMAIN Rest = 1 .. n - 1
      /\ \A i \in DOMAIN Rest : i \in DOMAIN stack /\ i # n /\ Rest[i] = stack[i]
      /\ \A i \in DOMAIN stack : i = n \/ i \in DOMAIN Rest
  BY <1>1, StackFacts DEF Top
<1>4. /\ compiled' \in Seq(Indexed) /\ DOMAIN compiled' = 1 .. m + 1 /\ m \in Nat /\ DOMAIN compiled = 1 .. m
      /\ \A i \in DOMAIN compiled : i \in DOMAIN compiled' /\ compiled'[i] = compiled[i]
      /\ compiled'[m + 1] = t /\ Members(compiled') = Members(compiled) \union {t}
  <2>1. compiled \in Seq(Indexed) BY <1>1 DEF FileTypeOK
  <2>2. m \in Nat /\ DOMAIN compiled = 1 .. m BY <2>1, MembersIn
  <2> HIDE DEF m, t
  <2> QED BY <1>1, <1>3, <2>1, <2>2, AddedFacts DEF m
<1>5. \A i \in DOMAIN compiled' : i \in DOMAIN compiled \/ i = m + 1 BY <1>4
<1>6. m + 1 \in DOMAIN compiled' /\ \A i \in DOMAIN compiled : i < m + 1 BY <1>4
<1>7. \A f \in Members(depends[t]) \intersect Wanted : f \in visited
  <2>1. DOMAIN depends[t] = 1 .. Len(depends[t]) /\ Len(depends[t]) \in Nat
    <3>1. DOMAIN depends[t] = 1 .. Len(depends[t]) /\ Len(depends[t]) \in 0 .. MaxDepends
      BY <1>1, <1>3, GraphFacts
    <3> QED BY <3>1, BoundsAreNat
  <2>2. \A d \in DOMAIN depends[t] : d < Top.at
    <3>1. Top.at \notin 1 .. Len(depends[t]) BY <1>1, <2>1
    <3> QED BY <1>3, <2>1, <3>1
  <2>3. \A d \in DOMAIN depends[t] : depends[t][d] \in Wanted => depends[t][d] \in visited
    BY <1>1, <1>3, <2>2 DEF VisitInv
  <2> QED BY <2>3 DEF Members
<1> HIDE DEF t, n, m
<1>8. Visited = Visited' \union {t}
  <2>1. Visited' = {Rest[i].file : i \in DOMAIN Rest} BY <1>1 DEF Visited
  <2>2. \A f \in Visited : f \in Visited' \/ f = t BY <1>3, <2>1 DEF Visited
  <2>3. \A f \in Visited' : f \in Visited BY <1>3, <2>1 DEF Visited
  <2> QED BY <1>3, <2>2, <2>3
<1>9. t \notin Members(compiled) BY <1>1, <1>3 DEF VisitInv
<1>10. FileTypeOK'
  <2>1. Len(stack') <= FileCount
    <3>1. n <= FileCount BY <1>1 DEF FileTypeOK, n
    <3> QED BY <1>1, <1>3, <3>1, FileCountIsNat
  <2>2. stack' \in Seq([file : Indexed, at : 1 .. MaxDepends + 1]) BY <1>1, <1>3 DEF Visits
  <2> QED BY <1>1, <1>4, <2>1, <2>2 DEF FileTypeOK
<1>11. VisitInv'
  <2>1. visited' = Visited' \union Members(compiled') /\ visited' \subseteq Wanted'
    <3>1. visited = Visited \union Members(compiled) /\ visited \subseteq Wanted BY <1>1 DEF VisitInv
    <3> QED BY <1>1, <1>2, <1>4, <1>8, <3>1
  <2>2. \A i, j \in DOMAIN stack' : stack'[i].file = stack'[j].file => i = j
    BY <1>1, <1>3 DEF VisitInv
  <2>3. \A i, j \in DOMAIN compiled' : compiled'[i] = compiled'[j] => i = j
    <3>1. \A i, j \in DOMAIN compiled : compiled[i] = compiled[j] => i = j BY <1>1 DEF VisitInv
    <3>2. \A i \in DOMAIN compiled : compiled[i] # t BY <1>9 DEF Members
    <3> QED BY <1>4, <1>5, <3>1, <3>2
  <2>4. \A i \in DOMAIN stack' : stack'[i].file \notin Members(compiled')
    <3>1. \A i \in DOMAIN stack : stack[i].file \notin Members(compiled) BY <1>1 DEF VisitInv
    <3>2. \A i \in DOMAIN Rest : stack[i].file # t BY <1>1, <1>3 DEF VisitInv
    <3> QED BY <1>1, <1>3, <1>4, <3>1, <3>2
  <2>5. \A i \in DOMAIN stack' : stack'[i].at <= Len(depends[stack'[i].file]) + 1
    BY <1>1, <1>3 DEF VisitInv
  <2>6. \A i \in DOMAIN stack' : \A d \in DOMAIN depends[stack'[i].file] :
           d < stack'[i].at /\ depends[stack'[i].file][d] \in Wanted
           => depends[stack'[i].file][d] \in visited'
    BY <1>1, <1>3 DEF VisitInv
  <2> QED BY <1>1, <1>2, <2>1, <2>2, <2>3, <2>4, <2>5, <2>6 DEF VisitInv
<1>12. /\ going > 1 /\ stack[1].file = given[going - 1]
       /\ \A i \in DOMAIN stack : Reaches(stack[i].file, t)
       /\ \A p \in DOMAIN given : p < going => given[p] \in Members(compiled) \/ p = going - 1
  <2>1. \A i \in DOMAIN stack : i <= n BY <1>3
  <2> QED BY <1>1, <1>3, <2>1 DEF WayInv
<1>13. /\ given \in Seq(Indexed) /\ DOMAIN given = 1 .. Len(given) /\ Len(given) \in Nat
       /\ going \in Nat /\ going - 1 \in DOMAIN given
  BY <1>1, <1>12, GivenFacts
<1>14. WayInv'
  <2>1. \A i, j \in DOMAIN Rest : i <= j => Reaches(Rest[i].file, Rest[j].file)
    BY <1>1, <1>3 DEF WayInv
  <2>2. (\A i, j \in DOMAIN stack : i <= j => Reaches(stack[i].file, stack[j].file))'
    BY <1>1, <1>2, <2>1 DEF Reaches
  <2>3. stack' = <<>> => n = 1
    <3>1. stack' = <<>> => n - 1 = 0 BY <1>1, <1>3, EmptySeq
    <3> QED BY <1>3, <3>1
  <2>4. stack' # <<>> => stack'[1].file = given[going - 1]
    <3>1. stack' # <<>> => n - 1 # 0 BY <1>1, <1>3, EmptySeq
    <3>2. stack' # <<>> => 1 \in DOMAIN Rest BY <1>3, <3>1
    <3> QED BY <1>1, <1>3, <1>12, <3>2
  <2>5. \A p \in DOMAIN given : p < going =>
           given[p] \in Members(compiled') \/ (p = going - 1 /\ stack' # <<>>)
    <3>1. stack' = <<>> => t = given[going - 1] BY <1>3, <1>12, <2>3
    <3> QED BY <1>4, <1>12, <3>1
  <2> QED BY <1>1, <1>12, <2>2, <2>4, <2>5 DEF WayInv
<1>15. OutInv'
  <2>1. ASSUME NEW i \in DOMAIN compiled', NEW f \in Members(depends[compiled'[i]]) \intersect Wanted
        PROVE  (\E j \in DOMAIN compiled' : j < i /\ compiled'[j] = f) \/ Reaches(f, compiled'[i])
    <3>1. CASE i \in DOMAIN compiled
      <4>1. (\E j \in DOMAIN compiled : j < i /\ compiled[j] = f) \/ Reaches(f, compiled[i])
        <5>1. f \in Members(depends[compiled[i]]) \intersect Wanted BY <1>4, <2>1, <3>1
        <5> QED BY <1>1, <3>1, <5>1 DEF OutInv
      <4> QED BY <1>4, <3>1, <4>1
    <3>2. CASE i = m + 1
      <4>1. f \in visited BY <1>4, <1>7, <2>1, <3>2
      <4>2. f \in Visited \/ f \in Members(compiled) BY <1>1, <4>1 DEF VisitInv
      <4>3. CASE f \in Visited
        <5>1. PICK k \in DOMAIN stack : f = stack[k].file BY <4>3 DEF Visited
        <5> QED BY <1>4, <1>12, <3>2, <5>1
      <4>4. CASE f \in Members(compiled)
        <5>1. PICK j \in DOMAIN compiled : f = compiled[j] BY <4>4 DEF Members
        <5> QED BY <1>4, <1>6, <3>2, <5>1
      <4> QED BY <4>2, <4>3, <4>4
    <3> QED BY <1>5, <3>1, <3>2
  <2>2. ASSUME NEW i \in DOMAIN compiled', NEW p \in DOMAIN given
        PROVE  \/ \E j \in DOMAIN compiled' : j <= i /\ compiled'[j] = given[p]
               \/ \E h \in 1 .. p : Reaches(given[h], compiled'[i])
    <3>1. CASE i \in DOMAIN compiled
      <4>1. \/ \E j \in DOMAIN compiled : j <= i /\ compiled[j] = given[p]
            \/ \E h \in 1 .. p : Reaches(given[h], compiled[i])
        BY <1>1, <3>1 DEF OutInv
      <4> QED BY <1>4, <3>1, <4>1
    <3>2. CASE i = m + 1
      <4>1. Reaches(given[going - 1], compiled'[i]) BY <1>3, <1>4, <1>12, <3>2
      <4>2. CASE p < going - 1
        <5>1. given[p] \in Members(compiled) BY <1>12, <1>13, <4>2
        <5>2. PICK j \in DOMAIN compiled : given[p] = compiled[j] BY <5>1 DEF Members
        <5>3. j <= i BY <1>4, <3>2
        <5> QED BY <1>4, <5>2, <5>3
      <4>3. CASE ~(p < going - 1)
        <5>1. going - 1 \in 1 .. p BY <1>13, <4>3
        <5> QED BY <4>1, <5>1
      <4> QED BY <4>2, <4>3
    <3> QED BY <1>5, <3>1, <3>2
  <2>3. (\A i \in DOMAIN compiled : \A f \in Members(depends[compiled[i]]) \intersect Wanted :
            (\E j \in DOMAIN compiled : j < i /\ compiled[j] = f) \/ Reaches(f, compiled[i]))'
    BY <1>1, <1>2, <2>1 DEF Reaches, Members
  <2>4. (\A i \in DOMAIN compiled : \A p \in DOMAIN given :
            \/ \E j \in DOMAIN compiled : j <= i /\ compiled[j] = given[p]
            \/ \E h \in 1 .. p : Reaches(given[h], compiled[i]))'
    BY <1>1, <1>2, <2>2 DEF Reaches
  <2> QED BY <1>1, <2>3, <2>4 DEF OutInv
<1> QED BY <1>2, <1>10, <1>11, <1>14, <1>15 DEF IInv

LEMMA FinishStep ==
    ASSUME IInv, FinishOrder
    PROVE  IInv'
<1>1. /\ FileTypeOK /\ VisitInv /\ WayInv /\ OutInv
      /\ phase = "ordering" /\ stack = <<>> /\ going \notin DOMAIN given /\ phase' = "done"
      /\ UNCHANGED <<depends, bound, tops, toFollow, reached, given, going, stack, visited, compiled>>
  BY DEF IInv, FinishOrder, graph
<1>2. ReachInv' /\ Wanted' = Wanted /\ \A f, g : Reaches(f, g)' <=> Reaches(f, g)
  BY <1>1, OrderingStays
<1>3. going = Len(given) + 1 BY <1>1, GivenFacts
<1>4. FileTypeOK' BY <1>1 DEF FileTypeOK
<1>5. VisitInv' BY <1>1, <1>2 DEF VisitInv, Visited
<1>6. WayInv' BY <1>1 DEF WayInv, Reaches, Wanted, Members
<1>7. OutInv' BY <1>1, <1>2, <1>3 DEF OutInv, Reaches
<1> QED BY <1>2, <1>4, <1>5, <1>6, <1>7 DEF IInv

\* A step that changes nothing.
LEMMA NothingStep ==
    ASSUME IInv, UNCHANGED fileVars
    PROVE  IInv'
<1>1. UNCHANGED <<depends, bound, tops, toFollow, reached, given, going, stack, visited, compiled, phase>>
  BY DEF fileVars, graph
<1>2. FileTypeOK' BY <1>1 DEF IInv, FileTypeOK
<1>3. ReachInv' BY <1>1 DEF IInv, ReachInv, Needed, Wanted, Members
<1>4. VisitInv' BY <1>1 DEF IInv, VisitInv, Visited, Wanted, Members
<1>5. WayInv' BY <1>1 DEF IInv, WayInv, Reaches, Wanted, Members
<1>6. OutInv'
  <2>1. Wanted' = Wanted BY <1>1 DEF Wanted
  <2>2. \A f, g : Reaches(f, g)' <=> Reaches(f, g) BY <1>1, <2>1 DEF Reaches
  <2> QED BY <1>1, <2>1, <2>2 DEF IInv, OutInv, Reaches
<1> QED BY <1>2, <1>3, <1>4, <1>5, <1>6 DEF IInv

\* The invariant of reaching and ordering (Index::reachable, Index::ordered).
THEOREM FileOrderInvariance == FileSpec => []IInv
<1>1. IInv /\ [FileNext]_fileVars => IInv'
  BY ReachStep, ListStep, BeginStep, DescendStep, PutStep, FinishStep, NothingStep DEF FileNext
<1> QED BY InitIInv, <1>1, PTL DEF FileSpec

\* The visits are never deeper than there are files, whatever cycles the files
\* are in.
THEOREM FileOrderTypeCorrect == FileSpec => []FileTypeOK
<1>1. IInv => FileTypeOK BY DEF IInv
<1> QED BY <1>1, FileOrderInvariance, PTL

---------------------------------------------------------------------------
(* What holds once all are put.                                            *)

LEMMA AllArePut ==
    ASSUME IInv, phase = "done"
    PROVE  Members(compiled) = Wanted /\ Len(compiled) = Len(given)
<1>1. /\ FileTypeOK /\ VisitInv /\ WayInv /\ stack = <<>> /\ going = Len(given) + 1
  BY DEF IInv, OutInv
<1>2. /\ given \in Seq(Indexed) /\ DOMAIN given = 1 .. Len(given) /\ Len(given) \in Nat
      /\ \A i, j \in DOMAIN given : given[i] = given[j] => i = j
  BY <1>1, GivenFacts
<1>3. Wanted \subseteq Members(compiled)
  <2>1. \A p \in DOMAIN given : given[p] \in Members(compiled) BY <1>1, <1>2 DEF WayInv
  <2>2. Wanted = {given[p] : p \in DOMAIN given} BY DEF Wanted, Members
  <2> QED BY <2>1, <2>2
<1>4. Members(compiled) \subseteq Wanted BY <1>1 DEF VisitInv
<1>5. Len(given) = Cardinality(Wanted) BY <1>2, AsManyAsMembers DEF Wanted
<1>6. Len(compiled) = Cardinality(Members(compiled))
  <2>1. compiled \in Seq(Indexed) /\ \A i, j \in DOMAIN compiled : compiled[i] = compiled[j] => i = j
    BY <1>1 DEF FileTypeOK, VisitInv
  <2> QED BY <2>1, AsManyAsMembers
<1>7. Members(compiled) = Wanted BY <1>3, <1>4
<1> QED BY <1>5, <1>6, <1>7

\* What is compiled of a design is all its tops need, and nothing else
\* (Index::reachable).
THEOREM NothingElseNeeded == FileSpec => []NothingElseIsNeeded
<1>1. ASSUME IInv, phase = "done", tops # <<>>
      PROVE  Members(compiled) = Needed(Members(tops))
  <2>1. FileTypeOK /\ ReachInv /\ toFollow = <<>> /\ Wanted = reached BY <1>1 DEF IInv, ReachInv
  <2>2. Members(toFollow) = {} BY <2>1 DEF Members
  <2>3. Members(tops) \subseteq Indexed
    <3>1. tops \in Seq(Indexed) BY <2>1 DEF FileTypeOK
    <3> QED BY <3>1, MembersIn
  <2>4. reached \subseteq Indexed BY <2>1 DEF FileTypeOK
  <2>5. /\ reached \subseteq Needed(Members(tops)) /\ Members(tops) \subseteq reached
        /\ \A f \in reached : Members(depends[f]) \union Members(bound[f]) \subseteq reached
    BY <2>1, <2>2 DEF ReachInv
  <2>6. Needed(Members(tops)) \subseteq reached BY <2>1, <2>3, <2>4, <2>5, GraphFacts, NeededFacts
  <2> QED BY <1>1, <2>1, <2>5, <2>6, AllArePut
<1>2. IInv => NothingElseIsNeeded BY <1>1 DEF NothingElseIsNeeded
<1> QED BY <1>2, FileOrderInvariance, PTL

\* Each file comes once, and after those it depends on, unless they depend on
\* it too (Index::ordered).
THEOREM AfterNeeds == FileSpec => []AfterWhatItNeeds
<1>1. IInv => AfterWhatItNeeds BY AllArePut DEF IInv, OutInv, AfterWhatItNeeds
<1> QED BY <1>1, FileOrderInvariance, PTL

\* Otherwise they come as given, unless what is given earlier needs them
\* (Index::ordered).
THEOREM AsGiven == FileSpec => []OtherwiseAsGiven
<1>1. ASSUME IInv, phase = "done", NEW i \in DOMAIN compiled, NEW j \in DOMAIN compiled, i < j,
             NEW p \in DOMAIN given, given[p] = compiled[j]
      PROVE  \E h \in 1 .. p : Reaches(given[h], compiled[i])
  <2>1. \/ \E k \in DOMAIN compiled : k <= i /\ compiled[k] = given[p]
        \/ \E h \in 1 .. p : Reaches(given[h], compiled[i])
    BY <1>1 DEF IInv, OutInv
  <2>2. ASSUME NEW k \in DOMAIN compiled, k <= i, compiled[k] = given[p] PROVE FALSE
    <3>1. k = j BY <1>1, <2>2 DEF IInv, VisitInv
    <3>2. DOMAIN compiled = 1 .. Len(compiled)
      <4>1. compiled \in Seq(Indexed) BY <1>1 DEF IInv, FileTypeOK
      <4> QED BY <4>1, MembersIn
    <3> QED BY <1>1, <2>2, <3>1, <3>2
  <2> QED BY <2>1, <2>2
<1>2. IInv => OtherwiseAsGiven BY <1>1 DEF OtherwiseAsGiven
<1> QED BY <1>2, FileOrderInvariance, PTL

\* The files to compile and their order are right, for any files and what they
\* depend on (Index::reachable, Index::ordered).
THEOREM FilesComeRight == FileSpec => []FilesAreRight
<1>1. FileTypeOK /\ NothingElseIsNeeded /\ AfterWhatItNeeds /\ OtherwiseAsGiven => FilesAreRight
  BY DEF FilesAreRight
<1> QED BY <1>1, FileOrderTypeCorrect, NothingElseNeeded, AfterNeeds, AsGiven, PTL
=============================================================================
