----------------------------- MODULE FileIndex -----------------------------
(***************************************************************************)
(* Which file declares what, which files a top needs, why, and the order   *)
(* they are compiled in (astli-index, index.rs).  A file is a record of    *)
(*   declares  : its declarations, each a name and whether it is only a    *)
(*               prototype,                                                *)
(*   refers    : its references, each a name and whether it is a bind      *)
(*               outside every definition (binds),                         *)
(*   encrypted : whether it cannot be read.                                *)
(* Files are known by their place in a sequence.                           *)
(***************************************************************************)
EXTENDS Naturals, Sequences, SequencesExt, FiniteSets

Nowhere == 0

\* All declarations, in order, with the files they are in.
Declarations(files) ==
    FoldLeft(LAMBDA all, f : all \o [i \in DOMAIN files[f].declares |->
                                        [file |-> f, name |-> files[f].declares[i].name,
                                         prototype |-> files[f].declares[i].prototype]],
             <<>>, [f \in DOMAIN files |-> f])

NamesOf(files) ==
    UNION {{files[f].declares[i].name : i \in DOMAIN files[f].declares} : f \in DOMAIN files}

\* A wrong one: a prototype after a body is what the name means.
DeclareLast(sofar, d) ==
    LET earlier == {e \in sofar.declared : e.name = d.name} IN
    [declared |-> (sofar.declared \ earlier) \union {d}, again |-> sofar.again]

\* One declaration after those before it: it is what its name means now,
\* unless it is a prototype of what has a body, and it declares the name
\* again if both have one.
Declare(sofar, d) ==
    LET earlier == {e \in sofar.declared : e.name = d.name}
        bodies == {e \in earlier : ~e.prototype}
    IN IF bodies # {} /\ d.prototype THEN sofar
       ELSE [declared |-> (sofar.declared \ earlier) \union {d},
             again |-> IF bodies = {} THEN sofar.again
                       ELSE [sofar.again EXCEPT ![d.name] =
                                (IF @ = <<>> THEN SetToSeq(bodies) ELSE @) \o <<d>>]]

Indexed(files) ==
    FoldLeft(Declare, [declared |-> {}, again |-> [n \in NamesOf(files) |-> <<>>]],
             Declarations(files))

\* The file a name is declared in.
DeclaredIn(index, name) ==
    IF \E d \in index.declared : d.name = name
    THEN (CHOOSE d \in index.declared : d.name = name).file
    ELSE Nowhere

\* The files a file refers to, each once, where it first does.
Dependencies(files, index, f) ==
    LET named == [i \in DOMAIN files[f].refers |-> DeclaredIn(index, files[f].refers[i].name)] IN
    FoldLeft(LAMBDA sofar, g : IF g \in {Nowhere, f} \union ToSet(sofar) THEN sofar
                               ELSE Append(sofar, g), <<>>, named)

\* The files that bind into what a file declares.
Bound(files, index, f) ==
    SelectSeq([g \in DOMAIN files |-> g],
              LAMBDA g : g # f /\ \E i \in DOMAIN files[g].refers :
                            /\ files[g].refers[i].binds
                            /\ DeclaredIn(index, files[g].refers[i].name) = f)

Following(files, index, f) == Dependencies(files, index, f) \o Bound(files, index, f)

\* What is reached by following from some files.
RECURSIVE Reach(_, _)
Reach(follow, from) ==
    LET next == from \union UNION {follow[f] : f \in from} IN
    IF next = from THEN from ELSE Reach(follow, next)

\* What the tops need, and what cannot be read, which may need anything.
Reachable(files, index, tops) ==
    Reach([f \in DOMAIN files |-> ToSet(Following(files, index, f))],
          tops \union {f \in DOMAIN files : files[f].encrypted})

\* A file after those it depends on, of those wanted.
RECURSIVE Visit(_, _, _, _, _)
Visit(files, index, wanted, sofar, f) ==
    IF f \in sofar.seen THEN sofar
    ELSE LET below == FoldLeft(LAMBDA s, g : Visit(files, index, wanted, s, g),
                               [sofar EXCEPT !.seen = @ \union {f}],
                               SelectSeq(Dependencies(files, index, f), LAMBDA g : g \in wanted))
         IN [below EXCEPT !.out = Append(@, f)]

Ordered(files, index, list) ==
    FoldLeft(LAMBDA sofar, f : Visit(files, index, ToSet(list), sofar, f),
             [seen |-> {}, out |-> <<>>], list).out

\* The first way found from a top to a file, or none.
RECURSIVE Search(_, _, _, _, _)
Search(files, index, file, open, parent) ==
    IF open = <<>> THEN parent
    ELSE LET at == Head(open)
             new == SelectSeq(Following(files, index, at), LAMBDA g : g \notin DOMAIN parent)
             once == FoldLeft(LAMBDA s, g : IF g \in ToSet(s) THEN s ELSE Append(s, g), <<>>, new)
         IN Search(files, index, file, Tail(open) \o once,
                   [g \in DOMAIN parent \union ToSet(once) |->
                        IF g \in DOMAIN parent THEN parent[g] ELSE at])

RECURSIVE Chain(_, _)
Chain(parent, f) ==
    IF parent[f] = Nowhere THEN <<f>> ELSE Append(Chain(parent, parent[f]), f)

Why(files, index, tops, file) ==
    LET parent == Search(files, index, file, tops, [t \in ToSet(tops) |-> Nowhere]) IN
    IF file \in DOMAIN parent THEN Chain(parent, file) ELSE <<>>

---------------------------------------------------------------------------
(* What is promised of it.                                                 *)

\* A name means its last body, or its last prototype if it has none, and is
\* declared again where it has several bodies, each of which is listed once,
\* in order (Index::new).
MeansItsBody(files) ==
    LET index == Indexed(files)
        all == Declarations(files)
    IN \A n \in NamesOf(files) :
        LET bodies == SelectSeq(all, LAMBDA d : d.name = n /\ ~d.prototype)
            any == SelectSeq(all, LAMBDA d : d.name = n)
        IN /\ {d \in index.declared : d.name = n} =
                {IF bodies = <<>> THEN Last(any) ELSE Last(bodies)}
           /\ index.again[n] = IF Len(bodies) > 1 THEN bodies ELSE <<>>

\* Each of the files the tops need is compiled once, and after those it
\* depends on unless they depend on it too; besides what cannot be read, and
\* what that needs, a file is needed exactly if there is a reason, and the
\* reason given starts at a top, follows references and binds, and is as short
\* as any (reachable, ordered, why).
NeededInOrder(files, tops) ==
    LET index == Indexed(files)
        needed == Reachable(files, index, ToSet(tops))
        list == SetToSortSeq(needed, LAMBDA f, g : f > g)
        out == Ordered(files, index, list)
        Place(f) == CHOOSE i \in DOMAIN out : out[i] = f
        depends == [f \in DOMAIN files |-> ToSet(Dependencies(files, index, f))]
        follow == [f \in DOMAIN files |-> ToSet(Following(files, index, f))]
        RECURSIVE Within(_)
        Within(n) == IF n = 0 THEN ToSet(tops)
                     ELSE Within(n - 1) \union UNION {follow[f] : f \in Within(n - 1)}
        reasoned == {f \in DOMAIN files : Why(files, index, tops, f) # <<>>}
        unread == {f \in DOMAIN files : files[f].encrypted}
    IN /\ Len(out) = Cardinality(needed) /\ ToSet(out) = needed
       /\ \A f \in needed : \A g \in depends[f] : Place(g) < Place(f) \/ f \in Reach(depends, {g})
       /\ needed = reasoned \union Reach(follow, unread)
       /\ \A f \in reasoned :
            LET why == Why(files, index, tops, f) IN
            /\ why[1] \in ToSet(tops) /\ Last(why) = f
            /\ \A i \in 1 .. Len(why) - 1 : why[i + 1] \in follow[why[i]]
            /\ Len(why) > 1 => f \notin Within(Len(why) - 2)
=============================================================================
