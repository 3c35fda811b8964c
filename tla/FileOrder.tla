----------------------------- MODULE FileOrder -----------------------------
(***************************************************************************)
(* Which files a design needs, and the order they are compiled in          *)
(* (astli-index, index.rs): the files reached from its tops, by an open    *)
(* list, and then, or for files listed otherwise, a walk that puts each    *)
(* file after those it depends on.  Files are known by their place in the  *)
(* index.                                                                  *)
(***************************************************************************)
EXTENDS Naturals, Sequences, FiniteSets

CONSTANTS
    FileCount,   \* how many files there are
    MaxDepends,  \* how many one depends on at most
    MaxBound,    \* how many bind into one at most
    MaxTops      \* how many reaching starts from at most

ASSUME FileCountIsNat == FileCount \in Nat
ASSUME BoundsAreNat == MaxDepends \in Nat /\ MaxBound \in Nat /\ MaxTops \in Nat

Indexed == 1 .. FileCount

VARIABLES
    depends, bound,     \* what each depends on, and what binds into it
    tops,               \* what the design starts from, and what is encrypted
    toFollow, reached,  \* what is to be followed, and what was
    given,              \* the files to put in order
    going, stack,       \* the next of them, and the visits not yet over
    visited, compiled,  \* the files visited, and those put
    phase

graph == <<depends, bound, tops>>
fileVars == <<graph, toFollow, reached, given, going, stack, visited, compiled, phase>>

\* Lists of files, each in it once.
FileLists(longest) ==
    {list \in UNION {[1 .. n -> Indexed] : n \in 0 .. longest} :
        \A i, j \in DOMAIN list : list[i] = list[j] => i = j}

Members(list) == {list[i] : i \in DOMAIN list}

Following(f) == depends[f] \o bound[f]

Wanted == Members(given)

---------------------------------------------------------------------------
\* The files are those of some tops, or are listed otherwise.
FileInit ==
    /\ depends \in [Indexed -> FileLists(MaxDepends)] /\ \A f \in Indexed : f \notin Members(depends[f])
    /\ bound \in [Indexed -> FileLists(MaxBound)] /\ \A f \in Indexed : f \notin Members(bound[f])
    /\ \/ /\ phase = "reaching"
          /\ tops \in UNION {[1 .. n -> Indexed] : n \in 1 .. MaxTops}
          /\ given = <<>>
       \/ /\ phase = "ordering"
          /\ tops = <<>>
          /\ bound = [f \in Indexed |-> <<>>]
          /\ given \in FileLists(FileCount)
    /\ toFollow = tops
    /\ reached = {}
    /\ going = 1
    /\ stack = <<>>
    /\ visited = {}
    /\ compiled = <<>>

\* What was opened last is followed, once.
Reach ==
    /\ phase = "reaching" /\ toFollow # <<>>
    /\ LET last == toFollow[Len(toFollow)]
           rest == SubSeq(toFollow, 1, Len(toFollow) - 1)
       IN /\ reached' = reached \union {last}
          /\ toFollow' = IF last \in reached THEN rest ELSE rest \o Following(last)
    /\ UNCHANGED <<graph, given, going, stack, visited, compiled, phase>>

\* All reached are listed, as packages or the index have them.
List ==
    /\ phase = "reaching" /\ toFollow = <<>>
    /\ given' \in {list \in FileLists(FileCount) : Members(list) = reached}
    /\ phase' = "ordering"
    /\ UNCHANGED <<graph, toFollow, reached, going, stack, visited, compiled>>

\* The next given is visited, unless it was.
Begin ==
    /\ phase = "ordering" /\ stack = <<>> /\ going \in DOMAIN given
    /\ LET f == given[going] IN
       IF f \in visited THEN UNCHANGED <<stack, visited>>
       ELSE stack' = <<[file |-> f, at |-> 1]>> /\ visited' = visited \union {f}
    /\ going' = going + 1
    /\ UNCHANGED <<graph, toFollow, reached, given, compiled, phase>>

Top == stack[Len(stack)]
Rest == SubSeq(stack, 1, Len(stack) - 1)
Advanced == Append(Rest, [Top EXCEPT !.at = Top.at + 1])

\* A wrong one: what is being visited is visited again.
DescendAgain ==
    /\ phase = "ordering" /\ stack # <<>> /\ Top.at \in DOMAIN depends[Top.file]
    /\ LET f == depends[Top.file][Top.at] IN
       IF f \in Wanted /\ f \notin Members(compiled)
       THEN stack' = Append(Advanced, [file |-> f, at |-> 1]) /\ visited' = visited \union {f}
       ELSE stack' = Advanced /\ UNCHANGED visited
    /\ UNCHANGED <<graph, toFollow, reached, given, going, compiled, phase>>

\* The next it depends on is visited, if it is wanted and was not.
Descend ==
    /\ phase = "ordering" /\ stack # <<>> /\ Top.at \in DOMAIN depends[Top.file]
    /\ LET f == depends[Top.file][Top.at] IN
       IF f \in Wanted /\ f \notin visited
       THEN stack' = Append(Advanced, [file |-> f, at |-> 1]) /\ visited' = visited \union {f}
       ELSE stack' = Advanced /\ UNCHANGED visited
    /\ UNCHANGED <<graph, toFollow, reached, given, going, compiled, phase>>

\* A file is put once all it depends on are.
PutFile ==
    /\ phase = "ordering" /\ stack # <<>> /\ Top.at \notin DOMAIN depends[Top.file]
    /\ compiled' = Append(compiled, Top.file)
    /\ stack' = Rest
    /\ UNCHANGED <<graph, toFollow, reached, given, going, visited, phase>>

FinishOrder ==
    /\ phase = "ordering" /\ stack = <<>> /\ going \notin DOMAIN given
    /\ phase' = "done"
    /\ UNCHANGED <<graph, toFollow, reached, given, going, stack, visited, compiled>>

FileNext == Reach \/ List \/ Begin \/ Descend \/ PutFile \/ FinishOrder

FileSpec == FileInit /\ [][FileNext]_fileVars

---------------------------------------------------------------------------
(* What is promised of it.                                                 *)

\* The visits are never more deep than there are files, whatever cycles they
\* are in: visit calls itself.
FileTypeOK ==
    /\ depends \in [Indexed -> FileLists(MaxDepends)] /\ bound \in [Indexed -> FileLists(MaxBound)]
    /\ tops \in Seq(Indexed) /\ toFollow \in Seq(Indexed) /\ reached \in SUBSET Indexed
    /\ given \in FileLists(FileCount) /\ going \in 1 .. Len(given) + 1
    /\ stack \in Seq([file : Indexed, at : 1 .. MaxDepends + 1]) /\ Len(stack) <= FileCount
    /\ visited \in SUBSET Indexed /\ compiled \in Seq(Indexed)
    /\ phase \in {"reaching", "ordering", "done"}

\* What files reach by references and binds: what is in every set that holds
\* them and what follows of its members.
Needed(fs) ==
    {f \in Indexed : \A set \in SUBSET Indexed :
        /\ fs \subseteq set
        /\ \A g \in set : Members(depends[g]) \union Members(bound[g]) \subseteq set
        => f \in set}

\* The same, by what is depended on and wanted.
Reaches(f, g) ==
    \A set \in SUBSET Indexed :
        /\ f \in set
        /\ \A h \in set : Members(depends[h]) \intersect Wanted \subseteq set
        => g \in set

\* What is compiled of a design is all its tops need, and nothing else
\* (Index::reachable).
NothingElseIsNeeded == phase = "done" /\ tops # <<>> => Members(compiled) = Needed(Members(tops))

\* Each file comes once, and after those it depends on, unless they depend on
\* it too (Index::ordered).
AfterWhatItNeeds ==
    phase = "done" =>
        /\ Members(compiled) = Wanted /\ Len(compiled) = Len(given)
        /\ \A i \in DOMAIN compiled : \A f \in Members(depends[compiled[i]]) \intersect Wanted :
              (\E j \in DOMAIN compiled : j < i /\ compiled[j] = f) \/ Reaches(f, compiled[i])

\* Otherwise they come as given: one comes before another given before it only
\* if that, or one given before that, needs it (Index::ordered).
OtherwiseAsGiven ==
    phase = "done" =>
        \A i, j \in DOMAIN compiled : i < j =>
            \A p, q \in DOMAIN given : given[p] = compiled[j] /\ given[q] = compiled[i] /\ p < q =>
                \E h \in 1 .. p : Reaches(given[h], compiled[i])

\* A design's files are those it needs, each after what it needs and otherwise
\* as given, and no visit is within itself (Index::reachable, ordered, visit).
FilesAreRight == FileTypeOK /\ NothingElseIsNeeded /\ AfterWhatItNeeds /\ OtherwiseAsGiven
=============================================================================
