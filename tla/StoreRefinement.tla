--------------------------- MODULE StoreRefinement ---------------------------
(***************************************************************************)
(* The cache of files and locks (Store) keeps its promise (StorePromise).  *)
(*                                                                         *)
(* The writer of a repository is the run between taking the lock of its    *)
(* mirror and dropping it.  A checkout is published from the moment its    *)
(* list of files exists: that is what the next run goes by.                *)
(***************************************************************************)
EXTENDS Store, TLC

writer ==
    [k \in Repos |-> IF \E r \in Runs : Holds(r, k)
                     THEN CHOOSE r \in Runs : Holds(r, k)
                     ELSE Nobody]

mirrored == {k \in Repos : mirror[k] = "whole"}

published == {p \in Repos \X Commits : list[p[1]][p[2]] # "none"}

reading ==
    [r \in Runs |-> {p \in Repos \X Commits :
                        got[r][p[1]] # "none" /\ commit[r][p[1]] = p[2]}]

Promise ==
    INSTANCE StorePromise WITH
        writer <- writer, mirrored <- mirrored, published <- published, reading <- reading

\* The store implements its promise: one writer a mirror, nothing published
\* but under its lock and nothing unpublished, no list gone by that is not
\* there (Mirror::open, Mirror::checkout_as).
KeepsPromise == Promise!Spec

---------------------------------------------------------------------------
\* For TLC: what tells apart none of these.
Symmetry == Permutations(Repos) \union Permutations(Commits)
            \union Permutations(Runs) \union Permutations(Inodes)
=============================================================================
