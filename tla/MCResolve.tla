------------------------------ MODULE MCResolve ------------------------------
(***************************************************************************)
(* Module Resolve for TLC: a design that requires "axi" and perhaps        *)
(* "cells", which axi may require too, from its own repository or a fork.  *)
(* Each repository has had a release and moved its branch since the mirror *)
(* was last fetched.                                                       *)
(***************************************************************************)
EXTENDS Resolve

MCNames == {"axi", "cells", "tech"}
MCRepos == {"axi", "cells", "fork", "tech"}

Req(n, from, by, versions, commit, features) ==
    [name |-> n, from |-> from, by |-> by, versions |-> versions, rev |-> "main",
     commit |-> commit, features |-> features]
ByVersion(n, from, versions) == Req(n, from, "version", versions, NoCommit, {})
ByBranch(n, from) == Req(n, from, "branch", {}, NoCommit, {})
ById(n, from, c) == Req(n, from, "id", {}, c, {})
With(f, req) == [req EXCEPT !.features = {f}]

NoFeatures == [f \in {} |-> {}]
Leaf == [requires |-> <<>>, features |-> NoFeatures]
Requiring(reqs) == [requires |-> reqs, features |-> NoFeatures]

\* Commits 1 and 2 are axi's, 3 and 4 cells', 5 the fork's, 6 tech's, and 7
\* one of cells that no branch reaches.
Tags(c, d) == [v \in Versions |-> IF v = 1 THEN c ELSE d]
Repo(has, c, d, head) == [has |-> has, tags |-> Tags(c, d), branch |-> [b \in Branches |-> head]]
MCUpstream ==
    [r \in MCRepos |-> CASE r = "axi" -> Repo({1, 2}, 1, 2, 2)
                         [] r = "cells" -> Repo({3, 4}, 3, 4, 4)
                         [] r = "fork" -> Repo({3, 5}, 3, NoCommit, 5)
                         [] r = "tech" -> Repo({6}, 6, NoCommit, 6)]
Old == [axi |-> Repo({1}, 1, NoCommit, 1), cells |-> Repo({3}, 3, NoCommit, 3)]
Absent == Repo({}, NoCommit, NoCommit, NoCommit)
MirrorsOf(axi, cells) ==
    [r \in MCRepos |-> CASE r = "axi" -> axi [] r = "cells" -> cells [] OTHER -> Absent]

Entry(r, c, revs, needs) == [from |-> r, commit |-> c, revs |-> revs, needs |-> needs]
Locks ==
    {[n \in MCNames |-> CASE n = "axi" -> axi [] n = "cells" -> cells [] OTHER -> Nothing] :
        axi \in {Nothing, Entry("axi", 1, {}, {"cells"}), Entry("axi", 2, {"main"}, {"cells"})},
        cells \in {Nothing, Entry("cells", 3, {}, {}), Entry("cells", 3, {"main"}, {}),
                   Entry("cells", 4, {}, {}), Entry("fork", 3, {}, {})}}

AxiRequires ==
    {<<>>, <<ByVersion("cells", "cells", {1})>>, <<ByVersion("cells", "cells", {1, 2})>>,
     <<With("f", ByVersion("cells", "cells", {1, 2}))>>, <<ByBranch("cells", "cells")>>,
     <<ById("cells", "cells", 7)>>, <<ByVersion("cells", "fork", {1})>>,
     <<ByVersion("cells", "fork", {1}), ByVersion("tech", "tech", {2})>>}
RootAxi == {ByVersion("axi", "axi", {1, 2}), ByVersion("axi", "axi", {2}), ByBranch("axi", "axi")}
RootRequires ==
    {<<a>> : a \in RootAxi}
    \union {<<a, c>> : a \in RootAxi,
                c \in {ByVersion("cells", "cells", {1}), ByVersion("cells", "cells", {1, 2}),
                       ByVersion("cells", "fork", {1})}}

Cells == [requires |-> <<ByVersion("tech", "tech", {1})>>, features |-> [f \in {"f"} |-> {"tech"}]]

World(root, one, two, pinned, patched, lock, mirror, offline) ==
    [root |-> Requiring(root),
     manifest |-> [c \in Commits |-> CASE c = 1 -> Requiring(one) [] c = 2 -> Requiring(two)
                                       [] c = 3 -> Leaf [] c = 4 -> Cells [] OTHER -> Leaf],
     disk |-> [n \in MCNames |-> Leaf],
     pinned |-> pinned, patched |-> patched, lock |-> lock, mirror |-> mirror,
     offline |-> offline]

Everywhere == {"axi", "cells", "fork", "tech"}
AtVersion(versions) == ByVersion("cells", "cells", versions)
AxiAt(versions) == ByVersion("axi", "axi", versions)

\* A lock that holds or no longer does, over mirrors that are old or not.
Staleness ==
    {World(root, one, two, {}, {}, lock, MirrorsOf(Old.axi, cells), offline) :
        root \in {<<AxiAt({1, 2})>>, <<AxiAt({2})>>, <<ByBranch("axi", "axi")>>,
                  <<AxiAt({1, 2}), AtVersion({1, 2})>>},
        one \in {<<>>, <<AtVersion({1})>>, <<AtVersion({1, 2})>>, <<ByBranch("cells", "cells")>>},
        two \in {<<>>, <<AtVersion({2})>>, <<ByBranch("cells", "cells")>>},
        lock \in Locks, cells \in {Old.cells, Upstream["cells"]}, offline \in {{}, Everywhere}}

\* Features, other sources and commits by id, so that decisions are taken back.
Backtracking ==
    {World(root, one, two, {}, {}, lock, MirrorsOf(axi, Old.cells), {}) :
        root \in RootRequires, one \in AxiRequires, two \in AxiRequires,
        lock \in {l \in Locks : l["axi"] = Nothing /\ l["cells"] \in {Nothing, Entry("cells", 3, {}, {})}},
        axi \in {Absent, Upstream["axi"]}}

\* What the root pins or patches.
Overrulings ==
    {World(root, one, two, pinned, patched, lock, MirrorsOf(Old.axi, cells), {}) :
        root \in {<<AxiAt({1, 2}), c>> : c \in {AtVersion({1}), ByVersion("cells", "fork", {1})}},
        one \in AxiRequires, two \in {<<>>, <<AtVersion({2})>>},
        pinned \in {{}, {"cells"}}, patched \in {{}, {"cells"}}, lock \in Locks,
        cells \in {Old.cells, Absent}}

MCWorlds == Staleness \union Backtracking \union Overrulings
=============================================================================
