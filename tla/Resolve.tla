------------------------------- MODULE Resolve -------------------------------
(***************************************************************************)
(* Choosing a commit of each package a design needs (astli-resolve:        *)
(* resolve.rs, version.rs).  The first pass trusts the lock: a mirror that *)
(* holds every commit the lock names of it is not fetched.  If what comes  *)
(* of that moves a package off its locked commit, or asked such a mirror   *)
(* what only upstream knows, all is done again with every mirror fetched.  *)
(*                                                                         *)
(* The solver (PubGrub) is a library: here it decides one node after       *)
(* another, as its provider ranks them, and on a conflict takes the last   *)
(* decision back.  What the provider tells it, and what it remembers of    *)
(* that between decisions taken back, is the code's.                       *)
(***************************************************************************)
EXTENDS Naturals, FiniteSets, Sequences, FiniteSetsExt

CONSTANTS
    Names,       \* the packages
    Repos,       \* the repositories, each by its key in the store
    Features,    \* the features packages declare
    Commits,     \* the commits of the repositories, numbers: ids are compared
    Versions,    \* the versions tags name, numbers in order
    Branches,    \* the branches a requirement may name
    NoCommit,    \* no commit of that name
    Local,       \* the one version of what is on disk
    Nothing,     \* no entry, no package, no origin
    Upstream,    \* what each repository's branches and tags reach
    Served,      \* the commits a repository still gives when asked by id
    Worlds       \* the manifests, locks, mirrors and repositories to resolve over

Candidates == Commits \union {Local}

\* A requirement in a manifest: of what name, from where, and how it says
\* which commit.
Requirements ==
    [name : Names, from : Repos \union {Local}, by : {"version", "branch", "id", "path"},
     versions : SUBSET Versions, rev : Branches, commit : Commits \union {NoCommit},
     features : SUBSET Features]

Manifests ==
    [requires : Seq(Requirements),
     features : UNION {[declared -> SUBSET Names] : declared \in SUBSET Features}]

\* What a repository holds and what its tags and branches name.
Mirrors ==
    [has : SUBSET Commits, tags : [Versions -> Commits \union {NoCommit}],
     branch : [Branches -> Commits \union {NoCommit}]]

Entries == [from : Repos, commit : Commits, revs : SUBSET Branches, needs : SUBSET Names]

ASSUME NumbersAssumption == Commits \subseteq Nat /\ Versions \subseteq Nat
ASSUME MarkersAssumption ==
    /\ NoCommit \notin Candidates /\ Local \notin Commits /\ Local \notin Repos
    /\ Nothing \notin Names /\ Nothing \notin Repos /\ Nothing # Local
    /\ Nothing \notin Entries
    /\ \A S \in SUBSET Names : Nothing \notin [S -> Candidates]
ASSUME UpstreamAssumption == Upstream \in [Repos -> Mirrors] /\ Served \subseteq Commits
ASSUME WorldsAssumption ==
    Worlds \subseteq
        [root : Manifests, manifest : [Commits -> Manifests], disk : [Names -> Manifests],
         pinned : SUBSET Names, patched : SUBSET Names,
         lock : [Names -> Entries \union {Nothing}], mirror : [Repos -> Mirrors],
         offline : SUBSET Repos]

\* What the root asks by a path it has on disk, and what else from a repository.
ASSUME PathsAssumption ==
    \A w \in Worlds : \A manifest \in
            {w.root} \union {w.manifest[c] : c \in Commits} \union {w.disk[n] : n \in Names} :
        \A i \in DOMAIN manifest.requires :
            manifest.requires[i].by = "path" <=> manifest.requires[i].from = Local

\* A pin names what the root depends on, or nothing is resolved.
ASSUME PinsAssumption ==
    \A w \in Worlds : \A n \in w.pinned :
        \E i \in DOMAIN w.root.requires : w.root.requires[i].name = n

VARIABLES
    world,       \* what there is to resolve; see Worlds of MCResolve
    known,       \* what the mirror of each repository holds, on disk
    \* The pass.
    phase,       \* "open", "solve", "judge", "done" or "failed"
    fetchAll,    \* Provider::fetch_all: FALSE in the pass that trusts the lock
    ahead,       \* the repositories opened ahead of resolution
    opened,      \* State::mirrors
    trusted,     \* State::trusted
    failed,      \* State::failed
    missed,      \* State::missed
    origins,     \* State::origins, without who asked first
    decided,     \* State::decided
    replaced,    \* State::replaced
    \* The solver.
    trail,       \* the decisions, each with what its node depends on
    again,       \* the node whose candidate was taken back, and those tried
    asking,      \* the node whose dependencies are being read
    \* The answer.
    chosen,      \* a candidate for each package
    warned       \* the requirements said to be replaced and not met

pass == <<ahead, opened, trusted, failed, missed, origins, decided, replaced>>
solver == <<trail, again, asking>>
vars == <<world, known, phase, fetchAll, pass, solver, chosen, warned>>

---------------------------------------------------------------------------
(* Nodes and ranges.                                                       *)

Root == [is |-> "root", name |-> Nothing, feature |-> Nothing]
Package(n) == [is |-> "package", name |-> n, feature |-> Nothing]
Feature(n, f) == [is |-> "feature", name |-> n, feature |-> f]
NoNode == [is |-> "none", name |-> Nothing, feature |-> Nothing]

Asks == UNION {trail[i].asks : i \in DOMAIN trail}

\* What is left for a node: every range asked of it, intersected.
Left(node) == {c \in Candidates : \A a \in Asks : a.node = node => c \in a.range}

Decided(node) == \E i \in DOMAIN trail : trail[i].node = node
Undecided == {a.node : a \in {b \in Asks : ~Decided(b.node)}}

Conflict ==
    \/ \E i \in DOMAIN trail : trail[i].node # Root /\ trail[i].candidate \notin Left(trail[i].node)
    \/ \E node \in Undecided : Left(node) = {}

\* What is decided on, what is asked of it, and a decision.
Nodes == [is : {"package", "feature"}, name : Names, feature : Features \union {Nothing}]
Ranges == [node : Nodes, range : SUBSET Candidates]
Decisions ==
    [node : Nodes \union {Root}, candidate : Candidates, asks : SUBSET Ranges,
     tried : SUBSET Candidates]
Answers == UNION {[S -> Candidates] : S \in SUBSET Names}

TypeOK ==
    /\ world \in Worlds
    /\ known \in [Repos -> Mirrors]
    /\ phase \in {"open", "solve", "judge", "done", "failed"}
    /\ fetchAll \in BOOLEAN
    /\ ahead \subseteq Repos /\ opened \subseteq Repos
    /\ trusted \subseteq Repos /\ failed \subseteq Repos
    /\ missed \in BOOLEAN
    /\ origins \in [Names -> Repos \union {Local, Nothing}]
    /\ decided \in [Names -> Candidates \union {NoCommit}]
    /\ replaced \subseteq [asker : Names, req : Requirements]
    /\ trail \in Seq(Decisions)
    /\ again \in [node : Nodes \union {NoNode}, tried : SUBSET Candidates]
    /\ asking \in [node : Nodes \union {Root, NoNode}, candidate : Candidates,
                   todo : SUBSET Nat, asks : SUBSET Ranges, tried : SUBSET Candidates]
    /\ chosen \in Answers \union {Nothing}
    /\ warned \subseteq [asker : Names, req : Requirements]

NotAgain == [node |-> NoNode, tried |-> {}]
NotAsking == [node |-> NoNode, candidate |-> Local, todo |-> {}, asks |-> {}, tried |-> {}]

---------------------------------------------------------------------------
(* The lock and the mirrors.                                               *)

\* What the lock holds of n, if it locked it from r.
LockedFrom(n, r) ==
    IF world.lock[n] # Nothing /\ world.lock[n].from = r THEN world.lock[n].commit ELSE NoCommit

LockedOf(r) == {LockedFrom(n, r) : n \in Names} \ {NoCommit}

Trusts(r) == ~fetchAll /\ LockedOf(r) # {} /\ LockedOf(r) \subseteq known[r].has

\* A mirror as a fetch, or a clone, leaves it, and then what is asked for by id.
Fetched(r) ==
    [Upstream[r] EXCEPT !.has = @ \union known[r].has \union (LockedOf(r) \intersect Served)]

Reachable(r) == Trusts(r) \/ r \notin world.offline

\* The mirrors of R opened: fetched unless trusted, and those that cannot be, failed.
Open(R) ==
    /\ opened' = opened \union {r \in R : Reachable(r)}
    /\ failed' = failed \union {r \in R : ~Reachable(r)}
    /\ trusted' = trusted \union {r \in R : Trusts(r)}
    /\ known' = [r \in Repos |-> IF r \in R /\ Reachable(r) /\ ~Trusts(r) THEN Fetched(r) ELSE known[r]]

\* The version the tags give a commit: the highest of them, or 0.
VersionOf(r, c) == Max({v \in Versions : known[r].tags[v] = c} \union {0})

Highest(r, C) ==
    CHOOSE c \in C : \A d \in C : \/ VersionOf(r, d) < VersionOf(r, c)
                                  \/ VersionOf(r, d) = VersionOf(r, c) /\ d <= c

\* What the lock names of the root's requirements, and what those needed when locked.
Follows[k \in 0 .. Cardinality(Names)] ==
    IF k = 0
    THEN {n \in Names : \E i \in DOMAIN world.root.requires :
              /\ world.root.requires[i].name = n
              /\ world.root.requires[i].from \in Repos
              /\ LockedFrom(n, world.root.requires[i].from) # NoCommit}
    ELSE Follows[k - 1] \union
         {n \in Names : \E m \in Follows[k - 1] :
              m \notin world.patched /\ world.lock[m] # Nothing /\ n \in world.lock[m].needs}

Reached ==
    {world.lock[n].from : n \in {m \in Names :
        m \in Follows[Cardinality(Names)] /\ m \notin world.patched /\ world.lock[m] # Nothing}}

---------------------------------------------------------------------------
(* What a requirement admits.                                              *)

LockedRev(req) ==
    IF /\ LockedFrom(req.name, req.from) # NoCommit
       /\ req.rev \in world.lock[req.name].revs
    THEN LockedFrom(req.name, req.from) ELSE NoCommit

\* The commit a branch names: the locked one while it is locked by that name.
BranchAt(req) ==
    IF LockedRev(req) \in known[req.from].has THEN LockedRev(req) ELSE known[req.from].branch[req.rev]

\* A commit no branch reaches is asked for by its id.
IdServed(req) ==
    req.commit \in known[req.from].has
    \/ (req.commit \in Served /\ req.from \notin world.offline)

Admitted(req) ==
    CASE req.by = "version" ->
            {c \in Commits : \E v \in req.versions : known[req.from].tags[v] = c}
      [] req.by = "branch" -> {BranchAt(req)} \ {NoCommit}
      [] req.by = "id" -> IF IdServed(req) THEN {req.commit} ELSE {}
      [] req.by = "path" -> {Local}

\* Naming a commit that is not there ends the pass, as does a second source.
NamesNothing(req) == req.by \in {"branch", "id"} /\ Admitted(req) = {}

Manifest(n, c) == IF c = Local THEN world.disk[n] ELSE world.manifest[c]

\* A dependency only features bring in.
Optional(manifest, n) == \E f \in DOMAIN manifest.features : n \in manifest.features[f]

\* The requirements of the manifest of a node, and which of them it brings.
Requires(node, c) ==
    IF node = Root THEN world.root.requires ELSE Manifest(node.name, c).requires

Brought(node, c) ==
    LET manifest == Manifest(node.name, c)
        Wanted(req) == IF node.is = "package" THEN ~Optional(manifest, req.name)
                       ELSE req.name \in manifest.features[node.feature]
    IN {i \in DOMAIN Requires(node, c) : node = Root \/ Wanted(Requires(node, c)[i])}

---------------------------------------------------------------------------
(* Opening mirrors, ahead of resolution and when it first needs one.       *)

Init ==
    /\ world \in Worlds
    /\ known = world.mirror
    /\ phase = "open"
    /\ fetchAll = FALSE
    /\ ahead = {}
    /\ opened = {} /\ trusted = {} /\ failed = {}
    /\ missed = FALSE
    /\ origins = [n \in Names |-> Nothing]
    /\ decided = [n \in Names |-> NoCommit]
    /\ replaced = {}
    /\ trail = <<>>
    /\ again = NotAgain
    /\ asking = NotAsking
    /\ chosen = Nothing
    /\ warned = {}

Prefetch ==
    /\ phase = "open"
    /\ Open(Reached \union ahead)
    /\ phase' = "solve"
    /\ asking' = [NotAsking EXCEPT !.node = Root, !.todo = Brought(Root, Local)]
    /\ UNCHANGED <<world, fetchAll, ahead, missed, origins, decided, replaced, trail,
                   again, chosen, warned>>

\* The requirement being read, and whether the root decides it instead.
Asked == Requires(asking.node, asking.candidate)[Min(asking.todo)]
Reading == phase = "solve" /\ asking.node # NoNode /\ asking.todo # {}
Patched == Asked.name \in world.patched
Overruled == asking.node # Root /\ Asked.name \in world.pinned
Read == Reading /\ ~Patched /\ ~Overruled
Available == Asked.from = Local \/ Asked.from \in opened

OpenMore ==
    /\ Read /\ ~Available /\ Asked.from \notin failed
    /\ Open({Asked.from})
    /\ UNCHANGED <<world, phase, fetchAll, ahead, missed, origins, decided, replaced,
                   solver, chosen, warned>>

---------------------------------------------------------------------------
(* Reading what a node depends on.                                         *)

Ask(node, range) == [node |-> node, range |-> range]

\* Records what the requirement asks: `more`, and its features at `range`.
Answered(more, range) ==
    asking' = [asking EXCEPT
        !.todo = @ \ {Min(@)},
        !.asks = @ \union more \union {Ask(Feature(Asked.name, f), range) : f \in Asked.features}]

RequirePatched ==
    /\ Reading /\ Patched
    /\ Answered({Ask(Package(Asked.name), {Local})}, {Local})
    /\ origins' = [origins EXCEPT ![Asked.name] = Local]
    /\ UNCHANGED <<world, known, phase, fetchAll, ahead, opened, trusted, failed, missed,
                   decided, replaced, trail, again, chosen, warned>>

RequireOverruled ==
    /\ Reading /\ ~Patched /\ Overruled
    /\ Answered({}, Candidates)
    /\ replaced' = replaced \union {[asker |-> asking.node.name, req |-> Asked]}
    /\ UNCHANGED <<world, known, phase, fetchAll, ahead, opened, trusted, failed, missed,
                   origins, decided, trail, again, chosen, warned>>

SecondSource == origins[Asked.name] \notin {Nothing, Asked.from}

\* A wrong reading: a mirror's branch is taken for upstream's.
MissesNever == FALSE

\* A branch the lock does not hold was asked of a mirror that was not fetched.
Misses == Asked.by = "branch" /\ LockedRev(Asked) = NoCommit /\ Asked.from \in trusted

Require ==
    /\ Read /\ Available /\ ~NamesNothing(Asked) /\ ~SecondSource
    /\ Answered({Ask(Package(Asked.name), Admitted(Asked))}, Admitted(Asked))
    /\ origins' = [origins EXCEPT ![Asked.name] = Asked.from]
    /\ missed' = (missed \/ Misses)
    /\ UNCHANGED <<world, known, phase, fetchAll, ahead, opened, trusted, failed, decided,
                   replaced, trail, again, chosen, warned>>

\* No mirror, nothing of that name, or a second source: the pass is over.
Break ==
    /\ Read
    /\ \/ ~Available /\ Asked.from \in failed
       \/ Available /\ (NamesNothing(Asked) \/ SecondSource)
    /\ phase' = "judge"
    /\ chosen' = Nothing
    /\ UNCHANGED <<world, known, fetchAll, pass, solver, warned>>

\* All is read: the decision stands until it is taken back.
Push ==
    /\ phase = "solve" /\ asking.node # NoNode /\ asking.todo = {}
    /\ trail' = Append(trail, [node |-> asking.node, candidate |-> asking.candidate,
                               asks |-> asking.asks, tried |-> asking.tried])
    /\ asking' = NotAsking
    /\ UNCHANGED <<world, known, phase, fetchAll, pass, again, chosen, warned>>

---------------------------------------------------------------------------
(* Deciding.                                                               *)

Deciding == phase = "solve" /\ asking.node = NoNode

\* Packages before features, then whichever has the fewest candidates left.
Before(m, n) ==
    \/ m.is = "package" /\ n.is = "feature"
    \/ m.is = n.is /\ Cardinality(Left(m)) < Cardinality(Left(n))

Urgent ==
    IF again.node # NoNode THEN {again.node}
    ELSE {n \in Undecided : \A m \in Undecided : ~Before(m, n)}

\* A wrong preference: the highest, whatever is locked.
PreferHighest(n, C) ==
    IF origins[n] = Local THEN IF Local \in C THEN Local ELSE NoCommit
    ELSE IF C \intersect known[origins[n]].has = {} THEN NoCommit
    ELSE Highest(origins[n], C \intersect known[origins[n]].has)

\* The locked commit while the range holds it, or else the highest.
Prefer(n, C) ==
    IF origins[n] = Local THEN IF Local \in C THEN Local ELSE NoCommit
    ELSE IF LockedFrom(n, origins[n]) \in C THEN LockedFrom(n, origins[n])
    ELSE IF C \intersect known[origins[n]].has = {} THEN NoCommit
    ELSE Highest(origins[n], C \intersect known[origins[n]].has)

\* A feature takes the candidate its package has.
Choice(node, C) ==
    IF node.is = "feature" /\ decided[node.name] \in C THEN decided[node.name]
    ELSE Prefer(node.name, C)

Declares(node, c) == node.is = "package" \/ node.feature \in DOMAIN Manifest(node.name, c).features

Decide ==
    /\ Deciding /\ ~Conflict
    /\ \E node \in Urgent :
        LET c == Choice(node, Left(node) \ again.tried) IN
        /\ c \in Left(node) \ again.tried
        /\ decided' = IF node.is = "package" THEN [decided EXCEPT ![node.name] = c] ELSE decided
        /\ IF Declares(node, c)
           THEN /\ asking' = [node |-> node, candidate |-> c, todo |-> Brought(node, c),
                              asks |-> IF node.is = "feature" THEN {Ask(Package(node.name), {c})} ELSE {},
                              tried |-> again.tried]
                /\ again' = NotAgain
           ELSE /\ again' = [node |-> node, tried |-> again.tried \union {c}]
                /\ UNCHANGED asking
    /\ UNCHANGED <<world, known, phase, fetchAll, ahead, opened, trusted, failed, missed,
                   origins, replaced, trail, chosen, warned>>

Stuck ==
    \/ Conflict
    \/ \E node \in Urgent : Choice(node, Left(node) \ again.tried) \notin Left(node) \ again.tried

TakeBack ==
    /\ Deciding /\ Stuck /\ Len(trail) > 1
    /\ LET last == trail[Len(trail)] IN
       again' = [node |-> last.node, tried |-> last.tried \union {last.candidate}]
    /\ trail' = SubSeq(trail, 1, Len(trail) - 1)
    /\ UNCHANGED <<world, known, phase, fetchAll, pass, asking, chosen, warned>>

NoSolution ==
    /\ Deciding /\ Stuck /\ Len(trail) = 1
    /\ phase' = "judge"
    /\ chosen' = Nothing
    /\ UNCHANGED <<world, known, fetchAll, pass, solver, warned>>

Packages == {n \in Names : Decided(Package(n))}
CandidateOf(n) == (CHOOSE i \in DOMAIN trail : trail[i].node = Package(n))

Solved ==
    /\ Deciding /\ ~Conflict /\ Undecided = {}
    /\ phase' = "judge"
    /\ chosen' = [n \in Packages |-> trail[CandidateOf(n)].candidate]
    /\ UNCHANGED <<world, known, fetchAll, pass, solver, warned>>

---------------------------------------------------------------------------
(* Judging a pass.                                                         *)

\* Whether the choice moves a package off the commit the lock holds.
Moved ==
    chosen # Nothing /\ \E n \in DOMAIN chosen :
        origins[n] # Local /\ LockedFrom(n, origins[n]) \notin {NoCommit, chosen[n]}

\* A wrong judgement: a package may move in the pass that trusts.
StaleUnmoved == trusted # {} /\ (missed \/ chosen = Nothing)

Stale == trusted # {} /\ (missed \/ chosen = Nothing \/ Moved)

Restart ==
    /\ phase = "judge" /\ Stale
    /\ phase' = "open"
    /\ fetchAll' = TRUE
    /\ ahead' = opened
    /\ opened' = {} /\ trusted' = {} /\ failed' = {}
    /\ missed' = FALSE
    /\ origins' = [n \in Names |-> Nothing]
    /\ decided' = [n \in Names |-> NoCommit]
    /\ replaced' = {}
    /\ trail' = <<>>
    /\ again' = NotAgain
    /\ asking' = NotAsking
    /\ chosen' = Nothing
    /\ UNCHANGED <<world, known, warned>>

\* A wrong comparison: a commit of another source meets a requirement.
MeetsAnywhere(req) == req.by = "version" \/ chosen[req.name] \in Admitted(req)

Meets(req) == req.from = origins[req.name] /\ chosen[req.name] \in Admitted(req)

Accept ==
    /\ phase = "judge" /\ ~Stale /\ chosen # Nothing
    /\ phase' = "done"
    /\ warned' = {it \in replaced : it.req.name \in DOMAIN chosen /\ ~Meets(it.req)}
    /\ UNCHANGED <<world, known, fetchAll, pass, solver, chosen>>

Refuse ==
    /\ phase = "judge" /\ ~Stale /\ chosen = Nothing
    /\ phase' = "failed"
    /\ UNCHANGED <<world, known, fetchAll, pass, solver, chosen, warned>>

Next ==
    \/ Prefetch \/ OpenMore
    \/ RequirePatched \/ RequireOverruled \/ Require \/ Break \/ Push
    \/ Decide \/ TakeBack \/ NoSolution \/ Solved
    \/ Restart \/ Accept \/ Refuse

Spec == Init /\ [][Next]_vars

---------------------------------------------------------------------------
(* Properties.                                                             *)

\* The requirements of the design that was chosen, with who asks.
InEffect ==
    UNION {{[asker |-> trail[i].node.name, req |-> Requires(trail[i].node, trail[i].candidate)[p]] :
               p \in Brought(trail[i].node, trail[i].candidate)} : i \in DOMAIN trail}

\* Once a package moves off its locked commit, every mirror the choice was
\* made from is as upstream had it (resolve: `stale`).
MovedOnlyIfFetched ==
    phase = "done" /\ Moved =>
        \A r \in opened : /\ known[r].tags = Upstream[r].tags
                           /\ known[r].branch = Upstream[r].branch

\* What is read at a branch the lock does not hold is upstream's commit, never
\* an older one of a mirror that was trusted (Provider::admitted: `missed`).
BranchesAreUpstreams ==
    phase = "done" =>
        \A it \in InEffect :
            /\ it.req.by = "branch" /\ LockedRev(it.req) = NoCommit
            /\ it.req.name \notin world.patched
            /\ it.asker # Nothing => it.req.name \notin world.pinned
            => chosen[it.req.name] = Upstream[it.req.from].branch[it.req.rev]

\* Each requirement of the design is met by what was chosen of its source, or
\* the root patches or pins the package and says that it is not met.
MetOrSaid ==
    phase = "done" =>
        \A it \in InEffect :
            \/ it.req.name \in world.patched
            \/ it.req.from = origins[it.req.name] /\ chosen[it.req.name] \in Admitted(it.req)
            \/ it.req.name \in world.pinned /\ it \in warned

\* A second source is refused only of a package the design being chosen has
\* from another: each requirement of a design names one source
\* (docs/packages.md, P25).
SecondSourceIsOfTheDesign ==
    Read /\ SecondSource =>
        \E req \in {it.req : it \in InEffect}
                \union {Requires(asking.node, asking.candidate)[p] :
                            p \in Brought(asking.node, asking.candidate)} :
            req.name = Asked.name /\ req.from # Asked.from

\* The lock is a design of its own: it answers each requirement of the root
\* and of what it holds, and the mirrors hold all it names.
LockAdmits(req) ==
    /\ req.name \notin world.patched
    /\ LockedFrom(req.name, req.from) # NoCommit
    /\ req.features = {}
    /\ \/ req.by = "version"
          /\ \E v \in req.versions :
                world.mirror[req.from].tags[v] = LockedFrom(req.name, req.from)
       \/ req.by = "branch" /\ LockedRev(req) # NoCommit
       \/ req.by = "id" /\ req.commit = LockedFrom(req.name, req.from)

LockHolds ==
    /\ \A i \in DOMAIN world.root.requires : LockAdmits(world.root.requires[i])
    /\ \A n \in Names : world.lock[n] # Nothing =>
        /\ world.lock[n].commit \in world.mirror[world.lock[n].from].has
        /\ LET requires == world.manifest[world.lock[n].commit].requires IN
           \A i \in DOMAIN requires : LockAdmits(requires[i])

\* A run with a lock that holds needs no network, and keeps to the lock
\* (docs/packages.md, P26).
LockNeedsNoNetwork ==
    LockHolds =>
        /\ phase # "failed" /\ ~fetchAll
        /\ known = world.mirror
        /\ phase = "done" => \A n \in DOMAIN chosen : chosen[n] = world.lock[n].commit
=============================================================================
