----------------------------- MODULE ResolveProofs -----------------------------
(***************************************************************************)
(* What a resolution that ends well has chosen, for any packages,          *)
(* repositories, locks and mirrors.                                        *)
(***************************************************************************)
EXTENDS Resolve, WellFoundedInduction, TLAPS

\* The root is decided first and never again, and what is still to be read is
\* of the node being read.
Shape ==
    /\ phase = "open" => trail = <<>> /\ asking = NotAsking
    /\ trail # <<>> => trail[1].node = Root
    /\ \A i \in DOMAIN trail : i # 1 => trail[i].node # Root
    /\ phase = "solve" => (trail = <<>> <=> asking.node = Root)
    /\ asking.node # NoNode => asking.todo \subseteq Brought(asking.node, asking.candidate)
    /\ asking.node = NoNode => asking.todo = {}

\* A mirror opened and not trusted is as upstream had it, and a pass ends well
\* only if it is not to be made again.
Fresh ==
    /\ \A r \in opened \ trusted :
        known[r].tags = Upstream[r].tags /\ known[r].branch = Upstream[r].branch
    /\ phase = "done" => chosen # Nothing /\ ~Stale

\* A requirement read is the patch's to meet, the root's to replace, or asked
\* of its package at what its source, open since, admits.
Settled(node, req, asks) ==
    \/ req.name \in world.patched
    \/ /\ node # Root /\ req.name \in world.pinned
       /\ [asker |-> node.name, req |-> req] \in replaced
    \/ /\ req.name \notin world.patched
       /\ Ask(Package(req.name), Admitted(req)) \in asks
       /\ origins[req.name] = req.from
       /\ req.from = Local \/ req.from \in opened
       /\ req.by = "branch" /\ LockedRev(req) = NoCommit /\ req.from \in trusted => missed

Sound ==
    /\ \A i \in DOMAIN trail : \A p \in Brought(trail[i].node, trail[i].candidate) :
        Settled(trail[i].node, Requires(trail[i].node, trail[i].candidate)[p], trail[i].asks)
    /\ asking.node # NoNode =>
        \A p \in Brought(asking.node, asking.candidate) \ asking.todo :
            Settled(asking.node, Requires(asking.node, asking.candidate)[p], asking.asks)

\* What was chosen is a candidate for each package asked for, in every range.
Solution ==
    phase \in {"judge", "done"} /\ chosen # Nothing =>
        /\ asking.node = NoNode /\ trail # <<>>
        /\ ~Conflict /\ Undecided = {}
        /\ chosen = [n \in Packages |-> trail[CandidateOf(n)].candidate]
        /\ phase = "done" =>
            warned = {it \in replaced : it.req.name \in DOMAIN chosen /\ ~Meets(it.req)}

-----------------------------------------------------------------------------
(* Types.                                                                  *)

LEMMA WorldTypes ==
    ASSUME NEW w \in Worlds
    PROVE  /\ w.root \in Manifests
           /\ w.manifest \in [Commits -> Manifests] /\ w.disk \in [Names -> Manifests]
           /\ w.pinned \subseteq Names /\ w.patched \subseteq Names
           /\ w.lock \in [Names -> Entries \union {Nothing}]
           /\ w.mirror \in [Repos -> Mirrors] /\ w.offline \subseteq Repos
<1> DEFINE World ==
      [root : Manifests, manifest : [Commits -> Manifests], disk : [Names -> Manifests],
       pinned : SUBSET Names, patched : SUBSET Names,
       lock : [Names -> Entries \union {Nothing}], mirror : [Repos -> Mirrors],
       offline : SUBSET Repos]
<1>1. w \in World BY WorldsAssumption
<1> HIDE DEF Manifests, Entries, Mirrors
<1> QED BY <1>1

LEMMA NodesApart ==
    /\ Root \notin Nodes /\ NoNode \notin Nodes /\ Root # NoNode
    /\ \A n \in Names : Package(n) \in Nodes /\ Package(n).name = n
    /\ \A n \in Names, f \in Features : Feature(n, f) \in Nodes
BY DEF Nodes, Root, NoNode, Package, Feature

\* What a node requires is typed, and by a path only what is on disk.
LEMMA RequiresTypes ==
    ASSUME world \in Worlds, NEW node \in Nodes \union {Root}, NEW c \in Candidates
    PROVE  /\ Requires(node, c) \in Seq(Requirements)
           /\ \A i \in DOMAIN Requires(node, c) :
                /\ Requires(node, c)[i] \in Requirements
                /\ Requires(node, c)[i].by = "path" <=> Requires(node, c)[i].from = Local
           /\ Brought(node, c) \subseteq DOMAIN Requires(node, c)
           /\ Brought(node, c) \subseteq Nat
<1> DEFINE All == {world.root} \union {world.manifest[d] : d \in Commits}
                  \union {world.disk[n] : n \in Names}
<1>1. PICK manifest \in All : Requires(node, c) = manifest.requires
  <2>1. CASE node = Root BY <2>1 DEF Requires
  <2>2. CASE node # Root
    <3>1. node.name \in Names BY <2>2 DEF Nodes
    <3>2. Manifest(node.name, c) \in All BY <3>1 DEF Manifest, Candidates
    <3> QED BY <2>2, <3>2 DEF Requires
  <2> QED BY <2>1, <2>2
<1>2. manifest \in Manifests BY WorldTypes
<1>3. manifest.requires \in Seq(Requirements) BY <1>2 DEF Manifests
<1>4. \A i \in DOMAIN manifest.requires :
        manifest.requires[i].by = "path" <=> manifest.requires[i].from = Local
  BY PathsAssumption
<1>5. DOMAIN Requires(node, c) \subseteq Nat BY <1>1, <1>3
<1>6. \A i \in DOMAIN manifest.requires : manifest.requires[i] \in Requirements BY <1>3
<1> QED BY <1>1, <1>3, <1>4, <1>5, <1>6 DEF Brought

LEMMA MinIsIn == ASSUME NEW S \in SUBSET Nat, S # {} PROVE Min(S) \in S
<1> DEFINE Less == {p \in Nat \X Nat : p[1] < p[2]}
<1>1. IsWellFoundedOn(Less, Nat) BY NatLessThanWellFounded DEF OpToRel
<1> HIDE DEF Less
<1>2. PICK n \in S : \A m \in S : <<m, n>> \notin Less BY <1>1, WFMin
<1>3. \A m \in S : ~ (m < n) BY <1>2 DEF Less
<1>4. \A m \in S : n <= m BY <1>3
<1> QED BY <1>4 DEF Min

\* The requirement being read is one of its node's that is still to be read.
LEMMA AskedTypes ==
    ASSUME TypeOK, Shape, Reading
    PROVE  /\ asking.node \in Nodes \union {Root}
           /\ Min(asking.todo) \in asking.todo
           /\ Min(asking.todo) \in Brought(asking.node, asking.candidate)
           /\ Asked \in Requirements
           /\ Asked.by = "path" <=> Asked.from = Local
<1>1. asking.node \in Nodes \union {Root} BY DEF TypeOK, Reading
<1>2. Min(asking.todo) \in asking.todo BY MinIsIn DEF TypeOK, Reading
<1>3. Min(asking.todo) \in Brought(asking.node, asking.candidate)
  BY <1>2 DEF Shape, Reading
<1>4. asking.candidate \in Candidates /\ world \in Worlds BY DEF TypeOK
<1> QED BY <1>1, <1>2, <1>3, <1>4, RequiresTypes DEF Asked

LEMMA FetchedTypes ==
    ASSUME TypeOK, NEW r \in Repos
    PROVE  /\ Fetched(r) \in Mirrors
           /\ Fetched(r).tags = Upstream[r].tags /\ Fetched(r).branch = Upstream[r].branch
<1>1. Upstream[r] \in Mirrors /\ known[r] \in Mirrors /\ Served \subseteq Commits
  BY UpstreamAssumption DEF TypeOK
<1> QED BY <1>1 DEF Fetched, Mirrors

\* Opening mirrors keeps the types, and those already open as they were.
LEMMA OpenKeeps ==
    ASSUME TypeOK, NEW R \in SUBSET Repos, Open(R)
    PROVE  /\ known' \in [Repos -> Mirrors]
           /\ opened' \subseteq Repos /\ trusted' \subseteq Repos /\ failed' \subseteq Repos
           /\ opened \subseteq opened'
           /\ \A r \in Repos \ R : known'[r] = known[r] /\ (r \in trusted' => r \in trusted)
           /\ \A r \in R : r \in opened' \ trusted' =>
                \/ r \in opened \ trusted /\ known'[r] = known[r]
                \/ known'[r].tags = Upstream[r].tags /\ known'[r].branch = Upstream[r].branch
<1>1. \A r \in Repos : Fetched(r) \in Mirrors
        /\ Fetched(r).tags = Upstream[r].tags /\ Fetched(r).branch = Upstream[r].branch
  BY FetchedTypes
<1>2. known' = [r \in Repos |-> IF r \in R /\ Reachable(r) /\ ~Trusts(r) THEN Fetched(r) ELSE known[r]]
  BY DEF Open
<1>3. known' \in [Repos -> Mirrors] BY <1>1, <1>2 DEF TypeOK
<1> QED BY <1>1, <1>2, <1>3 DEF Open, TypeOK

LEMMA AdmittedTypes ==
    ASSUME TypeOK, NEW req \in Requirements, req.by = "path" <=> req.from = Local
    PROVE  Admitted(req) \subseteq Candidates
<1>1. /\ req.by \in {"version", "branch", "id", "path"} /\ req.from \in Repos \union {Local}
      /\ req.rev \in Branches /\ req.versions \subseteq Versions
  BY DEF Requirements
<1>2. CASE req.by = "version" BY <1>2 DEF Admitted, Candidates
<1>3. CASE req.by = "path" BY <1>3 DEF Admitted, Candidates
<1>4. ASSUME req.by \in {"branch", "id"}
      PROVE  /\ known[req.from].has \subseteq Commits
             /\ known[req.from].branch[req.rev] \in Commits \union {NoCommit}
  <2>1. known[req.from] \in Mirrors BY <1>1, <1>4 DEF TypeOK
  <2> QED BY <1>1, <2>1 DEF Mirrors
<1>5. CASE req.by = "branch" BY <1>4, <1>5 DEF Admitted, BranchAt, Candidates
<1>6. CASE req.by = "id"
  BY <1>4, <1>6, UpstreamAssumption DEF Admitted, IdServed, Candidates
<1> QED BY <1>1, <1>2, <1>3, <1>5, <1>6

\* What a manifest says does not change while it is read.
LEMMA ManifestsStay ==
    ASSUME world' = world, NEW node, NEW c
    PROVE  Brought(node, c)' = Brought(node, c) /\ Requires(node, c)' = Requires(node, c)
BY DEF Brought, Requires, Manifest, Optional

LEMMA AsksTypes ==
    ASSUME TypeOK
    PROVE  Asks \subseteq Ranges /\ Undecided \subseteq Nodes
<1>1. \A i \in DOMAIN trail : trail[i] \in Decisions BY DEF TypeOK
<1>2. \A i \in DOMAIN trail : trail[i].asks \subseteq Ranges BY <1>1 DEF Decisions
<1>3. Asks \subseteq Ranges BY <1>2 DEF Asks
<1> QED BY <1>3 DEF Undecided, Ranges

\* What a step that reads one requirement does to what is being read.
LEMMA AnsweredTypes ==
    ASSUME TypeOK, Shape, Reading, NEW more \in SUBSET Ranges,
           NEW range \in SUBSET Candidates, Answered(more, range)
    PROVE  /\ asking' \in [node : Nodes \union {Root, NoNode}, candidate : Candidates,
                           todo : SUBSET Nat, asks : SUBSET Ranges, tried : SUBSET Candidates]
           /\ asking'.node = asking.node /\ asking'.candidate = asking.candidate
           /\ asking'.todo = asking.todo \ {Min(asking.todo)}
           /\ asking.asks \union more \subseteq asking'.asks
<1> DEFINE features == {Ask(Feature(Asked.name, f), range) : f \in Asked.features}
<1>1. Asked.name \in Names /\ Asked.features \subseteq Features
  BY AskedTypes DEF Requirements
<1>2. features \subseteq Ranges BY <1>1, NodesApart DEF Ask, Ranges
<1>3. asking' = [asking EXCEPT !.todo = @ \ {Min(@)}, !.asks = @ \union more \union features]
  BY DEF Answered
<1> HIDE DEF features
<1> QED BY <1>2, <1>3 DEF TypeOK

LEMMA EmptyTypes ==
    /\ NotAgain \in [node : Nodes \union {NoNode}, tried : SUBSET Candidates]
    /\ NotAsking \in [node : Nodes \union {Root, NoNode}, candidate : Candidates,
                      todo : SUBSET Nat, asks : SUBSET Ranges, tried : SUBSET Candidates]
    /\ <<>> \in Seq(Decisions)
BY DEF NotAgain, NotAsking, Candidates

LEMMA TypeInit == Init => TypeOK /\ Shape
<1>1. SUFFICES ASSUME Init PROVE TypeOK /\ Shape OBVIOUS
<1>2. known \in [Repos -> Mirrors] BY <1>1, WorldTypes DEF Init
<1>3. TypeOK BY <1>1, <1>2, EmptyTypes DEF Init, TypeOK
<1>4. Shape BY <1>1 DEF Init, Shape, NotAsking
<1> QED BY <1>3, <1>4

LEMMA TypeNext == ASSUME TypeOK, Shape, [Next]_vars PROVE TypeOK'
<1> USE DEF pass, solver
<1>1. CASE Prefetch
  <2>1. Reached \union ahead \subseteq Repos
    <3>1. world.lock \in [Names -> Entries \union {Nothing}] BY WorldTypes DEF TypeOK
    <3>2. \A n \in Names : world.lock[n] # Nothing => world.lock[n].from \in Repos
      BY <3>1 DEF Entries
    <3> QED BY <3>2 DEF Reached, TypeOK
  <2>2. Brought(Root, Local) \subseteq Nat BY RequiresTypes DEF TypeOK, Candidates
  <2>3. asking' \in [node : Nodes \union {Root, NoNode}, candidate : Candidates,
                     todo : SUBSET Nat, asks : SUBSET Ranges, tried : SUBSET Candidates]
    BY <1>1, <2>2 DEF Prefetch, NotAsking, Candidates
  <2>4. Open(Reached \union ahead) BY <1>1 DEF Prefetch
  <2> QED BY <1>1, <2>1, <2>3, <2>4, OpenKeeps DEF Prefetch, TypeOK
<1>2. CASE OpenMore
  <2>1. Asked.from \in Repos
    BY <1>2, AskedTypes DEF OpenMore, Read, Available, Requirements
  <2>2. Open({Asked.from}) BY <1>2 DEF OpenMore
  <2> QED BY <1>2, <2>1, <2>2, OpenKeeps DEF OpenMore, TypeOK
<1>3. CASE RequirePatched
  <2>1. Reading /\ Answered({Ask(Package(Asked.name), {Local})}, {Local})
        /\ origins' = [origins EXCEPT ![Asked.name] = Local]
    BY <1>3 DEF RequirePatched
  <2>2. Asked.name \in Names BY <2>1, AskedTypes DEF Requirements
  <2>3. {Local} \subseteq Candidates BY DEF Candidates
  <2>4. {Ask(Package(Asked.name), {Local})} \subseteq Ranges
    BY <2>2, <2>3, NodesApart DEF Ask, Ranges
  <2>5. asking' \in [node : Nodes \union {Root, NoNode}, candidate : Candidates,
                     todo : SUBSET Nat, asks : SUBSET Ranges, tried : SUBSET Candidates]
    BY <2>1, <2>3, <2>4, AnsweredTypes
  <2>6. origins' \in [Names -> Repos \union {Local, Nothing}] BY <2>1, <2>2 DEF TypeOK
  <2> QED BY <1>3, <2>5, <2>6 DEF RequirePatched, TypeOK
<1>4. CASE RequireOverruled
  <2>1. Reading /\ Answered({}, Candidates) /\ Overruled BY <1>4 DEF RequireOverruled
  <2>2. asking.node.name \in Names /\ Asked \in Requirements
    BY <2>1, AskedTypes DEF Overruled, Nodes
  <2>3. asking' \in [node : Nodes \union {Root, NoNode}, candidate : Candidates,
                     todo : SUBSET Nat, asks : SUBSET Ranges, tried : SUBSET Candidates]
    BY <2>1, AnsweredTypes
  <2>4. replaced' \subseteq [asker : Names, req : Requirements]
    BY <1>4, <2>2 DEF RequireOverruled, TypeOK
  <2> QED BY <1>4, <2>3, <2>4 DEF RequireOverruled, TypeOK
<1>5. CASE Require
  <2>1. Reading /\ Answered({Ask(Package(Asked.name), Admitted(Asked))}, Admitted(Asked))
        /\ origins' = [origins EXCEPT ![Asked.name] = Asked.from]
        /\ missed' = (missed \/ Misses)
    BY <1>5 DEF Require, Read
  <2>2. Asked.name \in Names /\ Asked.from \in Repos \union {Local}
    BY <2>1, AskedTypes DEF Requirements
  <2>3. Admitted(Asked) \subseteq Candidates BY <2>1, AskedTypes, AdmittedTypes
  <2>4. {Ask(Package(Asked.name), Admitted(Asked))} \subseteq Ranges
    BY <2>2, <2>3, NodesApart DEF Ask, Ranges
  <2>5. missed' \in BOOLEAN BY <2>1 DEF TypeOK
  <2>6. asking' \in [node : Nodes \union {Root, NoNode}, candidate : Candidates,
                     todo : SUBSET Nat, asks : SUBSET Ranges, tried : SUBSET Candidates]
    BY <2>1, <2>3, <2>4, AnsweredTypes
  <2>7. origins' \in [Names -> Repos \union {Local, Nothing}] BY <2>1, <2>2 DEF TypeOK
  <2> QED BY <1>5, <2>5, <2>6, <2>7 DEF Require, TypeOK
<1>6. CASE Push
  <2>1. asking.node \in Nodes \union {Root} BY <1>6 DEF Push, TypeOK
  <2>2. [node |-> asking.node, candidate |-> asking.candidate,
         asks |-> asking.asks, tried |-> asking.tried] \in Decisions
    BY <2>1 DEF TypeOK, Decisions
  <2>3. trail' \in Seq(Decisions) BY <1>6, <2>2 DEF Push, TypeOK
  <2> QED BY <1>6, <2>3 DEF Push, TypeOK, NotAsking, Candidates
<1>7. CASE Decide
  <2>1. PICK node \in Urgent :
          LET c == Choice(node, Left(node) \ again.tried) IN
          /\ c \in Left(node) \ again.tried
          /\ decided' = IF node.is = "package" THEN [decided EXCEPT ![node.name] = c] ELSE decided
          /\ IF Declares(node, c)
             THEN /\ asking' = [node |-> node, candidate |-> c, todo |-> Brought(node, c),
                                asks |-> IF node.is = "feature" THEN {Ask(Package(node.name), {c})} ELSE {},
                                tried |-> again.tried]
                  /\ again' = NotAgain
             ELSE /\ again' = [node |-> node, tried |-> again.tried \union {c}]
                  /\ UNCHANGED asking
    BY <1>7 DEF Decide
  <2> DEFINE c == Choice(node, Left(node) \ again.tried)
  <2>2. c \in Candidates BY <2>1 DEF Left
  <2>3. node \in Nodes BY AsksTypes DEF Urgent, TypeOK
  <2>4. Brought(node, c) \subseteq Nat BY <2>2, <2>3, RequiresTypes DEF TypeOK
  <2>5. {Ask(Package(node.name), {c})} \subseteq Ranges
    BY <2>2, <2>3, NodesApart DEF Ask, Ranges, Nodes
  <2> HIDE DEF c
  <2>6. node.name \in Names BY <2>3 DEF Nodes
  <2>7. decided' \in [Names -> Candidates \union {NoCommit}]
    BY <2>1, <2>2, <2>6 DEF TypeOK, c
  <2>8. again.tried \subseteq Candidates BY DEF TypeOK
  <2>9. CASE Declares(node, c)
    <3>1. asking' = [node |-> node, candidate |-> c, todo |-> Brought(node, c),
                     asks |-> IF node.is = "feature" THEN {Ask(Package(node.name), {c})} ELSE {},
                     tried |-> again.tried] /\ again' = NotAgain
      BY <2>1, <2>9 DEF c
    <3>2. asking' \in [node : Nodes \union {Root, NoNode}, candidate : Candidates,
                       todo : SUBSET Nat, asks : SUBSET Ranges, tried : SUBSET Candidates]
      BY <2>2, <2>3, <2>4, <2>5, <2>8, <3>1
    <3> QED BY <1>7, <2>7, <3>1, <3>2 DEF Decide, TypeOK, NotAgain
  <2>10. CASE ~Declares(node, c)
    <3>1. again' = [node |-> node, tried |-> again.tried \union {c}] /\ asking' = asking
      BY <2>1, <2>10 DEF c
    <3> QED BY <1>7, <2>2, <2>3, <2>7, <2>8, <3>1 DEF Decide, TypeOK
  <2> QED BY <2>9, <2>10
<1>8. CASE TakeBack
  <2>1. Len(trail) \in Nat /\ Len(trail) > 1 /\ Len(trail) \in DOMAIN trail
    BY <1>8 DEF TakeBack, TypeOK
  <2>2. trail[Len(trail)] \in Decisions /\ trail[Len(trail)].node # Root
    BY <2>1 DEF TypeOK, Shape
  <2>3. trail' \in Seq(Decisions) BY <1>8, <2>1 DEF TakeBack, TypeOK
  <2>4. again' \in [node : Nodes \union {NoNode}, tried : SUBSET Candidates]
    BY <1>8, <2>2 DEF TakeBack, Decisions
  <2> QED BY <1>8, <2>3, <2>4 DEF TakeBack, TypeOK
<1>9. CASE Solved
  <2>1. \A n \in Packages : CandidateOf(n) \in DOMAIN trail
    BY DEF Packages, Decided, CandidateOf
  <2>2. \A i \in DOMAIN trail : trail[i] \in Decisions BY DEF TypeOK
  <2>3. \A n \in Packages : trail[CandidateOf(n)].candidate \in Candidates
    BY <2>1, <2>2 DEF Decisions
  <2>4. Packages \subseteq Names BY DEF Packages
  <2>5. chosen' \in [Packages -> Candidates] BY <1>9, <2>3 DEF Solved
  <2>6. chosen' \in Answers BY <2>4, <2>5 DEF Answers
  <2> QED BY <1>9, <2>6 DEF Solved, TypeOK
<1>10. CASE Break \/ NoSolution BY <1>10 DEF Break, NoSolution, TypeOK
<1>11. CASE Restart
  BY <1>11, EmptyTypes DEF Restart, TypeOK
<1>12. CASE Accept \/ Refuse BY <1>12 DEF Accept, Refuse, TypeOK
<1>13. CASE UNCHANGED vars BY <1>13 DEF vars, TypeOK
<1> QED BY <1>1, <1>2, <1>3, <1>4, <1>5, <1>6, <1>7, <1>8, <1>9, <1>10, <1>11, <1>12, <1>13
        DEF Next

LEMMA ShapeNext == ASSUME TypeOK, Shape, [Next]_vars PROVE Shape'
<1> USE DEF pass, solver
<1>1. CASE Prefetch
  <2>1. /\ trail = <<>> /\ trail' = trail /\ phase' = "solve" /\ world' = world
        /\ asking' = [NotAsking EXCEPT !.node = Root, !.todo = Brought(Root, Local)]
    BY <1>1 DEF Prefetch, Shape
  <2>2. asking'.node = Root /\ asking'.candidate = Local /\ asking'.todo = Brought(Root, Local)
    BY <2>1 DEF NotAsking
  <2>3. Brought(Root, Local)' = Brought(Root, Local) BY <2>1, ManifestsStay
  <2> QED BY <2>1, <2>2, <2>3, NodesApart DEF Shape
<1>2. CASE RequirePatched \/ RequireOverruled \/ Require
  <2>1. Reading /\ trail' = trail /\ phase' = phase /\ world' = world
    BY <1>2 DEF RequirePatched, RequireOverruled, Require, Read
  <2>2. /\ asking'.node = asking.node /\ asking'.candidate = asking.candidate
        /\ asking'.todo \subseteq asking.todo
    BY <1>2 DEF RequirePatched, RequireOverruled, Require, Read, Answered, TypeOK
  <2>3. Brought(asking.node, asking.candidate)' = Brought(asking.node, asking.candidate)
    BY <2>1, <2>2, ManifestsStay
  <2> QED BY <2>1, <2>2, <2>3 DEF Shape, Reading
<1>3. CASE Push
  <2>1. /\ trail' = Append(trail, [node |-> asking.node, candidate |-> asking.candidate,
                                    asks |-> asking.asks, tried |-> asking.tried])
        /\ asking' = NotAsking /\ phase' = "solve" /\ phase = "solve"
    BY <1>3 DEF Push
  <2>2. trail' # <<>> /\ DOMAIN trail' = 1 .. (Len(trail) + 1) BY <2>1 DEF TypeOK
  <2>3. \A i \in DOMAIN trail : trail'[i] = trail[i] BY <2>1 DEF TypeOK
  <2>4. trail'[Len(trail) + 1].node = asking.node BY <2>1 DEF TypeOK
  <2>5. DOMAIN trail = 1 .. Len(trail) /\ Len(trail) \in Nat /\ (trail = <<>> <=> Len(trail) = 0)
    BY DEF TypeOK
  <2>6. asking'.node = NoNode /\ asking'.todo = {} BY <2>1 DEF NotAsking
  <2> QED BY <2>1, <2>2, <2>3, <2>4, <2>5, <2>6, NodesApart DEF Shape
<1>4. CASE Decide
  <2>1. PICK node \in Urgent, c \in Candidates :
          \/ asking' = asking
          \/ asking'.node = node /\ asking'.candidate = c /\ asking'.todo = Brought(node, c)
    BY <1>4 DEF Decide, Left
  <2>2. node \in Nodes BY AsksTypes DEF Urgent, TypeOK
  <2>3. trail' = trail /\ phase' = phase /\ phase = "solve" /\ world' = world
        /\ asking.node = NoNode
    BY <1>4 DEF Decide, Deciding
  <2>4. Brought(node, c)' = Brought(node, c) BY <2>3, ManifestsStay
  <2>5. trail # <<>> BY <2>3, NodesApart DEF Shape
  <2>6. CASE asking' = asking BY <2>3, <2>6, ManifestsStay DEF Shape
  <2>7. CASE asking'.node = node /\ asking'.candidate = c /\ asking'.todo = Brought(node, c)
    <3>1. asking'.node # Root /\ asking'.node # NoNode BY <2>2, <2>7, NodesApart
    <3>2. Brought(asking.node, asking.candidate)' = Brought(node, c) BY <2>3, <2>7, ManifestsStay
    <3> QED BY <2>3, <2>5, <2>7, <3>1, <3>2 DEF Shape
  <2> QED BY <2>1, <2>6, <2>7
<1>5. CASE TakeBack
  <2>1. /\ trail' = SubSeq(trail, 1, Len(trail) - 1) /\ Len(trail) > 1
        /\ asking' = asking /\ phase' = phase /\ phase = "solve" /\ asking.node = NoNode
        /\ world' = world
    BY <1>5 DEF TakeBack, Deciding
  <2>2. Len(trail) \in Nat /\ DOMAIN trail' = 1 .. (Len(trail) - 1) /\ trail' # <<>>
    <3>1. trail \in Seq(Decisions) /\ Len(trail) \in Nat BY DEF TypeOK
    <3>2. trail' \in Seq(Decisions) /\ Len(trail') = Len(trail) - 1 BY <2>1, <3>1
    <3>3. DOMAIN trail' = 1 .. Len(trail') BY <3>2
    <3>4. Len(trail') # 0 BY <2>1, <3>1, <3>2
    <3>5. Len(<<>>) = 0 OBVIOUS
    <3> QED BY <3>1, <3>2, <3>3, <3>4, <3>5
  <2>3. \A i \in 1 .. (Len(trail) - 1) : trail'[i] = trail[i] /\ i \in DOMAIN trail
    BY <2>1 DEF TypeOK
  <2>4. trail # <<>> BY <2>1 DEF TypeOK
  <2> QED BY <2>1, <2>2, <2>3, <2>4, NodesApart DEF Shape
<1>6. CASE OpenMore \/ Break \/ NoSolution \/ Solved \/ Accept \/ Refuse
  <2>1. /\ UNCHANGED <<trail, asking, world>> /\ phase' # "open"
        /\ phase' = "solve" => phase = "solve"
    BY <1>6 DEF OpenMore, Break, NoSolution, Solved, Accept, Refuse, Read, Reading
  <2>2. Brought(asking.node, asking.candidate)' = Brought(asking.node, asking.candidate)
    BY <2>1, ManifestsStay
  <2> QED BY <2>1, <2>2 DEF Shape
<1>7. CASE Restart BY <1>7 DEF Restart, Shape, NotAsking
<1>8. CASE UNCHANGED vars
  <2>1. Brought(asking.node, asking.candidate)' = Brought(asking.node, asking.candidate)
    BY <1>8, ManifestsStay DEF vars
  <2> QED BY <1>8, <2>1 DEF vars, Shape
<1> QED BY <1>1, <1>2, <1>3, <1>4, <1>5, <1>6, <1>7, <1>8 DEF Next

-----------------------------------------------------------------------------
(* Mirrors.                                                                *)

LEMMA FreshNext == ASSUME TypeOK, Shape, Fresh, [Next]_vars PROVE Fresh'
<1> USE DEF pass, solver
<1>1. ASSUME NEW R \in SUBSET Repos, Open(R), phase' # "done" PROVE Fresh'
  <2>1. ASSUME NEW r \in opened' \ trusted'
        PROVE  known'[r].tags = Upstream[r].tags /\ known'[r].branch = Upstream[r].branch
    <3>1. CASE r \in R
      <4>1. \/ r \in opened \ trusted /\ known'[r] = known[r]
            \/ known'[r].tags = Upstream[r].tags /\ known'[r].branch = Upstream[r].branch
        BY <1>1, <2>1, <3>1, OpenKeeps
      <4> QED BY <4>1 DEF Fresh
    <3>2. CASE r \notin R
      <4>1. r \in opened \ trusted /\ known'[r] = known[r]
        BY <1>1, <2>1, <3>2, OpenKeeps DEF Open
      <4> QED BY <4>1 DEF Fresh
    <3> QED BY <3>1, <3>2
  <2> QED BY <1>1, <2>1 DEF Fresh
<1>2. CASE Prefetch
  <2>1. Reached \union ahead \subseteq Repos
    <3>1. world.lock \in [Names -> Entries \union {Nothing}] BY WorldTypes DEF TypeOK
    <3>2. \A n \in Names : world.lock[n] # Nothing => world.lock[n].from \in Repos
      BY <3>1 DEF Entries
    <3> QED BY <3>2 DEF Reached, TypeOK
  <2> QED BY <1>1, <1>2, <2>1 DEF Prefetch
<1>3. CASE OpenMore
  <2>1. Asked.from \in Repos
    BY <1>3, AskedTypes DEF OpenMore, Read, Available, Requirements
  <2> QED BY <1>1, <1>3, <2>1 DEF OpenMore, Read, Reading
<1>4. CASE RequirePatched \/ RequireOverruled \/ Require \/ Push \/ Decide \/ TakeBack
           \/ Break \/ NoSolution \/ Solved \/ Refuse
  <2>1. UNCHANGED <<opened, trusted, known>> /\ phase' # "done"
    BY <1>4
    DEF RequirePatched, RequireOverruled, Require, Push, Decide, TakeBack, Break,
        NoSolution, Solved, Refuse, Read, Reading, Deciding
  <2> QED BY <2>1 DEF Fresh
<1>5. CASE Restart BY <1>5 DEF Restart, Fresh
<1>6. CASE Accept \/ UNCHANGED vars
  <2>1. UNCHANGED <<opened, trusted, known, missed, chosen, origins, world>>
    BY <1>6 DEF Accept, vars
  <2>2. Stale' = Stale BY <2>1 DEF Stale, Moved, LockedFrom
  <2>3. phase' = "done" => chosen # Nothing /\ ~Stale BY <1>6 DEF Accept, vars, Fresh
  <2> QED BY <2>1, <2>2, <2>3 DEF Fresh
<1> QED BY <1>2, <1>3, <1>4, <1>5, <1>6 DEF Next

\* A resolution that moves a package off its locked commit has been made over
\* mirrors that are as upstream has them, whatever the lock and the mirrors.
THEOREM NoMoveUnfetched == Spec => []MovedOnlyIfFetched
<1>1. Init => TypeOK /\ Shape /\ Fresh BY TypeInit DEF Init, Fresh
<1>2. TypeOK /\ Shape /\ Fresh /\ [Next]_vars => (TypeOK /\ Shape /\ Fresh)'
  BY TypeNext, ShapeNext, FreshNext
<1>3. TypeOK /\ Fresh => MovedOnlyIfFetched
  <2>1. SUFFICES ASSUME TypeOK, Fresh, phase = "done", Moved, NEW r \in opened
                 PROVE  known[r].tags = Upstream[r].tags /\ known[r].branch = Upstream[r].branch
    BY DEF MovedOnlyIfFetched
  <2>2. trusted = {} BY <2>1 DEF Fresh, Stale
  <2> QED BY <2>1, <2>2 DEF Fresh
<1> QED BY <1>1, <1>2, <1>3, PTL DEF Spec

-----------------------------------------------------------------------------
(* Requirements.                                                           *)

LEMMA AdmittedStays ==
    ASSUME world' = world, NEW req,
           req.by = "path" \/ known'[req.from] = known[req.from]
    PROVE  Admitted(req)' = Admitted(req) /\ LockedRev(req)' = LockedRev(req)
<1>1. LockedRev(req)' = LockedRev(req) BY DEF LockedRev, LockedFrom
<1>2. CASE req.by = "path" BY <1>1, <1>2 DEF Admitted
<1>3. CASE known'[req.from] = known[req.from]
  BY <1>1, <1>3 DEF Admitted, BranchAt, IdServed
<1> QED BY <1>1, <1>2, <1>3

\* How a step leaves what is settled settled: no mirror open is fetched again,
\* no origin known changes but a patched package's, and nothing is forgotten.
Kept ==
    /\ world' = world
    /\ opened \subseteq opened' /\ replaced \subseteq replaced' /\ (missed => missed')
    /\ \A r \in opened : known'[r] = known[r] /\ (r \in trusted' => r \in trusted)
    /\ \A n \in Names \ world.patched : origins[n] # Nothing => origins'[n] = origins[n]

LEMMA SettledStays ==
    ASSUME TypeOK, Kept, NEW node, NEW req \in Requirements,
           req.by = "path" <=> req.from = Local,
           NEW asks, NEW more, asks \subseteq more, Settled(node, req, asks)
    PROVE  Settled(node, req, more)'
<1>1. CASE req.name \in world.patched BY <1>1 DEF Settled, Kept
<1>2. CASE /\ node # Root /\ req.name \in world.pinned
           /\ [asker |-> node.name, req |-> req] \in replaced
  BY <1>2 DEF Settled, Kept
<1>3. CASE /\ req.name \notin world.patched
           /\ Ask(Package(req.name), Admitted(req)) \in asks
           /\ origins[req.name] = req.from
           /\ req.from = Local \/ req.from \in opened
           /\ req.by = "branch" /\ LockedRev(req) = NoCommit /\ req.from \in trusted => missed
  <2>1. req.name \in Names /\ req.from \in Repos \union {Local} BY DEF Requirements
  <2>2. req.from # Nothing BY <2>1, MarkersAssumption
  <2>3. origins'[req.name] = req.from BY <1>3, <2>1, <2>2 DEF Kept
  <2>4. Admitted(req)' = Admitted(req) /\ LockedRev(req)' = LockedRev(req)
    BY <1>3, AdmittedStays DEF Kept
  <2>5. Ask(Package(req.name), Admitted(req)') \in more BY <1>3, <2>4
  <2>6. req.by = "branch" => req.from \in opened BY <1>3
  <2> QED BY <1>3, <2>3, <2>4, <2>5, <2>6 DEF Settled, Kept, Ask, Package
<1> QED BY <1>1, <1>2, <1>3 DEF Settled

\* The same of a requirement in its manifest.
LEMMA BroughtStays ==
    ASSUME TypeOK, Kept, NEW node \in Nodes \union {Root}, NEW c \in Candidates,
           NEW p \in Brought(node, c), NEW asks, NEW more, asks \subseteq more,
           Settled(node, Requires(node, c)[p], asks)
    PROVE  Settled(node, Requires(node, c)[p], more)'
<1>1. PICK req : req = Requires(node, c)[p] OBVIOUS
<1>2. req \in Requirements /\ (req.by = "path" <=> req.from = Local)
  <2>1. world \in Worlds BY DEF TypeOK
  <2>2. p \in DOMAIN Requires(node, c) BY <2>1, RequiresTypes
  <2> QED BY <1>1, <2>1, <2>2, RequiresTypes
<1>3. Settled(node, req, more)' BY <1>1, <1>2, SettledStays
<1>4. Requires(node, c)' = Requires(node, c) BY ManifestsStay DEF Kept
<1> QED BY <1>1, <1>3, <1>4

\* What is settled of every decision that stands stays so.
LEMMA TrailStays ==
    ASSUME TypeOK, Sound, Kept, NEW i \in DOMAIN trail, trail'[i] = trail[i],
           NEW p, p \in Brought(trail[i].node, trail[i].candidate)'
    PROVE  Settled(trail[i].node, Requires(trail[i].node, trail[i].candidate)[p], trail[i].asks)'
<1>1. PICK node, c, asks : node = trail[i].node /\ c = trail[i].candidate /\ asks = trail[i].asks
  OBVIOUS
<1>2. trail[i] \in Decisions BY DEF TypeOK
<1>3. node \in Nodes \union {Root} /\ c \in Candidates BY <1>1, <1>2 DEF Decisions
<1>4. Brought(node, c)' = Brought(node, c) BY ManifestsStay DEF Kept
<1>5. p \in Brought(node, c) BY <1>1, <1>4
<1>6. Settled(node, Requires(node, c)[p], asks) BY <1>1, <1>5 DEF Sound
<1>7. Settled(node, Requires(node, c)[p], asks)' BY <1>3, <1>5, <1>6, BroughtStays
<1> QED BY <1>1, <1>7

\* And so is what was read of the node being read, more being asked of it.
LEMMA AskingStays ==
    ASSUME TypeOK, Shape, Sound, Kept, asking.node # NoNode, NEW p,
           p \in Brought(asking.node, asking.candidate) \ asking.todo,
           asking'.node = asking.node, asking'.candidate = asking.candidate,
           asking.asks \subseteq asking'.asks
    PROVE  Settled(asking.node, Requires(asking.node, asking.candidate)[p], asking.asks)'
<1>1. PICK node, c, asks, more : node = asking.node /\ c = asking.candidate
                                 /\ asks = asking.asks /\ more = asking'.asks
  OBVIOUS
<1>2. node \in Nodes \union {Root} /\ c \in Candidates BY <1>1 DEF TypeOK
<1>3. p \in Brought(node, c) /\ Settled(node, Requires(node, c)[p], asks)
  BY <1>1 DEF Sound
<1>4. Settled(node, Requires(node, c)[p], more)' BY <1>1, <1>2, <1>3, BroughtStays
<1> QED BY <1>1, <1>4

LEMMA ReadsOn ==
    ASSUME TypeOK, Shape, Sound, Kept, Reading, trail' = trail,
           asking'.node = asking.node, asking'.candidate = asking.candidate,
           asking'.todo = asking.todo \ {Min(asking.todo)},
           asking.asks \subseteq asking'.asks,
           NEW node, NEW req, NEW more,
           node = asking.node, req = Asked, more = asking'.asks, Settled(node, req, more)'
    PROVE  Sound'
<1>1. ASSUME NEW i \in DOMAIN trail', NEW p,
             p \in Brought(trail[i].node, trail[i].candidate)'
      PROVE  Settled(trail[i].node, Requires(trail[i].node, trail[i].candidate)[p], trail[i].asks)'
  BY <1>1, TrailStays
<1>2. ASSUME NEW p, p \in (Brought(asking.node, asking.candidate) \ asking.todo)'
      PROVE  Settled(asking.node, Requires(asking.node, asking.candidate)[p], asking.asks)'
  <2>1. PICK c : c = asking.candidate OBVIOUS
  <2>2. Brought(node, c)' = Brought(node, c) /\ Requires(node, c)' = Requires(node, c)
    BY ManifestsStay DEF Kept
  <2>3. p \in Brought(asking.node, asking.candidate) BY <1>2, <2>1, <2>2
  <2>4. CASE p \notin asking.todo BY <2>3, <2>4, AskingStays DEF Reading
  <2>5. CASE p = Min(asking.todo)
    <3>1. req = Requires(node, c)[p] BY <2>1, <2>5 DEF Asked
    <3>2. Settled(node, Requires(node, c)[p], more)' BY <2>2, <3>1
    <3> QED BY <2>1, <3>2
  <2> QED BY <1>2, <2>4, <2>5
<1> QED BY <1>1, <1>2 DEF Sound

LEMMA SoundInit == Init => Sound
BY DEF Init, Sound, NotAsking

LEMMA SoundNext == ASSUME TypeOK, Shape, Sound, [Next]_vars PROVE Sound'
<1> USE DEF pass, solver
<1>1. CASE Prefetch
  <2>1. /\ trail' = <<>> /\ world' = world
        /\ asking' = [NotAsking EXCEPT !.node = Root, !.todo = Brought(Root, Local)]
    BY <1>1 DEF Prefetch, Shape
  <2>2. asking'.node = Root /\ asking'.candidate = Local /\ asking'.todo = Brought(Root, Local)
    BY <2>1 DEF NotAsking
  <2>3. Brought(Root, Local)' = Brought(Root, Local) BY <2>1, ManifestsStay
  <2> QED BY <2>1, <2>2, <2>3 DEF Sound
<1>2. ASSUME Kept, UNCHANGED <<trail, asking>> PROVE Sound'
  <2>1. ASSUME NEW i \in DOMAIN trail', NEW p,
               p \in Brought(trail[i].node, trail[i].candidate)'
        PROVE  Settled(trail[i].node, Requires(trail[i].node, trail[i].candidate)[p], trail[i].asks)'
    BY <1>2, <2>1, TrailStays
  <2>2. ASSUME NEW p, asking.node # NoNode,
               p \in (Brought(asking.node, asking.candidate) \ asking.todo)'
        PROVE  Settled(asking.node, Requires(asking.node, asking.candidate)[p], asking.asks)'
    <3>1. Brought(asking.node, asking.candidate)' = Brought(asking.node, asking.candidate)
      BY <1>2, ManifestsStay DEF Kept
    <3> QED BY <1>2, <2>2, <3>1, AskingStays
  <2> QED BY <1>2, <2>1, <2>2 DEF Sound
<1>3. CASE OpenMore
  <2>1. /\ Asked.from \in Repos /\ Asked.from \notin opened
        /\ UNCHANGED <<world, origins, replaced, missed, trail, asking>>
        /\ Open({Asked.from})
    BY <1>3, AskedTypes DEF OpenMore, Read, Available, Requirements
  <2>2. \A r \in opened : r \in Repos \ {Asked.from} BY <2>1 DEF TypeOK
  <2>3. opened \subseteq opened' BY <2>1 DEF Open
  <2>4. \A r \in opened : known'[r] = known[r] /\ (r \in trusted' => r \in trusted)
    BY <2>1, <2>2, OpenKeeps
  <2>5. Kept BY <2>1, <2>3, <2>4 DEF Kept
  <2> QED BY <1>2, <2>1, <2>5
<1>4. CASE RequirePatched
  <2>1. /\ Reading /\ Patched
        /\ Answered({Ask(Package(Asked.name), {Local})}, {Local})
        /\ origins' = [origins EXCEPT ![Asked.name] = Local]
        /\ UNCHANGED <<world, known, opened, trusted, missed, replaced, trail>>
    BY <1>4 DEF RequirePatched
  <2>2. Asked.name \in world.patched BY <2>1 DEF Patched
  <2>3. Kept BY <2>1, <2>2 DEF Kept, TypeOK
  <2>4. {Local} \in SUBSET Candidates /\ {Ask(Package(Asked.name), {Local})} \in SUBSET Ranges
    BY <2>1, AskedTypes, NodesApart DEF Candidates, Requirements, Ask, Ranges
  <2>5. /\ asking'.node = asking.node /\ asking'.candidate = asking.candidate
        /\ asking'.todo = asking.todo \ {Min(asking.todo)}
        /\ asking.asks \subseteq asking'.asks
    BY <2>1, <2>4, AnsweredTypes
  <2>6. PICK node, req, more : node = asking.node /\ req = Asked /\ more = asking'.asks OBVIOUS
  <2>7. Settled(node, req, more)' BY <2>1, <2>2, <2>6 DEF Settled
  <2> QED BY <2>1, <2>3, <2>5, <2>6, <2>7, ReadsOn
<1>5. CASE RequireOverruled
  <2>1. /\ Reading /\ Overruled /\ Answered({}, Candidates)
        /\ replaced' = replaced \union {[asker |-> asking.node.name, req |-> Asked]}
        /\ UNCHANGED <<world, known, opened, trusted, missed, origins, trail>>
    BY <1>5 DEF RequireOverruled
  <2>2. Kept BY <2>1 DEF Kept
  <2>3. /\ asking'.node = asking.node /\ asking'.candidate = asking.candidate
        /\ asking'.todo = asking.todo \ {Min(asking.todo)}
        /\ asking.asks \subseteq asking'.asks
    BY <2>1, AnsweredTypes
  <2>4. PICK node, req, more : node = asking.node /\ req = Asked /\ more = asking'.asks OBVIOUS
  <2>5. Settled(node, req, more)' BY <2>1, <2>4 DEF Settled, Overruled
  <2> QED BY <2>1, <2>2, <2>3, <2>4, <2>5, ReadsOn
<1>6. CASE Require
  <2>1. /\ Reading /\ ~Patched /\ Available /\ ~SecondSource
        /\ Answered({Ask(Package(Asked.name), Admitted(Asked))}, Admitted(Asked))
        /\ origins' = [origins EXCEPT ![Asked.name] = Asked.from]
        /\ missed' = (missed \/ Misses)
        /\ UNCHANGED <<world, known, opened, trusted, replaced, trail>>
    BY <1>6 DEF Require, Read
  <2>2. /\ Asked.name \in Names /\ Asked \in Requirements
        /\ Asked.by = "path" <=> Asked.from = Local
    BY <2>1, AskedTypes DEF Requirements
  <2>3. \A n \in Names : origins[n] # Nothing => origins'[n] = origins[n]
    BY <2>1, <2>2 DEF SecondSource, TypeOK
  <2>4. Kept BY <2>1, <2>3 DEF Kept
  <2>5. Admitted(Asked) \in SUBSET Candidates BY <2>2, AdmittedTypes
  <2>6. {Ask(Package(Asked.name), Admitted(Asked))} \in SUBSET Ranges
    BY <2>2, <2>5, NodesApart DEF Ask, Ranges
  <2>7. /\ asking'.node = asking.node /\ asking'.candidate = asking.candidate
        /\ asking'.todo = asking.todo \ {Min(asking.todo)}
        /\ asking.asks \subseteq asking'.asks
        /\ Ask(Package(Asked.name), Admitted(Asked)) \in asking'.asks
    BY <2>1, <2>5, <2>6, AnsweredTypes
  <2>8. PICK node, req, more : node = asking.node /\ req = Asked /\ more = asking'.asks OBVIOUS
  <2>9. Admitted(req)' = Admitted(req) /\ LockedRev(req)' = LockedRev(req)
    BY <2>1, AdmittedStays
  <2>10. Ask(Package(req.name), Admitted(req))' = Ask(Package(req.name), Admitted(req))
    BY <2>9 DEF Ask, Package
  <2>11. origins'[req.name] = req.from BY <2>1, <2>2, <2>8 DEF TypeOK
  <2>12. req.from = Local \/ req.from \in opened' BY <2>1, <2>8 DEF Available
  <2>13. req.by = "branch" /\ LockedRev(req)' = NoCommit /\ req.from \in trusted' => missed'
    BY <2>1, <2>8, <2>9 DEF Misses
  <2>14. req.name \notin world'.patched BY <2>1, <2>8 DEF Patched
  <2>15. Settled(node, req, more)'
    BY <2>7, <2>8, <2>10, <2>11, <2>12, <2>13, <2>14 DEF Settled
  <2> QED BY <2>1, <2>4, <2>7, <2>8, <2>15, ReadsOn
<1>7. CASE Push
  <2>1. /\ asking.node # NoNode /\ asking.todo = {}
        /\ trail' = Append(trail, [node |-> asking.node, candidate |-> asking.candidate,
                                    asks |-> asking.asks, tried |-> asking.tried])
        /\ asking' = NotAsking
        /\ UNCHANGED <<world, known, opened, trusted, missed, origins, replaced>>
    BY <1>7 DEF Push
  <2>2. Kept BY <2>1 DEF Kept
  <2>3. /\ DOMAIN trail = 1 .. Len(trail) /\ Len(trail) \in Nat
        /\ DOMAIN trail' = 1 .. (Len(trail) + 1)
        /\ \A i \in DOMAIN trail : trail'[i] = trail[i]
    BY <2>1 DEF TypeOK
  <2>4. trail'[Len(trail) + 1] = [node |-> asking.node, candidate |-> asking.candidate,
                                  asks |-> asking.asks, tried |-> asking.tried]
    BY <2>1 DEF TypeOK
  <2>5. ASSUME NEW i \in DOMAIN trail', NEW p,
               p \in Brought(trail[i].node, trail[i].candidate)'
        PROVE  Settled(trail[i].node, Requires(trail[i].node, trail[i].candidate)[p], trail[i].asks)'
    <3>1. CASE i \in DOMAIN trail BY <2>2, <2>3, <2>5, <3>1, TrailStays
    <3>2. CASE i = Len(trail) + 1
      <4>1. PICK node, c, asks :
              node = asking.node /\ c = asking.candidate /\ asks = asking.asks
        OBVIOUS
      <4>2. trail'[i].node = node /\ trail'[i].candidate = c /\ trail'[i].asks = asks
        BY <2>4, <3>2, <4>1
      <4>3. Brought(node, c)' = Brought(node, c) BY <2>1, ManifestsStay
      <4>4. p \in Brought(node, c) BY <2>5, <4>2, <4>3
      <4>5. Settled(node, Requires(node, c)[p], asks) BY <2>1, <4>1, <4>4 DEF Sound
      <4>6. node \in Nodes \union {Root} /\ c \in Candidates BY <2>1, <4>1 DEF TypeOK
      <4>7. Settled(node, Requires(node, c)[p], asks)' BY <2>2, <4>4, <4>5, <4>6, BroughtStays
      <4> QED BY <4>2, <4>7
    <3> QED BY <2>3, <3>1, <3>2
  <2>6. asking'.node = NoNode BY <2>1 DEF NotAsking
  <2> QED BY <2>5, <2>6 DEF Sound
<1>8. CASE Decide
  <2>1. PICK node \in Urgent, c \in Candidates :
          \/ asking' = asking
          \/ asking'.node = node /\ asking'.candidate = c /\ asking'.todo = Brought(node, c)
    BY <1>8 DEF Decide, Left
  <2>2. UNCHANGED <<world, known, opened, trusted, missed, origins, replaced, trail>>
    BY <1>8 DEF Decide
  <2>3. Kept BY <2>2 DEF Kept
  <2>4. CASE asking' = asking BY <1>2, <2>2, <2>3, <2>4
  <2>5. CASE asking'.node = node /\ asking'.candidate = c /\ asking'.todo = Brought(node, c)
    <3>1. ASSUME NEW i \in DOMAIN trail', NEW p,
                 p \in Brought(trail[i].node, trail[i].candidate)'
          PROVE  Settled(trail[i].node, Requires(trail[i].node, trail[i].candidate)[p], trail[i].asks)'
      BY <2>2, <2>3, <3>1, TrailStays
    <3>2. Brought(asking.node, asking.candidate)' = Brought(node, c) BY <2>2, <2>5, ManifestsStay
    <3> QED BY <2>5, <3>1, <3>2 DEF Sound
  <2> QED BY <2>1, <2>4, <2>5
<1>9. CASE TakeBack
  <2>1. /\ trail' = SubSeq(trail, 1, Len(trail) - 1) /\ Len(trail) > 1
        /\ asking' = asking /\ asking.node = NoNode
        /\ UNCHANGED <<world, known, opened, trusted, missed, origins, replaced>>
    BY <1>9 DEF TakeBack, Deciding
  <2>2. Kept BY <2>1 DEF Kept
  <2>3. \A i \in DOMAIN trail' : i \in DOMAIN trail /\ trail'[i] = trail[i]
    BY <2>1 DEF TypeOK
  <2>4. ASSUME NEW i \in DOMAIN trail', NEW p,
               p \in Brought(trail[i].node, trail[i].candidate)'
        PROVE  Settled(trail[i].node, Requires(trail[i].node, trail[i].candidate)[p], trail[i].asks)'
    BY <2>2, <2>3, <2>4, TrailStays
  <2> QED BY <2>1, <2>4 DEF Sound
<1>10. CASE Break \/ NoSolution \/ Solved \/ Accept \/ Refuse \/ UNCHANGED vars
  <2>1. UNCHANGED <<world, known, opened, trusted, missed, origins, replaced, trail, asking>>
    BY <1>10 DEF Break, NoSolution, Solved, Accept, Refuse, vars
  <2>2. Kept BY <2>1 DEF Kept
  <2> QED BY <1>2, <2>1, <2>2
<1>11. CASE Restart BY <1>11 DEF Restart, Sound, NotAsking
<1> QED BY <1>1, <1>3, <1>4, <1>5, <1>6, <1>7, <1>8, <1>9, <1>10, <1>11 DEF Next

-----------------------------------------------------------------------------
(* What was chosen.                                                        *)

\* Everything the solver and its provider are asked to keep.
Inductive == TypeOK /\ Shape /\ Fresh /\ Sound /\ Solution

LEMMA SolutionNext == ASSUME TypeOK, Shape, Solution, [Next]_vars PROVE Solution'
<1> USE DEF pass, solver
<1>1. CASE Prefetch \/ OpenMore \/ RequirePatched \/ RequireOverruled \/ Require \/ Push
           \/ Decide \/ TakeBack \/ Restart \/ Refuse
  <2>1. phase' \notin {"judge", "done"}
    BY <1>1
    DEF Prefetch, OpenMore, RequirePatched, RequireOverruled, Require, Push, Decide,
        TakeBack, Restart, Refuse, Read, Reading, Deciding
  <2> QED BY <2>1 DEF Solution
<1>2. CASE Break \/ NoSolution
  <2>1. chosen' = Nothing BY <1>2 DEF Break, NoSolution
  <2> QED BY <2>1 DEF Solution
<1>3. ASSUME UNCHANGED <<trail, asking>>
      PROVE  /\ Conflict' = Conflict /\ Undecided' = Undecided /\ Packages' = Packages
             /\ [n \in Packages |-> trail[CandidateOf(n)].candidate]'
                  = [n \in Packages |-> trail[CandidateOf(n)].candidate]
  <2>1. Asks' = Asks BY <1>3 DEF Asks
  <2>2. Packages' = Packages BY <1>3 DEF Packages, Decided
  <2>3. \A node : Left(node)' = Left(node) BY <2>1 DEF Left
  <2>4. Undecided' = Undecided BY <1>3, <2>1 DEF Undecided, Decided
  <2>5. Conflict' = Conflict
    BY <1>3, <2>1, <2>4 DEF Conflict, Left
  <2>6. [n \in Packages |-> trail[CandidateOf(n)].candidate]'
          = [n \in Packages |-> trail[CandidateOf(n)].candidate]
    BY <1>3, <2>2 DEF CandidateOf
  <2> QED BY <2>2, <2>4, <2>5, <2>6
<1>4. CASE Solved
  <2>1. /\ UNCHANGED <<trail, asking>> /\ asking.node = NoNode /\ phase' = "judge"
        /\ ~Conflict /\ Undecided = {}
        /\ chosen' = [n \in Packages |-> trail[CandidateOf(n)].candidate]
    BY <1>4 DEF Solved, Deciding
  <2>2. trail # <<>> BY <1>4, NodesApart DEF Solved, Deciding, Shape
  <2> QED BY <1>3, <2>1, <2>2 DEF Solution
<1>5. CASE Accept
  <2>1. /\ UNCHANGED <<world, known, trail, asking, chosen, origins, replaced>>
        /\ phase = "judge" /\ chosen # Nothing
        /\ warned' = {it \in replaced : it.req.name \in DOMAIN chosen /\ ~Meets(it.req)}
    BY <1>5 DEF Accept
  <2>2. \A req : Meets(req)' = Meets(req)
    BY <2>1 DEF Meets, Admitted, BranchAt, IdServed, LockedRev, LockedFrom
  <2> QED BY <1>3, <2>1, <2>2 DEF Solution
<1>6. CASE UNCHANGED vars
  <2>1. UNCHANGED <<world, known, phase, trail, asking, chosen, origins, replaced, warned>>
    BY <1>6 DEF vars
  <2>2. \A req : Meets(req)' = Meets(req)
    BY <2>1 DEF Meets, Admitted, BranchAt, IdServed, LockedRev, LockedFrom
  <2> QED BY <1>3, <2>1, <2>2 DEF Solution
<1> QED BY <1>1, <1>2, <1>4, <1>5, <1>6 DEF Next

LEMMA Invariance == Spec => []Inductive
<1>1. Init => Inductive
  BY TypeInit, SoundInit DEF Init, Inductive, Fresh, Solution
<1>2. Inductive /\ [Next]_vars => Inductive'
  BY TypeNext, ShapeNext, FreshNext, SoundNext, SolutionNext DEF Inductive
<1> QED BY <1>1, <1>2, PTL DEF Spec

\* Every state of a resolution is of its type: the world, the mirrors, what
\* was asked and decided, and what a pass remembers (resolve.rs, State).
THEOREM TypeCorrect == Spec => []TypeOK
<1>1. Inductive => TypeOK BY DEF Inductive
<1> QED BY <1>1, Invariance, PTL

\* A package asked for in a design chosen is in it, at what every range allows.
LEMMA ChosenIsAsked ==
    ASSUME Inductive, phase = "done", NEW n \in Names, NEW range,
           Ask(Package(n), range) \in Asks
    PROVE  n \in DOMAIN chosen /\ chosen[n] \in range
<1>1. /\ ~Conflict /\ Undecided = {}
      /\ chosen = [m \in Packages |-> trail[CandidateOf(m)].candidate]
  BY DEF Inductive, Fresh, Solution
<1>2. Decided(Package(n)) BY <1>1 DEF Undecided, Ask
<1>3. n \in Packages BY <1>2 DEF Packages
<1>4. CandidateOf(n) \in DOMAIN trail /\ trail[CandidateOf(n)].node = Package(n)
  BY <1>2 DEF Decided, CandidateOf
<1>5. trail[CandidateOf(n)].candidate \in Left(Package(n))
  BY <1>1, <1>4, NodesApart DEF Conflict
<1>6. trail[CandidateOf(n)].candidate \in range BY <1>5 DEF Left, Ask
<1> QED BY <1>1, <1>3, <1>6

\* Each requirement of a design chosen is one that was read and settled.
LEMMA InEffectIsSettled ==
    ASSUME Inductive, NEW it \in InEffect
    PROVE  \E i \in DOMAIN trail :
            /\ it.asker = trail[i].node.name
            /\ trail[i].node \in Nodes \union {Root} /\ trail[i].asks \subseteq Asks
            /\ it = [asker |-> trail[i].node.name, req |-> it.req]
            /\ it.req \in Requirements
            /\ it.req.by = "path" <=> it.req.from = Local
            /\ Settled(trail[i].node, it.req, trail[i].asks)
<1>1. PICK i \in DOMAIN trail : \E p \in Brought(trail[i].node, trail[i].candidate) :
        it = [asker |-> trail[i].node.name,
              req |-> Requires(trail[i].node, trail[i].candidate)[p]]
  BY DEF InEffect
<1>2. PICK p \in Brought(trail[i].node, trail[i].candidate) :
        it = [asker |-> trail[i].node.name,
              req |-> Requires(trail[i].node, trail[i].candidate)[p]]
  BY <1>1
<1>3. trail[i] \in Decisions /\ world \in Worlds BY DEF Inductive, TypeOK
<1>4. trail[i].node \in Nodes \union {Root} /\ trail[i].candidate \in Candidates
  BY <1>3 DEF Decisions
<1>5. it.req = Requires(trail[i].node, trail[i].candidate)[p] BY <1>2
<1>6. it.req \in Requirements /\ (it.req.by = "path" <=> it.req.from = Local)
  <2>1. p \in DOMAIN Requires(trail[i].node, trail[i].candidate)
    BY <1>3, <1>4, RequiresTypes
  <2> QED BY <1>3, <1>4, <1>5, <2>1, RequiresTypes
<1>7. Settled(trail[i].node, it.req, trail[i].asks) BY <1>5 DEF Inductive, Sound
<1>8. trail[i].asks \subseteq Asks BY DEF Asks
<1> QED BY <1>2, <1>4, <1>5, <1>6, <1>7, <1>8

\* What the root requires of a package it pins decides one of that name.
LEMMA PinnedIsChosen ==
    ASSUME Inductive, phase = "done", NEW n \in world.pinned, n \notin world.patched
    PROVE  n \in DOMAIN chosen
<1>1. world \in Worlds BY DEF Inductive, TypeOK
<1>2. n \in Names BY <1>1, WorldTypes
<1>3. PICK p \in DOMAIN world.root.requires : world.root.requires[p].name = n
  BY <1>1, PinsAssumption
<1>4. 1 \in DOMAIN trail /\ trail[1].node = Root
  BY DEF Inductive, Fresh, Solution, Shape, TypeOK
<1>5. p \in Brought(Root, trail[1].candidate)
      /\ Requires(Root, trail[1].candidate)[p] = world.root.requires[p]
  BY <1>3 DEF Brought, Requires
<1>6. Settled(Root, world.root.requires[p], trail[1].asks)
  BY <1>4, <1>5 DEF Inductive, Sound
<1>7. Ask(Package(n), Admitted(world.root.requires[p])) \in trail[1].asks
  BY <1>3, <1>6 DEF Settled
<1>8. Ask(Package(n), Admitted(world.root.requires[p])) \in Asks BY <1>4, <1>7 DEF Asks
<1> QED BY <1>2, <1>8, ChosenIsAsked

\* Whatever is required of whatever else, each requirement of a design that
\* was chosen is met from the source it names, or the root patches or pins the
\* package and, if it pins it, warns of each requirement not met.
THEOREM RequirementsMet == Spec => []MetOrSaid
<1>1. Inductive => MetOrSaid
  <2>1. SUFFICES ASSUME Inductive, phase = "done", NEW it \in InEffect,
                        it.req.name \notin world.patched
                 PROVE  \/ it.req.from = origins[it.req.name] /\ chosen[it.req.name] \in Admitted(it.req)
                        \/ it.req.name \in world.pinned /\ it \in warned
    BY DEF MetOrSaid
  <2>2. PICK i \in DOMAIN trail :
            /\ trail[i].asks \subseteq Asks
            /\ it = [asker |-> trail[i].node.name, req |-> it.req]
            /\ it.req \in Requirements
            /\ Settled(trail[i].node, it.req, trail[i].asks)
    BY <2>1, InEffectIsSettled
  <2>3. it.req.name \in Names BY <2>2 DEF Requirements
  <2>4. CASE it.req.name \in world.pinned /\ it \in replaced
    <3>1. it.req.name \in DOMAIN chosen BY <2>1, <2>4, PinnedIsChosen
    <3>2. warned = {other \in replaced : other.req.name \in DOMAIN chosen /\ ~Meets(other.req)}
      BY <2>1 DEF Inductive, Fresh, Solution
    <3> QED BY <2>4, <3>1, <3>2 DEF Meets
  <2>5. CASE /\ Ask(Package(it.req.name), Admitted(it.req)) \in trail[i].asks
             /\ origins[it.req.name] = it.req.from
    BY <2>1, <2>2, <2>3, <2>5, ChosenIsAsked
  <2> QED BY <2>1, <2>2, <2>4, <2>5 DEF Settled
<1> QED BY <1>1, Invariance, PTL

\* A branch the lock does not hold is resolved to the commit upstream's branch
\* names, however old the mirrors that were trusted.
THEOREM BranchesFollowUpstream == Spec => []BranchesAreUpstreams
<1>1. Inductive => BranchesAreUpstreams
  <2>1. SUFFICES ASSUME Inductive, phase = "done", NEW it \in InEffect,
                        it.req.by = "branch", LockedRev(it.req) = NoCommit,
                        it.req.name \notin world.patched,
                        it.asker # Nothing => it.req.name \notin world.pinned
                 PROVE  chosen[it.req.name] = Upstream[it.req.from].branch[it.req.rev]
    BY DEF BranchesAreUpstreams
  <2>2. PICK i \in DOMAIN trail :
            /\ it.asker = trail[i].node.name
            /\ trail[i].node \in Nodes \union {Root} /\ trail[i].asks \subseteq Asks
            /\ it.req \in Requirements
            /\ it.req.by = "path" <=> it.req.from = Local
            /\ Settled(trail[i].node, it.req, trail[i].asks)
    BY <2>1, InEffectIsSettled
  <2>3. ~ (trail[i].node # Root /\ it.req.name \in world.pinned)
    BY <2>1, <2>2, MarkersAssumption DEF Nodes
  <2>4. /\ Ask(Package(it.req.name), Admitted(it.req)) \in Asks
        /\ it.req.from \in opened
        /\ it.req.from \in trusted => missed
    BY <2>1, <2>2, <2>3 DEF Settled
  <2>5. it.req.name \in Names /\ it.req.from \in Repos /\ known[it.req.from] \in Mirrors
    <3>1. opened \subseteq Repos /\ known \in [Repos -> Mirrors] BY <2>1 DEF Inductive, TypeOK
    <3> QED BY <2>2, <2>4, <3>1 DEF Requirements
  <2>6. chosen[it.req.name] \in Admitted(it.req) BY <2>1, <2>4, <2>5, ChosenIsAsked
  <2>7. it.req.from \notin trusted BY <2>1, <2>4 DEF Inductive, Fresh, Stale
  <2>8. known[it.req.from].branch = Upstream[it.req.from].branch
    <3>1. Fresh BY <2>1 DEF Inductive
    <3> QED BY <2>4, <2>7, <3>1 DEF Fresh
  <2>9. NoCommit \notin known[it.req.from].has
    BY <2>5, MarkersAssumption DEF Mirrors, Candidates
  <2>10. BranchAt(it.req) = known[it.req.from].branch[it.req.rev]
    BY <2>1, <2>9 DEF BranchAt
  <2> QED BY <2>1, <2>6, <2>8, <2>10 DEF Admitted
<1> QED BY <1>1, Invariance, PTL

-----------------------------------------------------------------------------
(* A lock that holds.                                                      *)

\* The lock's entry of n is what origin and range of n go by.
FromLock(n) == n \in Names /\ world.lock[n] # Nothing /\ origins[n] = world.lock[n].from

AtLock(node, c) ==
    node = Root \/ \E n \in Names : FromLock(n) /\ node = Package(n) /\ c = world.lock[n].commit

AskedAtLock(ask) ==
    \E n \in Names : FromLock(n) /\ ask.node = Package(n) /\ world.lock[n].commit \in ask.range

\* A pass under a lock that holds opens no mirror but trusted ones, reads and
\* decides nothing but what the lock holds, and takes no decision back.
LockInv ==
    LockHolds =>
        /\ phase # "failed" /\ ~fetchAll /\ ahead = {} /\ failed = {} /\ ~missed
        /\ known = world.mirror
        /\ again = NotAgain
        /\ \A i \in DOMAIN trail :
            /\ AtLock(trail[i].node, trail[i].candidate)
            /\ \A ask \in trail[i].asks : AskedAtLock(ask)
        /\ asking.node # NoNode =>
            /\ AtLock(asking.node, asking.candidate)
            /\ \A ask \in asking.asks : AskedAtLock(ask)
        /\ \A n \in Names : origins[n] # Nothing => FromLock(n)
        /\ phase \in {"judge", "done"} =>
            /\ chosen # Nothing
            /\ \A n \in DOMAIN chosen : FromLock(n) /\ chosen[n] = world.lock[n].commit

\* What the lock holds, and that a mirror it names commits of is trusted.
LEMMA TrustsLocked ==
    ASSUME TypeOK, LockHolds, known = world.mirror, ~fetchAll,
           NEW n \in Names, world.lock[n] # Nothing
    PROVE  /\ world.lock[n].from \in Repos /\ world.lock[n].from # Local
           /\ world.lock[n].from # Nothing
           /\ world.lock[n].commit \in Commits /\ world.lock[n].commit # NoCommit
           /\ world.lock[n].commit # Local
           /\ LockedFrom(n, world.lock[n].from) = world.lock[n].commit
           /\ world.lock[n].commit \in known[world.lock[n].from].has
           /\ Trusts(world.lock[n].from)
<1> DEFINE from == world.lock[n].from
<1>1. \A m \in Names : world.lock[m] # Nothing =>
        world.lock[m].from \in Repos /\ world.lock[m].commit \in Commits
  <2>1. world.lock \in [Names -> Entries \union {Nothing}] BY WorldTypes DEF TypeOK
  <2> QED BY <2>1 DEF Entries
<1>2. from # Local /\ from # Nothing /\ world.lock[n].commit \notin {NoCommit, Local}
  BY <1>1, MarkersAssumption DEF Candidates
<1>3. LockedFrom(n, from) = world.lock[n].commit BY DEF LockedFrom
<1>4. \A m \in Names : world.lock[m] # Nothing =>
        world.lock[m].commit \in known[world.lock[m].from].has
  BY DEF LockHolds
<1>5. LockedOf(from) # {} BY <1>2, <1>3 DEF LockedOf
<1>6. LockedOf(from) \subseteq known[from].has BY <1>4 DEF LockedOf, LockedFrom
<1> QED BY <1>1, <1>2, <1>3, <1>4, <1>5, <1>6 DEF Trusts

\* Mirrors that are trusted are opened without a fetch.
LEMMA OpenTrusted ==
    ASSUME TypeOK, NEW R \in SUBSET Repos, \A r \in R : Trusts(r), Open(R)
    PROVE  known' = known /\ failed' = failed
<1>1. \A r \in R : Reachable(r) BY DEF Reachable
<1>2. known' = [r \in Repos |-> known[r]] BY <1>1 DEF Open
<1> QED BY <1>1, <1>2 DEF Open, TypeOK

\* A requirement of what the lock holds is met by what the lock holds.
LEMMA AskedAdmitsLock ==
    ASSUME TypeOK, Shape, LockHolds, known = world.mirror, ~fetchAll, Reading,
           AtLock(asking.node, asking.candidate)
    PROVE  /\ Asked.name \in Names /\ Asked.name \notin world.patched
           /\ world.lock[Asked.name] # Nothing /\ Asked.from = world.lock[Asked.name].from
           /\ Asked.features = {}
           /\ world.lock[Asked.name].commit \in Admitted(Asked)
           /\ ~NamesNothing(Asked) /\ ~Misses
<1>1. Asked \in Requirements BY AskedTypes
<1>2. Asked.name \in Names BY <1>1 DEF Requirements
<1>3. LockAdmits(Asked)
  <2>1. world \in Worlds /\ asking.candidate \in Candidates BY DEF TypeOK
  <2>2. Min(asking.todo) \in DOMAIN Requires(asking.node, asking.candidate)
    BY <2>1, AskedTypes, RequiresTypes
  <2>3. CASE asking.node = Root BY <2>2, <2>3 DEF Requires, Asked, LockHolds
  <2>4. CASE asking.node # Root
    <3>1. PICK n \in Names :
            FromLock(n) /\ asking.node = Package(n) /\ asking.candidate = world.lock[n].commit
      BY <2>4 DEF AtLock
    <3>2. world.lock[n] # Nothing /\ asking.candidate # Local
      BY <3>1, TrustsLocked DEF FromLock
    <3>3. Requires(asking.node, asking.candidate) = world.manifest[world.lock[n].commit].requires
      BY <2>4, <3>1, <3>2, NodesApart DEF Requires, Manifest
    <3> QED BY <2>2, <3>2, <3>3 DEF Asked, LockHolds
  <2> QED BY <2>3, <2>4
<1>4. world.lock[Asked.name] # Nothing /\ Asked.from = world.lock[Asked.name].from
  BY <1>3 DEF LockAdmits, LockedFrom
<1> DEFINE commit == world.lock[Asked.name].commit
<1>5. /\ commit \in Commits /\ commit # NoCommit /\ LockedFrom(Asked.name, Asked.from) = commit
      /\ commit \in known[Asked.from].has
  BY <1>2, <1>4, TrustsLocked
<1>6. /\ commit \in Admitted(Asked)
      /\ Asked.by = "branch" => LockedRev(Asked) # NoCommit
  <2>1. CASE Asked.by = "version"
    <3>1. \E v \in Asked.versions : known[Asked.from].tags[v] = commit
      BY <1>3, <1>5, <2>1 DEF LockAdmits
    <3> QED BY <1>5, <2>1, <3>1 DEF Admitted
  <2>2. CASE Asked.by = "branch"
    <3>1. LockedRev(Asked) = commit BY <1>3, <1>5, <2>2 DEF LockAdmits, LockedRev
    <3>2. Admitted(Asked) = {BranchAt(Asked)} \ {NoCommit} BY <2>2 DEF Admitted
    <3> QED BY <1>5, <3>1, <3>2 DEF BranchAt
  <2>3. CASE Asked.by = "id"
    <3>1. Asked.commit = commit BY <1>3, <1>5, <2>3 DEF LockAdmits
    <3> QED BY <1>5, <2>3, <3>1 DEF Admitted, IdServed
  <2> QED BY <1>3, <2>1, <2>2, <2>3 DEF LockAdmits
<1> QED BY <1>2, <1>3, <1>4, <1>6 DEF LockAdmits, NamesNothing, Misses

\* Every range asked of a package holds the commit the lock names.
LEMMA LeftHoldsLocked ==
    ASSUME TypeOK, Shape, LockInv, LockHolds
    PROVE  /\ \A n \in Names : FromLock(n) => world.lock[n].commit \in Left(Package(n))
           /\ \A node \in Undecided : \E n \in Names : FromLock(n) /\ node = Package(n)
           /\ ~Conflict
<1>1. \A ask \in Asks : AskedAtLock(ask) BY DEF LockInv, Asks
<1>2. ASSUME NEW n \in Names, FromLock(n) PROVE world.lock[n].commit \in Left(Package(n))
  <2>1. world.lock[n].commit \in Candidates
    BY <1>2, TrustsLocked DEF FromLock, LockInv, Candidates
  <2>2. ASSUME NEW ask \in Asks, ask.node = Package(n)
        PROVE  world.lock[n].commit \in ask.range
    BY <1>1, <2>2, NodesApart DEF AskedAtLock
  <2> QED BY <2>1, <2>2 DEF Left
<1>3. \A node \in Undecided : \E n \in Names : FromLock(n) /\ node = Package(n)
  BY <1>1 DEF Undecided, AskedAtLock
<1>4. \A i \in DOMAIN trail : trail[i].node # Root => trail[i].candidate \in Left(trail[i].node)
  BY <1>2 DEF LockInv, AtLock
<1>5. ~Conflict BY <1>2, <1>3, <1>4 DEF Conflict
<1> QED BY <1>2, <1>3, <1>5

\* The solver is never stuck: what it decides on next is at the lock.
LEMMA UrgentIsLocked ==
    ASSUME TypeOK, Shape, LockInv, LockHolds, NEW node \in Urgent
    PROVE  \E n \in Names :
            /\ FromLock(n) /\ node = Package(n)
            /\ Choice(node, Left(node) \ again.tried) = world.lock[n].commit
            /\ world.lock[n].commit \in Left(node) \ again.tried
<1>1. again = NotAgain BY DEF LockInv
<1>2. node \in Undecided BY <1>1 DEF Urgent, NotAgain
<1>3. PICK n \in Names : FromLock(n) /\ node = Package(n) BY <1>2, LeftHoldsLocked
<1>4. world.lock[n].commit \in Left(node) \ again.tried
  BY <1>1, <1>3, LeftHoldsLocked DEF NotAgain
<1>5. origins[n] # Local /\ LockedFrom(n, origins[n]) = world.lock[n].commit
  BY <1>3, TrustsLocked DEF FromLock, LockInv
<1>6. node.is = "package" /\ node.name = n BY <1>3 DEF Package
<1>7. Choice(node, Left(node) \ again.tried) = world.lock[n].commit
  BY <1>4, <1>5, <1>6 DEF Choice, Prefer
<1> QED BY <1>3, <1>4, <1>7

\* What is at the lock stays there as packages get their origins.
LEMMA LockStays ==
    ASSUME world' = world, \A n \in Names : FromLock(n) => FromLock(n)'
    PROVE  /\ LockHolds' = LockHolds
           /\ \A node, c : AtLock(node, c) => AtLock(node, c)'
           /\ \A ask : AskedAtLock(ask) => AskedAtLock(ask)'
<1>1. LockHolds' = LockHolds BY DEF LockHolds, LockAdmits, LockedRev, LockedFrom
<1>2. \A node, c : AtLock(node, c) => AtLock(node, c)' BY DEF AtLock
<1>3. \A ask : AskedAtLock(ask) => AskedAtLock(ask)' BY DEF AskedAtLock
<1> QED BY <1>1, <1>2, <1>3

LEMMA LockInit == Init => LockInv
<1>1. SUFFICES ASSUME Init PROVE LockInv OBVIOUS
<1> QED BY <1>1 DEF Init, LockInv, NotAsking

LEMMA LockNext == ASSUME TypeOK, Shape, LockInv, [Next]_vars PROVE LockInv'
<1> USE DEF pass, solver
<1>1. world' = world
  BY DEF Next, vars, Prefetch, OpenMore, RequirePatched, RequireOverruled, Require, Break, Push,
         Decide, TakeBack, NoSolution, Solved, Restart, Accept, Refuse
<1>2. LockHolds' = LockHolds BY <1>1 DEF LockHolds, LockAdmits, LockedRev, LockedFrom
<1>3. SUFFICES ASSUME LockHolds PROVE LockInv' BY <1>2 DEF LockInv
<1>4. /\ phase # "failed" /\ ~fetchAll /\ ahead = {} /\ failed = {} /\ ~missed
      /\ known = world.mirror /\ again = NotAgain
  BY <1>3 DEF LockInv
<1>5. /\ \A i \in DOMAIN trail :
            /\ AtLock(trail[i].node, trail[i].candidate)
            /\ \A ask \in trail[i].asks : AskedAtLock(ask)
      /\ asking.node # NoNode =>
            /\ AtLock(asking.node, asking.candidate)
            /\ \A ask \in asking.asks : AskedAtLock(ask)
      /\ \A n \in Names : origins[n] # Nothing => FromLock(n)
  BY <1>3 DEF LockInv
<1>6. phase \in {"judge", "done"} =>
        /\ chosen # Nothing
        /\ \A n \in DOMAIN chosen : FromLock(n) /\ chosen[n] = world.lock[n].commit
  BY <1>3 DEF LockInv
<1> DEFINE Same == UNCHANGED <<fetchAll, ahead, missed, known, failed, again>>
<1>7. ASSUME UNCHANGED origins
      PROVE  \A n \in Names : /\ FromLock(n) => FromLock(n)'
                              /\ (origins[n] # Nothing => FromLock(n))'
  BY <1>1, <1>5, <1>7 DEF FromLock
<1>8. ASSUME UNCHANGED <<origins, trail, asking>>
      PROVE  /\ \A i \in DOMAIN trail' :
                  /\ AtLock(trail[i].node, trail[i].candidate)'
                  /\ \A ask \in (trail[i].asks)' : AskedAtLock(ask)'
             /\ (asking.node)' # NoNode =>
                  /\ AtLock(asking.node, asking.candidate)'
                  /\ \A ask \in (asking.asks)' : AskedAtLock(ask)'
  BY <1>1, <1>5, <1>8 DEF AtLock, AskedAtLock, FromLock
<1>9. ASSUME Reading
      PROVE  /\ Asked.name \in Names /\ Asked.name \notin world.patched
             /\ world.lock[Asked.name] # Nothing /\ Asked.from = world.lock[Asked.name].from
             /\ Asked.features = {}
             /\ world.lock[Asked.name].commit \in Admitted(Asked)
             /\ ~NamesNothing(Asked) /\ ~Misses
  BY <1>3, <1>4, <1>5, <1>9, AskedAdmitsLock DEF Reading
<1>10. CASE Prefetch
  <2>1. \A n \in Names : world.lock[n] # Nothing =>
          world.lock[n].from \in Repos /\ Trusts(world.lock[n].from)
    BY <1>3, <1>4, TrustsLocked
  <2>2. Reached \union ahead \in SUBSET Repos /\ \A r \in Reached \union ahead : Trusts(r)
    BY <1>4, <2>1 DEF Reached
  <2>3. Open(Reached \union ahead) BY <1>10 DEF Prefetch
  <2>4. known' = known /\ failed' = failed BY <2>2, <2>3, OpenTrusted
  <2>5. phase' = "solve" /\ UNCHANGED <<fetchAll, ahead, missed, origins, trail, again>>
        /\ asking' = [NotAsking EXCEPT !.node = Root, !.todo = Brought(Root, Local)]
    BY <1>10 DEF Prefetch
  <2>6. asking'.node = Root /\ asking'.asks = {} BY <2>5 DEF NotAsking
  <2>7. \A i \in DOMAIN trail' :
          /\ AtLock(trail[i].node, trail[i].candidate)'
          /\ \A ask \in (trail[i].asks)' : AskedAtLock(ask)'
    BY <1>1, <1>5, <2>5 DEF AtLock, AskedAtLock, FromLock
  <2>8. AtLock(asking.node, asking.candidate)' BY <2>6 DEF AtLock
  <2> QED BY <1>1, <1>4, <1>7, <2>4, <2>5, <2>6, <2>7, <2>8 DEF LockInv
<1>11. CASE OpenMore
  <2>1. Reading /\ Open({Asked.from}) BY <1>11 DEF OpenMore, Read
  <2>2. Asked.from \in Repos /\ Trusts(Asked.from)
    BY <1>3, <1>4, <1>9, <2>1, TrustsLocked
  <2>3. known' = known /\ failed' = failed BY <2>1, <2>2, OpenTrusted
  <2>4. phase' = phase /\ phase = "solve"
        /\ UNCHANGED <<fetchAll, ahead, missed, origins, trail, again, asking>>
    BY <1>11, <2>1 DEF OpenMore, Reading
  <2> QED BY <1>1, <1>4, <1>7, <1>8, <2>3, <2>4 DEF LockInv
<1>12. CASE RequirePatched BY <1>9, <1>12 DEF RequirePatched, Patched
<1>13. CASE RequireOverruled
  <2>1. Reading /\ Answered({}, Candidates) /\ phase' = phase /\ phase = "solve"
        /\ UNCHANGED <<fetchAll, ahead, missed, origins, trail, again, known, failed>>
    BY <1>13 DEF RequireOverruled, Reading
  <2>2. Asked.features = {} BY <1>9, <2>1
  <2>3. asking' = [asking EXCEPT !.todo = @ \ {Min(@)}, !.asks = @ \union {} \union {}]
    BY <2>1, <2>2 DEF Answered
  <2>4. /\ asking'.node = asking.node /\ asking'.candidate = asking.candidate
        /\ asking'.asks = asking.asks
    BY <2>3 DEF TypeOK
  <2>5. \A i \in DOMAIN trail' :
          /\ AtLock(trail[i].node, trail[i].candidate)'
          /\ \A ask \in (trail[i].asks)' : AskedAtLock(ask)'
    BY <1>1, <1>5, <2>1 DEF AtLock, AskedAtLock, FromLock
  <2>6. (asking.node)' # NoNode =>
          /\ AtLock(asking.node, asking.candidate)'
          /\ \A ask \in (asking.asks)' : AskedAtLock(ask)'
    BY <1>1, <1>5, <2>1, <2>4 DEF AtLock, AskedAtLock, FromLock
  <2> QED BY <1>1, <1>4, <1>7, <2>1, <2>5, <2>6 DEF LockInv
<1>14. CASE Require
  <2>1. /\ Reading /\ Answered({Ask(Package(Asked.name), Admitted(Asked))}, Admitted(Asked))
        /\ origins' = [origins EXCEPT ![Asked.name] = Asked.from]
        /\ missed' = (missed \/ Misses)
        /\ UNCHANGED <<phase, known, fetchAll, ahead, failed, trail, again>>
    BY <1>14 DEF Require, Read
  <2>2. PICK n, range :
          /\ n \in Names /\ n = Asked.name /\ range = Admitted(Asked)
          /\ world.lock[n] # Nothing /\ Asked.from = world.lock[n].from
          /\ Asked.features = {} /\ world.lock[n].commit \in range /\ ~Misses
    BY <1>9, <2>1
  <2>3. origins' = [origins EXCEPT ![n] = world.lock[n].from] BY <2>1, <2>2
  <2>4. \A m \in Names : /\ FromLock(m) => FromLock(m)'
                         /\ (origins[m] # Nothing => FromLock(m))'
    BY <1>1, <1>5, <2>2, <2>3 DEF FromLock, TypeOK
  <2>5. FromLock(n)' BY <1>1, <2>2, <2>3 DEF FromLock, TypeOK
  <2>6. asking' = [asking EXCEPT !.todo = @ \ {Min(@)},
                                 !.asks = @ \union {Ask(Package(n), range)} \union {}]
    BY <2>1, <2>2 DEF Answered
  <2>7. /\ asking'.node = asking.node /\ asking'.candidate = asking.candidate
        /\ asking'.asks = asking.asks \union {Ask(Package(n), range)}
    BY <2>6 DEF TypeOK
  <2>8. AskedAtLock(Ask(Package(n), range))' BY <1>1, <2>2, <2>5 DEF AskedAtLock, Ask
  <2>9. /\ \A node, c : AtLock(node, c) => AtLock(node, c)'
        /\ \A ask : AskedAtLock(ask) => AskedAtLock(ask)'
    BY <1>1, <2>4, LockStays DEF FromLock
  <2>10. \A i \in DOMAIN trail' :
          /\ AtLock(trail[i].node, trail[i].candidate)'
          /\ \A ask \in (trail[i].asks)' : AskedAtLock(ask)'
    <3>1. SUFFICES ASSUME NEW i \in DOMAIN trail
                   PROVE  /\ AtLock(trail[i].node, trail[i].candidate)'
                          /\ \A ask \in (trail[i].asks)' : AskedAtLock(ask)'
      BY <2>1
    <3>2. PICK node, c, asks :
            node = trail[i].node /\ c = trail[i].candidate /\ asks = trail[i].asks
      OBVIOUS
    <3>3. (trail[i].node)' = node /\ (trail[i].candidate)' = c /\ (trail[i].asks)' = asks
      BY <2>1, <3>2
    <3>4. AtLock(node, c)' /\ \A ask \in asks : AskedAtLock(ask)' BY <1>5, <2>9, <3>2
    <3> QED BY <3>3, <3>4 DEF AtLock
  <2>11. AtLock(asking.node, asking.candidate)' /\ \A ask \in (asking.asks)' : AskedAtLock(ask)'
    <3>1. PICK node, c : node = asking.node /\ c = asking.candidate OBVIOUS
    <3>2. AtLock(node, c) BY <1>5, <2>1, <3>1 DEF Reading
    <3>3. AtLock(node, c)' BY <2>9, <3>2
    <3>4. AtLock(asking.node, asking.candidate)' BY <2>7, <3>1, <3>3 DEF AtLock
    <3>5. \A ask \in asking.asks : AskedAtLock(ask)' BY <1>5, <2>1, <2>9 DEF Reading
    <3> QED BY <2>7, <2>8, <3>4, <3>5
  <2>12. phase' = "solve" /\ ~missed' BY <1>4, <2>1, <2>2 DEF Reading
  <2> QED BY <1>1, <1>4, <2>1, <2>4, <2>10, <2>11, <2>12 DEF LockInv
<1>15. CASE Break
  <2>1. Reading /\ (Asked.from \in failed \/ NamesNothing(Asked) \/ SecondSource)
    BY <1>15 DEF Break, Read
  <2>2. ~SecondSource BY <1>5, <1>9, <2>1 DEF SecondSource, FromLock
  <2> QED BY <1>4, <1>9, <2>1, <2>2
<1>16. CASE Push
  <2>1. /\ trail' = Append(trail, [node |-> asking.node, candidate |-> asking.candidate,
                                   asks |-> asking.asks, tried |-> asking.tried])
        /\ asking.node # NoNode /\ asking'.node = NoNode /\ phase' = "solve"
        /\ UNCHANGED <<fetchAll, ahead, missed, origins, again, known, failed>>
    BY <1>16 DEF Push, NotAsking
  <2>2. ASSUME NEW i \in DOMAIN trail'
        PROVE  /\ AtLock(trail[i].node, trail[i].candidate)'
               /\ \A ask \in (trail[i].asks)' : AskedAtLock(ask)'
    <3>1. CASE i \in DOMAIN trail
      <4>1. trail'[i] = trail[i] BY <2>1, <3>1 DEF TypeOK
      <4> QED BY <1>1, <1>5, <2>1, <3>1, <4>1 DEF AtLock, AskedAtLock, FromLock
    <3>2. CASE i \notin DOMAIN trail
      <4>1. /\ trail'[i].node = asking.node /\ trail'[i].candidate = asking.candidate
            /\ trail'[i].asks = asking.asks
        BY <2>1, <2>2, <3>2 DEF TypeOK
      <4> QED BY <1>1, <1>5, <2>1, <4>1 DEF AtLock, AskedAtLock, FromLock
    <3> QED BY <3>1, <3>2
  <2> QED BY <1>1, <1>4, <1>7, <2>1, <2>2 DEF LockInv
<1>17. CASE Decide
  <2>1. PICK node \in Urgent :
          LET c == Choice(node, Left(node) \ again.tried) IN
          IF Declares(node, c)
          THEN /\ asking' = [node |-> node, candidate |-> c, todo |-> Brought(node, c),
                             asks |-> IF node.is = "feature" THEN {Ask(Package(node.name), {c})} ELSE {},
                             tried |-> again.tried]
               /\ again' = NotAgain
          ELSE /\ again' = [node |-> node, tried |-> again.tried \union {c}]
               /\ UNCHANGED asking
    BY <1>17 DEF Decide
  <2>2. phase' = phase /\ phase = "solve"
        /\ UNCHANGED <<fetchAll, ahead, missed, origins, trail, known, failed>>
    BY <1>17 DEF Decide, Deciding
  <2>3. PICK n \in Names :
          /\ FromLock(n) /\ node = Package(n)
          /\ Choice(node, Left(node) \ again.tried) = world.lock[n].commit
    BY <1>3, <2>1, UrgentIsLocked
  <2>4. node.is = "package" BY <2>3 DEF Package
  <2>5. /\ asking'.node = node /\ asking'.candidate = world.lock[n].commit
        /\ asking'.asks = {} /\ again' = NotAgain
    BY <2>1, <2>3, <2>4 DEF Declares
  <2>6. AtLock(asking.node, asking.candidate)'
    BY <1>1, <2>2, <2>3, <2>5 DEF AtLock, FromLock
  <2>7. \A i \in DOMAIN trail' :
          /\ AtLock(trail[i].node, trail[i].candidate)'
          /\ \A ask \in (trail[i].asks)' : AskedAtLock(ask)'
    BY <1>1, <1>5, <2>2 DEF AtLock, AskedAtLock, FromLock
  <2> QED BY <1>1, <1>4, <1>7, <2>2, <2>5, <2>6, <2>7 DEF LockInv
<1>18. CASE TakeBack \/ NoSolution
  <2>1. Stuck BY <1>18 DEF TakeBack, NoSolution
  <2>2. ~Stuck BY <1>3, LeftHoldsLocked, UrgentIsLocked DEF Stuck
  <2> QED BY <2>1, <2>2
<1>19. CASE Solved
  <2>1. /\ chosen' = [n \in Packages |-> trail[CandidateOf(n)].candidate] /\ phase' = "judge"
        /\ UNCHANGED <<fetchAll, ahead, missed, origins, trail, again, known, failed, asking>>
    BY <1>19 DEF Solved
  <2>2. \A n \in Packages : trail[CandidateOf(n)].candidate \in Candidates
    <3>1. trail \in Seq(Decisions) BY DEF TypeOK
    <3>2. \A i \in DOMAIN trail : trail[i] \in Decisions BY <3>1
    <3>3. \A i \in DOMAIN trail : trail[i].candidate \in Candidates BY <3>2 DEF Decisions
    <3> QED BY <3>3 DEF Packages, Decided, CandidateOf
  <2>3. chosen' # Nothing
    <3>1. chosen' \in [Packages -> Candidates] /\ Packages \subseteq Names
      BY <2>1, <2>2 DEF Packages
    <3> QED BY <3>1, MarkersAssumption
  <2>4. ASSUME NEW n \in Packages
        PROVE  FromLock(n) /\ chosen'[n] = world.lock[n].commit
    <3>1. /\ CandidateOf(n) \in DOMAIN trail /\ trail[CandidateOf(n)].node = Package(n)
          /\ n \in Names
      BY DEF Packages, Decided, CandidateOf
    <3>2. AtLock(Package(n), trail[CandidateOf(n)].candidate) BY <1>5, <3>1
    <3> QED BY <2>1, <3>1, <3>2, NodesApart DEF AtLock
  <2>5. \A n \in DOMAIN chosen' : FromLock(n)' /\ chosen'[n] = (world.lock[n].commit)'
    BY <1>1, <2>1, <2>4 DEF FromLock
  <2> QED BY <1>1, <1>4, <1>7, <1>8, <2>1, <2>3, <2>5 DEF LockInv
<1>20. CASE Restart
  <2>1. phase = "judge" /\ Stale BY <1>20 DEF Restart
  <2>2. \A n \in DOMAIN chosen : /\ chosen[n] = world.lock[n].commit
                                 /\ LockedFrom(n, origins[n]) = world.lock[n].commit
    BY <1>6, <2>1 DEF FromLock, LockedFrom
  <2>3. ~Moved BY <2>2 DEF Moved
  <2> QED BY <1>4, <1>6, <2>1, <2>3 DEF Stale
<1>21. CASE Accept \/ Refuse \/ UNCHANGED vars
  <2>1. ~Refuse BY <1>6 DEF Refuse
  <2>2. /\ UNCHANGED <<fetchAll, ahead, missed, origins, trail, again, known, failed, asking, chosen>>
        /\ phase' = phase \/ (phase = "judge" /\ phase' = "done")
    BY <1>21, <2>1 DEF Accept, vars
  <2>3. phase' \in {"judge", "done"} =>
          /\ chosen' # Nothing
          /\ \A n \in DOMAIN chosen' : FromLock(n)' /\ chosen'[n] = (world.lock[n].commit)'
    BY <1>1, <1>6, <2>2 DEF FromLock
  <2> QED BY <1>1, <1>4, <1>7, <1>8, <2>2, <2>3 DEF LockInv
<1> QED BY <1>10, <1>11, <1>12, <1>13, <1>14, <1>15, <1>16, <1>17, <1>18, <1>19, <1>20, <1>21
        DEF Next

\* Whatever else its mirrors, upstream and manifests hold, a project whose
\* lock holds resolves without the network, to the lock's own commits.
THEOREM LockIsEnough == Spec => []LockNeedsNoNetwork
<1>1. Init => LockInv BY LockInit
<1>2. TypeOK /\ Shape /\ LockInv /\ [Next]_vars => LockInv' BY LockNext
<1>3. Inductive => TypeOK /\ Shape BY DEF Inductive
<1>4. LockInv => LockNeedsNoNetwork BY DEF LockInv, LockNeedsNoNetwork
<1> QED BY <1>1, <1>2, <1>3, <1>4, Invariance, PTL DEF Spec
=============================================================================
