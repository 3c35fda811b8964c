------------------------------ MODULE Drivers ------------------------------
(***************************************************************************)
(* What is built of a design (astli-sema, built.rs), what drives a         *)
(* variable of it twice (drivers.rs), and what drives one not at all       *)
(* (astli-lint, rules/drivers.rs).                                         *)
(*                                                                         *)
(* A scope, of a definition or a generate block, is [id, members]; a       *)
(* member is [is |-> "driver", driver, sole, writes], a generate if or     *)
(* case [is |-> "if", arms], or a loop [is |-> "for", body].  A write is   *)
(* [var, home, whole, bits]: the scope the variable is of, and the bits    *)
(* that are known to be written, for each copy of a loop's body and, as    *)
(* copy 0, at the defaults.  Only what is certain to write is listed.      *)
(***************************************************************************)
EXTENDS Integers, Sequences, SequencesExt, FiniteSets

CONSTANT Depth   \* how deep the tree is followed

Sel == INSTANCE Selects

\* Each driver, with its scope and the generate arms it stands in.
RECURSIVE Place(_, _)
Place(scope, arms) ==
    LET Of(m, i) ==
            CASE m.is = "driver" -> <<[driver |-> m.driver, sole |-> m.sole, writes |-> m.writes,
                                       scope |-> scope.id, arms |-> arms]>>
              [] m.is = "if" -> FlattenSeq([a \in DOMAIN m.arms |->
                                    Place(m.arms[a], Append(arms, <<scope.id, i, a>>))])
              [] m.is = "for" -> Place(m.body, arms)
    IN FlattenSeq([i \in DOMAIN scope.members |-> Of(scope.members[i], i)])

Located(drivers, id) == SelectSeq(drivers, LAMBDA d : d.scope = id)

\* Whether one of two drivers exists whenever the other does.
Together(a, b) == IsPrefix(a.arms, b.arms) \/ IsPrefix(b.arms, a.arms)

-----------------------------------------------------------------------------
(* The writers of each variable: [key, list] in the order first written,   *)
(* a writer [driver, path, sole, whole, bits, inside].                     *)

Overlaps(a, b) == a.whole \/ b.whole \/ a.bits \intersect b.bits # {}

\* The first that clashes with one before it, and that one.
Clash(list, Both(_, _)) ==
    LET Clashes(first, second) ==
            Overlaps(first, second) /\ (first.sole \/ second.sole) /\ Both(first, second)
        pairs == {p \in (DOMAIN list) \X (DOMAIN list) :
                    p[1] < p[2] /\ Clashes(list[p[1]], list[p[2]])}
    IN {<<list[p[1]], list[p[2]]>> : p \in
            {p \in pairs : \A q \in pairs : p[2] < q[2] \/ (p[2] = q[2] /\ p[1] <= q[1])}}

\* A wrong one: each write of a driver is a writer of its own.
AddEach(list, writer) == Append(list, writer)

\* All a driver writes in one frame is one writer.
Add(list, writer) ==
    LET same == {i \in DOMAIN list : list[i].driver = writer.driver /\ list[i].path = writer.path}
    IN IF same = {} THEN Append(list, writer)
       ELSE [i \in DOMAIN list |->
                IF i \in same THEN [list[i] EXCEPT !.whole = @ \/ writer.whole, !.bits = @ \union writer.bits]
                ELSE list[i]]

\* Found is a sequence of <<key, writer>>.
Writers(found) ==
    FoldLeft(LAMBDA all, f :
                IF \E i \in DOMAIN all : all[i].key = f[1]
                THEN [i \in DOMAIN all |-> IF all[i].key = f[1]
                                           THEN [all[i] EXCEPT !.list = Add(@, f[2])] ELSE all[i]]
                ELSE Append(all, [key |-> f[1], list |-> Add(<<>>, f[2])]),
             <<>>, found)

\* What is told: for each variable at most one pair.
Told(found, Both(_, _)) ==
    LET writers == Writers(found)
    IN UNION {{[key |-> writers[i].key, pair |-> pair] : pair \in Clash(writers[i].list, Both)}
              : i \in DOMAIN writers}

-----------------------------------------------------------------------------
(* In one body built: its frames are [scope, copy, blocks].                *)

RECURSIVE Collect(_, _, _, _)
Collect(frame, drivers, path, above) ==
    LET frames == Append(above, [scope |-> frame.scope, path |-> path])
        here == Located(drivers, frame.scope)
        \* The innermost frame around that holds the declaration.
        Found(d, w) ==
            LET owners == SelectSeq(frames, LAMBDA f : f.scope = w.home) IN
            IF owners = <<>> THEN <<>>
            ELSE << << <<Last(owners).path, w.var>>,
                       [driver |-> d.driver, path |-> path, sole |-> d.sole, whole |-> w.whole,
                        bits |-> w.bits[frame.copy], inside |-> FALSE] >> >>
    IN FlattenSeq([i \in DOMAIN here |->
            FlattenSeq([j \in DOMAIN here[i].writes |-> Found(here[i], here[i].writes[j])])])
       \o FlattenSeq([i \in DOMAIN frame.blocks |->
            Collect(frame.blocks[i], drivers, Append(path, i), frames)])

Built(scope, frame) ==
    Told(Collect(frame, Place(scope, <<>>), <<>>, <<>>), LAMBDA first, second : TRUE)

\* In a definition no top builds, with every arm.
AtDefaults(scope) ==
    LET drivers == Place(scope, <<>>)
        Of(d) == [j \in DOMAIN d.writes |->
                    <<d.writes[j].var,
                      [driver |-> d.driver, path |-> <<>>, sole |-> d.sole, arms |-> d.arms,
                       whole |-> d.writes[j].whole, bits |-> d.writes[j].bits[0]]>>]
    IN Told(FlattenSeq([i \in DOMAIN drivers |-> Of(drivers[i])]), Together)

-----------------------------------------------------------------------------
(* In the tree: a body is [interface, twice, drivers, children], twice if  *)
(* more than one file declares its definition.  A driver also writes       *)
(* through a base: an interface port [is |-> "port", port, at] or an       *)
(* instance of an interface [is |-> "instance", name, home, dims, at], at  *)
(* <<>> or an index, of no value where it cannot be told.  A child is an instance       *)
(* [is |-> "instance", name, of, single, connects], connects a function    *)
(* from ports to bases, a generate block [is |-> "block", name, of], or    *)
(* one under a construct that cannot be decided, "undecided".              *)

\* What is built: the bodies, the definitions reached and the fates of
\* generate blocks, each body once if built for sure and once if not.
RECURSIVE Walk(_, _, _, _, _)
RECURSIVE WalkFrame(_, _, _, _, _)
WalkFrame(tree, body, certain, built, depth) ==
    FoldLeft(LAMBDA b, child :
                IF child.is = "block"
                THEN WalkFrame(tree, child.of, certain,
                               [b EXCEPT !.fates = @ \union {<<child.of, certain>>}], depth + 1)
                ELSE IF child.is = "undecided"
                THEN [b EXCEPT !.fates = @ \union {<<child.of, FALSE>>}]
                ELSE LET sure == certain /\ ~tree[child.of].twice IN
                     Walk(tree, child.of, sure,
                          [b EXCEPT !.definitions = @ \union (IF sure THEN {child.of} ELSE {})], depth + 1),
             built, tree[body].children)
Walk(tree, body, certain, built, depth) ==
    IF depth > Depth \/ <<body, certain>> \in built.seen THEN built
    ELSE LET after == WalkFrame(tree, body, certain,
                                [built EXCEPT !.seen = @ \union {<<body, certain>>}], depth)
         IN [after EXCEPT !.bodies = IF certain THEN Append(@, body) ELSE @]

BuiltFrom(tree, tops) ==
    FoldLeft(LAMBDA b, top :
                LET sure == ~tree[top].twice IN
                Walk(tree, top, sure,
                     [b EXCEPT !.definitions = @ \union (IF sure THEN {top} ELSE {}),
                               !.tops = IF sure THEN Append(@, top) ELSE @], 0),
             [definitions |-> {}, tops |-> <<>>, bodies |-> <<>>, seen |-> {}, fates |-> {}], tops)

\* Built in some body, or else undecided.
Fate(built, block) == IF <<block, TRUE>> \in built.fates THEN "built" ELSE "undecided"

\* The path of the interface instance a base names, if it is told.
Interface(at, base) ==
    IF base.is = "port"
    THEN IF base.at = <<>> /\ base.port \in DOMAIN at.ports THEN {at.ports[base.port]} ELSE {}
    ELSE LET around == SelectSeq(at.frames, LAMBDA f : f.scope = base.home) IN
         CASE around = <<>> -> {}
           [] base.dims = 0 /\ base.at = <<>> -> {Append(Last(around).path, base.name)}
           [] base.dims = 1 /\ Len(base.at) = 1 ->
                {Last(around).path \o <<base.name, i>> : i \in base.at[1]}
           [] OTHER -> {}

\* Whether an interface is built or connected in a body or below it.
RECURSIVE Touches(_, _)
Touches(tree, body) ==
    \/ tree[body].interface
    \/ \E i \in DOMAIN tree[body].children :
        LET child == tree[body].children[i] IN
        \/ child.is = "instance" /\ DOMAIN child.connects # {}
        \/ child.is # "undecided" /\ Touches(tree, child.of)

\* What a driver in a frame writes of interfaces: through a base, and, in an
\* interface, of its own.
Through(at, id, d) ==
    LET Writer(w, inside) == [driver |-> id, path |-> at.path, sole |-> d.sole,
                              whole |-> w.whole, bits |-> w.bits, inside |-> inside]
        Out(w) == SetToSeq({<<<<path, w.var>>, Writer(w, FALSE)>> : path \in Interface(at, w.base)})
        Own(w) == SetToSeq({<<<<path, w.var>>, Writer(w, TRUE)>> : path \in
                    IF \E i \in DOMAIN at.frames : at.frames[i].scope = w.home THEN at.own ELSE {}})
    IN FlattenSeq([j \in DOMAIN d.through |-> Out(d.through[j])])
       \o FlattenSeq([j \in DOMAIN d.own |-> Own(d.own[j])])

RECURSIVE Instance(_, _, _, _, _, _)
RECURSIVE Frame(_, _, _, _, _)
Frame(tree, body, path, above, depth) ==
    LET at == [above EXCEPT !.frames = Append(@, [scope |-> body, path |-> path]),
                            !.body = body, !.path = path]
        drivers == tree[body].drivers
        Below(child) ==
            LET inner == Append(path, child.name)
                ports == IF child.is # "instance" THEN [p \in {} |-> <<>>]
                         ELSE [p \in {p \in DOMAIN child.connects : Interface(at, child.connects[p]) # {}} |->
                            CHOOSE i \in Interface(at, child.connects[p]) : TRUE]
            IN CASE child.is = "undecided" -> <<>>
                 [] child.is = "block" -> Frame(tree, child.of, inner, at, depth + 1)
                 [] tree[child.of].twice -> <<>>
                 [] DOMAIN ports = {} /\ ~Touches(tree, child.of) -> <<>>
                 [] OTHER -> Instance(tree, child.of, inner, ports,
                                      IF tree[child.of].interface /\ child.single THEN {inner} ELSE {},
                                      depth + 1)
    IN FoldLeft(LAMBDA found, child : found \o Below(child),
                FlattenSeq([i \in DOMAIN drivers |-> Through(at, i, drivers[i])]), tree[body].children)
Instance(tree, body, path, ports, own, depth) ==
    IF depth > Depth THEN <<>>
    ELSE Frame(tree, body, path, [ports |-> ports, own |-> own, frames |-> <<>>, body |-> body, path |-> path],
               depth)

\* The interface's own drivers are compared in its body.
InTree(tree, tops) ==
    LET built == BuiltFrom(tree, tops).tops
    IN Told(FlattenSeq([i \in DOMAIN built |->
                Instance(tree, built[i], <<built[i]>>, [p \in {} |-> <<>>], {}, 0)]),
            LAMBDA first, second : ~(first.inside /\ second.inside))

-----------------------------------------------------------------------------
(* What nothing drives: from accesses [read, write, whole, certain, part], *)
(* part the range of bits, <<>> where it cannot be told, to a signal of    *)
(* some bits, or an output.                                                *)

Placed(access) == access.certain /\ ~access.whole /\ access.part # <<>>
Parts(accesses) == [i \in DOMAIN SelectSeq(accesses, Placed) |-> SelectSeq(accesses, Placed)[i].part]

\* The ranges told of, all bits when it is never written.
Undriven(output, bits, accesses, afar) ==
    LET reads == SelectSeq(accesses, LAMBDA a : a.read)
        writes == SelectSeq(accesses, LAMBDA a : a.write)
        Whole(list) == \E i \in DOMAIN list : ~Placed(list[i])
        unplaced == \E i \in DOMAIN reads :
                        ~reads[i].certain \/ (~reads[i].whole /\ reads[i].part = <<>>)
        needed == IF reads # <<>> /\ ~Whole(reads) /\ ~output /\ ~afar.read THEN Parts(reads)
                  ELSE <<<<0, bits>>>>
    IN CASE (~output /\ reads = <<>> /\ ~afar.read) \/ Whole(writes) \/ afar.write -> <<>>
         [] writes = <<>> -> <<<<0, bits>>>>
         [] unplaced -> <<>>
         [] OTHER -> Sel!Missing(needed, Parts(writes))
-----------------------------------------------------------------------------
(* What they promise.                                                      *)

RECURSIVE Paths(_)
Paths(frame) ==
    {<<>>} \union UNION {{<<i>> \o path : path \in Paths(frame.blocks[i])} : i \in DOMAIN frame.blocks}
At(frame, path) == FoldLeft(LAMBDA f, i : f.blocks[i], frame, path)

\* Every single write of a body built.
Written(drivers, frame) ==
    UNION {LET owners == {n \in 0 .. Len(path) : At(frame, SubSeq(path, 1, n)).scope = w.home} IN
           {[key |-> <<SubSeq(path, 1, owner), w.var>>,
             driver |-> d.driver, path |-> path, sole |-> d.sole,
             whole |-> w.whole, bits |-> w.bits[At(frame, path).copy]]
            : owner \in {o \in owners : \A n \in owners : n <= o}}
           : <<path, d, w>> \in UNION {{<<path, d, w>> : w \in ToSet(d.writes)} : <<path, d>> \in
                {p \in Paths(frame) \X drivers : At(frame, p[1]).scope = p[2].scope}}}

Conflict(a, b) ==
    /\ a.key = b.key /\ <<a.driver, a.path>> # <<b.driver, b.path>>
    /\ Overlaps(a, b) /\ (a.sole \/ b.sole)

Keys(told) == {t.key : t \in told}
OncePerKey(told) == \A t, u \in told : t.key = u.key => t = u

\* Exactly the variables of which two drivers, or one in two places, write
\* some bit are told of, each once.  What is warned of at the defaults is an
\* error wherever both drivers are built beside each other, and one of them
\* exists, loops that run granted, whenever the other does; and all such are
\* warned of.
BodiesTell(scope, elaborations, running) ==
    LET warned == AtDefaults(scope)
        drivers == ToSet(Place(scope, <<>>))
        Exists(d, frame) == \E path \in Paths(frame) : At(frame, path).scope = d.scope
        Follows(a, b) == \A frame \in running : Exists(a, frame) => Exists(b, frame)
    IN /\ \A frame \in elaborations :
            LET written == Written(drivers, frame)
                told == Built(scope, frame)
                clashing == {a.key : a \in {a \in written : \E b \in written : Conflict(a, b)}}
            IN /\ Keys(told) = clashing /\ OncePerKey(told)
               /\ \A t \in warned, a, b \in written :
                    a.key = b.key /\ a.key[2] = t.key
                    /\ a.driver = t.pair[1].driver /\ b.driver = t.pair[2].driver => a.key \in clashing
       /\ OncePerKey(warned)
       /\ \A t \in warned :
            LET Of(writer) == CHOOSE d \in drivers : d.driver = writer.driver
            IN Follows(Of(t.pair[1]), Of(t.pair[2])) \/ Follows(Of(t.pair[2]), Of(t.pair[1]))
       /\ \A a, b \in drivers :
            \A w \in ToSet(a.writes), v \in ToSet(b.writes) :
               /\ a.driver # b.driver /\ (a.sole \/ b.sole) /\ w.var = v.var
               /\ w.whole \/ v.whole \/ w.bits[0] \intersect v.bits[0] # {}
               /\ Follows(a, b) \/ Follows(b, a)
               => w.var \in Keys(warned)

\* The nodes of a tree are the places of children from a top down.
BodyAt(tree, node) == FoldLeft(LAMBDA body, i : tree[body].children[i].of, node[1], Tail(node))
ChildAt(tree, node) == tree[BodyAt(tree, Front(node))].children[Last(node)]
NameOf(tree, node) ==
    [n \in DOMAIN node |-> IF n = 1 THEN node[1] ELSE ChildAt(tree, SubSeq(node, 1, n)).name]

RECURSIVE Nodes(_, _)
Nodes(tree, node) ==
    {node} \union
    UNION {Nodes(tree, Append(node, i)) : i \in
            {i \in DOMAIN tree[BodyAt(tree, node)].children :
                LET child == tree[BodyAt(tree, node)].children[i] IN
                child.is = "block" \/ (child.is = "instance" /\ ~tree[child.of].twice)}}
AllNodes(tree, tops) == UNION {Nodes(tree, <<top>>) : top \in {t \in ToSet(tops) : ~tree[t].twice}}

\* The node of the instance a node is in, and those from it down to the node.
RECURSIVE InstanceOf(_, _)
InstanceOf(tree, node) ==
    IF Len(node) > 1 /\ ChildAt(tree, node).is = "block" THEN InstanceOf(tree, Front(node)) ELSE node
FramesOf(tree, node) == {SubSeq(node, 1, n) : n \in Len(InstanceOf(tree, node)) .. Len(node)}

RECURSIVE Resolved(_, _, _)
Resolved(tree, node, base) ==
    LET instance == InstanceOf(tree, node)
        homes == {f \in FramesOf(tree, node) : BodyAt(tree, f) = base.home}
    IN CASE base.is = "port" ->
                IF base.at = <<>> /\ Len(instance) > 1 /\ base.port \in DOMAIN ChildAt(tree, instance).connects
                THEN Resolved(tree, Front(instance), ChildAt(tree, instance).connects[base.port]) ELSE {}
         [] base.dims = 0 /\ base.at = <<>> -> {Append(NameOf(tree, f), base.name) : f \in homes}
         [] base.dims = 1 /\ Len(base.at) = 1 ->
                {NameOf(tree, f) \o <<base.name, i>> : f \in homes, i \in base.at[1]}
         [] OTHER -> {}

\* Every single write of an interface's variable, with where it is from.
Reaching(tree, node) ==
    LET d(i) == tree[BodyAt(tree, node)].drivers[i]
        instance == InstanceOf(tree, node)
        Write(i, w, path, inside) ==
            [key |-> <<path, w.var>>, driver |-> i, path |-> node, sole |-> d(i).sole,
             whole |-> w.whole, bits |-> w.bits, inside |-> inside]
        Out(i) == UNION {{Write(i, w, path, FALSE) : path \in Resolved(tree, node, w.base)}
                         : w \in ToSet(d(i).through)}
        Own(i) == IF Len(instance) > 1 /\ tree[BodyAt(tree, instance)].interface /\ ChildAt(tree, instance).single
                  THEN {Write(i, w, NameOf(tree, instance), TRUE) : w \in
                        {w \in ToSet(d(i).own) : w.home \in {BodyAt(tree, n) : n \in FramesOf(tree, node)}}}
                  ELSE {}
    IN UNION {Out(i) \union Own(i) : i \in DOMAIN tree[BodyAt(tree, node)].drivers}

\* Exactly the interfaces' variables that two drivers write, not both of the
\* interface, are told of; and what is built is what instances reach.
TreeTells(tree, tops) ==
    LET told == InTree(tree, tops)
        built == BuiltFrom(tree, tops)
        nodes == AllNodes(tree, tops)
        writes == UNION {Reaching(tree, node) : node \in nodes}
    IN /\ Keys(told) = {a.key : a \in {a \in writes : \E b \in writes :
                                        Conflict(a, b) /\ ~(a.inside /\ b.inside)}}
       /\ OncePerKey(told)
       /\ built.definitions = {BodyAt(tree, n) : n \in
                                {n \in nodes : Len(n) = 1 \/ ChildAt(tree, n).is = "instance"}}
       /\ ToSet(built.bodies) = built.definitions
       /\ Len(built.bodies) = Cardinality(built.definitions)
       /\ \A fate \in built.fates :
            (Fate(built, fate[1]) = "built") <=> (\E n \in nodes : BodyAt(tree, n) = fate[1])

\* What is told of is read, or an output's, and whatever the writes that are
\* not known may write, no write reaches it; and where all is known, all
\* such bits are told of.
UndrivenIsTold(output, bits, accesses, afar) ==
    LET told == UNION {r[1] .. r[2] - 1 : r \in ToSet(Undriven(output, bits, accesses, afar))}
        all == 0 .. bits - 1
        known == \A i \in DOMAIN accesses : accesses[i].certain /\ (accesses[i].whole \/ accesses[i].part # <<>>)
        Of(a) == IF a.whole \/ a.part = <<>> THEN all ELSE a.part[1] .. a.part[2] - 1
        read == UNION {Of(a) : a \in {a \in ToSet(accesses) : a.read}}
        written == UNION {IF a.certain THEN Of(a) ELSE all : a \in {a \in ToSet(accesses) : a.write}}
        needed == IF output \/ afar.read THEN all ELSE read
    IN /\ told \intersect written = {}
       /\ afar.write => told = {}
       /\ written # {} => told \subseteq needed
       /\ known /\ ~afar.write /\ needed # {} => told = (IF written = {} THEN all ELSE needed \ written)
=============================================================================
