-------------------------------- MODULE Accesses --------------------------------
(***************************************************************************)
(* Which symbols a file reads and writes, and what drives each write       *)
(* (astli-sema, access.rs).  A name is the symbol it means; what is only   *)
(* read is a kind of its own, whatever operator it is of, and so is what   *)
(* holds others.  What may be left out is a sequence of none or one.       *)
(***************************************************************************)
EXTENDS Integers, Sequences, SequencesExt, FiniteSets

Nobody == "nobody"    \* what a name that means nothing means

\* Expressions.
Leaf == [is |-> "leaf"]
Name(symbol) == [is |-> "name", symbol |-> symbol]
Scoped(base, symbol) == [is |-> "scoped", base |-> base, symbol |-> symbol]
Step(of) == [is |-> "step", of |-> of]
Operator(parts) == [is |-> "operator", parts |-> parts]
Select(base, indices) == [is |-> "select", base |-> base, indices |-> indices]
Member(base, symbol) == [is |-> "member", base |-> base, symbol |-> symbol]
Method(base, ports) == [is |-> "method", base |-> base, ports |-> ports]   \* what is called of it
Concat(parts) == [is |-> "concat", parts |-> parts]
Keyed(keys, parts) == [is |-> "keyed", keys |-> keys, parts |-> parts]   \* a pattern or a stream
Assign(op, lhs, rhs) == [is |-> "assign", op |-> op, lhs |-> lhs, rhs |-> rhs]
Call(callee, args) == [is |-> "call", callee |-> callee, args |-> args]
System(name) == [is |-> "system", name |-> name]
Named(symbol, ports) == [is |-> "named", symbol |-> symbol, ports |-> ports]   \* what is called
Opaque(names) == [is |-> "opaque", names |-> names]
\* An argument, by its place or its name, which may be all there is of it.
Arg(by, name, value) == [by |-> by, name |-> name, value |-> value]

\* Statements.
Expr(e) == [is |-> "expr", e |-> e]
Trigger(e) == [is |-> "trigger", e |-> e]
Override(keyword, e) == [is |-> "override", keyword |-> keyword, e |-> e]
Block(scope, stmts) == [is |-> "block", scope |-> scope, stmts |-> stmts]
Branches(exprs, stmts) == [is |-> "branches", exprs |-> exprs, stmts |-> stmts]
Foreach(vars, array, stmts) == [is |-> "foreach", vars |-> vars, array |-> array, stmts |-> stmts]

\* Members of scopes, which may be what is declared.
Assigns(id, e) == [is |-> "assigns", id |-> id, e |-> e]
Process(id, stmt) == [is |-> "process", id |-> id, stmt |-> stmt]
Generate(exprs, scopes) == [is |-> "generate", exprs |-> exprs, scopes |-> scopes]
Defparam(e) == [is |-> "defparam", e |-> e]
Definition(id, scope) == [is |-> "definition", id |-> id, scope |-> scope]
Data(id, reads, init) == [is |-> "data", id |-> id, reads |-> reads, init |-> init]
Subroutine(id, reads, scope, stmts) ==
    [is |-> "subroutine", id |-> id, reads |-> reads, scope |-> scope, stmts |-> stmts]
Modport(items) == [is |-> "modport", items |-> items]
Clocking(reads, items, scope) == [is |-> "clocking", reads |-> reads, items |-> items, scope |-> scope]
Signal(direction, e) == [direction |-> direction, e |-> e]
Instance(id, reads, gate, ports, connections, wildcard) ==
    [is |-> "instance", id |-> id, reads |-> reads, gate |-> gate, ports |-> ports,
     connections |-> connections, wildcard |-> wildcard]
Port(name, direction) == [name |-> name, direction |-> direction]

\* How an expression is used.
Mode(read, write, certain) == [read |-> read, write |-> write, certain |-> certain]
READ == Mode(TRUE, FALSE, TRUE)
WRITE == Mode(FALSE, TRUE, TRUE)
BOTH == Mode(TRUE, TRUE, TRUE)
GUESS == Mode(TRUE, TRUE, FALSE)
MAYBE_READ == Mode(TRUE, FALSE, FALSE)
MAYBE_WRITE == Mode(FALSE, TRUE, FALSE)

\* Who drives what is written: a kind and a name; and what it stands in.
Driver(is, of) == [is |-> is, of |-> of]
Other == Driver("other", "")
Within(cx, id) == [cx EXCEPT !.within = id]
Driven(cx, is, of) == [cx EXCEPT !.driver = Driver(is, of)]
Outside == [within |-> "", driver |-> Other]

AccessPart(cx, symbol, mode, whole, place, base) ==
    IF symbol = Nobody THEN {}
    ELSE {[symbol |-> symbol, read |-> mode.read, write |-> mode.write, certain |-> mode.certain, whole |-> whole,
           place |-> place, base |-> base, driver |-> cx.driver, within |-> cx.within]}
Access(cx, symbol, mode) == AccessPart(cx, symbol, mode, TRUE, <<>>, <<>>)

\* How a port is used from where it is connected.
Direction(port) ==
    CASE port.direction = "input" -> READ
      [] port.direction = "output" -> WRITE
      [] port.direction = "none" -> GUESS
      [] OTHER -> BOTH

\* A gate's terminals: which are driven and which carried both ways.
Terminals(gate, count) ==
    LET carried == IF gate = "tran" THEN 2 ELSE 0
        driven == CASE gate = "buf" -> count - 1 [] gate = "pullup" -> count [] OTHER -> 1
    IN [i \in 1 .. count |-> IF i <= carried THEN BOTH ELSE IF i <= driven THEN WRITE ELSE READ]

\* Whether a system task may write its argument at a place, from 1.
SystemWrites(name, place) ==
    CASE name = "scan" -> place >= 3
      [] name = "load" -> place = 2
      [] name = "into" -> place = 1
      [] OTHER -> FALSE

\* How arguments are used, those by their name and those by their place.
ByPorts(ports) == [names |-> [i \in DOMAIN ports |-> ports[i].name],
                   modes |-> [i \in DOMAIN ports |-> Direction(ports[i])], other |-> GUESS]
ByPlace(modes, other) == [names |-> <<>>, modes |-> modes, other |-> other]
ModeOf(by, args, i) ==
    LET named == {at \in DOMAIN by.names : by.names[at] = args[i].name}
        place == Cardinality({at \in 1 .. i : args[at].by = "place"})
    IN CASE args[i].by # "place" /\ named # {} -> by.modes[CHOOSE at \in named : \A other \in named : at <= other]
         [] args[i].by = "place" /\ place \in DOMAIN by.modes -> by.modes[place]
         [] OTHER -> by.other

RECURSIVE Part(_, _, _, _), Args(_, _, _)

Reads(cx, exprs) == UNION {Part(cx, exprs[i], READ, <<>>) : i \in DOMAIN exprs}
Spelled(cx, names) == UNION {AccessPart(cx, names[i], GUESS, FALSE, <<>>, <<>>) : i \in DOMAIN names}

\* Each argument as the port it is passed to says.
Called(cx, callee, args) ==
    CASE callee.is = "system" ->
            Args(cx, args, ByPlace([i \in DOMAIN args |-> IF SystemWrites(callee.name, i) THEN BOTH ELSE READ], READ))
      [] callee.is = "method" -> Part(cx, callee.base, GUESS, <<callee>>) \union Args(cx, args, ByPorts(callee.ports))
      [] OTHER -> Access(cx, callee.symbol, READ) \union Args(cx, args, ByPorts(callee.ports))

\* place is the outermost select or member that an expression is the base of,
\* if it is not all of what it names that is used.
Part(cx, e, mode, place) ==
    LET outer == IF place = <<>> THEN <<e>> ELSE place
        Parts(of) == UNION {Part(cx, of[i], mode, place) : i \in DOMAIN of}
    IN
    CASE e.is = "leaf" -> {}
      [] e.is = "name" -> AccessPart(cx, e.symbol, mode, place = <<>>, place, <<>>)
      [] e.is = "scoped" ->
            AccessPart(cx, e.symbol, mode, place = <<>>, place, <<>>) \union Access(cx, e.base, READ)
      [] e.is = "step" -> Part(cx, e.of, BOTH, <<>>)
      [] e.is = "operator" -> Reads(cx, e.parts)
      [] e.is = "select" -> Part(cx, e.base, mode, outer) \union Reads(cx, e.indices)
      [] e.is = "member" ->
            AccessPart(cx, e.symbol, mode, place = <<>>, place, <<e.base>>) \union Part(cx, e.base, mode, outer)
      [] e.is = "concat" -> Parts(e.parts)
      [] e.is = "keyed" -> Reads(cx, e.keys) \union Parts(e.parts)
      [] e.is = "assign" -> Part(cx, e.lhs, IF e.op = "=" THEN WRITE ELSE BOTH, <<>>) \union Reads(cx, e.rhs)
      [] e.is = "opaque" -> Spelled(cx, e.names)
      [] e.is = "call" -> Called(cx, e.callee, e.args)

Args(cx, args, by) ==
    UNION {IF args[i].by = "implicit" THEN Access(cx, args[i].value[1].symbol, ModeOf(by, args, i))
           ELSE UNION {Part(cx, args[i].value[k], ModeOf(by, args, i), <<>>) : k \in DOMAIN args[i].value} :
           i \in DOMAIN args}

RECURSIVE Scope(_, _), Stmt(_, _), OfMember(_, _)

Scope(cx, scope) == UNION {OfMember(cx, scope[i]) : i \in DOMAIN scope}
Stmts(cx, stmts) == UNION {Stmt(cx, stmts[i]) : i \in DOMAIN stmts}

Stmt(cx, s) ==
    CASE s.is = "expr" -> Reads(cx, <<s.e>>)
      [] s.is = "trigger" -> Part(cx, s.e, BOTH, <<>>)
      [] s.is = "override" ->
            Part([cx EXCEPT !.driver = Other], s.e, IF s.keyword \in {"release", "deassign"} THEN WRITE ELSE READ, <<>>)
      [] s.is = "block" -> Scope(cx, s.scope) \union Stmts(cx, s.stmts)
      [] s.is = "branches" -> Reads(cx, s.exprs) \union Stmts(cx, s.stmts)
      [] s.is = "foreach" ->
            Reads(cx, <<s.array>>) \union Stmts(cx, s.stmts)
              \union UNION {Access(cx, s.vars[i], WRITE) : i \in DOMAIN s.vars}

\* An initial value writes what it is of.
Init(cx, id, init) ==
    LET own == Driven(cx, "init", id) IN
    IF init = <<>> THEN {} ELSE Access(own, id, WRITE) \union Reads(own, init)

Connected(cx, instance) ==
    LET own == Driven(cx, "instance", instance.id)
        by == IF instance.gate = "" THEN ByPorts(instance.ports)
              ELSE ByPlace(Terminals(instance.gate, Len(instance.connections)), GUESS)
    IN Args(own, instance.connections, by)
         \union UNION {Access(own, instance.wildcard[i].e.symbol, Direction(instance.wildcard[i])) :
                       i \in DOMAIN instance.wildcard}

OfMember(cx, m) ==
    CASE m.is = "assigns" -> Reads(Driven(cx, "assign", m.id), <<m.e>>)
      [] m.is = "process" -> Stmt(Driven(cx, "process", m.id), m.stmt)
      [] m.is = "generate" -> Reads(cx, m.exprs) \union UNION {Scope(cx, m.scopes[i]) : i \in DOMAIN m.scopes}
      [] m.is = "defparam" -> Reads(cx, m.e.rhs)
      [] m.is = "opaque" -> Spelled(cx, m.names)
      [] m.is = "definition" -> Scope(Within(cx, m.id), m.scope)
      [] m.is = "data" -> Reads(cx, m.reads) \union Init(cx, m.id, m.init)
      [] m.is = "subroutine" ->
            LET own == Driven(cx, "subroutine", m.id) IN
            Reads(cx, m.reads) \union Scope(own, m.scope) \union Stmts(own, m.stmts)
      [] m.is = "modport" ->
            UNION {Part(cx, m.items[i].e,
                        CASE m.items[i].direction = "input" -> MAYBE_READ
                          [] m.items[i].direction = "output" -> MAYBE_WRITE
                          [] m.items[i].direction = "clocking" -> READ
                          [] OTHER -> GUESS, <<>>) : i \in DOMAIN m.items}
      [] m.is = "clocking" ->
            Reads(cx, m.reads) \union Scope(cx, m.scope)
              \union UNION {Part(cx, m.items[i].e,
                                 CASE m.items[i].direction = "input" -> READ
                                   [] m.items[i].direction = "output" -> MAYBE_WRITE
                                   [] OTHER -> GUESS, <<>>) : i \in DOMAIN m.items}
      [] m.is = "instance" -> Reads(cx, m.reads) \union Connected(cx, m)

\* Every access of a file, of which what declares it is the outermost.
Accesses(root) == Scope(Outside, root)

(***************************************************************************)
(* What is expected: from a name, up to what first says how it is used.    *)
(* A use is what is below another, and as what: "same" as the other is.    *)
(***************************************************************************)
Use(as, of) == [as |-> as, of |-> of]
Uses(as, of) == [i \in DOMAIN of |-> Use(as, of[i])]

\* What a port is used as, and an argument, by the first port of its name or
\* the one at its place.
DirectionUse(port) ==
    CASE port.direction = "input" -> "value"
      [] port.direction = "output" -> "target"
      [] port.direction = "none" -> "any"
      [] OTHER -> "both"
PortUse(ports, args, i) ==
    LET before == SelectSeq(SubSeq(args, 1, i), LAMBDA arg : arg.by = "place")
        port == IF args[i].by # "place" THEN SelectSeq(ports, LAMBDA it : it.name = args[i].name)
                ELSE IF Len(before) > Len(ports) THEN <<>> ELSE SubSeq(ports, Len(before), Len(before))
    IN IF port = <<>> THEN "any" ELSE DirectionUse(port[1])
GateUse(gate, count, i) ==
    CASE gate = "tran" /\ i \in {1, 2} -> "both"
      [] (gate = "buf" /\ i < count) \/ gate = "pullup" \/ (gate = "and" /\ i = 1) -> "target"
      [] OTHER -> "value"
Written == {<<"scan", 3>>, <<"scan", 4>>, <<"load", 2>>, <<"into", 1>>}
ArgUse(callee, args, i) ==
    IF callee.is = "system" THEN IF <<callee.name, i>> \in Written THEN "both" ELSE "value"
    ELSE PortUse(callee.ports, args, i)
ArgUses(args, As(_)) == FlattenSeq([i \in DOMAIN args |-> Uses(As(i), args[i].value)])

\* What is below an expression, a statement or a member.
Below(n) ==
    CASE n.is \in {"leaf", "name", "system", "named", "opaque"} -> <<>>
      [] n.is = "scoped" -> <<Use("value", Name(n.base))>>
      [] n.is = "step" -> <<Use("both", n.of)>>
      [] n.is = "operator" -> Uses("value", n.parts)
      [] n.is = "select" -> <<Use("same", n.base)>> \o Uses("value", n.indices)
      [] n.is \in {"member", "method"} -> <<Use("same", n.base)>>
      [] n.is = "concat" -> Uses("same", n.parts)
      [] n.is = "keyed" -> Uses("value", n.keys) \o Uses("same", n.parts)
      [] n.is = "assign" -> <<Use(IF n.op = "=" THEN "target" ELSE "both", n.lhs)>> \o Uses("value", n.rhs)
      [] n.is = "call" ->
            <<Use(IF n.callee.is = "method" THEN "any" ELSE "value", n.callee)>>
              \o ArgUses(n.args, LAMBDA i : ArgUse(n.callee, n.args, i))
      [] n.is = "expr" -> <<Use("value", n.e)>>
      [] n.is = "trigger" -> <<Use("both", n.e)>>
      [] n.is = "override" -> <<Use(IF n.keyword = "release" THEN "target" ELSE "value", n.e)>>
      [] n.is = "block" -> Uses("value", n.scope \o n.stmts)
      [] n.is = "branches" -> Uses("value", n.exprs \o n.stmts)
      [] n.is = "foreach" ->
            <<Use("value", n.array)>> \o Uses("target", [i \in DOMAIN n.vars |-> Name(n.vars[i])]) \o Uses("value", n.stmts)
      [] n.is = "assigns" -> <<Use("value", n.e)>>
      [] n.is = "process" -> <<Use("value", n.stmt)>>
      [] n.is = "generate" -> Uses("value", n.exprs \o FlattenSeq(n.scopes))
      [] n.is = "defparam" -> Uses("value", n.e.rhs)
      [] n.is = "definition" -> Uses("value", n.scope)
      [] n.is = "data" -> Uses("value", n.reads) \o Uses("value", [i \in DOMAIN n.init |-> [is |-> "initial", id |-> n.id, e |-> n.init[i]]])
      [] n.is = "initial" -> <<Use("target", Name(n.id)), Use("value", n.e)>>
      [] n.is = "subroutine" -> Uses("value", n.reads) \o <<Use("value", [is |-> "inner", id |-> n.id, parts |-> n.scope \o n.stmts])>>
      [] n.is = "inner" -> Uses("value", n.parts)
      [] n.is = "modport" ->
            [i \in DOMAIN n.items |->
                Use(CASE n.items[i].direction = "input" -> "offered"
                      [] n.items[i].direction = "output" -> "taken"
                      [] n.items[i].direction = "clocking" -> "value"
                      [] OTHER -> "any", n.items[i].e)]
      [] n.is = "clocking" ->
            Uses("value", n.reads \o n.scope)
              \o [i \in DOMAIN n.items |->
                    Use(CASE n.items[i].direction = "input" -> "value"
                          [] n.items[i].direction = "output" -> "taken"
                          [] OTHER -> "any", n.items[i].e)]
      [] n.is = "instance" -> Uses("value", n.reads) \o <<Use("value", [is |-> "connections", id |-> n.id, of |-> n])>>
      [] n.is = "connections" ->
            LET all == n.of.connections
                As(i) == IF n.of.gate = "" THEN PortUse(n.of.ports, all, i) ELSE GateUse(n.of.gate, Len(all), i)
            IN ArgUses(all, As)
                 \o [i \in DOMAIN n.of.wildcard |-> Use(DirectionUse(n.of.wildcard[i]), n.of.wildcard[i].e)]

\* The ways from the root of a file down to each thing that names something.
RECURSIVE Ways(_)
Ways(use) ==
    LET below == Below(use.of) IN
    (IF use.of.is \in {"name", "scoped", "member", "named", "opaque"} THEN {<<use>>} ELSE {})
      \union UNION {{<<use>> \o way : way \in Ways(below[i])} : i \in DOMAIN below}

UsedAs(as) ==
    CASE as = "value" -> <<TRUE, FALSE, TRUE>>
      [] as = "target" -> <<FALSE, TRUE, TRUE>>
      [] as = "both" -> <<TRUE, TRUE, TRUE>>
      [] as = "any" -> <<TRUE, TRUE, FALSE>>
      [] as = "offered" -> <<TRUE, FALSE, FALSE>>
      [] as = "taken" -> <<FALSE, TRUE, FALSE>>

Drives == [assigns |-> "assign", process |-> "process", initial |-> "init", inner |-> "subroutine",
           connections |-> "instance", override |-> "other"]
ExpectedAt(way) ==
    LET n == Last(way).of
        used == CHOOSE at \in DOMAIN way : way[at].as # "same" /\ \A i \in at + 1 .. Len(way) : way[i].as = "same"
        partly == SelectSeq(SubSeq(way, used, Len(way) - 1), LAMBDA use : use.of.is \in {"select", "member", "method"})
        drivers == SelectSeq(way, LAMBDA use : use.of.is \in DOMAIN Drives)
        within == SelectSeq(way, LAMBDA use : use.of.is = "definition")
        as == UsedAs(IF n.is = "opaque" THEN "any" ELSE way[used].as)
        driver == IF drivers = <<>> THEN Other
                  ELSE LET of == Last(drivers).of IN
                       IF of.is = "override" THEN Other ELSE Driver(Drives[of.is], of.id)
    IN {[symbol |-> symbol, read |-> as[1], write |-> as[2], certain |-> as[3],
         whole |-> partly = <<>> /\ n.is # "opaque",
         place |-> IF partly = <<>> \/ n.is = "opaque" THEN <<>> ELSE <<partly[1].of>>,
         base |-> IF n.is = "member" THEN <<n.base>> ELSE <<>>, driver |-> driver,
         within |-> IF within = <<>> THEN "" ELSE Last(within).of.id] :
            symbol \in (IF n.is = "opaque" THEN ToSet(n.names) ELSE {n.symbol}) \ {Nobody}}
Expected(root) ==
    UNION {ExpectedAt(way) : way \in UNION {Ways(Use("value", root[i])) : i \in DOMAIN root}}

\* Each name is read and written as what it stands in says, where it stands,
\* and surely only where that is known; and nothing else is accessed.
AccessesAre(root) == Accesses(root) = Expected(root)
=============================================================================
