------------------------------ MODULE Instances ------------------------------
(***************************************************************************)
(* The instance tree (astli-sema: elab/tree.rs).                           *)
(*                                                                         *)
(* A design is [scopes, definitions, elaborated, binds].  scopes is a      *)
(* function from names to [parent, members], the parent of a definition's  *)
(* scope being "".  A definition is [interface, parameters, ports]: its    *)
(* parameters are [name, default, local], its ports those an interface is  *)
(* connected to, [name, wanted], wanted the interfaces it takes, none for  *)
(* any.  Members are instances, generate constructs, defparams and binds;  *)
(* a symbol is what a scope declares, <<scope, name>>.                     *)
(*                                                                         *)
(* A body is [scope, parent, given, deferred]: a scope built, in the body  *)
(* around it if it is a block, with what overrides, connections and loops  *)
(* give it, and what defparams and binds pass down through it.             *)
(***************************************************************************)
EXTENDS Integers, Sequences, SequencesExt, FiniteSets, TLC

CONSTANTS Iterations

\* Values are numbers, those not known -1.
Unknown == -1
Number(n) == [is |-> "number", value |-> n]
Name(name) == [is |-> "name", name |-> name]
InPort(port, name) == [is |-> "inPort", port |-> port, name |-> name]

IsDefinition(design, scope) == scope \in DOMAIN design.definitions
Members(design, scope) == design.scopes[scope].members
Blocks(design, scope) == {b \in DOMAIN design.scopes : design.scopes[b].parent = scope}
InstanceNamed(design, scope, name) ==
    {m \in ToSet(Members(design, scope)) : m.is = "instance" /\ m.name = name}
Parameters(design, scope) == IF IsDefinition(design, scope) THEN design.definitions[scope].parameters ELSE <<>>
Ports(design, scope) == IF IsDefinition(design, scope) THEN design.definitions[scope].ports ELSE <<>>
Named(items, name) == {i \in ToSet(items) : i.name = name}

Declares(design, scope, name) ==
    \/ InstanceNamed(design, scope, name) # {} \/ name \in Blocks(design, scope)
    \/ Named(Parameters(design, scope), name) # {} \/ Named(Ports(design, scope), name) # {}

RECURSIVE Around(_, _)
Around(design, scope) == IF scope = "" THEN <<>> ELSE <<scope>> \o Around(design, design.scopes[scope].parent)

\* What the names of a path refer to, the first found outwards or a
\* definition, the others each in what the one before it opens.
Opened(design, symbol) ==
    CASE symbol[1] = "" -> {symbol[2]}
      [] symbol[1] # "" /\ symbol[2] \in Blocks(design, symbol[1]) -> {symbol[2]}
      [] OTHER -> {m.of : m \in InstanceNamed(design, symbol[1], symbol[2])} \intersect DOMAIN design.scopes

Symbols(design, scope, names) ==
    LET within == SelectSeq(Around(design, scope), LAMBDA s : Declares(design, s, names[1]))
        head == CASE within # <<>> -> {<<Head(within), names[1]>>}
                  [] within = <<>> /\ IsDefinition(design, names[1]) -> {<<"", names[1]>>}
                  [] OTHER -> {}
    IN FoldLeft(LAMBDA symbols, name :
                    {Append(s, <<o, name>>) : s \in symbols,
                        o \in {o \in UNION {Opened(design, Last(s)) : s \in symbols} : Declares(design, o, name)}},
                {<<h>> : h \in head}, Tail(names))

-----------------------------------------------------------------------------
(* What bodies hold.                                                       *)

Body(scope, parent, given, deferred) == [scope |-> scope, parent |-> parent, given |-> given, deferred |-> deferred]
NoneGiven == [n \in {} |-> 0]
Default(scope) == Body(scope, <<>>, NoneGiven, <<>>)

Has(body, name) == name \in DOMAIN body.given
With(given, name, what) == (name :> what) @@ given
Override(body, expr) == [is |-> "override", body |-> body, expr |-> expr]
Interface(body) == [is |-> "interface", body |-> body]
Genvar(value) == [is |-> "genvar", value |-> value]

RECURSIVE Value(_, _, _), InterfaceAt(_, _, _), Instance(_, _, _, _, _), Deferred(_, _)

Eval(design, body, expr) ==
    CASE expr.is = "number" -> expr.value
      [] expr.is = "name" -> Value(design, body, expr.name)
      [] expr.is = "inPort" ->
            LET interfaces == InterfaceAt(design, body, expr.port) IN
            IF interfaces = {} THEN Unknown ELSE Value(design, CHOOSE i \in interfaces : TRUE, expr.name)

\* The value of a parameter or a genvar, in a body or those around it.
Value(design, body, name) ==
    LET declared == Named(Parameters(design, body.scope), name) IN
    CASE Has(body, name) /\ body.given[name].is = "override" ->
            Eval(design, body.given[name].body, body.given[name].expr)
      [] Has(body, name) /\ body.given[name].is = "genvar" -> body.given[name].value
      [] ~Has(body, name) /\ declared # {} -> Eval(design, body, (CHOOSE p \in declared : TRUE).default)
      [] ~Has(body, name) /\ declared = {} /\ body.parent # <<>> -> Value(design, body.parent[1], name)
      [] OTHER -> Unknown

\* The body of the interface a name refers to: an instance of one, or what a
\* port is connected to.
InterfaceAt(design, body, name) ==
    LET instance == InstanceNamed(design, body.scope, name) IN
    CASE instance # {} ->
            {c.body : c \in {c \in {Instance(design, body, Deferred(design, body), <<body.scope, name>>, m) : m \in instance} :
                c.is = "instance" /\ design.definitions[c.of].interface}}
      [] instance = {} /\ Named(Ports(design, body.scope), name) # {} ->
            IF Has(body, name) THEN {body.given[name].body} ELSE {}
      [] OTHER -> IF body.parent = <<>> THEN {} ELSE InterfaceAt(design, body.parent[1], name)

-----------------------------------------------------------------------------
(* Which generate blocks are built.                                        *)

Built(scope) == [is |-> "built", scope |-> scope]
NotBuilt == [is |-> "none"]
Undecided(scopes) == [is |-> "undecided", scopes |-> scopes]

Truth(value) == CASE value = Unknown -> "unknown" [] value = 0 -> "fails" [] OTHER -> "holds"

\* The first arm whose condition holds, or that has none.
DecideIf(design, body, arms) ==
    LET Holds(i) == IF arms[i].conditions = <<>> THEN "holds" ELSE Truth(Eval(design, body, arms[i].conditions[1]))
        first == {i \in DOMAIN arms : Holds(i) # "fails" /\ \A j \in 1 .. i - 1 : Holds(j) = "fails"}
    IN CASE first = {} -> NotBuilt
         [] \E i \in first : Holds(i) = "unknown" ->
                Undecided({arms[j].scope : j \in {j \in DOMAIN arms : \E i \in first : j >= i}})
         [] OTHER -> Built(arms[CHOOSE i \in first : TRUE].scope)

\* The first arm with a label equal to the selector, or else the last that
\* has none.
DecideCase(design, body, selector, arms) ==
    LET at == Eval(design, body, selector)
        labels == FlattenSeq([i \in DOMAIN arms |->
                    [n \in DOMAIN arms[i].conditions |-> [arm |-> i, value |-> Eval(design, body, arms[i].conditions[n])]]])
        stops == SelectSeq(labels, LAMBDA l : at = Unknown \/ l.value \in {Unknown, at})
        defaults == SelectSeq(arms, LAMBDA a : a.conditions = <<>>)
    IN CASE stops # <<>> /\ Unknown \in {at, stops[1].value} -> Undecided({arms[i].scope : i \in DOMAIN arms})
         [] stops # <<>> /\ Unknown \notin {at, stops[1].value} -> Built(arms[stops[1].arm].scope)
         [] OTHER -> IF defaults = <<>> THEN NotBuilt ELSE Built(Last(defaults).scope)

Decide(design, body, m) ==
    CASE m.is = "if" -> DecideIf(design, body, m.arms)
      [] m.is = "case" -> DecideCase(design, body, m.selector, m.arms)
      [] m.is = "block" -> Built(m.scope)
      [] OTHER -> NotBuilt

-----------------------------------------------------------------------------
(* Defparams and binds on their way down.                                  *)

Step(symbol, index) == [symbol |-> symbol, index |-> index]

\* The steps of a path, if its names are resolved and its indices known.
Steps(design, body, scope, path) ==
    LET symbols == Symbols(design, scope, [i \in DOMAIN path |-> path[i].name])
        Indexed(i) == IF path[i].index = <<>> THEN <<>> ELSE <<Eval(design, body, path[i].index[1])>>
    IN IF \E i \in DOMAIN path : Indexed(i) = <<Unknown>> THEN {}
       ELSE {<<>> \o [i \in DOMAIN path |-> Step(s[i], Indexed(i))] : s \in symbols}

\* A defparam's value is evaluated where it is written; what a bind adds,
\* where it comes to stand.
Action(body, m) ==
    IF m.is = "bind" THEN [is |-> m.is, what |-> m.what] ELSE [is |-> m.is, what |-> m.what, body |-> body]

\* What a scope holds of them, and the blocks in it that are built, but a
\* loop's.
RECURSIVE Written(_, _, _)
Written(design, body, scope) ==
    LET Of(m) ==
        CASE m.is \in {"defparam", "bind"} ->
                SetToSeq({[steps |-> steps, action |-> Action(body, m)] : steps \in Steps(design, body, scope, m.path)})
          [] m.is \in {"if", "case", "block"} /\ Decide(design, body, m).is = "built" ->
                Written(design, body, Decide(design, body, m).scope)
          [] OTHER -> <<>>
    IN FlattenSeq([i \in DOMAIN Members(design, scope) |-> Of(Members(design, scope)[i])])

\* What a body is passed, and what is written there that begins there.
Deferred(design, body) ==
    body.deferred
    \o SelectSeq(Written(design, body, body.scope), LAMBDA w :
        LET head == w.steps[1].symbol IN
        /\ head[1] = body.scope
        /\ InstanceNamed(design, head[1], head[2]) # {} \/ head[2] \in Blocks(design, head[1]))

Rest(passing) == [passing EXCEPT !.steps = Tail(@)]

\* What goes on into a block, the iteration of a loop that has an index.
Passed(deferred, body, scope, index) ==
    LET into == SelectSeq(deferred, LAMBDA d : Len(d.steps) > 1 /\ d.steps[1] = Step(<<body.scope, scope>>, index))
    IN <<>> \o [i \in DOMAIN into |-> Rest(into[i])]

Overridable(design, definition, step) ==
    /\ step.symbol[1] = definition /\ step.index = <<>>
    /\ \E p \in Named(Parameters(design, definition), step.symbol[2]) : ~p.local

\* What defparams of a definition's own parameters make of what it is given.
Defparams(design, definition, given, passing) ==
    FoldLeft(LAMBDA g, d :
                IF d.action.is = "defparam" /\ Len(d.steps) = 1 /\ Overridable(design, definition, d.steps[1])
                THEN With(g, d.steps[1].symbol[2], Override(d.action.body, d.action.what)) ELSE g,
             given, passing)
Deeper(passing) == SelectSeq(passing, LAMBDA d : d.action.is = "bind" \/ Len(d.steps) > 1)

\* The child an instance makes: the instance's own overrides, the interfaces
\* it connects, then what paths name below it.
Instance(design, body, deferred, symbol, instance) ==
    LET of == instance.of
        Taken(o) == \E p \in Named(Parameters(design, of), o.name) : ~p.local
        Fits(port, i) == port.wanted = {} \/ i.scope \in port.wanted
        overridden == FoldLeft(LAMBDA g, o : IF Taken(o) THEN With(g, o.name, Override(body, o.value)) ELSE g,
                               NoneGiven, instance.overrides)
        connected == FoldLeft(LAMBDA g, c :
                                LET interfaces == {i \in InterfaceAt(design, body, c.to) :
                                                    \E p \in Named(Ports(design, of), c.port) : Fits(p, i)}
                                IN IF interfaces = {} THEN g ELSE With(g, c.port, Interface(CHOOSE i \in interfaces : TRUE)),
                              overridden, instance.connects)
        into == SelectSeq(deferred, LAMBDA d : d.steps # <<>> /\ d.steps[1] = Step(symbol, <<>>))
        passing == <<>> \o [i \in DOMAIN into |-> Rest(into[i])]
    IN IF ~IsDefinition(design, of) THEN [is |-> "missing", name |-> instance.name, of |-> of]
       ELSE [is |-> "instance", name |-> instance.name, of |-> of, symbol |-> symbol, by |-> instance,
             body |-> Body(of, <<>>, Defparams(design, of, connected, passing), Deeper(passing))]

-----------------------------------------------------------------------------
(* The tree.                                                               *)

Block(body, deferred, scope, index, given) ==
    [is |-> "block", scope |-> scope, index |-> index,
     body |-> Body(scope, <<body>>, given, Passed(deferred, body, scope, index))]

\* A block for each iteration of a loop, or none of them if there are too
\* many or the bounds are not known.
Unroll(design, body, deferred, m) ==
    LET first == Eval(design, body, m.from)
        bound == Eval(design, body, m.to)
    IN IF Unknown \in {first, bound} \/ (bound - first >= Iterations)
       THEN <<[is |-> "undecided", scopes |-> {m.scope}]>>
       ELSE [i \in 1 .. bound - first |->
                Block(body, deferred, m.scope, <<first + i - 1>>, With(NoneGiven, m.genvar, Genvar(first + i - 1)))]

Collect(design, body, deferred) ==
    LET Of(m) ==
        CASE m.is = "instance" -> <<Instance(design, body, deferred, <<body.scope, m.name>>, m)>>
          [] m.is = "for" -> Unroll(design, body, deferred, m)
          [] m.is \in {"if", "case", "block"} ->
                LET decision == Decide(design, body, m) IN
                (CASE decision.is = "built" -> <<Block(body, deferred, decision.scope, <<>>, NoneGiven)>>
                   [] decision.is = "none" -> <<>>
                   [] decision.is = "undecided" -> <<decision>>)
          [] OTHER -> <<>>
        members == Members(design, body.scope)
    IN FlattenSeq([i \in DOMAIN members |-> Of(members[i])])

\* What a body holds; what is bound into a definition, or by a path into this
\* instance of it, stands at its end.
Children(design, body) ==
    LET deferred == Deferred(design, body)
        bound == SelectSeq(design.binds, LAMBDA b : b.target = body.scope /\ b.holder \in design.elaborated)
        chosen == SelectSeq(deferred, LAMBDA d :
                    d.action.is = "bind" /\ d.steps = <<>> /\ d.action.what.target \in {"", body.scope})
        Bound(instance) == Instance(design, body, deferred, <<"bound", instance.name>>, instance)
    IN Collect(design, body, deferred)
       \o IF ~IsDefinition(design, body.scope) THEN <<>>
          ELSE [i \in DOMAIN bound |-> Bound(bound[i].instance)]
               \o [i \in DOMAIN chosen |-> Bound(chosen[i].action.what.instance)]

\* What is written, in a definition elaborated, of a path that begins at a
\* definition; evaluated at the defaults of where it is written.
Absolute(design, definition) ==
    LET holders == SetToSeq(design.elaborated)
        In(holder) ==
            LET from == SelectSeq(Written(design, Default(holder), holder), LAMBDA w :
                            w.steps[1] = Step(<<"", definition>>, <<>>))
            IN <<>> \o [i \in DOMAIN from |-> Rest(from[i])]
    IN FlattenSeq([i \in DOMAIN holders |-> In(holders[i])])

Top(design, definition) ==
    LET absolute == Absolute(design, definition)
    IN Body(definition, <<>>, Defparams(design, definition, NoneGiven, absolute), Deeper(absolute))

-----------------------------------------------------------------------------
(* Bodies of a definition are one if their keys are.                       *)

RECURSIVE Identity(_, _)

\* A wrong one: the values of its parameters tell a body from the others.
KeyOfValues(design, body) ==
    [values |-> [i \in DOMAIN Parameters(design, body.scope) |->
                    Value(design, body, Parameters(design, body.scope)[i].name)],
     interfaces |-> <<>>, deferred |-> <<>>]

\* The values of its parameters, the interfaces its ports are connected to,
\* and what is passed down through it.
Key(design, body) ==
    LET parameters == Parameters(design, body.scope)
        ports == Ports(design, body.scope)
    IN [values |-> [i \in DOMAIN parameters |-> Value(design, body, parameters[i].name)],
        interfaces |-> [i \in DOMAIN ports |->
            IF Has(body, ports[i].name) THEN {Identity(design, body.given[ports[i].name].body)} ELSE {}],
        deferred |-> [i \in DOMAIN body.deferred |->
            LET d == body.deferred[i] IN
            IF d.action.is = "bind" THEN d ELSE [d EXCEPT !.action.body = Identity(design, @)]]]

Identity(design, body) ==
    IF body.parent = <<>> THEN <<body.scope, Key(design, body)>>
    ELSE <<body.scope, Identity(design, body.parent[1]), body.given>>

-----------------------------------------------------------------------------
(* What they promise, by a tree in which nothing is shared or passed down: *)
(* a node is the sequence of what leads to it, [scope, symbol, index, by,  *)
(* given].                                                                 *)

\* What bodies hold, so many levels of them.
RECURSIVE Tree(_, _, _)
Tree(design, body, depth) ==
    LET parameters == Parameters(design, body.scope)
        Shown(c) ==
            CASE c.is = "instance" -> [is |-> c.is, name |-> c.name, of |-> c.of, below |-> Tree(design, c.body, depth - 1)]
              [] c.is = "block" -> [is |-> c.is, name |-> <<c.scope, c.index>>, below |-> Tree(design, c.body, depth - 1)]
              [] OTHER -> c
        children == Children(design, body)
    IN [values |-> [i \in DOMAIN parameters |-> Value(design, body, parameters[i].name)],
        children |-> IF depth = 0 THEN <<>> ELSE [i \in DOMAIN children |-> Shown(children[i])]]

RECURSIVE InterfaceNodes(_, _, _)

\* What is written above that leads to a step, the outermost first, with what
\* is left of its path.
Leading(above, step) ==
    LET path == [k \in DOMAIN above |-> Step(above[k].symbol, above[k].index)] \o <<step>>
        From(writes, k) ==
            LET left == Len(path) - k
                those == SelectSeq(writes, LAMBDA w :
                            Len(w.steps) >= left /\ SubSeq(w.steps, 1, left) = SubSeq(path, k + 1, Len(path)))
            IN <<>> \o [i \in DOMAIN those |-> [those[i] EXCEPT !.steps = SubSeq(@, left + 1, Len(@))]]
    IN FlattenSeq([k \in DOMAIN above |-> From(above[k].written, k)])

\* A node below others, or the top: a definition with what is written of it,
\* or else its own instance, gives it; or a block.
Node(design, above, scope, symbol, index, by, given) ==
    LET leading == IF above = <<>> THEN Absolute(design, scope) ELSE Leading(above, Step(symbol, index))
        Told(p) == SelectSeq(leading, LAMBDA w :
                        w.action.is = "defparam" /\ w.steps = <<Step(<<scope, p.name>>, <<>>)>>)
        Own(p) == SelectSeq(by.overrides, LAMBDA o : o.name = p.name)
        Changed(p) == IF Told(p) # <<>> THEN Override(Last(Told(p)).action.body, Last(Told(p)).action.what)
                      ELSE Override(Last(above).body, Last(Own(p)).value)
        changed == {<<p.name, Changed(p)>> :
                        p \in {p \in ToSet(Parameters(design, scope)) : ~p.local /\ Told(p) \o Own(p) # <<>>}}
        Fits(c, i) == \E p \in Named(Ports(design, scope), c.port) : p.wanted = {} \/ i.scope \in p.wanted
        connected == UNION {{<<c.port, Interface(i.body)>> : i \in {i \in InterfaceNodes(design, above, c.to) : Fits(c, i)}} :
                                c \in ToSet(by.connects)}
        body == IF IsDefinition(design, scope)
                THEN Body(scope, <<>>, FoldSet(LAMBDA pair, g : With(g, pair[1], pair[2]), NoneGiven, changed \union connected), <<>>)
                ELSE Body(scope, <<Last(above).body>>, given, <<>>)
        Begins(w) == w.steps[1].symbol[1] = scope /\ Named(Parameters(design, scope), w.steps[1].symbol[2]) = {}
    IN [scope |-> scope, symbol |-> symbol, index |-> index, by |-> by, body |-> body,
        written |-> (IF above = <<>> THEN leading ELSE <<>>) \o SelectSeq(Written(design, body, scope), Begins),
        bound |-> SelectSeq(leading, LAMBDA w :
                    w.action.is = "bind" /\ w.steps = <<>> /\ w.action.what.target \in {"", scope})]

\* The interface a name used at a node refers to.
InterfaceNodes(design, above, name) ==
    LET at == Last(above)
        instances == {m \in InstanceNamed(design, at.scope, name) :
                        IsDefinition(design, m.of) /\ design.definitions[m.of].interface}
        ports == Named(Ports(design, at.scope), name)
    IN CASE Declares(design, at.scope, name) ->
                {Node(design, above, m.of, <<at.scope, name>>, <<>>, m, NoneGiven) : m \in instances}
                \union {[scope |-> b.body.scope, body |-> b.body] : b \in
                            {at.body.given[p.name] : p \in {p \in ports : Has(at.body, p.name)}}}
         [] OTHER -> IF IsDefinition(design, at.scope) THEN {} ELSE InterfaceNodes(design, Front(above), name)

ByNone == [overrides |-> <<>>, connects |-> <<>>]

RECURSIVE TreeAlone(_, _, _)
TreeAlone(design, nodes, depth) ==
    LET at == Last(nodes)
        parameters == Parameters(design, at.scope)
        Below(scope, symbol, index, by, given) ==
            CHOOSE t \in {TreeAlone(design, Append(nodes, n), depth - 1) : n \in {Node(design, nodes, scope, symbol, index, by, given)}} : TRUE
        Shown(c) ==
            CASE c.is = "instance" ->
                    [is |-> c.is, name |-> c.name, of |-> c.of, below |-> Below(c.of, c.symbol, <<>>, c.by, NoneGiven)]
              [] c.is = "block" ->
                    [is |-> c.is, name |-> <<c.scope, c.index>>,
                     below |-> Below(c.scope, <<at.scope, c.scope>>, c.index, ByNone, c.body.given)]
              [] OTHER -> c
        bound == SelectSeq(design.binds, LAMBDA b : b.target = at.scope /\ b.holder \in design.elaborated)
        Bound(m) == Instance(design, at.body, <<>>, <<"bound", m.name>>, m)
        children == Collect(design, at.body, <<>>)
                    \o IF ~IsDefinition(design, at.scope) THEN <<>>
                       ELSE [i \in DOMAIN bound |-> Bound(bound[i].instance)]
                            \o [i \in DOMAIN at.bound |-> Bound(at.bound[i].action.what.instance)]
    IN [values |-> [i \in DOMAIN parameters |-> Value(design, at.body, parameters[i].name)],
        children |-> IF depth = 0 THEN <<>> ELSE [i \in DOMAIN children |-> Shown(children[i])]]

\* Every instance has the parameters that the last, innermost defparam for
\* it gives, or else its overrides, and what its interfaces, conditions and
\* binds make of them.
BuiltAsNamed(design, definition, depth) ==
    Tree(design, Top(design, definition), depth)
        = TreeAlone(design, <<Node(design, <<>>, definition, <<"", definition>>, <<>>, ByNone, NoneGiven)>>, depth)

RECURSIVE Bodies(_, _, _)
Bodies(design, body, depth) ==
    {body} \union IF depth = 0 THEN {}
                  ELSE UNION {Bodies(design, c.body, depth - 1) : c \in
                        {c \in ToSet(Children(design, body)) : c.is \in {"instance", "block"}}}

\* Bodies that are made one hold the same.
SharedAsAlone(design, definition, depth) ==
    LET bodies == Bodies(design, Top(design, definition), depth)
        identities == [b \in bodies |-> Identity(design, b)]
        Twins == {pair \in bodies \X bodies : pair[1] # pair[2] /\ identities[pair[1]] = identities[pair[2]]}
    IN \A pair \in Twins : Tree(design, pair[1], depth) = Tree(design, pair[2], depth)
=============================================================================
