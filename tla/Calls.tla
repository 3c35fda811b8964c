---------------------------------- MODULE Calls ----------------------------------
(***************************************************************************)
(* Constant functions, run statement by statement in a frame of their own  *)
(* (astli-sema, elab/call.rs, with what elab/select.rs writes).  The frame *)
(* that runs, how deep functions have called each other and the steps they *)
(* have left are threaded through.  Every variable has one type, of        *)
(* numbers below Modulus and x, so that nothing is converted; a function   *)
(* is its ports, what its own scope declares and its statements.           *)
(***************************************************************************)
EXTENDS Integers, Sequences, SequencesExt

CONSTANTS
    Modulus,   \* numbers are below it
    MaxDepth,  \* how deep functions may call each other
    MaxSteps   \* how many statements the outermost may take

Unknown == -2    \* what cannot be evaluated
X == -1          \* a value with unknown bits

\* Expressions.
Number(n) == [is |-> "number", n |-> n]
Variable(name) == [is |-> "variable", name |-> name]
Binary(op, a, b) == [is |-> "binary", op |-> op, a |-> a, b |-> b]
Assign(op, name, a) == [is |-> "assign", op |-> op, name |-> name, a |-> a]
Postfix(name) == [is |-> "postfix", name |-> name]
Prefix(name) == [is |-> "prefix", name |-> name]
Call(name, args) == [is |-> "call", name |-> name, args |-> args]
Arg(name, a) == [name |-> name, a |-> a]          \* no name: by its place
Message == [is |-> "message"]

\* Statements.  What may be left out is a sequence of none or one.
Empty == [is |-> "empty"]
Expr(e) == [is |-> "expr", e |-> e]
Block(declares, stmts) == [is |-> "block", declares |-> declares, stmts |-> stmts]
If(e, yes, no) == [is |-> "if", e |-> e, yes |-> yes, no |-> no]
Case(e, items) == [is |-> "case", e |-> e, items |-> items]
Item(labels, body) == [labels |-> labels, body |-> body]   \* no label: the default
For(declares, init, on, step, body) ==
    [is |-> "for", declares |-> declares, init |-> init, on |-> on, step |-> step, body |-> body]
Loop(keyword, on, body) == [is |-> "loop", keyword |-> keyword, on |-> on, body |-> body]
Return(on) == [is |-> "return", on |-> on]
Break == [is |-> "break"]
Continue == [is |-> "continue"]
Timed == [is |-> "timed"]     \* what a constant function may not do

Port(name, input, default) == [name |-> name, input |-> input, default |-> default]
Declared(name, init) == [name |-> name, init |-> init]
Function(ports, declares, stmts) == [ports |-> ports, declares |-> declares, stmts |-> stmts]

NoLocals == [name \in {} |-> X]
Fresh == [locals |-> NoLocals, depth |-> 0, steps |-> 0]
Result(value, cells) == [value |-> value, cells |-> cells]
Flow(kind, value, cells) == [kind |-> kind, value |-> value, cells |-> cells]

Apply(op, a, b) ==
    IF op = "&&" /\ 0 \in {a, b} THEN 0
    ELSE IF Unknown \in {a, b} THEN Unknown
    ELSE CASE op = "+" -> IF X \in {a, b} THEN X ELSE (a + b) % Modulus
           [] op = "<" -> IF X \in {a, b} THEN X ELSE IF a < b THEN 1 ELSE 0
           [] op = "&&" -> IF X \in {a, b} THEN X ELSE 1

\* Only what the running function has a value for is written.
IsPlace(cells, name) == name \in DOMAIN cells.locals
Write(cells, name, value) == [cells EXCEPT !.locals = (name :> value) @@ @]

\* Takes a step, if one is left.
Tick(cells) == [cells EXCEPT !.steps = IF @ > 0 THEN @ - 1 ELSE 0]
Spent(cells) == cells.steps = 0

\* The argument a port is given, in its place or by its name.
ArgOf(args, ports, i) ==
    LET of == {at \in DOMAIN args : (args[at].name = "" /\ at = i) \/ args[at].name = ports[i].name} IN
    IF of = {} THEN <<>> ELSE args[CHOOSE at \in of : \A other \in of : at <= other].a

\* ++x, or x++, which is worth what was before it.
Stepped(e, cells) ==
    IF ~IsPlace(cells, e.name) THEN Result(Unknown, cells)
    ELSE LET before == cells.locals[e.name]
             after == Apply("+", before, 1)
         IN Result(IF e.is = "prefix" THEN after ELSE before, Write(cells, e.name, after))

RECURSIVE Eval(_, _, _), Assigned(_, _, _), Run(_, _, _, _), Bind(_, _, _, _, _, _), Declare(_, _, _), Exec(_, _, _),
          ExecAll(_, _, _), Effect(_, _, _), Effects(_, _, _), Iterate(_, _, _, _), Repeat(_, _, _, _),
          Chosen(_, _, _, _, _, _)

\* funs gives each function by its name.
Eval(funs, e, cells) ==
    CASE e.is = "number" -> Result(e.n, cells)
      [] e.is = "variable" -> Result(IF IsPlace(cells, e.name) THEN cells.locals[e.name] ELSE Unknown, cells)
      [] e.is = "binary" ->
            LET a == Eval(funs, e.a, cells) IN
            IF e.op = "&&" /\ a.value = 0 THEN a
            ELSE LET b == Eval(funs, e.b, a.cells) IN Result(Apply(e.op, a.value, b.value), b.cells)
      [] e.is = "assign" -> Assigned(funs, e, cells)
      [] e.is \in {"postfix", "prefix"} -> Stepped(e, cells)
      [] e.is = "call" -> Run(funs, e.name, e.args, cells)
      [] e.is = "message" -> Result(Unknown, cells)

\* x = a, or x += a, which adds to what x was before a.
Assigned(funs, e, cells) ==
    IF ~IsPlace(cells, e.name) THEN Result(Unknown, cells)
    ELSE LET current == cells.locals[e.name]
             a == Eval(funs, e.a, cells)
             value == IF e.op = "=" THEN a.value ELSE Apply("+", current, a.value)
         IN Result(value, Write(a.cells, e.name, value))

\* What each port of a function is given, evaluated where it is called, or its
\* default, in the function itself, which has nothing yet.
Bind(funs, ports, args, cells, i, bound) ==
    IF i > Len(ports) THEN [ok |-> TRUE, bound |-> bound, cells |-> cells]
    ELSE LET given == ArgOf(args, ports, i)
             own == [cells EXCEPT !.locals = NoLocals]
         IN IF ~ports[i].input THEN [ok |-> FALSE, bound |-> bound, cells |-> cells]
            ELSE IF given # <<>> THEN
                LET a == Eval(funs, given[1], cells) IN
                Bind(funs, ports, args, a.cells, i + 1, (ports[i].name :> a.value) @@ bound)
            ELSE IF ports[i].default # <<>> THEN
                LET a == Eval(funs, ports[i].default[1], own)
                    after == [a.cells EXCEPT !.locals = cells.locals]
                IN Bind(funs, ports, args, after, i + 1, (ports[i].name :> a.value) @@ bound)
            ELSE [ok |-> FALSE, bound |-> bound, cells |-> cells]

Run(funs, name, args, cells) ==
    IF name \notin DOMAIN funs \/ cells.depth >= MaxDepth THEN Result(Unknown, cells)
    ELSE LET fun == funs[name]
             binding == Bind(funs, fun.ports, args, cells, 1, NoLocals)
             entered == Declare(funs, fun.declares,
                                [binding.cells EXCEPT !.locals = (name :> X) @@ binding.bound])
             ran == ExecAll(funs, fun.stmts,
                            [entered EXCEPT !.depth = @ + 1, !.steps = IF entered.depth = 0 THEN MaxSteps ELSE @])
             left == [ran.cells EXCEPT !.depth = @ - 1, !.locals = binding.cells.locals]
         IN IF ~binding.ok THEN Result(Unknown, binding.cells)
            ELSE Result(CASE ran.kind = "return" -> ran.value
                          [] ran.kind \in {"next", "leave"} -> ran.cells.locals[name]
                          [] OTHER -> Unknown, left)

\* Gives what a scope declares its initial value.
Declare(funs, declares, cells) ==
    IF declares = <<>> THEN cells
    ELSE LET first == Head(declares)
             a == IF first.init = <<>> THEN Result(X, cells) ELSE Eval(funs, first.init[1], cells)
         IN Declare(funs, Tail(declares), Write(a.cells, first.name, a.value))

ExecAll(funs, stmts, cells) ==
    IF stmts = <<>> THEN Flow("next", Unknown, cells)
    ELSE LET flow == Exec(funs, Head(stmts), cells) IN
         IF flow.kind # "next" THEN flow ELSE ExecAll(funs, Tail(stmts), flow.cells)

\* Runs an expression for its effect, if a constant function may.
Effect(funs, e, cells) ==
    LET a == Eval(funs, e, cells) IN
    CASE e.is \in {"assign", "prefix", "postfix"} -> [ok |-> IsPlace(cells, e.name), cells |-> a.cells]
      [] e.is \in {"call", "message"} -> [ok |-> TRUE, cells |-> a.cells]
      [] OTHER -> [ok |-> FALSE, cells |-> cells]
Effects(funs, es, cells) ==
    IF es = <<>> THEN [ok |-> TRUE, cells |-> cells]
    ELSE LET first == Effect(funs, Head(es), cells) IN
         IF first.ok THEN Effects(funs, Tail(es), first.cells) ELSE first

Exec(funs, s, cells) ==
    LET in == Tick(cells)
        Next(after) == Flow("next", Unknown, after)
        Stop(after) == Flow("stop", Unknown, after)
    IN
    CASE Spent(cells) \/ s.is = "timed" -> Stop(in)
      [] s.is = "empty" -> Next(in)
      [] s.is = "expr" ->
            LET did == Effect(funs, s.e, in) IN IF did.ok THEN Next(did.cells) ELSE Stop(did.cells)
      [] s.is = "block" -> ExecAll(funs, s.stmts, Declare(funs, s.declares, in))
      [] s.is = "if" ->
            LET on == Eval(funs, s.e, in) IN
            IF on.value = Unknown THEN Stop(on.cells)
            ELSE ExecAll(funs, IF on.value > 0 THEN s.yes ELSE s.no, on.cells)
      [] s.is = "case" ->
            LET on == Eval(funs, s.e, in) IN Chosen(funs, on.value, s.items, 1, 1, on.cells)
      [] s.is = "for" ->
            LET began == Effects(funs, s.init, Declare(funs, s.declares, in)) IN
            IF began.ok THEN Iterate(funs, s, TRUE, began.cells) ELSE Stop(began.cells)
      [] s.is = "loop" ->
            IF s.keyword # "repeat" THEN Iterate(funs, s, s.keyword # "do", in)
            ELSE LET count == Eval(funs, s.on[1], in) IN
                 IF count.value = Unknown THEN Stop(count.cells)
                 ELSE Repeat(funs, s, IF count.value = X THEN 0 ELSE count.value, count.cells)
      [] s.is = "return" ->
            IF s.on = <<>> THEN Flow("leave", Unknown, in)
            ELSE LET a == Eval(funs, s.on[1], in) IN Flow("return", a.value, a.cells)
      [] s.is \in {"break", "continue"} -> Flow(s.is, Unknown, in)

\* One pass through a loop's body, which takes a step even if empty.
Iteration(funs, s, cells) ==
    IF Spent(cells) THEN Flow("stop", Unknown, Tick(cells)) ELSE ExecAll(funs, s.body, Tick(cells))

\* A for, while, forever or do loop, with the test before its next pass or not.
Iterate(funs, s, tests, cells) ==
    LET on == IF ~tests \/ s.on = <<>> THEN Result(1, cells) ELSE Eval(funs, s.on[1], cells)
        pass == Iteration(funs, s, on.cells)
        steps == IF s.is = "for" THEN Effects(funs, s.step, pass.cells) ELSE [ok |-> TRUE, cells |-> pass.cells]
    IN CASE on.value = Unknown -> Flow("stop", Unknown, on.cells)
         [] on.value \in {0, X} -> Flow("next", Unknown, on.cells)
         [] OTHER ->
            (CASE pass.kind \in {"next", "continue"} ->
                    IF steps.ok THEN Iterate(funs, s, TRUE, steps.cells) ELSE Flow("stop", Unknown, steps.cells)
               [] pass.kind = "break" -> Flow("next", Unknown, pass.cells)
               [] OTHER -> pass)

Repeat(funs, s, count, cells) ==
    LET pass == Iteration(funs, s, cells) IN
    CASE count = 0 -> Flow("next", Unknown, cells)
      [] pass.kind \in {"next", "continue"} -> Repeat(funs, s, count - 1, pass.cells)
      [] pass.kind = "break" -> Flow("next", Unknown, pass.cells)
      [] OTHER -> pass

\* The item, from one of its labels on, whose label a value is.
Chosen(funs, value, items, i, label, cells) ==
    IF i > Len(items) THEN
        LET defaults == SelectSeq(items, LAMBDA item : item.labels = <<>>) IN
        IF defaults = <<>> THEN Flow("next", Unknown, cells) ELSE ExecAll(funs, Last(defaults).body, cells)
    ELSE IF label > Len(items[i].labels) THEN Chosen(funs, value, items, i + 1, 1, cells)
    ELSE LET of == Eval(funs, items[i].labels[label], cells) IN
         IF Unknown \in {value, of.value} THEN Flow("stop", Unknown, of.cells)
         ELSE IF value = of.value THEN ExecAll(funs, items[i].body, of.cells)
         ELSE Chosen(funs, value, items, i, label + 1, of.cells)

---------------------------------------------------------------------------
(* What functions mean: their statements as a program, whose jumps say how *)
(* many instructions on they go.                                           *)

Do(what, e, on) == [do |-> what, e |-> e, on |-> on]
Nothing == Number(0)
Jump(on) == Do("jump", Nothing, on)

Declares(declares) ==
    [i \in DOMAIN declares |->
        [do |-> "declare", name |-> declares[i].name,
         e |-> IF declares[i].init = <<>> THEN Number(X) ELSE declares[i].init[1]]]
Evals(es) == [i \in DOMAIN es |-> Do("effect", es[i], 0)]

\* Passes of a loop: its tests, its body and what comes after that, and back.
\* Leaving it goes past the end, and the next pass starts with what comes after.
Passes(tests, body, after) ==
    LET full == Len(tests) + Len(body) + Len(after) + 1 IN
    tests \o [i \in DOMAIN body |->
                CASE body[i].do = "break" -> Jump(Len(body) + 2 - i + Len(after))
                  [] body[i].do = "continue" -> Jump(Len(body) + 1 - i)
                  [] OTHER -> body[i]] \o after \o <<Jump(1 - full)>>

\* The instructions that test a value against each item's labels in turn, and
\* those of the items' bodies.
Cases(items, bodies) ==
    LET From(i) == Len(FlattenSeq(SubSeq(bodies, 1, i - 1)))
        Ends(i) == Len(FlattenSeq(SubSeq(bodies, i + 1, Len(bodies)))) + Len(bodies) - i + 1
        defaults == {i \in DOMAIN items : items[i].labels = <<>>}
        tests == FlattenSeq([i \in DOMAIN items |->
                                [k \in DOMAIN items[i].labels |-> [e |-> items[i].labels[k], item |-> i]]])
        default ==
            IF defaults = {} THEN Len(bodies) + 1 ELSE CHOOSE i \in defaults : \A other \in defaults : other <= i
        On(at, item) == Len(tests) + 2 - at + From(item) + item - 1
    IN [at \in DOMAIN tests |-> Do("match", tests[at].e, On(at, tests[at].item))]
         \o <<Do("pop", Nothing, On(Len(tests) + 1, default))>>
         \o FlattenSeq([i \in DOMAIN bodies |-> bodies[i] \o <<Jump(Ends(i))>>])

RECURSIVE Code(_), CodeAll(_)
CodeAll(stmts) == IF stmts = <<>> THEN <<>> ELSE Code(Head(stmts)) \o CodeAll(Tail(stmts))
Code(s) ==
    CASE s.is = "empty" -> <<Jump(1)>>
      [] s.is = "timed" -> <<Do("stop", Nothing, 0)>>
      [] s.is = "expr" -> Evals(<<s.e>>)
      [] s.is = "return" -> IF s.on = <<>> THEN <<Do("leave", Nothing, 0)>> ELSE <<Do("return", s.on[1], 0)>>
      [] s.is \in {"break", "continue"} -> <<Do(s.is, Nothing, 0)>>
      [] s.is = "block" -> Declares(s.declares) \o <<Jump(1)>> \o CodeAll(s.stmts)
      [] s.is = "if" ->
            LET yes == CodeAll(s.yes)
                no == CodeAll(s.no)
            IN <<Do("test", s.e, Len(yes) + 2)>> \o yes \o <<Jump(Len(no) + 1)>> \o no
      [] s.is = "case" ->
            <<Do("push", s.e, 0)>> \o Cases(s.items, <<>> \o [i \in DOMAIN s.items |-> CodeAll(s.items[i].body)])
      [] OTHER ->
            LET is == IF s.is = "loop" THEN s.keyword ELSE "for"
                after == IF is = "for" THEN Evals(s.step) ELSE <<>>
                body == <<Jump(1)>> \o CodeAll(s.body)
                tests == [i \in DOMAIN s.on |->
                            IF is = "repeat" THEN Do("count", Nothing, Len(body) + 2)
                            ELSE Do("test", s.on[i], Len(body) + Len(after) + 2)]
            IN CASE is = "for" -> Declares(s.declares) \o Evals(s.init) \o Passes(tests, body, after)
                 [] is = "do" -> <<Jump(Len(tests) + 1)>> \o Passes(tests, body, after)
                 [] is = "repeat" ->
                        <<Do("times", s.on[1], 0)>> \o Passes(tests, body, after) \o <<Do("pop", Nothing, 1)>>
                 [] OTHER -> Passes(tests, body, after)

\* A function as what it is given and its program.
Program(fun) == [ports |-> fun.ports, code |-> Declares(fun.declares) \o CodeAll(fun.stmts)]

\* What runs: the variables, how many instructions are left, and whether
\* there were too few, or functions too deep in each other.
Ran(value, st) == [value |-> value, st |-> st]
Holding(st, vars) == [st EXCEPT !.vars = vars]

RECURSIVE Worth(_, _, _, _), Given(_, _, _, _, _), Meant(_, _, _, _, _), Machine(_, _, _, _, _, _)

Worth(programs, e, st, depth) ==
    CASE e.is = "number" -> Ran(e.n, st)
      [] e.is = "message" -> Ran(Unknown, st)
      [] e.is = "call" -> Meant(programs, e.name, e.args, st, depth)
      [] e.is = "binary" ->
            LET a == Worth(programs, e.a, st, depth)
                b == Worth(programs, e.b, a.st, depth)
            IN IF e.op = "&&" /\ a.value = 0 THEN a ELSE Ran(Apply(e.op, a.value, b.value), b.st)
      [] e.name \notin DOMAIN st.vars -> Ran(Unknown, st)
      [] e.is = "variable" -> Ran(st.vars[e.name], st)
      [] OTHER ->
            LET old == st.vars[e.name]
                by == IF e.is = "assign" THEN Worth(programs, e.a, st, depth) ELSE Ran(1, st)
                new == IF e.is = "assign" /\ e.op = "=" THEN by.value ELSE Apply("+", old, by.value)
            IN Ran(IF e.is = "postfix" THEN old ELSE new,
                   Holding(by.st, [name \in DOMAIN st.vars |-> IF name = e.name THEN new ELSE by.st.vars[name]]))

\* The values of ports, of those some are given and those that have one.
Given(programs, ports, args, st, depth) ==
    LET nth == Head(ports)
        is == SelectSeq(args, LAMBDA arg : arg.name = nth.name)
        a == IF is # <<>> THEN Worth(programs, is[1].a[1], st, depth)
             ELSE IF nth.default # <<>> THEN
                LET own == Worth(programs, nth.default[1], Holding(st, NoLocals), depth) IN
                Ran(own.value, Holding(own.st, st.vars))
             ELSE Ran(Unknown, st)
        rest == Given(programs, Tail(ports), args, a.st, depth)
    IN IF ports = <<>> THEN [ok |-> TRUE, values |-> <<>>, st |-> st]
       ELSE [ok |-> nth.input /\ (is # <<>> \/ nth.default # <<>>) /\ rest.ok,
             values |-> <<a.value>> \o rest.values, st |-> rest.st]

Meant(programs, name, args, st, depth) ==
    IF name \notin DOMAIN programs THEN Ran(Unknown, st)
    ELSE IF depth = MaxDepth THEN Ran(Unknown, [st EXCEPT !.over = TRUE])
    ELSE LET program == programs[name]
             named == [i \in DOMAIN args |->
                        IF args[i].name # "" \/ i > Len(program.ports) THEN args[i]
                        ELSE [args[i] EXCEPT !.name = program.ports[i].name]]
             given == Given(programs, program.ports, SelectSeq(named, LAMBDA arg : arg.a # <<>>), st, depth)
             vars == [port \in {program.ports[i].name : i \in DOMAIN program.ports} |->
                        given.values[CHOOSE i \in DOMAIN program.ports : program.ports[i].name = port]]
             ran == Machine(programs, program.code, 1, <<>>, Holding(given.st, (name :> X) @@ vars),
                            [depth |-> depth + 1, of |-> name])
         IN IF given.ok THEN Ran(ran.value, Holding(ran.st, given.st.vars)) ELSE Ran(Unknown, given.st)

\* at is how deep the function is, and its name.
Machine(programs, code, pc, stack, st, at) ==
    LET i == code[pc]
        worth == Worth(programs, i.e, [st EXCEPT !.left = @ - 1], at.depth)
        Go(on, with) == Machine(programs, code, pc + on, with, worth.st, at)
        allowed == i.e.is \in {"call", "message"}
                     \/ (i.e.is \in {"assign", "prefix", "postfix"} /\ i.e.name \in DOMAIN st.vars)
    IN CASE st.left = 0 \/ st.over -> Ran(Unknown, [st EXCEPT !.over = TRUE])
         [] pc > Len(code) \/ i.do = "leave" -> Ran(st.vars[at.of], st)
         [] i.do \in {"stop", "break", "continue"} -> Ran(Unknown, st)
         [] i.do = "return" -> worth
         [] i.do = "jump" -> Go(i.on, stack)
         [] i.do = "declare" ->
                Machine(programs, code, pc + 1, stack, Holding(worth.st, (i.name :> worth.value) @@ worth.st.vars), at)
         [] i.do = "effect" -> IF allowed THEN Go(1, stack) ELSE Ran(Unknown, st)
         [] i.do = "push" -> Go(1, <<worth.value>> \o stack)
         [] i.do = "pop" -> Go(i.on, Tail(stack))
         [] i.do = "count" ->
                IF Head(stack) = 0 THEN Go(i.on, stack) ELSE Go(1, <<Head(stack) - 1>> \o Tail(stack))
         [] worth.value = Unknown \/ (i.do = "match" /\ Head(stack) = Unknown) -> Ran(Unknown, worth.st)
         [] i.do = "test" -> IF worth.value > 0 THEN Go(1, stack) ELSE Go(i.on, stack)
         [] i.do = "match" -> IF worth.value = Head(stack) THEN Go(i.on, Tail(stack)) ELSE Go(1, stack)
         [] i.do = "times" -> Go(1, <<IF worth.value = X THEN 0 ELSE worth.value>> \o stack)

\* A call is worth what the function's program makes of its arguments, where
\* that ends and asks for no more calls within calls than may be, or is
\* unknown; it is known if the program ends within as many instructions as a
\* function may take statements, and unknown if it does not end.  It leaves
\* the caller's variables as the program does, no variable of its own among
\* them, and the depth as it was.
CallIsWorth(funs, call, cells) ==
    LET found == Run(funs, call.name, call.args, cells)
        programs == <<>> @@ [name \in DOMAIN funs |-> Program(funs[name])]
        meant == Meant(programs, call.name, call.args,
                       [vars |-> cells.locals, left |-> 4 * MaxSteps, over |-> FALSE], cells.depth)
    IN /\ found.cells.depth = cells.depth
       /\ DOMAIN found.cells.locals = DOMAIN cells.locals
       /\ meant.st.left = 0 => found.value = Unknown
       /\ ~meant.st.over =>
            /\ found.value \in {meant.value, Unknown}
            /\ meant.st.left >= 3 * MaxSteps =>
                /\ found.value = meant.value
                /\ meant.value # Unknown => found.cells.locals = meant.st.vars
=============================================================================
