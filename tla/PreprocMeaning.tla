---------------------------- MODULE PreprocMeaning ----------------------------
(***************************************************************************)
(* What the expansion of a file means, said without frames, walks or       *)
(* regions: directives are obeyed line by line, conditionals by whether    *)
(* each open one is being read, and a formal stands for its argument's     *)
(* expansion.  Preproc is checked to write the same.                       *)
(***************************************************************************)
EXTENDS Preproc

\* An open conditional: whether its branch is read, and whether one was.
Open(cond) == [live |-> cond, done |-> cond]
Dead == [live |-> FALSE, done |-> TRUE]

Else(conds, cond) ==
    LET last == conds[Len(conds)] IN
    [conds EXCEPT ![Len(conds)] =
        [live |-> cond /\ ~last.done, done |-> last.done \/ cond]]

\* The name a conditional tests, where the values of formals are env.
Tested(name, env) ==
    IF name \notin DOMAIN env THEN name
    ELSE IF Len(env[name]) = 1 /\ env[name][1].k = "word" THEN env[name][1].n
    ELSE NoName

Holds(token, env, of) ==
    LET name == Tested(token.n, env) IN
    \/ token.k = "else"
    \/ name # NoName /\ (of[name] = Undefined <=> token.k = "ifndef")

\* What a text writes, after what st has written and defined, where the
\* macros of act are being expanded and the files of open are read.
RECURSIVE Meaning(_, _, _, _, _, _)
Meaning(text, conds, env, act, open, st) ==
    IF text = <<>> THEN st
    ELSE
    LET token == Head(text)
        live == \A i \in DOMAIN conds : conds[i].live
        on(c, s) == Meaning(Tail(text), c, env, act, open, s)
        write(tokens) == [st EXCEPT !.out = @ \o tokens]
        value(part, within) ==
            Meaning(part, <<>>, within, act, open, [st EXCEPT !.out = <<>>]).out
    IN
    CASE token.k \in Conditionals ->
            on(Append(conds, IF live THEN Open(Holds(token, env, st.table)) ELSE Dead), st)
      [] token.k \in Branches ->
            IF conds = <<>> THEN on(conds, st)
            ELSE on(Else(conds, Holds(token, env, st.table)), st)
      [] token.k = "endif" ->
            on(IF conds = <<>> THEN conds ELSE SubSeq(conds, 1, Len(conds) - 1), st)
      [] token.k \notin Conditionals \union Branches \union {"endif"} /\ ~live ->
            on(conds, st)
      [] live /\ token.k \in {"word", "string"} ->
            on(conds, write(IF token.n \in DOMAIN env THEN env[token.n] ELSE <<token>>))
      [] live /\ token.k = "quote" ->
            on(conds, write(<<Quoted("string", value(token.args[1], env))>>))
      [] live /\ token.k \in {"define", "undef", "undefineall"} ->
            on(conds, [st EXCEPT !.table = Applied(@, token)])
      [] live /\ token.k = "include" ->
            LET f == Found(token.n) IN
            IF Cardinality(open) > MaxDepth \/ f \in open THEN on(conds, st)
            ELSE IF f = Unfound
            THEN on(conds, IF act = {} THEN write(<<token>>) ELSE st)
            ELSE on(conds, Meaning(program.files[f], <<>>, NoArgs, act,
                                   open \union {f}, st))
      [] live /\ token.k = "call" ->
            LET entry == st.table[token.n]
                def == program.defs[entry.d]
                listed == token.args # NoList
                formals == def.formals
                given(i) == IF i \in DOMAIN token.args THEN token.args[i] ELSE <<>>
                standsFor(i) ==
                    IF given(i) # <<>> THEN value(given(i), env)
                    ELSE IF formals[i].default = NoList THEN <<>>
                    ELSE Meaning(formals[i].default, <<>>, NoArgs, act \union {entry.d},
                                 open, [st EXCEPT !.out = <<>>]).out
                values ==
                    IF formals = NoList THEN NoArgs
                    ELSE [n \in {formals[i].n : i \in DOMAIN formals} |->
                            standsFor(CHOOSE i \in DOMAIN formals : formals[i].n = n)]
                refused == entry.d \in act \/ (formals # NoList /\ ~listed)
                text2 == Spread(token.args) \o Tail(text)
                again(s) == Meaning(text2, conds, env, act, open, s)
            IN
            IF entry = Undefined THEN on(conds, write(<<token>>))
            ELSE IF refused /\ listed /\ entry.arity = <<>>
            THEN again(write(<<Call(token.n, NoList)>>))
            ELSE IF refused THEN on(conds, write(<<token>>))
            ELSE LET after == Meaning(def.body, <<>>, values, act \union {entry.d}, open, st)
                 IN  IF listed /\ formals = NoList THEN again(after) ELSE on(conds, after)

Means ==
    Meaning(program.files[program.root], <<>>, NoArgs, {}, {program.root},
            [table |-> [n \in Names |-> Undefined], out |-> <<>>])

\* No body or argument changes the table or includes a file: a formal then
\* stands for the same wherever in the body it is.
Quiet(text) ==
    \A i \in DOMAIN text : text[i].k \notin {"define", "undef", "undefineall", "include"}
Plain ==
    /\ \A d \in DOMAIN program.defs : Quiet(program.defs[d].body)
    /\ \A f \in DOMAIN program.files : \A i \in DOMAIN program.files[f] :
        LET args == program.files[f][i].args IN
        args = NoList \/ \A j \in DOMAIN args : Quiet(args[j])

\* What is written, and what is defined at the end, is what the file means
\* (expand.rs, conditional.rs).
WritesWhatItMeans ==
    stack = <<>> /\ Plain => out = Means.out /\ table = Means.table

-----------------------------------------------------------------------------
(* Every region of a text, found in one pass (all_regions).                *)

\* A region: where it opens and its branches do, where it ends, and whether
\* by its `endif.
Region(text, at) ==
    LET own == SubSeq(text, at, Len(text))
        close == Close(own)
    IN  [from |-> at, opens |-> {at + i - 1 : i \in Openers(own)},
         to |-> IF close > Len(own) THEN Len(text) ELSE at + close - 1,
         closed |-> close <= Len(own)]

\* The one pass, over the regions still open and all those found, in order.
RECURSIVE OnePass(_, _, _, _)
OnePass(text, at, opened, found) ==
    IF at > Len(text) THEN found
    ELSE
    LET kind == text[at].k
        last == opened[Len(opened)]
    IN
    CASE kind \in Conditionals ->
            OnePass(text, at + 1, Append(opened, Len(found) + 1),
                    Append(found, [from |-> at, opens |-> {at}, to |-> Len(text),
                                   closed |-> FALSE]))
      [] kind \in Branches /\ opened # <<>> ->
            OnePass(text, at + 1, opened, [found EXCEPT ![last].opens = @ \union {at}])
      [] kind = "endif" /\ opened # <<>> ->
            OnePass(text, at + 1, SubSeq(opened, 1, Len(opened) - 1),
                    [found EXCEPT ![last].to = at, ![last].closed = TRUE])
      [] OTHER -> OnePass(text, at + 1, opened, found)

AllRegions(text) == OnePass(text, 1, <<>>, <<>>)

\* `regions` of a stretch, and then of each branch of each, in the order they
\* open.
RECURSIVE RegionsOf(_, _, _)
RegionsOf(text, at, limit) ==
    IF at > limit THEN <<>>
    ELSE IF text[at].k \notin Conditionals THEN RegionsOf(text, at + 1, limit)
    ELSE LET region == Region(SubSeq(text, 1, limit), at)
             inside[opener \in region.opens \union {region.to + 1}] ==
                IF opener > region.to THEN <<>>
                ELSE LET next == After(region.opens, opener,
                                       IF region.closed THEN region.to ELSE region.to + 1)
                     IN  RegionsOf(text, opener + 1, next - 1)
                         \o inside[IF next \in region.opens THEN next ELSE region.to + 1]
         IN  <<region>> \o inside[at] \o RegionsOf(text, region.to + 1, limit)

\* The regions found in one pass are those of `regions`, and then `regions`
\* again on each branch (conditional.rs, all_regions).
OnePassFindsAll ==
    stack = <<>> => \A f \in DOMAIN program.files :
        AllRegions(program.files[f]) = RegionsOf(program.files[f], 1, Len(program.files[f]))

-----------------------------------------------------------------------------
(* Small programs, of six kinds, for TLC.                                  *)

MCNames == {"a", "x", "y", "F", "G", "(", ",", ")", "A", "B"}

Def(n, formals, body) == [n |-> n, formals |-> formals, body |-> body]
Formal(n, default) == [n |-> n, default |-> default]
Program(defs, files, search, ending) ==
    [defs |-> defs, files |-> files, root |-> "top", search |-> search, ending |-> ending]

Define(d) == Token("define", d)
W(name) == <<Word(name)>>
Texts(items, from, to) == UNION {[1 .. n -> items] : n \in from .. to}

NoSearch == [n \in {} |-> <<>>]
OnlyTop(text) == [top |-> text]

\* Calls within calls, bodies and arguments.
Arguments ==
    {W("a"), W("x"), <<Call("F", <<W("x")>>)>>, <<Call("G", <<W("x")>>)>>,
     <<Call("F", <<<<Call("G", <<W("x")>>)>>>>)>>}
Items ==
    {Word("a"), Word("x"), Call("G", NoList), Quoted("quote", W("x"))}
    \union {Call(m, <<arg>>) : m \in {"F", "G"}, arg \in Arguments}
Ones == Texts(Items, 1, 1)
Nestings ==
    {Program([d1 |-> Def("F", <<Formal("x", NoList)>>, f), d2 |-> Def("G", formals, g)],
             OnlyTop(<<Define("d1"), Define("d2")>> \o text), NoSearch, NoSearch) :
        f \in Texts(Items, 1, 2), g \in Ones \union {W("x") \o W("a")},
        formals \in {NoList, <<Formal("x", NoList)>>},
        text \in {<<Call("F", <<<<Call("G", <<W("a")>>)>>>>)>>,
                  <<Call("F", <<<<Call("F", <<W("a")>>)>>>>)>>}}

\* Defaults, more formals and lists of the wrong length.
Defaults ==
    {Program([d1 |-> Def("F", <<Formal("x", dx), Formal("y", dy)>>, f), d2 |-> Def("G", NoList, g)],
             OnlyTop(<<Define("d1"), Define("d2"), Call("F", args)>>), NoSearch, NoSearch) :
        dx \in {NoList, W("y")}, dy \in {NoList, W("x"), <<Call("G", NoList)>>,
                                         <<Call("F", <<W("x")>>)>>},
        f \in {W("x") \o W("y"), W("y") \o <<Quoted("quote", W("x"))>>},
        g \in {W("x"), <<Call("F", <<W("x")>>)>>, <<Call("G", <<W("a")>>)>>},
        args \in {NoList, <<>>, <<<<>>>>, <<W("a")>>, <<<<>>, W("y")>>,
                  <<W("y"), W("a"), W("x")>>, <<<<Call("G", NoList)>>, W("x")>>}}

\* Conditionals in a file, and in a body, whose argument may be what it tests.
Lines ==
    {Token("ifdef", "A"), Token("ifndef", "A"), Token("elsif", "B"), Token("elsif", NoName),
     Token("else", NoName), Token("endif", NoName), Word("a")}
Regions ==
    {Program([d1 |-> Def("A", NoList, W("a"))],
             OnlyTop(text), NoSearch, NoSearch) : text \in [1 .. 5 -> Lines \ {Token("elsif", NoName)}]}
InFiles ==
    {Program([d1 |-> Def("A", NoList, W("a")), d2 |-> Def("B", NoList, W("a"))],
             OnlyTop(<<Define("d1"), Token("ifdef", "B"), one, two, three,
                       Token("endif", NoName), Word("y")>>),
             NoSearch, NoSearch) :
        one, two, three \in {Define("d2"), Token("undef", "A"), Token("undefineall", NoName)}
                               \union Lines}
InBodies ==
    {Program([d1 |-> Def("F", <<Formal("x", NoList)>>,
                        <<Token(kind, "x"), Word("x"), Token(second, name), Word("y"),
                          Token("endif", NoName), Word("a")>>),
              d2 |-> Def("A", NoList, W("a"))],
             OnlyTop(<<Define("d1"), Define("d2"), Call("F", <<arg>>)>>), NoSearch, NoSearch) :
        kind \in Conditionals, second \in {"elsif", "else"}, name \in {"x", "B", NoName},
        arg \in {<<>>, W("A"), W("B"), <<Call("A", NoList)>>, W("A") \o W("B")}}

\* Includes, in files and in bodies, and definitions anew in any of them.
Search == [A |-> <<"none", "inner">>, B |-> <<"top">>, G |-> <<"deep", "top">>,
           x |-> <<>>, y |-> <<>>]
Ending == [A |-> {"other"}, B |-> {}, G |-> {}, x |-> {"other"}, y |-> {"other", "inner"}]
Includes == {Token("include", n) : n \in {"A", "B", "G", "x", "y"}}
Parts == Includes \union {Call("F", <<W("a")>>), Define("d2"), Define("d3")}
Including ==
    {Program([d1 |-> Def("F", <<Formal("x", NoList)>>, f),
              d2 |-> Def("F", NoList, g),
              d3 |-> Def("F", <<Formal("x", NoList)>>, third \o <<Call("F", <<W("x")>>)>>)],
             [top |-> <<Define("d1")>> \o top, inner |-> inner, other |-> other,
              deep |-> <<Token("include", "x")>>],
             Search, Ending) :
        f \in {<<Token("include", "A"), Word("x")>>, <<Define("d2"), Word("x")>>, W("x")},
        g \in {W("a"), <<Token("include", "x"), Call("F", NoList)>>},
        third \in {<<Define("d2")>>, W("x")},
        top \in UNION {[1 .. 2 -> Parts],
                      {<<Call("F", <<<<Token("include", "A"), Word("a")>>>>)>>}},
        inner \in [1 .. 1 -> {Token("include", "B"), Token("include", "G"),
                             Token("include", "y"), Call("F", <<W("a")>>), Define("d3")}],
        other \in [1 .. 1 -> {Token("include", "A"), Token("include", "G"), Define("d2")}]}

MCSuites == {Nestings, Defaults, Regions, InFiles, InBodies, Including}
=============================================================================
