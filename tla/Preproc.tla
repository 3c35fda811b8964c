------------------------------- MODULE Preproc -------------------------------
(***************************************************************************)
(* The expansion of one file by the preprocessor (astli-preproc:           *)
(* expand.rs, with conditional.rs, macros.rs, include.rs): directives      *)
(* change the macro table, conditionals choose a branch, includes are      *)
(* walked where they stand, and a call is replaced by its macro's body     *)
(* with its arguments in the place of the formals.                         *)
(*                                                                         *)
(* The code recurses; here the recursion is a stack of walks, each over    *)
(* what is left of a stretch of text, under a frame.  Text is a sequence   *)
(* of tokens, a call among them one token with its arguments' text, and a  *)
(* directive one with its operand: how they are delimited is not modelled, *)
(* nor are the places of tokens, diagnostics and pasting.                  *)
(***************************************************************************)
EXTENDS Naturals, Sequences, FiniteSets

CONSTANTS
    Names,       \* every word, those of macros and formals among them
    NoName,      \* the name a conditional was written without
    NoList,      \* no argument list, or no list of formals
    Undefined,   \* what the table holds of a name without a definition
    Unknown,     \* the arity of a macro defined with more than one
    Unfound,     \* what an include names where nothing, or no one file, fits
    Suites,      \* sets of programs: the files and definitions there may be
    MaxDepth     \* MAX_DEPTH: how deep includes may nest

ASSUME DepthAssumption == MaxDepth \in Nat

VARIABLES
    program,     \* what is expanded: a file, those it may include, and what
                 \* each definition written anywhere says
    table,       \* the macro table
    active,      \* the definitions being expanded, outermost first
    stack,       \* the walks, each called by the one below
    out          \* the tokens written

vars == <<program, table, active, stack, out>>

Conditionals == {"ifdef", "ifndef"}
Branches == {"elsif", "else"}

Token(kind, name) == [k |-> kind, n |-> name, args |-> NoList]
Word(name) == Token("word", name)
Call(name, args) == [k |-> "call", n |-> name, args |-> args]
Quoted(kind, text) == [k |-> kind, n |-> NoName, args |-> <<text>>]

-----------------------------------------------------------------------------
(* The macro table.  A definition is known by where its name is written.   *)

Arity(d) ==
    IF program.defs[d].formals = NoList THEN <<>>
    ELSE <<Len(program.defs[d].formals)>>

Defined(of, d) ==
    LET n == program.defs[d].n IN
    [of EXCEPT ![n] = [d |-> d,
        arity |-> IF of[n] = Undefined THEN Arity(d)
                  ELSE IF of[n].arity = Arity(d) THEN Arity(d) ELSE Unknown]]

Applied(of, token) ==
    CASE token.k = "define" -> Defined(of, token.n)
      [] token.k = "undef" -> [of EXCEPT ![token.n] = Undefined]
      [] token.k = "undefineall" -> [n \in Names |-> Undefined]

-----------------------------------------------------------------------------
(* Regions: of a text that starts with `ifdef or `ifndef.                  *)

\* How deep in conditionals of its own the region is before each token.
Nested(text) ==
    LET level[i \in 1 .. Len(text) + 1] ==
        IF i <= 2 THEN 0
        ELSE IF text[i - 1].k \in Conditionals THEN level[i - 1] + 1
        ELSE IF text[i - 1].k = "endif" /\ level[i - 1] > 0 THEN level[i - 1] - 1
        ELSE level[i - 1]
    IN level

CloseFirst(text) ==
    LET closes == {i \in 2 .. Len(text) : text[i].k = "endif"}
    IN  IF closes = {} THEN Len(text) + 1
        ELSE CHOOSE i \in closes : \A j \in closes : i <= j

\* The first `endif that closes it, or the end of what there is.
Close(text) ==
    LET closes == {i \in 2 .. Len(text) : text[i].k = "endif" /\ Nested(text)[i] = 0}
    IN  IF closes = {} THEN Len(text) + 1
        ELSE CHOOSE i \in closes : \A j \in closes : i <= j

\* The directives that open its branches.
Openers(text) ==
    {1} \union {i \in 2 .. Close(text) - 1 :
                    text[i].k \in Branches /\ Nested(text)[i] = 0}

\* What follows i among a set of places, or else the default.
After(places, i, default) ==
    LET later == {j \in places : j > i}
    IN  IF later = {} THEN default ELSE CHOOSE j \in later : \A k \in later : j <= k

BodyOf(text, opener) ==
    SubSeq(text, opener + 1, After(Openers(text), opener, Close(text)) - 1)

Behind(text) == SubSeq(text, Close(text) + 1, Len(text))

-----------------------------------------------------------------------------
(* Walks and frames.                                                       *)

NoArgs == [n \in {} |-> NoList]

\* A walk over a text as Frame::FILE has it: no formals, and no macro.
Walk(text, file) ==
    [rest |-> text, args |-> NoArgs, caller |-> 0, depth |-> 0, made |-> FALSE,
     file |-> file, ends |-> "back", inner |-> <<>>, out |-> <<>>, tried |-> 0]

Top == stack[Len(stack)]
Tok == Head(Top.rest)

\* A walk over a part of the text of the top one, under its frame.
Within(text, ends) ==
    [Top EXCEPT !.rest = text, !.ends = ends, !.inner = <<>>, !.tried = 0]

\* The top walk goes on after n tokens, and one is put on it.
Past(n) == [stack EXCEPT ![Len(stack)] =
                [@ EXCEPT !.rest = SubSeq(Top.rest, n + 1, Len(Top.rest)), !.tried = 0]]
Push(below, walk) == stack' = Append(below, walk)

Running == stack # <<>>
At(kinds) == Running /\ Top.rest # <<>> /\ Tok.k \in kinds

Bound(name) == name \in DOMAIN Top.args

\* What each formal stands for in a call with the list of arguments given.
Bindings(d, given) ==
    LET formals == program.defs[d].formals
        index(n) == CHOOSE i \in DOMAIN formals : formals[i].n = n
    IN  [n \in {formals[i].n : i \in DOMAIN formals} |->
            LET i == index(n) IN
            IF i \in DOMAIN given /\ given[i] # <<>> THEN [b |-> "actual", text |-> given[i]]
            ELSE IF formals[i].default # NoList
            THEN [b |-> "default", text |-> formals[i].default]
            ELSE [b |-> "nothing", text |-> <<>>]]

\* The list of a call to a macro that takes none: so many tokens of its own.
Spread(args) ==
    LET from[i \in 1 .. Len(args) + 1] ==
        IF i > Len(args) THEN <<Word(")")>>
        ELSE <<Word(IF i = 1 THEN "(" ELSE ",")>> \o args[i] \o from[i + 1]
    IN from[1]

Init ==
    /\ \E programs \in Suites : program \in programs
    /\ table = [n \in Names |-> Undefined]
    /\ active = <<>>
    /\ stack = <<Walk(program.files[program.root], program.root)>>
    /\ out = <<>>

-----------------------------------------------------------------------------
(* Steps.                                                                  *)

Emit ==
    /\ At({"word", "string"}) /\ ~Bound(Tok.n)
    /\ out' = Append(out, Tok)
    /\ stack' = Past(1)
    /\ UNCHANGED <<program, table, active>>

Direct ==
    /\ At({"define", "undef", "undefineall"})
    /\ table' = Applied(table, Tok)
    /\ stack' = Past(1)
    /\ UNCHANGED <<program, active, out>>

\* A branch or an end without a conditional writes nothing.
Stray ==
    /\ At(Branches \union {"endif"})
    /\ stack' = Past(1)
    /\ UNCHANGED <<program, table, active, out>>

SubstituteActualWithin ==
    /\ At({"word"}) /\ Bound(Tok.n) /\ Top.args[Tok.n].b = "actual"
    /\ Push(Past(1), [stack[Top.caller] EXCEPT
            !.rest = Top.args[Tok.n].text, !.made = TRUE, !.ends = "actual",
            !.inner = <<>>, !.tried = 0])
    /\ UNCHANGED <<program, table, active, out>>

\* An actual argument is walked under the frame it was written in, with only
\* those macros active that were there.
SubstituteActual ==
    /\ At({"word"}) /\ Bound(Tok.n) /\ Top.args[Tok.n].b = "actual"
    /\ Push(Past(1), [stack[Top.caller] EXCEPT
            !.rest = Top.args[Tok.n].text, !.made = TRUE, !.ends = "actual",
            !.inner = SubSeq(active, Top.depth + 1, Len(active)), !.tried = 0])
    /\ active' = SubSeq(active, 1, Top.depth)
    /\ UNCHANGED <<program, table, out>>

SubstituteDefaultInBody ==
    /\ At({"word"}) /\ Bound(Tok.n) /\ Top.args[Tok.n].b = "default"
    /\ Push(Past(1), Within(Top.args[Tok.n].text, "back"))
    /\ UNCHANGED <<program, table, active, out>>

\* A default is written beside its formal, and names none.
SubstituteDefault ==
    /\ At({"word"}) /\ Bound(Tok.n) /\ Top.args[Tok.n].b = "default"
    /\ Push(Past(1), [Walk(Top.args[Tok.n].text, Top.file) EXCEPT !.made = TRUE])
    /\ UNCHANGED <<program, table, active, out>>

SubstituteNothing ==
    /\ At({"word"}) /\ Bound(Tok.n) /\ Top.args[Tok.n].b = "nothing"
    /\ stack' = Past(1)
    /\ UNCHANGED <<program, table, active, out>>

IsActiveInnermost(d) == active # <<>> /\ active[Len(active)] = d

IsActive(d) == \E i \in DOMAIN active : active[i] = d

\* A macro known to take no list is called without the one that follows.
Bare(token) == table[token.n] # Undefined /\ table[token.n].arity = <<>>

\* The macro is not defined, is being expanded, or wants a list.
Verbatim ==
    /\ At({"call"})
    /\ LET entry == table[Tok.n] IN
        /\ \/ entry = Undefined
           \/ IsActive(entry.d)
           \/ program.defs[entry.d].formals # NoList /\ Tok.args = NoList
        /\ IF Bare(Tok) /\ Tok.args # NoList
           THEN /\ out' = Append(out, Call(Tok.n, NoList))
                /\ stack' = [stack EXCEPT ![Len(stack)].rest =
                                Spread(Tok.args) \o Tail(@)]
           ELSE out' = Append(out, Tok) /\ stack' = Past(1)
    /\ UNCHANGED <<program, table, active>>

\* A list the macro does not take is text that follows its body.
Reference ==
    /\ At({"call"}) /\ table[Tok.n] # Undefined
    /\ LET d == table[Tok.n].d
           def == program.defs[d]
           left == IF def.formals = NoList /\ Tok.args # NoList
                   THEN Spread(Tok.args) ELSE <<>>
       IN
        /\ ~IsActive(d)
        /\ def.formals # NoList => Tok.args # NoList
        /\ Push([stack EXCEPT ![Len(stack)].rest = left \o Tail(@)],
                [Walk(def.body, Top.file) EXCEPT
                    !.args = IF def.formals = NoList THEN NoArgs ELSE Bindings(d, Tok.args),
                    !.made = TRUE, !.caller = Len(stack), !.depth = Len(active),
                    !.ends = "body"])
        /\ active' = Append(active, d)
    /\ UNCHANGED <<program, table, out>>

\* Text between quotes of a body is walked aside, and makes one string.
Stringify ==
    /\ At({"quote"}) /\ Top.made
    /\ Push(Past(1), [Within(Tok.args[1], "string") EXCEPT !.out = out])
    /\ out' = <<>>
    /\ UNCHANGED <<program, table, active>>

-----------------------------------------------------------------------------
(* Conditionals: the branches are tried in turn.                           *)

Try(opener) == [stack EXCEPT ![Len(stack)].tried = opener]

Opener == After(Openers(Top.rest), Top.tried, 0)

IsTaken(token, name) ==
    \/ token.k = "else"
    \/ name # NoName /\ (token.k = "ifndef" <=> table[name] = Undefined)

Enter(opener) ==
    Push(Past(Close(Top.rest)), Within(BodyOf(Top.rest, opener), "back"))

BranchStuck ==
    /\ At(Conditionals)
    /\ IF Opener = 0 THEN stack' = Try(0)
       ELSE LET token == Top.rest[Opener] IN
            /\ token.k = "else" \/ token.n = NoName \/ ~Top.made
            /\ IF IsTaken(token, token.n) THEN Enter(Opener) ELSE stack' = Try(Opener)
    /\ UNCHANGED <<program, table, active, out>>

Branch ==
    /\ At(Conditionals)
    /\ IF Opener = 0 THEN stack' = Past(Close(Top.rest))
       ELSE LET token == Top.rest[Opener] IN
            /\ token.k = "else" \/ token.n = NoName \/ ~Top.made
            /\ IF IsTaken(token, token.n) THEN Enter(Opener) ELSE stack' = Try(Opener)
    /\ UNCHANGED <<program, table, active, out>>

\* The name a body tests is the one its token makes once substituted.
TestName ==
    /\ At(Conditionals) /\ Top.made /\ Opener # 0
    /\ LET token == Top.rest[Opener] IN
        /\ token.k # "else" /\ token.n # NoName
        /\ Push(Try(Opener), [Within(<<Word(token.n)>>, "test") EXCEPT !.out = out])
    /\ out' = <<>>
    /\ UNCHANGED <<program, table, active>>

-----------------------------------------------------------------------------
(* Includes.                                                               *)

OpenFiles == {stack[i].file : i \in DOMAIN stack}
IncludeDepth == Cardinality({i \in DOMAIN stack : stack[i].ends = "included"})

\* The first file searched that there is, or else the only one whose path
\* ends in the name.
Found(name) ==
    LET readable == {i \in DOMAIN program.search[name] :
                        program.search[name][i] \in DOMAIN program.files}
        ending == program.ending[name]
    IN  IF readable # {}
        THEN program.search[name][CHOOSE i \in readable : \A j \in readable : i <= j]
        ELSE IF Cardinality(ending) = 1 THEN CHOOSE f \in ending : TRUE
        ELSE Unfound

IncludeAgain ==
    /\ At({"include"})
    /\ IncludeDepth < MaxDepth
    /\ Found(Tok.n) # Unfound
    /\ Push(Past(1), [Walk(program.files[Found(Tok.n)], Found(Tok.n))
                        EXCEPT !.ends = "included"])
    /\ UNCHANGED <<program, table, active, out>>

Include ==
    /\ At({"include"})
    /\ IncludeDepth < MaxDepth
    /\ Found(Tok.n) \notin OpenFiles \union {Unfound}
    /\ Push(Past(1), [Walk(program.files[Found(Tok.n)], Found(Tok.n))
                        EXCEPT !.ends = "included"])
    /\ UNCHANGED <<program, table, active, out>>

\* Too deep, a file open already, or none: the directive is kept only where
\* a file is missing from what a file writes.
IncludeNothing ==
    /\ At({"include"})
    /\ \/ IncludeDepth >= MaxDepth
       \/ Found(Tok.n) \in OpenFiles \union {Unfound}
    /\ out' = IF IncludeDepth < MaxDepth /\ Found(Tok.n) = Unfound /\ ~Top.made
              THEN Append(out, Tok) ELSE out
    /\ stack' = Past(1)
    /\ UNCHANGED <<program, table, active>>

-----------------------------------------------------------------------------
(* The end of a walk.                                                      *)

Below == SubSeq(stack, 1, Len(stack) - 1)
Ends(ends) == Running /\ Top.rest = <<>> /\ Top.ends = ends

EndText ==
    /\ Ends("back") \/ Ends("included")
    /\ stack' = Below
    /\ UNCHANGED <<program, table, active, out>>

EndBody ==
    /\ Ends("body")
    /\ active' = SubSeq(active, 1, Len(active) - 1)
    /\ stack' = Below
    /\ UNCHANGED <<program, table, out>>

EndActual ==
    /\ Ends("actual")
    /\ active' = active \o Top.inner
    /\ stack' = Below
    /\ UNCHANGED <<program, table, out>>

EndString ==
    /\ Ends("string")
    /\ out' = Append(Top.out, Quoted("string", out))
    /\ stack' = Below
    /\ UNCHANGED <<program, table, active>>

\* What makes no name, or more than one, is never taken.
EndTest ==
    /\ Ends("test")
    /\ LET asking == stack[Len(stack) - 1]
           opener == asking.tried
           named == Len(out) = 1 /\ out[1].k = "word"
           text == asking.rest
       IN  stack' =
            IF named /\ IsTaken(text[opener], out[1].n)
            THEN Append([Below EXCEPT ![Len(Below)] =
                            [@ EXCEPT !.rest = Behind(text), !.tried = 0]],
                        [asking EXCEPT !.rest = BodyOf(text, opener), !.ends = "back",
                                       !.inner = <<>>, !.tried = 0])
            ELSE Below
    /\ out' = Top.out
    /\ UNCHANGED <<program, table, active>>

Expands ==
    \/ Emit \/ Direct \/ Stray
    \/ SubstituteActual \/ SubstituteDefault \/ SubstituteNothing
    \/ Verbatim \/ Reference \/ Stringify

Chooses == Branch \/ TestName \/ Include \/ IncludeNothing

Returns == EndText \/ EndBody \/ EndActual \/ EndString \/ EndTest

Next == Expands \/ Chooses \/ Returns

Spec == Init /\ [][Next]_vars

\* The code is one call that runs until it returns.
FairSpec == Spec /\ WF_vars(Next)

-----------------------------------------------------------------------------
(* Properties.                                                             *)

\* No macro is expanded within itself, however calls, arguments, includes and
\* new definitions of it nest (expand.rs, reference).
NoneWithinItself ==
    \A i, j \in DOMAIN active : active[i] = active[j] => i = j

\* How many definitions are active where the text of each walk is written.
ActiveWhereWritten[i \in 0 .. Len(stack)] ==
    IF i <= 1 THEN 0
    ELSE IF stack[i].ends = "body" THEN ActiveWhereWritten[i - 1] + 1
    ELSE IF stack[i].ends = "actual" THEN ActiveWhereWritten[stack[i - 1].caller]
    ELSE ActiveWhereWritten[i - 1]

\* The definitions that are active are those of the text being walked: a
\* body adds its own, and an argument has those of where its call is written,
\* so that it may call the macro it is passed to (expand.rs, Frame::depth).
ActiveIsWhereWritten == Len(active) = ActiveWhereWritten[Len(stack)]

\* No file is included within itself, nor deeper than the limit, whatever
\* macros the directives stand in (expand.rs, include).
IncludesAreBounded ==
    LET files == {i \in DOMAIN stack : i = 1 \/ stack[i].ends = "included"} IN
    /\ Cardinality(files) <= MaxDepth + 1
    /\ \A i, j \in files : stack[i].file = stack[j].file => i = j

\* Expansion ends, whatever is expanded: calls, arguments and includes cannot
\* go round for ever.
ExpansionEnds == <>(stack = <<>>)
=============================================================================
