-------------------------------- MODULE Origins --------------------------------
(***************************************************************************)
(* Where text comes from (astli-text, origins.rs): the buffers there are,  *)
(* the views of them, and the expansions that placed what they hold.  A    *)
(* span is a view and a place in its buffer.  What may be none is a        *)
(* sequence of none or one.                                                *)
(***************************************************************************)
EXTENDS Integers, Sequences, SequencesExt

Synthesised == ""   \* in the place of a path
None == [buffers |-> <<>>, views |-> <<>>, expansions |-> <<>>]
At(view, place) == [view |-> view, place |-> place]

View(o, buffer, from) == [o EXCEPT !.views = Append(@, [buffer |-> buffer, from |-> from])]
BufferOf(o, view) == o.buffers[o.views[view].buffer]

\* What is added is as written in the last of the views.
Add(o, path, from) ==
    LET seen == View(o, Len(o.buffers) + 1, <<>>) IN
    [seen EXCEPT !.buffers = Append(@, [path |-> path, from |-> from, written |-> Len(seen.views)])]
AddFile(o, path) == Add(o, path, <<>>)
AddSynthesised(o) == Add(o, Synthesised, <<>>)

\* An expansion, with the views it has placed tokens through.
Expand(o, call) == [o EXCEPT !.expansions = Append(@, [call |-> call, placed |-> <<>>])]

\* A span's bytes as placed by an expansion, or as written.
PlacedIn(o, buffer, id) == SelectSeq(o.expansions[id].placed, LAMBDA view : o.views[view].buffer = buffer)
Through(o, span, from) ==
    LET buffer == o.views[span.view].buffer IN
    CASE from = <<>> -> [to |-> o, span |-> [span EXCEPT !.view = o.buffers[buffer].written]]
      [] from # <<>> /\ PlacedIn(o, buffer, from[1]) # <<>> ->
            [to |-> o, span |-> [span EXCEPT !.view = PlacedIn(o, buffer, from[1])[1]]]
      [] OTHER ->
            LET seen == View(o, buffer, from) IN
            [to |-> [seen EXCEPT !.expansions[from[1]].placed = Append(@, Len(seen.views))],
             span |-> [span EXCEPT !.view = Len(seen.views)]]

Spelled(o, span) == [span EXCEPT !.view = BufferOf(o, span.view).written]
PlacedBy(o, view) == o.views[view].from

\* The expansions that placed what a view holds, outward.
RECURSIVE Trace(_, _)
Trace(o, view) ==
    IF PlacedBy(o, view) = <<>> THEN <<>>
    ELSE LET inner == o.expansions[PlacedBy(o, view)[1]] IN <<inner.call>> \o Trace(o, inner.call.view)

\* The outermost call, or what was written.
ReportedAt(o, span) == IF Trace(o, span.view) = <<>> THEN span ELSE Last(Trace(o, span.view))

\* Where a file is included, and where the file that is in is.
RECURSIVE IncludeTrace(_, _)
IncludeTrace(o, view) ==
    IF BufferOf(o, view).from = <<>> THEN <<>>
    ELSE LET site == BufferOf(o, view).from[1] IN <<site>> \o IncludeTrace(o, site.view)

Reenters(o, path, view) ==
    LET sites == IncludeTrace(o, view) IN
    \E open \in {view} \union {sites[i].view : i \in DOMAIN sites} : BufferOf(o, open).path = path

\* A file that is there, unless it is open already.
LoadIncluded(o, path, site) == IF Reenters(o, path, site.view) THEN {} ELSE {Add(o, path, <<site>>)}

---------------------------------------------------------------------------
(* The expander uses it as a sequence of steps, each with what it leaves:  *)
(* the tokens placed so far.  What is remembered of each here is where its *)
(* bytes are, and the calls around it, inner first; and of a file, those   *)
(* it is included in, itself first.                                        *)

Token(span, bytes, calls, opened) == [span |-> span, bytes |-> bytes, calls |-> calls, opened |-> opened]
Start == [o |-> None, tokens |-> <<>>]

\* The two tokens of a buffer just added.
Written(o, opened) ==
    [place \in 1 .. 2 |-> Token(At(o.buffers[Len(o.buffers)].written, place), <<Len(o.buffers), place>>, <<>>, opened)]
Opened(state, path) ==
    LET o == AddFile(state.o, path) IN [o |-> o, tokens |-> state.tokens \o Written(o, <<path>>)]

\* A call, whose site is known by its bytes and the call it stands in.
CallAt(token) == [bytes |-> token.bytes, within |-> token.calls]
Inside(state, o, call, span, bytes) ==
    LET token == state.tokens[call] IN
    Append(state.tokens, Token(span, bytes, <<CallAt(token)>> \o token.calls, token.opened))

\* A body's token, or an argument's, is placed by the call it is expanded in,
\* from wherever it is known.
Called(state, call, body) ==
    LET made == Expand(state.o, state.tokens[call].span)
        placed == Through(made, state.tokens[body].span, <<Len(made.expansions)>>)
    IN [o |-> placed.to, tokens |-> Inside(state, placed.to, call, placed.span, state.tokens[body].bytes)]

\* Another token of the last call; it is the last token's.
More(state, body) ==
    LET last == Last(state.tokens)
        placed == Through(state.o, state.tokens[body].span, PlacedBy(state.o, last.span.view))
    IN [o |-> placed.to,
        tokens |-> Append(state.tokens, [last EXCEPT !.span = placed.span, !.bytes = state.tokens[body].bytes])]

\* Text made in the last call, as by a paste.
Made(state) ==
    LET last == Last(state.tokens)
        made == AddSynthesised(state.o)
        placed == Through(made, At(made.buffers[Len(made.buffers)].written, 1), PlacedBy(made, last.span.view))
    IN [o |-> placed.to,
        tokens |-> Append(state.tokens, [last EXCEPT !.span = placed.span, !.bytes = <<Len(made.buffers), 1>>])]

\* A file included where a token stands, as a user sees it.
Includes(state, at, path) == LoadIncluded(state.o, path, ReportedAt(state.o, state.tokens[at].span))
Included(state, at, path) ==
    LET opened == Includes(state, at, path) IN
    IF opened = {} THEN state
    ELSE LET o == CHOOSE o \in opened : TRUE IN
         [o |-> o, tokens |-> state.tokens \o Written(o, <<path>> \o state.tokens[at].opened)]

\* Two tokens have one span if they are the same bytes placed by the same
\* expansion, as only those of one call are; each tells its bytes, and the
\* calls around it from the inner to the one a user wrote.
BytesOf(o, span) == <<o.views[span.view].buffer, span.place>>
OriginsAreTrue(state) ==
    LET o == state.o IN
    /\ \A i, j \in DOMAIN state.tokens :
            LET a == state.tokens[i]
                b == state.tokens[j]
            IN a.span = b.span <=> a.bytes = b.bytes /\ PlacedBy(o, a.span.view) = PlacedBy(o, b.span.view)
    /\ \A i \in DOMAIN state.tokens :
            LET token == state.tokens[i]
                trace == Trace(o, token.span.view)
                reported == ReportedAt(o, token.span)
            IN /\ BytesOf(o, token.span) = token.bytes
               /\ Spelled(o, token.span) = Through(o, token.span, <<>>).span
               /\ BytesOf(o, Spelled(o, token.span)) = token.bytes
               /\ [n \in DOMAIN trace |-> BytesOf(o, trace[n])] = [n \in DOMAIN token.calls |-> token.calls[n].bytes]
               /\ PlacedBy(o, reported.view) = <<>> /\ BufferOf(o, reported.view).path # Synthesised
               /\ BytesOf(o, reported) = IF token.calls = <<>> THEN token.bytes ELSE Last(token.calls).bytes

\* A file is included only in what is not within it, whatever macro names it.
IncludesAreOpen(state, at, path) ==
    LET token == state.tokens[at] IN
    Includes(state, at, path) = {} <=> \E i \in DOMAIN token.opened : token.opened[i] = path
=============================================================================
