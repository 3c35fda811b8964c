-------------------------------- MODULE Tree --------------------------------
(***************************************************************************)
(* From what grammar rules do to the syntax tree (astli-parse): the events *)
(* they record, taken back to a snapshot where a guess was wrong           *)
(* (event.rs), and the tree built of the events and of every token, trivia *)
(* included (build.rs).  Events are known by their place, counted from 1.  *)
(***************************************************************************)
EXTENDS Naturals, Sequences, SequencesExt, FiniteSets

CONSTANTS
    MaxDepth,   \* how deep a tree may be
    Verbatim    \* the kind of what is left where it would be deeper

NoLink == 0
Tombstone == [is |-> "tombstone"]
Start(kind, forward) == [is |-> "start", kind |-> kind, forward |-> forward]
Token == [is |-> "token"]
Finish == [is |-> "finish"]

---------------------------------------------------------------------------
(* Recording.  open counts the markers open; precedes are the places of    *)
(* the nodes wrapped in another since, in order.                           *)

NoEvents == [events |-> <<>>, open |-> 0, precedes |-> <<>>]

Started(s) == [s EXCEPT !.events = Append(@, Tombstone), !.open = @ + 1]
Took(s) == [s EXCEPT !.events = Append(@, Token)]

Completed(s, pos, kind) ==
    [s EXCEPT !.events = Append([@ EXCEPT ![pos] = Start(kind, NoLink)], Finish), !.open = @ - 1]

Abandoned(s, pos) ==
    [s EXCEPT !.events = IF pos = Len(@) THEN Front(@) ELSE @, !.open = @ - 1]

\* A node opened before one that is complete.
Preceded(s, pos) ==
    LET started == Started(s)
        marker == Len(started.events)
    IN [started EXCEPT !.events[pos].forward = marker - pos, !.precedes = Append(@, pos)]

Snapshot(s) == [events |-> Len(s.events), precedes |-> Len(s.precedes)]

\* A wrong way back: nodes wrapped since stay so.
RollbackCut(s, snapshot) ==
    [s EXCEPT !.events = SubSeq(@, 1, snapshot.events),
              !.precedes = SubSeq(@, 1, snapshot.precedes)]

\* What was recorded since is dropped, and no node is wrapped in what is.
Rollback(s, snapshot) ==
    LET unwrapped == {s.precedes[i] : i \in snapshot.precedes + 1 .. Len(s.precedes)} IN
    [s EXCEPT !.events =
        [at \in 1 .. snapshot.events |->
            IF at \in unwrapped /\ @[at].is = "start" THEN [@[at] EXCEPT !.forward = NoLink] ELSE @[at]],
        !.precedes = SubSeq(@, 1, snapshot.precedes)]

\* The places a node's links lead to, the outermost last.
RECURSIVE Linked(_, _)
Linked(events, at) ==
    IF events[at].forward = NoLink THEN <<at>>
    ELSE <<at>> \o Linked(events, at + events[at].forward)

\* One event after another, the nodes that wrap a node opened before it.
ResolveFrom(sofar, at) ==
    LET event == sofar.events[at] IN
    CASE event.is = "tombstone" -> sofar
      [] event.is \in {"token", "finish"} -> [sofar EXCEPT !.out = Append(@, event)]
      [] event.is = "start" ->
            LET links == Linked(sofar.events, at) IN
            [events |-> [i \in DOMAIN sofar.events |->
                            IF i # at /\ i \in ToSet(links) THEN Tombstone ELSE sofar.events[i]],
             out |-> sofar.out \o [i \in DOMAIN links |->
                                    Start(sofar.events[Reverse(links)[i]].kind, NoLink)]]

Resolve(events) ==
    FoldLeft(ResolveFrom, [events |-> events, out |-> <<>>], [at \in DOMAIN events |-> at]).out

---------------------------------------------------------------------------
(* Building.  A token is of a rule or trivia: space, space with a newline, *)
(* or a comment, of one line or of several.  What is built is a sequence   *)
(* of nodes opened and closed and of tokens by their place.                *)

Trivia == {"space", "newline", "comment", "block"}
Open(kind) == [is |-> "open", kind |-> kind]
Close == [is |-> "close"]
Leaf(at) == [is |-> "leaf", at |-> at]

NothingBuilt == [built |-> <<>>, at |-> 1, depth |-> 0, flattening |-> 0]

\* How many tokens from a place on trail the token before: up to the last
\* comment on its line.
Trailing(tokens, at) ==
    LET ends == {i \in at .. Len(tokens) :
                    /\ tokens[i] \in {"comment", "block"}
                    /\ \A j \in at .. i : tokens[j] \in Trivia \ {"newline"}
                    /\ \A j \in at .. i - 1 : tokens[j] # "block"}
    IN IF ends = {} THEN 0 ELSE (CHOOSE i \in ends : \A j \in ends : j <= i) - at + 1

Emit(b, count) ==
    [b EXCEPT !.built = @ \o [i \in 1 .. count |-> Leaf(b.at + i - 1)], !.at = @ + count]

EmitTrailing(tokens, b) ==
    IF b.depth = 0 \/ b.at = 1 THEN b ELSE Emit(b, Trailing(tokens, b.at))

EmitTrivia(tokens, b) ==
    Emit(b, Cardinality({i \in b.at .. Len(tokens) : \A j \in b.at .. i : tokens[j] \in Trivia}))

Opened(b, kind) == [b EXCEPT !.built = Append(@, Open(kind)), !.depth = @ + 1]

BuildEvent(events, tokens, b, index) ==
    LET event == events[index]
        trailed == EmitTrailing(tokens, b)
    IN CASE event.is = "start" ->
                IF b.flattening > 0 THEN [trailed EXCEPT !.flattening = @ + 1]
                ELSE IF b.depth + 1 = MaxDepth
                THEN [Opened(trailed, Verbatim) EXCEPT !.flattening = 1]
                ELSE Opened(trailed, event.kind)
         [] event.is = "token" -> Emit(EmitTrivia(tokens, b), 1)
         [] event.is = "finish" ->
                LET emitted == IF index = Len(events) THEN EmitTrivia(tokens, b) ELSE trailed
                    flattening == IF b.flattening > 0 THEN b.flattening - 1 ELSE 0
                IN IF flattening > 0 THEN [emitted EXCEPT !.flattening = flattening]
                   ELSE [emitted EXCEPT !.flattening = 0, !.built = Append(@, Close), !.depth = @ - 1]

Build(events, tokens) ==
    FoldLeft(LAMBDA b, index : BuildEvent(events, tokens, b, index), NothingBuilt,
             [i \in DOMAIN events |-> i]).built

---------------------------------------------------------------------------
(* What a grammar rule may do, one command after another.  A rule holds    *)
(* the places of the markers it has open and of the nodes it completed;    *)
(* kept beside them is the forest meant: for each open marker, and outside *)
(* of all, the pieces in it, each the events of a node or of a token.      *)
(* spoiled: a node that was to wrap another was abandoned, after which     *)
(* rules do nothing but roll back.  saved: what rules may go back to.      *)

Level(at, id) == [at |-> at, id |-> id, pieces |-> <<>>]
Nothing == [recorded |-> NoEvents, levels |-> <<Level(0, 0)>>, wrapping |-> {}, spoiled |-> FALSE,
            saved |-> <<>>, ids |-> 0]

Top(w) == Last(w.levels)
Events(pieces) == FlattenSeq([i \in DOMAIN pieces |-> pieces[i].events])
With(levels, piece) == Append(Front(levels), [Last(levels) EXCEPT !.pieces = Append(@, piece)])
TokenPiece == [at |-> 0, wrapped |-> FALSE, events |-> <<Token>>]

Commands ==
    {<<"start">>, <<"token">>, <<"complete">>, <<"abandon">>, <<"snapshot">>}
        \union {<<"precede", i>> : i \in 1 .. 2} \union {<<"rollback", i>> : i \in 1 .. 2}

Ids(levels) == [i \in DOMAIN levels |-> levels[i].id]

Legal(w, command) ==
    LET is == command[1] IN
    /\ w.spoiled => is = "rollback"
    /\ is \in {"complete", "abandon"} => Len(w.levels) > 1
    /\ is = "snapshot" => Len(w.saved) < 2
    /\ is = "precede" =>
        /\ command[2] \in DOMAIN Top(w).pieces
        /\ Top(w).pieces[command[2]].at # 0 /\ ~Top(w).pieces[command[2]].wrapped
    /\ is = "rollback" =>
        /\ command[2] \in DOMAIN w.saved
        /\ Ids(w.levels) = Ids(w.saved[command[2]].levels)

Did(w, command) ==
    LET is == command[1]
        id == w.ids + 1
        marker == Len(w.recorded.events) + 1
        top == Top(w)
        outer == Front(w.levels)
    IN CASE is = "start" ->
                [w EXCEPT !.recorded = Started(@), !.levels = Append(@, Level(marker, id)), !.ids = id]
         [] is = "token" ->
                [w EXCEPT !.recorded = Took(@), !.levels = With(@, TokenPiece)]
         [] is = "complete" ->
                [w EXCEPT !.recorded = Completed(@, top.at, id), !.ids = id,
                          !.levels = With(outer, [at |-> top.at, wrapped |-> FALSE,
                            events |-> <<Start(id, NoLink)>> \o Events(top.pieces) \o <<Finish>>])]
         [] is = "abandon" ->
                [w EXCEPT !.recorded = Abandoned(@, top.at), !.spoiled = top.id \in w.wrapping,
                          !.levels = FoldLeft(With, outer, top.pieces)]
         [] is = "precede" ->
                LET at == command[2]
                    inside == [[top EXCEPT !.pieces = SubSeq(@, at, Len(@))] EXCEPT
                                    !.at = marker, !.id = id, !.pieces[1].wrapped = TRUE]
                IN [w EXCEPT !.recorded = Preceded(@, top.pieces[at].at),
                             !.levels = Append(outer, [top EXCEPT !.pieces = SubSeq(@, 1, at - 1)])
                                            \o <<inside>>,
                             !.wrapping = @ \union {id}, !.ids = id]
         [] is = "snapshot" ->
                [w EXCEPT !.saved = Append(@, [snapshot |-> Snapshot(w.recorded), levels |-> w.levels])]
         [] is = "rollback" ->
                LET to == w.saved[command[2]] IN
                [w EXCEPT !.recorded = Rollback(@, to.snapshot), !.levels = to.levels,
                          !.spoiled = FALSE, !.saved = SubSeq(@, 1, command[2])]

Ran(commands) == FoldLeft(Did, Nothing, commands)

\* Whatever rules guess and take back, the events recorded resolve to the
\* nodes and tokens they meant: in order, each node around its own, those
\* opened last around one already complete outside of it; and what was rolled
\* back leaves no trace (Events::rollback, precede, resolve).
ResolvesToMeant(commands) ==
    LET w == Ran(commands)
        events == w.recorded.events
    IN ~w.spoiled /\ Len(w.levels) = 1 =>
        /\ w.recorded.open = 0
        /\ \A at \in DOMAIN events :
            events[at].is = "start" /\ events[at].forward # NoLink
                => /\ at + events[at].forward \in DOMAIN events
                   /\ events[at + events[at].forward].is = "start"
        /\ Resolve(events) = Events(Top(w).pieces)

---------------------------------------------------------------------------
(* What is built, by what is in it.                                        *)

\* How many nodes of a sequence from one place to another are left open.
Depth(built, from, to) ==
    Cardinality({i \in from .. to : built[i].is = "open"})
        - Cardinality({i \in from .. to : built[i].is = "close"})

\* Where the node opens that a place is directly in.
NodeOf(built, place) ==
    CHOOSE o \in 1 .. place - 1 :
        /\ built[o].is = "open"
        /\ Depth(built, o, place) = 1
        /\ \A q \in o .. place : Depth(built, o, q) >= 1

Rules(tokens) == {t \in DOMAIN tokens : tokens[t] \notin Trivia}
Commented(tokens, from, to) == \E i \in from .. to : tokens[i] \in {"comment", "block"}

\* Every token is in the tree, in its order, under one root no deeper than
\* allowed; up to that depth the nodes are those of the events; a comment on
\* the line of the token before is in that token's node, with the space up to
\* it; what ends the file is in the root; and any other space or comment is in
\* the node of the token after.  A comment that starts where one of several
\* lines ends may be with either, or between (build, emit_trailing).
BuiltWhole(events, tokens) ==
    LET built == Build(events, tokens)
        PlaceOf(t) == CHOOSE p \in DOMAIN built : built[p] = Leaf(t)
        Node(t) == NodeOf(built, PlaceOf(t))
        Before(t) == {r \in Rules(tokens) : r < t}
        After(t) == {r \in Rules(tokens) : r > t}
    IN /\ SelectSeq(built, LAMBDA e : e.is = "leaf") = [t \in DOMAIN tokens |-> Leaf(t)]
       /\ built[1].is = "open" /\ Last(built).is = "close"
       /\ Depth(built, 1, Len(built)) = 0
       /\ \A p \in 1 .. Len(built) - 1 : Depth(built, 1, p) \in 1 .. MaxDepth
       /\ (\A p \in DOMAIN built : built[p] # Open(Verbatim)) =>
            LET kept == SelectSeq(built, LAMBDA e : e.is # "leaf" \/ e.at \in Rules(tokens)) IN
            /\ Len(kept) = Len(events)
            /\ \A i \in DOMAIN events :
                CASE events[i].is = "start" -> kept[i] = Open(events[i].kind)
                  [] events[i].is = "token" -> kept[i].is = "leaf"
                  [] events[i].is = "finish" -> kept[i] = Close
       /\ \A t \in DOMAIN tokens \ Rules(tokens) :
            LET before == CHOOSE r \in Before(t) : \A other \in Before(t) : other <= r
                after == CHOOSE r \in After(t) : \A other \in After(t) : other >= r
                ended == After(t) = {}
                last == IF ended THEN Len(tokens) ELSE after - 1
                line == {i \in t .. last : \A j \in before + 1 .. i : tokens[j] # "newline"}
                ofBefore == Before(t) # {} /\ \E i \in line : Commented(tokens, t, i)
                afterBlock == Before(t) # {} /\ \E i \in before + 1 .. t - 1 : tokens[i] = "block"
            IN ~afterBlock => Node(t) = IF ofBefore THEN Node(before)
                                        ELSE IF ended THEN 1 ELSE Node(after)
=============================================================================
