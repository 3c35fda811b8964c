------------------------------- MODULE Layout -------------------------------
(***************************************************************************)
(* Where a document's lines break (astli-fmt, doc.rs).  A text is its name *)
(* and its width; what is printed is a sequence of texts, single spaces,   *)
(* indents and newlines; held are the places of it where a break was       *)
(* printed flat.  Lines that move with a verbatim text are left out: a     *)
(* token of several lines keeps them as they were.  The padding of tables  *)
(* that follows printing is below, on rows that are given.                 *)
(***************************************************************************)
EXTENDS Integers, Sequences, SequencesExt, FiniteSetsExt

CONSTANTS
    Width,   \* of a line
    Step,    \* what an indent adds
    MaxPad   \* how far apart the ends of a column's cells may be

\* Documents.  Text that ends in a space needs no other after it.
Text(name, width) == [is |-> "text", name |-> name, width |-> width, spaced |-> FALSE]
Spaced(name, width) == [is |-> "text", name |-> name, width |-> width, spaced |-> TRUE]
Token(name, first, last) == [is |-> "token", name |-> name, first |-> first, last |-> last]
Space == [is |-> "space"]
Line == [is |-> "line"]
SoftLine == [is |-> "softline"]
HardLine == [is |-> "hardline"]
BlankLine == [is |-> "blankline"]
Group(doc) == [is |-> "group", doc |-> doc]
Indent(doc) == [is |-> "indent", doc |-> doc]
Margin(doc) == [is |-> "margin", doc |-> doc]
Align(doc) == [is |-> "align", doc |-> doc]
Trailing(doc) == [is |-> "trailing", doc |-> doc]
Prefer(doc, otherwise) == [is |-> "prefer", doc |-> doc, otherwise |-> otherwise]
Fill(docs) == [is |-> "fill", docs |-> docs]
Concat(docs) == [is |-> "concat", docs |-> docs]

Bigger(a, b) == IF a > b THEN a ELSE b

\* The separation asked for since the last text.
NoGap == [is |-> "none"]
SpaceGap == [is |-> "space"]
LinesGap(count, indent, aligned) ==
    [is |-> "lines", count |-> count, indent |-> indent, aligned |-> aligned]

Flat == "flat"
Break == "break"
Mode(flat) == IF flat THEN Flat ELSE Break

\* A document still to print, with what it inherits; what is left of a fill is
\* a fill.
Command(indent, aligned, mode, doc) ==
    [indent |-> indent, aligned |-> aligned, mode |-> mode, doc |-> doc]
Inner(command, doc) == [command EXCEPT !.doc = doc]
Queue(command, mode, doc) == [command EXCEPT !.mode = mode, !.doc = doc]

\* A printer with nothing written.  trial: it runs no trials of its own.
Printer(column, indent, trial) ==
    [out |-> <<>>, held |-> {}, column |-> column, indent |-> indent, gap |-> NoGap, aligned |-> FALSE,
     cramped |-> FALSE, trial |-> trial]

EndsInSpace(out) ==
    \/ Last(out).is \in {"space", "indent"}
    \/ Last(out).is = "text" /\ Last(out).spaced

WritesSpace(p) == p.gap.is = "space" /\ p.out # <<>> /\ ~EndsInSpace(p.out)

Start(p) ==
    IF p.gap.is = "lines" THEN p.gap.indent ELSE p.column

---------------------------------------------------------------------------
(* Whether documents fit on the line, with what follows them up to the     *)
(* next break.                                                             *)

Measured(gap, width) == width + IF gap.is = "space" THEN 1 ELSE 0
AskSpace(gap) == IF gap.is = "none" THEN SpaceGap ELSE gap

\* todo: documents with their modes, the next last; rest: commands, likewise.
RECURSIVE Measure(_, _, _, _, _)
Measure(gap, left, todo, rest, firstLine) ==
    IF todo = <<>>
    THEN IF rest = <<>> THEN TRUE
         ELSE Measure(gap, left, <<[mode |-> Last(rest).mode, doc |-> Last(rest).doc]>>, Front(rest), firstLine)
    ELSE LET mode == Last(todo).mode
             doc == Last(todo).doc
             more == Front(todo)
             On(g, l, docs) ==
                Measure(g, l, more \o [i \in DOMAIN docs |-> [mode |-> mode, doc |-> docs[i]]], rest, firstLine)
         IN CASE doc.is \in {"line", "softline"} /\ mode = Break -> TRUE
              [] doc.is \in {"space", "line"} -> On(AskSpace(gap), left, <<>>)
              [] doc.is \in {"softline", "trailing"} -> On(gap, left, <<>>)
              [] doc.is \in {"hardline", "blankline"} -> mode = Break \/ firstLine
              [] doc.is \in {"group", "prefer", "indent", "margin", "align"} -> On(gap, left, <<doc.doc>>)
              [] doc.is \in {"concat", "fill"} -> On(gap, left, Reverse(doc.docs))
              [] doc.is = "token" ->
                    left >= Measured(gap, doc.first) /\ (mode = Break \/ firstLine)
              [] doc.is = "text" ->
                    left >= Measured(gap, doc.width)
                        /\ On(NoGap, left - Measured(gap, doc.width), <<>>)

Flatly(docs) == [i \in DOMAIN docs |-> [mode |-> Flat, doc |-> docs[Len(docs) + 1 - i]]]

\* A wrong measure: what follows on the line is not counted.
FitsAlone(p, docs, rest) == Measure(p.gap, Width - Start(p), Flatly(docs), <<>>, FALSE)

Fits(p, docs, rest) == Measure(p.gap, Width - Start(p), Flatly(docs), rest, FALSE)
Starts(p, docs, rest) == Measure(p.gap, Width - Start(p), Flatly(docs), rest, TRUE)

---------------------------------------------------------------------------
(* Writing.                                                                *)

Newline == [is |-> "newline"]
Blank(n) == [is |-> "indent", width |-> n]

Lines(p, count, command) ==
    [p EXCEPT !.gap =
        LinesGap(IF @.is = "lines" THEN Bigger(@.count, count) ELSE count, command.indent, command.aligned)]

Flush(p) ==
    CASE p.gap.is = "none" -> p
      [] p.gap.is = "space" /\ ~WritesSpace(p) -> [p EXCEPT !.gap = NoGap]
      [] p.gap.is = "space" /\ WritesSpace(p) ->
            [p EXCEPT !.gap = NoGap, !.out = Append(@, Space), !.column = @ + 1]
      [] p.gap.is = "lines" ->
            [p EXCEPT !.gap = NoGap,
                !.out = (IF @ = <<>> THEN @ ELSE @ \o [i \in 1 .. p.gap.count |-> Newline])
                            \o (IF p.gap.indent = 0 THEN <<>> ELSE <<Blank(p.gap.indent)>>),
                !.aligned = p.gap.aligned,
                !.cramped = @ \/ (p.gap.aligned /\ p.gap.indent > Width \div 2),
                !.column = p.gap.indent,
                !.indent = p.gap.indent]

Wrote(p, piece) ==
    LET column == p.column + piece.width IN
    [p EXCEPT !.out = Append(@, piece), !.column = column, !.cramped = @ \/ column > Width]

Write(p, text) == IF text.width = 0 THEN p ELSE Wrote(Flush(p), text)

\* The lines after the first are as they were.
WriteToken(p, token) ==
    LET first == Wrote(Flush(p), Text(token.name, token.first)) IN
    Wrote([first EXCEPT !.out = Append(@, Newline), !.column = 0, !.indent = 0, !.aligned = FALSE],
          Text(token.name, token.last))

\* A break printed flat.
Held(p) == IF p.gap.is = "lines" THEN p ELSE [p EXCEPT !.held = @ \union {Len(p.out)}]

---------------------------------------------------------------------------
(* Printing.                                                               *)

\* Each part flat if it fits, and each separator broken unless the part after
\* it fits on the line too; only the last part has what follows the fill
\* after it on its line.
Filled(p, command, parts, below) ==
    IF parts = <<>> THEN below
    ELSE IF command.mode = Flat
    THEN below \o [i \in DOMAIN parts |-> Queue(command, Flat, parts[Len(parts) + 1 - i])]
    ELSE LET part == Queue(command, Mode(Fits(p, <<parts[1]>>, IF Len(parts) = 1 THEN below ELSE <<>>)), parts[1]) IN
         IF Len(parts) = 1 THEN Append(below, part)
         ELSE IF Len(parts) = 2 THEN below \o <<Queue(command, part.mode, parts[2]), part>>
         ELSE below \o
              <<Inner(command, Fill(SubSeq(parts, 3, Len(parts)))),
                Queue(command,
                      Mode(Starts(p, SubSeq(parts, 1, 3), IF Len(parts) = 3 THEN below ELSE <<>>)), parts[2]),
                part>>

RECURSIVE Run(_, _, _)

\* Whether a command, printed from here, keeps every line within the width,
\* with what follows on its last, and aligns none past half of it; never so in
\* a trial.
FitsPrinted(p, command, rest) ==
    LET column == Start(p) + IF WritesSpace(p) THEN 1 ELSE 0
        trial == Run(Printer(column, p.indent, TRUE), Append(rest, command), Len(rest))
    IN ~p.trial /\ ~trial.cramped /\ Fits(trial, <<>>, rest)

\* Where lines broken in an aligned document start: where the next text does.
Aligned(p, command) ==
    IF p.gap.is = "lines" THEN [command EXCEPT !.indent = p.gap.indent, !.aligned = p.gap.aligned]
    ELSE [command EXCEPT !.indent = p.column + (IF WritesSpace(p) THEN 1 ELSE 0), !.aligned = TRUE]

\* Prints what is on the stack until only so many are left.
Run(p, stack, until) ==
    IF Len(stack) <= until THEN p
    ELSE LET command == Last(stack)
             below == Front(stack)
             doc == command.doc
             flat == command.mode = Flat
             On(q) == Run(q, below, until)
             Push(commands) == Run(p, below \o commands, until)
         IN CASE doc.is = "text" -> On(Write(p, doc))
              [] doc.is = "token" -> On(WriteToken(p, doc))
              [] doc.is = "space" -> On([p EXCEPT !.gap = AskSpace(@)])
              [] doc.is = "line" /\ flat -> On([Held(p) EXCEPT !.gap = AskSpace(@)])
              [] doc.is = "softline" /\ flat -> On(Held(p))
              [] doc.is \in {"line", "softline"} /\ ~flat -> On(Lines(p, 1, command))
              [] doc.is = "hardline" -> On(Lines(p, 1, command))
              [] doc.is = "blankline" -> On(Lines(p, 2, command))
              [] doc.is = "group" ->
                    Push(<<Queue(command, Mode(flat \/ Fits(p, <<doc.doc>>, below)), doc.doc)>>)
              [] doc.is = "indent" -> Push(<<[Inner(command, doc.doc) EXCEPT !.indent = @ + Step]>>)
              [] doc.is = "margin" ->
                    Push(<<[Inner(command, doc.doc) EXCEPT !.indent = 0, !.aligned = FALSE]>>)
              [] doc.is = "align" -> Push(<<Aligned(p, Inner(command, doc.doc))>>)
              [] doc.is = "fill" -> Run(p, Filled(p, command, doc.docs, below), until)
              [] doc.is = "prefer" ->
                    LET first == Inner(command, doc.doc) IN
                    Push(<<IF flat \/ FitsPrinted(p, first, below) THEN first
                           ELSE Inner(command, doc.otherwise)>>)
              [] doc.is = "trailing" ->
                    On([Run(p, <<Inner(command, doc.doc)>>, 0) EXCEPT !.cramped = p.cramped])
              [] doc.is = "concat" ->
                    Push([i \in DOMAIN doc.docs |-> Inner(command, Reverse(doc.docs)[i])])

Printed(doc) == Run(Printer(0, 0, FALSE), <<Command(0, FALSE, Break, doc)>>, 0)

---------------------------------------------------------------------------
(* What is promised of it.                                                 *)

RECURSIVE TextsOf(_)
TextsOf(doc) ==
    CASE doc.is = "text" -> <<doc>>
      [] doc.is = "token" -> <<Text(doc.name, doc.first), Text(doc.name, doc.last)>>
      [] doc.is \in {"group", "indent", "margin", "align", "trailing", "prefer"} -> TextsOf(doc.doc)
      [] doc.is \in {"concat", "fill"} ->
            FoldLeft(LAMBDA all, d : all \o TextsOf(d), <<>>, doc.docs)
      [] OTHER -> <<>>

RECURSIVE Within(_)
Within(doc) ==
    {doc} \union
    CASE doc.is \in {"group", "indent", "margin", "align", "trailing"} -> Within(doc.doc)
      [] doc.is = "prefer" -> Within(doc.doc) \union Within(doc.otherwise)
      [] doc.is \in {"concat", "fill"} -> UNION {Within(doc.docs[i]) : i \in DOMAIN doc.docs}
      [] OTHER -> {}

Has(doc, kinds) == \E d \in Within(doc) : d.is \in kinds

\* Every text comes once, in order; no line ends in a space or an indent, none
\* is empty but one after a blank line asked for, nothing is separated by more
\* than one space, and the first line has text (text, flush, space, lines).
WrittenTidily(doc) ==
    LET out == Printed(doc).out
        At(i) == IF i \in DOMAIN out THEN out[i].is ELSE "newline"
        ends(i) == At(i) = "newline"
    IN /\ SelectSeq(out, LAMBDA piece : piece.is = "text") =
            SelectSeq(TextsOf(doc), LAMBDA text : text.width > 0)
       /\ \A i \in DOMAIN out :
            /\ At(i) \in {"space", "indent"} => At(i + 1) = "text"
            /\ At(i) = "space" => At(i - 1) = "text" /\ ~out[i - 1].spaced
            /\ At(i) = "indent" => i = 1 \/ ends(i - 1)
            /\ ends(i) /\ ends(i + 1) => ~ends(i + 2) /\ Has(doc, {"blankline"})
       /\ out # <<>> => ~ends(1) /\ ~ends(Len(out))

\* The places of the line that holds place i.
LineOf(out, i) ==
    {j \in DOMAIN out : out[j].is # "newline"
        /\ \A k \in DOMAIN out : (i < k /\ k < j) \/ (j < k /\ k < i) => out[k].is # "newline"}

\* How wide the line of place i is, but for what only trails it.
Wide(doc, out, i) ==
    LET trailing == UNION {ToSet(TextsOf(d)) : d \in {d \in Within(doc) : d.is = "trailing"}}
        counted == {j \in LineOf(out, i) : out[j] \notin trailing
                        /\ (out[j].is = "space" => out[j + 1] \notin trailing)}
    IN FoldLeft(LAMBDA sum, j : sum + IF j \in counted THEN (IF out[j].is = "space" THEN 1 ELSE out[j].width) ELSE 0,
                0, [j \in DOMAIN out |-> j])

\* Whether a fill has a part of several lines before its last.  Whether the
\* next fits after it is measured on its first line, not its last.
OfSeveralLines(doc) ==
    \E d \in Within(doc) : d.is = "fill" /\ \E i \in 1 .. Len(d.docs) - 1 :
        Has(d.docs[i], {"token", "hardline", "blankline"})

\* Only a line that has no break held in it passes the width, and what can be
\* on one line and fits there is, if no text ends in a space of its own, for
\* which one more is measured, and no fill has a part of several lines that is
\* not its last (run, fits, fill).
BrokenWhereNeeded(doc) ==
    LET printed == Printed(doc)
        out == printed.out
        flat == Run(Printer(0, 0, FALSE), <<Command(0, FALSE, Flat, doc)>>, 0)
        fitsFlat ==
            /\ doc.is = "group" /\ ~Has(doc, {"hardline", "blankline", "token", "trailing"})
            /\ \A text \in ToSet(TextsOf(doc)) : ~text.spaced
            /\ ~flat.cramped
    IN /\ ~OfSeveralLines(doc) => \A i \in printed.held :
            (i \in DOMAIN out /\ i + 1 \in DOMAIN out /\ out[i].is # "newline" /\ out[i + 1].is # "newline")
                => Wide(doc, out, i) <= Width
       /\ fitsFlat => out = flat.out

---------------------------------------------------------------------------
(***************************************************************************)
(* Tables of the printed text: padding that lines up what follows the      *)
(* cells of a column (astli-fmt, align.rs).  A row is a line: its cells,   *)
(* each by its column of the table and the column of text it ends at; how  *)
(* wide the line is; and the later lines placed by text on it, each by     *)
(* where that text starts, its own width and the most it moves.            *)
(***************************************************************************)
Comment == 1000      \* after every other column
Far == 1000          \* no limit

Cell(index, column) == [index |-> index, column |-> column]
Later(start, wide, limit) == [start |-> start, wide |-> wide, limit |-> limit]
Row(cells, wide, later) == [cells |-> cells, wide |-> wide, later |-> later]

Smaller(a, b) == IF a < b THEN a ELSE b
Sum(pads, count) == FoldSeq(LAMBDA pad, sum : pad + sum, 0, SubSeq(pads, 1, count))

\* How many of a row's cells come before the comment at its end.
CodeCells(row) ==
    Len(row.cells) - IF row.cells # <<>> /\ Last(row.cells).index = Comment THEN 1 ELSE 0
HasComment(row) == CodeCells(row) < Len(row.cells)
CodeWide(row) == IF HasComment(row) THEN Last(row.cells).column ELSE row.wide

\* How far text that starts at a column moves when the first count cells are
\* padded.
Moved(row, pads, count, start) ==
    Sum(pads, Cardinality({i \in 1 .. count : row.cells[i].column <= start}))
LaterMoved(row, pads, count, later) == Smaller(Moved(row, pads, count, later.start), later.limit)

\* Text that a comment's own later lines are placed by is after its cell.
OfComment(row, later) == HasComment(row) /\ later.start >= Last(row.cells).column

\* How many cells, from the left, can take their padding with no line of the
\* row past the width; a row already too wide takes none.
Takes(row, pads, count) ==
    /\ CodeWide(row) + Sum(pads, count) <= Width
    /\ \A i \in DOMAIN row.later :
        OfComment(row, row.later[i]) \/
        row.later[i].wide + LaterMoved(row, pads, count, row.later[i]) <= Width
Fitting(row, pads) ==
    LET counts == {count \in 0 .. CodeCells(row) : Takes(row, pads, count)} IN
    IF counts = {} THEN 0 ELSE Max(counts)

---------------------------------------------------------------------------
(* The padding that lines columns up, taken left to right: each in runs of *)
(* rows next to each other, among those that have it, whose cells end      *)
(* within MaxPad, unless the table is strict.                              *)

At(row, index) == {i \in DOMAIN row.cells : row.cells[i].index = index}
End(row, pads, i) == row.cells[i].column + Sum(pads, i - 1)

\* state: each row's padding, the rows a run starts at, and the run being made.
Untouched(rows) ==
    [pads |-> <<>> \o [r \in DOMAIN rows |-> <<>> \o [i \in DOMAIN rows[r].cells |-> 0]], starts |-> {}]

\* The rows of the run that starts with the first of some.
RECURSIVE RunOf(_, _, _, _, _)
RunOf(ends, strict, starts, index, run) ==
    IF Len(run) = Len(ends) THEN run
    ELSE LET next == ends[Len(run) + 1]
             all == {run[i].end : i \in DOMAIN run} \union {next.end}
             limited == ~strict /\ index # Comment
             started == \E r \in Last(run).row + 1 .. next.row : r \in starts
         IN IF limited /\ (started \/ Max(all) - Min(all) > MaxPad) THEN run
            ELSE RunOf(ends, strict, starts, index, Append(run, next))

RECURSIVE Runs(_, _, _, _, _)
Runs(state, ends, strict, index, first) ==
    IF ends = <<>> THEN state
    ELSE LET run == RunOf(ends, strict, state.starts, index, <<Head(ends)>>)
             column == Max({run[i].end : i \in DOMAIN run})
             PadOf(r, i) ==
                 LET of == {e \in ToSet(run) : e.row = r /\ e.at = i} IN
                 IF of = {} THEN state.pads[r][i] ELSE column - (CHOOSE e \in of : TRUE).end
         IN Runs([pads |-> <<>> \o [r \in DOMAIN state.pads |->
                                      <<>> \o [i \in DOMAIN state.pads[r] |-> PadOf(r, i)]],
                  starts |-> state.starts \union IF first THEN {} ELSE {Head(run).row}],
                 SubSeq(ends, Len(run) + 1, Len(ends)), strict, index, FALSE)

\* A column's cells, the rows' in order.
EndsIn(rows, pads, index) ==
    LET with == SetToSortSeq({r \in DOMAIN rows : At(rows[r], index) # {}}, <) IN
    <<>> \o [k \in DOMAIN with |->
        LET r == with[k]
            i == CHOOSE i \in At(rows[r], index) : TRUE
        IN [row |-> r, at |-> i, end |-> End(rows[r], pads[r], i)]]

Targets(rows, strict) ==
    LET indices == SetToSortSeq(UNION {{rows[r].cells[i].index : i \in DOMAIN rows[r].cells} :
                                           r \in DOMAIN rows}, <)
    IN FoldLeft(LAMBDA state, index :
                    Runs(state, EndsIn(rows, state.pads, index), strict, index, TRUE),
                Untouched(rows), indices).pads

---------------------------------------------------------------------------
(* Comments at the ends of lines, after the cells before them are padded.  *)

\* How far a comment can move right with every line of it within the width, if
\* it fits at all.
Room(row, pads) ==
    LET code == CodeCells(row)
        lines == {row.wide + Sum(pads, code)} \union
                 {later.wide + LaterMoved(row, pads, code, later) :
                    later \in {later \in ToSet(row.later) : OfComment(row, later)}}
    IN {room \in {Width - Max(lines)} : room >= 0}

\* state: each row's padding and how many cells take it; the run of comments
\* that is open, the column it is at and the furthest right all of it fits.
Placed(state, run, column) ==
    [state EXCEPT !.pads = <<>> \o [r \in DOMAIN @ |->
                                IF r \in run THEN [@[r] EXCEPT ![Len(@[r])] = column - state.ends[r]]
                                ELSE @[r]]]

OneComment(rows, state, r) ==
    LET row == rows[r]
        code == CodeCells(row)
        end == End(row, state.pads[r], code + 1)
        room == IF state.taken[r] = code THEN Room(row, state.pads[r]) ELSE {}
    IN IF ~HasComment(row) THEN state
       ELSE IF room = {} THEN [state EXCEPT !.run = {}]
       ELSE LET limit == end + CHOOSE n \in room : TRUE
                joins == state.run # {} /\ Max({end, state.column}) <= Smaller(limit, state.limit)
                run == IF joins THEN state.run \union {r} ELSE {r}
                column == IF joins THEN Max({end, state.column}) ELSE end
            IN Placed([state EXCEPT !.run = run, !.column = column, !.ends[r] = end,
                                    !.limit = IF joins THEN Smaller(limit, @) ELSE limit,
                                    !.taken[r] = code + 1],
                      run, column)

Comments(rows, pads, taken) ==
    FoldLeft(LAMBDA state, r : OneComment(rows, state, r),
             [pads |-> pads, taken |-> taken, run |-> {}, column |-> 0, limit |-> 0,
              ends |-> [r \in DOMAIN rows |-> 0]],
             [r \in DOMAIN rows |-> r])

---------------------------------------------------------------------------

\* A row whose cells before its comment cannot all be padded splits the
\* table: the rows on either side line up among themselves, and so do rows next
\* to each other that cannot.
RECURSIVE Groups(_, _), Chunks(_, _, _)
Groups(rows, strict) ==
    LET pads == Targets(rows, strict)
        whole == <<>> \o [r \in DOMAIN rows |-> Fitting(rows[r], pads[r]) = CodeCells(rows[r])]
    IN IF Cardinality(Range(whole)) > 1 THEN Chunks(rows, whole, strict) ELSE <<rows>>
Chunks(rows, whole, strict) ==
    IF rows = <<>> THEN <<>>
    ELSE LET count == Max({n \in DOMAIN rows : \A r \in 1 .. n : whole[r] = whole[1]})
             Rest(seq) == SubSeq(seq, count + 1, Len(seq))
         IN Groups(SubSeq(rows, 1, count), strict) \o Chunks(Rest(rows), Rest(whole), strict)

\* What the cells of each row of a group are padded by.
Padded(rows, strict) ==
    LET pads == Targets(rows, strict)
        done == Comments(rows, pads, <<>> \o [r \in DOMAIN rows |-> Fitting(rows[r], pads[r])])
    IN <<>> \o [r \in DOMAIN rows |->
            <<>> \o [i \in DOMAIN rows[r].cells |-> IF i <= done.taken[r] THEN done.pads[r][i] ELSE 0]]

Table(rows, strict) ==
    LET groups == Groups(rows, strict) IN
    FlattenSeq([g \in DOMAIN groups |-> Padded(groups[g], strict)])

---------------------------------------------------------------------------
(* What is promised of it, of each group that lines up, and its padding.   *)

\* What stands where on a row whose cells are padded.
Shift(row, pads, column) ==
    MapThenSumSet(LAMBDA i : pads[i], {i \in DOMAIN row.cells : row.cells[i].column <= column})
CodeFits(row, pads) ==
    LET comment == IF HasComment(row) THEN Last(row.cells).column ELSE row.wide
        moved == MapThenSumSet(LAMBDA i : pads[i], {i \in DOMAIN row.cells : row.cells[i].index # Comment})
    IN /\ comment + moved <= Width
       /\ \A later \in ToSet(row.later) :
            later.start < comment => later.wide + Smaller(Shift(row, pads, later.start), later.limit) <= Width
CommentFits(row, pads) ==
    /\ row.wide + Sum(pads, Len(pads)) <= Width
    /\ \A later \in ToSet(row.later) :
        later.start >= Last(row.cells).column =>
            later.wide + Smaller(Shift(row, pads, later.start), later.limit) <= Width
Unpadded(row) == [i \in DOMAIN row.cells |-> 0]

\* Later lines stay under the text they are placed by, as far as they may move.
MovesAlong(row, pads) ==
    \A i \in DOMAIN row.later :
        LET later == row.later[i] IN
        LaterMoved(row, pads, Len(row.cells), later) = Smaller(Shift(row, pads, later.start), later.limit)

\* No code is moved past the width, nor is a comment; what is past it already
\* does not move.
WithinWidth(row, pads) ==
    /\ IF CodeFits(row, Unpadded(row)) THEN CodeFits(row, pads) ELSE Sum(pads, CodeCells(row)) = 0
    /\ HasComment(row) /\ Last(pads) > 0 => CommentFits(row, pads)

\* Whether all of a group's rows take the padding that lines them up.
IsWhole(rows, strict) ==
    LET pads == Targets(rows, strict) IN \A r \in DOMAIN rows : CodeFits(rows[r], pads[r])
IsNone(rows, strict) ==
    LET pads == Targets(rows, strict) IN \A r \in DOMAIN rows : ~CodeFits(rows[r], pads[r])

\* A column's rows, and the row before one among those.
Having(rows, index) == {r \in DOMAIN rows : At(rows[r], index) # {}}
Above(rows, index, r) == {q \in Having(rows, index) : q < r}
Before(rows, index, r) == Max(Above(rows, index, r))
Place(rows, index, r) == CHOOSE i \in At(rows[r], index) : TRUE
From(rows, pads, index, r) == End(rows[r], pads[r], Place(rows, index, r))
To(rows, pads, index, r) == From(rows, pads, index, r) + pads[r][Place(rows, index, r)]

\* The rows above one, up to the one before it, that line up in a column.
RunAbove(rows, pads, index, r) ==
    LET column == To(rows, pads, index, Before(rows, index, r)) IN
    {q \in Above(rows, index, r) :
        \A t \in Having(rows, index) : t \in q .. r - 1 => To(rows, pads, index, t) = column}

\* To line up with the rows above, a row or one of those would need more than
\* MaxPad.
Apart(rows, pads, index, r) ==
    LET ends == {From(rows, pads, index, q) : q \in RunAbove(rows, pads, index, r) \union {r}} IN
    Max(ends) - Min(ends) > MaxPad

\* Rows between which no run starts, in a column or one before it.
Together(rows, pads, strict, index, q, r) ==
    strict \/ ~\E t \in Smaller(q, r) + 1 .. Max({q, r}), other \in 0 .. index :
                /\ t \in Having(rows, other) /\ Above(rows, other, t) # {}
                /\ Apart(rows, pads, other, t)

\* Rows line up in each column with the one above it, unless they are too far
\* apart, and no further right than one of them needs.
LinesUp(rows, pads, strict) ==
    \A index \in UNION {{cell.index : cell \in ToSet(rows[r].cells)} : r \in DOMAIN rows} \ {Comment} :
    \A r \in Having(rows, index) :
        LET PadAt(q) == pads[q][Place(rows, index, q)]
            With(q) == To(rows, pads, index, q) = To(rows, pads, index, r)
        IN /\ strict \/ PadAt(r) <= MaxPad
           /\ \E q \in Having(rows, index) :
                PadAt(q) = 0 /\ With(q) /\ Together(rows, pads, strict, index, q, r)
           /\ Above(rows, index, r) # {} =>
                LET q == Before(rows, index, r) IN With(q) \/ ~Together(rows, pads, strict, index, q, r)

\* A comment moves to line up with those above that fit where it does, and no
\* further; one that does not fit even beside its code stays there, and those
\* on either side are apart.
CommentsLineUp(rows, pads) ==
    LET Fitted(r) ==
            LET beside == [pads[r] EXCEPT ![Len(rows[r].cells)] = 0] IN CommentFits(rows[r], beside)
        PadAt(r) == Last(pads[r])
        With(q, r) == To(rows, pads, Comment, q) = To(rows, pads, Comment, r)
        PaddedTo(r, column) ==
            [pads[r] EXCEPT ![Len(rows[r].cells)] = column - From(rows, pads, Comment, r)]
    IN \A r \in Having(rows, Comment) :
        /\ IF Fitted(r)
           THEN \E q \in Having(rows, Comment) :
                    /\ PadAt(q) = 0 /\ With(q, r)
                    /\ \A t \in Having(rows, Comment) :
                        t \in Smaller(q, r) .. Max({q, r}) => Fitted(t)
           ELSE PadAt(r) = 0
        /\ Above(rows, Comment, r) # {} =>
            LET q == Before(rows, Comment, r)
                joined == RunAbove(rows, pads, Comment, r) \union {r}
                column == Max({From(rows, pads, Comment, t) : t \in joined})
            IN ~Fitted(r) \/ ~Fitted(q) \/ With(q, r)
                \/ \E t \in joined : ~CommentFits(rows[t], PaddedTo(t, column))

\* A table's columns line up where they can, and no line is moved past the
\* width for it.
AlignedWhereFits(rows, strict) ==
    LET groups == Groups(rows, strict) IN
    /\ FlattenSeq(groups) = rows
    /\ IsWhole(rows, strict) \/ IsNone(rows, strict) => Len(groups) = 1
    /\ \A g \in DOMAIN groups :
        LET group == groups[g]
            pads == Padded(group, strict)
        IN /\ \A r \in DOMAIN group : WithinWidth(group[r], pads[r]) /\ MovesAlong(group[r], pads[r])
           /\ IF IsWhole(group, strict) THEN LinesUp(group, pads, strict) /\ CommentsLineUp(group, pads)
              ELSE IsNone(group, strict)
=============================================================================
