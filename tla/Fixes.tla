------------------------------- MODULE Fixes -------------------------------
(***************************************************************************)
(* Applying the fixes diagnostics carry to the text of their file          *)
(* (astli-text, fix.rs).  A fix is a sequence of edits, an edit a span of  *)
(* the text, and what is written there is known by the fix and the edit.   *)
(* The text after is a sequence of what is kept and what is written.       *)
(***************************************************************************)
EXTENDS Naturals, Sequences, FiniteSets

CONSTANTS
    Size,       \* how long the text is
    MaxFixes,   \* how many fixes there are at most
    MaxEdits    \* how many edits one has at most

ASSUME SizeIsNat == Size \in Nat
ASSUME MaxFixesIsNat == MaxFixes \in Nat
ASSUME MaxEditsIsNat == MaxEdits \in Nat

VARIABLES
    fixes,             \* what is given
    next,              \* the fix to take or leave
    chosen, applied,   \* the edits taken, as fix and edit, and of how many fixes
    sorted, putting,   \* the edits in the order of the text, and the one to put
    text, upto,        \* the text written, and up to where of the source
    fixing

fixVars == <<fixes, next, chosen, applied, sorted, putting, text, upto, fixing>>

Edits == {e \in [start : 0 .. Size, end : 0 .. Size] : e.start <= e.end}

\* Whether one edit overlaps another, or inserts where it does.
Clash(e, f) == (e.start < f.end /\ f.start < e.end) \/ e.start = f.start

\* The edits of one fix are of one mind.
Fixes ==
    {fix \in UNION {[1 .. n -> Edits] : n \in 0 .. MaxEdits} :
        \A i, j \in DOMAIN fix : i # j => ~Clash(fix[i], fix[j])}

\* What may be given.
FixLists == UNION {[1 .. n -> Fixes] : n \in 0 .. MaxFixes}

Of(edit) == fixes[edit[1]][edit[2]]

\* What of the text comes of the source, and what of an edit.
Piece(place) == [fix |-> 0, edit |-> 0, start |-> place, end |-> place + 1]
Edited(edit) == [fix |-> edit[1], edit |-> edit[2], start |-> Of(edit).start, end |-> Of(edit).end]

\* The source from one place to another.
Kept(from, to) == [i \in 1 .. to - from |-> Piece(from + i - 1)]

---------------------------------------------------------------------------
FixInit ==
    /\ fixes \in FixLists
    /\ next = 1
    /\ chosen = <<>>
    /\ applied = 0
    /\ sorted = <<>>
    /\ putting = 1
    /\ text = <<>>
    /\ upto = 0
    /\ fixing = "taking"

Clashes(edit) == \E a \in DOMAIN chosen : Clash(edit, Of(chosen[a]))

\* A wrong one: the edits of a fix that clash wait, and the others do not.
TakeFixPartly ==
    /\ fixing = "taking" /\ next \in DOMAIN fixes
    /\ \E i \in DOMAIN fixes[next] : ~Clashes(fixes[next][i])
    /\ LET free == SelectSeq([i \in DOMAIN fixes[next] |-> <<next, i>>], LAMBDA e : ~Clashes(Of(e)))
       IN chosen' = chosen \o free
    /\ applied' = applied + 1
    /\ next' = next + 1
    /\ UNCHANGED <<fixes, sorted, putting, text, upto, fixing>>

\* Every edit of a fix, if none clashes.
TakeFix ==
    /\ fixing = "taking" /\ next \in DOMAIN fixes
    /\ fixes[next] # <<>> /\ \A i \in DOMAIN fixes[next] : ~Clashes(fixes[next][i])
    /\ chosen' = chosen \o [i \in DOMAIN fixes[next] |-> <<next, i>>]
    /\ applied' = applied + 1
    /\ next' = next + 1
    /\ UNCHANGED <<fixes, sorted, putting, text, upto, fixing>>

Leave ==
    /\ fixing = "taking" /\ next \in DOMAIN fixes
    /\ fixes[next] = <<>> \/ \E i \in DOMAIN fixes[next] : Clashes(fixes[next][i])
    /\ next' = next + 1
    /\ UNCHANGED <<fixes, chosen, applied, sorted, putting, text, upto, fixing>>

\* By where they start.
Sort ==
    /\ fixing = "taking" /\ next \notin DOMAIN fixes
    /\ sorted' \in {order \in [DOMAIN chosen -> {chosen[a] : a \in DOMAIN chosen}] :
            /\ \A a \in DOMAIN chosen : \E i \in DOMAIN order : order[i] = chosen[a]
            /\ \A i, j \in DOMAIN order : i < j => Of(order[i]).start <= Of(order[j]).start}
    /\ fixing' = "putting"
    /\ UNCHANGED <<fixes, next, chosen, applied, putting, text, upto>>

\* The source up to an edit, and the edit in place of its span.
Put ==
    /\ fixing = "putting" /\ putting \in DOMAIN sorted
    /\ LET edit == sorted[putting] IN
       /\ text' = (text \o Kept(upto, Of(edit).start)) \o <<Edited(edit)>>
       /\ upto' = Of(edit).end
    /\ putting' = putting + 1
    /\ UNCHANGED <<fixes, next, chosen, applied, sorted, fixing>>

\* The rest of the source.
EndText ==
    /\ fixing = "putting" /\ putting \notin DOMAIN sorted
    /\ text' = text \o Kept(upto, Size)
    /\ fixing' = "done"
    /\ UNCHANGED <<fixes, next, chosen, applied, sorted, putting, upto>>

FixNext == TakeFix \/ Leave \/ Sort \/ Put \/ EndText

FixSpec == FixInit /\ [][FixNext]_fixVars

---------------------------------------------------------------------------
(* What is promised of it.                                                 *)

Pieces == [fix : 0 .. Len(fixes), edit : 0 .. MaxEdits, start : 0 .. Size, end : 0 .. Size]

FixTypeOK ==
    /\ fixes \in Seq(Fixes)
    /\ next \in 1 .. Len(fixes) + 1
    /\ chosen \in Seq((1 .. Len(fixes)) \X (1 .. MaxEdits))
    /\ applied \in 0 .. Len(fixes)
    /\ sorted \in Seq((1 .. Len(fixes)) \X (1 .. MaxEdits)) /\ putting \in 1 .. Len(sorted) + 1
    /\ text \in Seq(Pieces) /\ upto \in 0 .. Size
    /\ fixing \in {"taking", "putting", "done"}

\* The source is only gone through forwards, and never past its end: a slice
\* of it from a place to one before would panic (apply).
GoesForwards ==
    fixing = "putting" /\ putting \in DOMAIN sorted => upto <= Of(sorted[putting]).start

\* Whether two edits say of one place of the text what becomes of it: a
\* place of it, or between two.
Overlap(e, f) ==
    \/ (e.start .. e.end - 1) \intersect (f.start .. f.end - 1) # {}
    \/ e.start < f.start /\ f.start < e.end
    \/ f.start < e.start /\ e.start < f.end
    \/ e.start = f.start

Overlaps(j, k) ==
    \E a \in DOMAIN fixes[j], b \in DOMAIN fixes[k] : Overlap(fixes[j][a], fixes[k][b])

\* The fixes every edit of which is in the text.
Applied ==
    {k \in DOMAIN fixes : fixes[k] # <<>>
        /\ \A i \in DOMAIN fixes[k] : \E p \in DOMAIN text : text[p] = Edited(<<k, i>>)}

\* Each fix is written whole or not at all, as many as are said to be, and one
\* is left only if it overlaps one before it that is written (apply).
WholeOrNotAtAll ==
    fixing = "done" =>
        /\ applied = Cardinality(Applied)
        /\ \A p \in DOMAIN text : text[p].fix # 0 => text[p].fix \in Applied
        /\ \A j, k \in Applied : j < k => ~Overlaps(j, k)
        /\ \A k \in DOMAIN fixes \ Applied :
              fixes[k] = <<>> \/ \E j \in Applied : j < k /\ Overlaps(j, k)

\* What no edit written replaces is kept, and nothing else, and all is there
\* once and where it belongs (apply).
RestIsKept ==
    fixing = "done" =>
        /\ \A place \in 0 .. Size - 1 :
              (\E p \in DOMAIN text : text[p] = Piece(place)) <=>
              ~\E k \in Applied : \E i \in DOMAIN fixes[k] :
                  fixes[k][i].start <= place /\ place < fixes[k][i].end
        /\ \A p, q \in DOMAIN text : p < q => text[p].end <= text[q].start /\ text[p] # text[q]

\* Fixes are applied whole and the rest is kept, and no slice of the source
\* panics on the way (apply).
FixesAreRight == FixTypeOK /\ GoesForwards /\ WholeOrNotAtAll /\ RestIsKept
=============================================================================
