------------------------------- MODULE Waves -------------------------------
(***************************************************************************)
(* A command over files, many at a time (astli-cli, cmd/mod.rs: parallel). *)
(* Threads work on a wave of files, in any order, each into buffers of its *)
(* own.  When all of the wave are done, what they printed and said is      *)
(* written file by file, and the next wave is as wide as what was printed  *)
(* allows.  Printing is buffered and telling is not.                       *)
(***************************************************************************)
EXTENDS Naturals, Sequences, FiniteSets

CONSTANTS
    Count, Results, Headings,   \* see OneByOne
    Threads,     \* how many threads the pool has
    First,       \* how many files the first wave has: 4 to a thread
    Widest,      \* how many a wave has at most: 64 to a thread
    Held         \* how much a wave should print at most: 64 MiB

ASSUME WidthsAssumption ==
    /\ Count \in Nat /\ Threads \in Nat \ {0} /\ Held \in Nat
    /\ First \in Nat \ {0} /\ Widest \in Nat /\ Threads <= Widest
ASSUME WorkAssumption ==
    Results \subseteq [printed : Nat, said : BOOLEAN, errors : BOOLEAN, ok : BOOLEAN]

VARIABLES
    result,      \* what working on each file comes to
    at,          \* the file whose turn it is
    width,       \* how many files the wave being read, or the next, has
    last,        \* the last file of the wave
    taken, done, \* the files of the wave threads have taken, and are done with
    held,        \* how much those printed
    step,        \* how far the turn is, or "read" while a wave is worked on
    breaking, status, values, failedCount, wrong,   \* as in OneByOne
    screen,      \* what was shown
    out          \* what was printed and is still buffered

vars == <<result, at, width, last, taken, done, held, step, breaking, status, values,
          failedCount, wrong, screen, out>>

Files == 1 .. Count
Wave == at .. last
Line(f, what) == [file |-> f, is |-> what]
Lines == [file : Files, is : {"heading", "body", "problem", "said"}]

Least(m, n) == IF m < n THEN m ELSE n

LastOf(from, wide) == Least(from + wide - 1, Count)

Init ==
    /\ result \in [Files -> Results]
    /\ at = 1
    /\ width = First /\ last = LastOf(1, First)
    /\ taken = {} /\ done = {} /\ held = 0
    /\ step = "read" /\ breaking = FALSE
    /\ status = "running"
    /\ values = <<>> /\ failedCount = 0 /\ wrong = 0
    /\ screen = <<>> /\ out = <<>>

---------------------------------------------------------------------------
(* Working on a wave.                                                      *)

Take(f) ==
    /\ status = "running" /\ step = "read"
    /\ f \in Wave \ taken
    /\ Cardinality(taken \ done) < Threads
    /\ taken' = taken \union {f}
    /\ UNCHANGED <<result, at, width, last, done, held, step, breaking, status, values, failedCount,
                   wrong, screen, out>>

Done(f) ==
    /\ status = "running" /\ step = "read"
    /\ f \in taken \ done
    /\ done' = done \union {f}
    /\ held' = held + result[f].printed
    /\ UNCHANGED <<result, at, width, last, taken, step, breaking, status, values, failedCount,
                   wrong, screen, out>>

Each == held \div (last - at + 1)

\* A wrong width: none at all where files print more than should be held.
ClampAbove(n) == Least(n, Widest)

Clamp(n) == IF n < Threads THEN Threads ELSE Least(n, Widest)
NextWidth == IF Each = 0 THEN Widest ELSE Clamp(Held \div Each)

\* All of the wave are done.
Collect ==
    /\ status = "running" /\ step = "read"
    /\ Wave # {} /\ done = Wave
    /\ width' = NextWidth
    /\ step' = "heading"
    /\ taken' = {} /\ done' = {} /\ held' = 0
    /\ UNCHANGED <<result, at, last, breaking, status, values, failedCount, wrong, screen, out>>

---------------------------------------------------------------------------
(* Writing a wave.                                                         *)

\* A print that finds the buffer full writes it out first, and is written
\* out itself if it would not fit.
Written(what) ==
    LET line == <<Line(at, what)>> IN
    \/ out' = out \o line /\ UNCHANGED screen
    \/ screen' = screen \o out /\ out' = line
    \/ screen' = screen \o (out \o line) /\ out' = <<>>

\* A wrong telling: what was printed is still in the buffer.
TellAhead(what) ==
    /\ screen' = screen \o <<Line(at, what)>>
    /\ UNCHANGED out

\* What is told comes after all that was printed.
Tell(what) ==
    /\ screen' = (screen \o out) \o <<Line(at, what)>>
    /\ out' = <<>>

Turn(from, to) ==
    /\ status = "running" /\ at \in Files /\ step = from
    /\ step' = to
    /\ UNCHANGED <<result, at, width, last, taken, done, held, status, wrong>>

Heading ==
    /\ Turn("heading", "body")
    /\ IF Headings THEN Written("heading") ELSE UNCHANGED <<screen, out>>
    /\ UNCHANGED <<breaking, values, failedCount>>

Body ==
    /\ Turn("body", "count")
    /\ IF result[at].printed > 0 THEN Written("body") ELSE UNCHANGED <<screen, out>>
    /\ UNCHANGED <<breaking, values, failedCount>>

Succeed ==
    /\ Turn("count", "said") /\ result[at].ok
    /\ values' = Append(values, at)
    /\ UNCHANGED <<breaking, failedCount, screen, out>>

Fail ==
    /\ Turn("count", "said") /\ ~result[at].ok
    /\ Tell("problem")
    /\ failedCount' = failedCount + 1
    /\ UNCHANGED <<breaking, values>>

CanBreak ==
    \/ step = "heading" /\ Headings
    \/ step = "body" /\ result[at].printed > 0
    \/ step = "count" /\ ~result[at].ok

\* A print, or the flush before a problem, fails.
Break ==
    /\ at \in Files /\ CanBreak
    /\ \E from \in {"heading", "body", "count"} : Turn(from, "said")
    /\ breaking' = TRUE
    /\ UNCHANGED <<values, failedCount, screen, out>>

Report ==
    /\ status = "running" /\ at \in Files /\ step = "said"
    /\ wrong' = IF result[at].errors THEN wrong + 1 ELSE wrong
    /\ UNCHANGED <<result, taken, done, held, values, failedCount>>

\* To the next file of the wave, or to read the next wave.
Goes ==
    IF breaking
    THEN status' = "broken" /\ UNCHANGED <<at, width, last, step, breaking>>
    ELSE /\ at' = at + 1
         /\ IF at < last THEN step' = "heading" /\ UNCHANGED last
            ELSE step' = "read" /\ last' = LastOf(at + 1, width)
         /\ UNCHANGED <<width, breaking, status>>

SayNothing == Report /\ ~result[at].said /\ Goes /\ UNCHANGED <<screen, out>>

Say == Report /\ result[at].said /\ Tell("said") /\ Goes

SayBreaks ==
    /\ Report /\ result[at].said
    /\ status' = "broken"
    /\ UNCHANGED <<at, width, last, step, breaking, screen, out>>

End ==
    /\ status = "running" /\ step = "read" /\ at = Count + 1
    /\ status' = "ended"
    /\ UNCHANGED <<result, at, width, last, taken, done, held, step, breaking, values, failedCount,
                   wrong, screen, out>>

Next ==
    \/ \E f \in Files : Take(f) \/ Done(f)
    \/ Collect
    \/ Heading \/ Body \/ Succeed \/ Fail \/ Break
    \/ SayNothing \/ Say \/ SayBreaks \/ End

Spec == Init /\ [][Next]_vars

\* Threads are scheduled and work on a file ends; writing is sequential.
FairSpec == Spec /\ WF_vars(Next)

---------------------------------------------------------------------------
(* Properties.                                                             *)

TypeOK ==
    /\ result \in [Files -> Results]
    /\ at \in 1 .. Count + 1
    /\ width \in Nat \ {0}
    /\ last \in 0 .. Count
    /\ taken \subseteq Wave /\ done \subseteq taken /\ held \in Nat
    /\ step \in {"read", "heading", "body", "count", "said"}
    /\ breaking \in BOOLEAN
    /\ status \in {"running", "ended", "broken"}
    /\ values \in Seq(Files) /\ failedCount \in Nat /\ wrong \in Nat
    /\ screen \in Seq(Lines) /\ out \in Seq(Lines)
    /\ step = "read" => ~breaking /\ last = LastOf(at, width)
    /\ step # "read" => at <= last /\ taken = {}

\* While a wave is read the one-by-one command is about to print a heading.
Promise ==
    INSTANCE OneByOne WITH
        step <- IF step = "read" THEN "heading" ELSE step,
        transcript <- screen \o out

\* What is shown, told, counted and returned is what one file after another
\* would show, whatever order threads end in (each: "Maintains ordered
\* output regardless of worker completion order").
AsOneByOne == Promise!Spec

\* Every file has its turn, or writing broke and it was said.
Ended == status = "broken" \/ (status = "ended" /\ Len(values) + failedCount = Count)
=============================================================================
