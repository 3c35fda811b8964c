------------------------------ MODULE OneByOne ------------------------------
(***************************************************************************)
(* A command over files, one after another (astli-cli, cmd/mod.rs:         *)
(* sequential).  Of each file a heading is printed, then what the command  *)
(* prints of it; if that fails, the problem is told; and last what it has  *)
(* to say.  Printing and telling go to one transcript, as on a terminal.   *)
(***************************************************************************)
EXTENDS Naturals, Sequences

CONSTANTS
    Count,       \* how many files
    Results,     \* what working on a file may come to
    Headings     \* whether each file has a heading (`each`: heading)

VARIABLES
    result,      \* what working on each file comes to
    at,          \* the file whose turn it is
    step,        \* "heading", "body", "count" or "said": how far its turn is
    breaking,    \* its output could not be written
    status,      \* "running", "ended" or "broken"
    transcript,  \* what was printed and told
    values,      \* Outcome: the files that have a value, in order
    failedCount, \* Outcome::failed
    wrong        \* Outcome::wrong

vars == <<result, at, step, breaking, status, transcript, values, failedCount, wrong>>

Files == 1 .. Count
Line(f, what) == [file |-> f, is |-> what]

Init ==
    /\ result \in [Files -> Results]
    /\ at = 1 /\ step = "heading" /\ breaking = FALSE
    /\ status = "running"
    /\ transcript = <<>>
    /\ values = <<>> /\ failedCount = 0 /\ wrong = 0

Turn(from, to) ==
    /\ status = "running" /\ at \in Files /\ step = from
    /\ step' = to
    /\ UNCHANGED <<result, at, status, wrong>>

Add(what) == transcript' = transcript \o <<Line(at, what)>>

Heading ==
    /\ Turn("heading", "body")
    /\ IF Headings THEN Add("heading") ELSE UNCHANGED transcript
    /\ UNCHANGED <<breaking, values, failedCount>>

Body ==
    /\ Turn("body", "count")
    /\ IF result[at].printed > 0 THEN Add("body") ELSE UNCHANGED transcript
    /\ UNCHANGED <<breaking, values, failedCount>>

Succeed ==
    /\ Turn("count", "said") /\ result[at].ok
    /\ values' = Append(values, at)
    /\ UNCHANGED <<breaking, transcript, failedCount>>

Fail ==
    /\ Turn("count", "said") /\ ~result[at].ok
    /\ Add("problem")
    /\ failedCount' = failedCount + 1
    /\ UNCHANGED <<breaking, values>>

CanBreak ==
    \/ step = "heading" /\ Headings
    \/ step = "body" /\ result[at].printed > 0
    \/ step = "count" /\ ~result[at].ok

\* What the file has to say may still be reported, if it was worked on at all.
Break ==
    /\ at \in Files /\ CanBreak
    /\ \E from \in {"heading", "body", "count"} : Turn(from, "said")
    /\ breaking' = TRUE
    /\ UNCHANGED <<transcript, values, failedCount>>

Report ==
    /\ status = "running" /\ at \in Files /\ step = "said"
    /\ \/ wrong' = IF result[at].errors THEN wrong + 1 ELSE wrong
       \/ breaking /\ UNCHANGED wrong
    /\ UNCHANGED <<result, values, failedCount>>

Goes ==
    IF breaking
    THEN status' = "broken" /\ UNCHANGED <<at, step, breaking>>
    ELSE at' = at + 1 /\ step' = "heading" /\ UNCHANGED <<breaking, status>>

SayNothing == Report /\ (breaking \/ ~result[at].said) /\ Goes /\ UNCHANGED transcript

Say == Report /\ result[at].said /\ Add("said") /\ Goes

SayBreaks ==
    /\ Report /\ result[at].said
    /\ status' = "broken"
    /\ UNCHANGED <<at, step, breaking, transcript>>

End ==
    /\ status = "running" /\ at = Count + 1
    /\ status' = "ended"
    /\ UNCHANGED <<result, at, step, breaking, transcript, values, failedCount, wrong>>

Next ==
    \/ Heading \/ Body \/ Succeed \/ Fail \/ Break
    \/ SayNothing \/ Say \/ SayBreaks \/ End

Spec == Init /\ [][Next]_vars
=============================================================================
