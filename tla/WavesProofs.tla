----------------------------- MODULE WavesProofs -----------------------------
(***************************************************************************)
(* A command over files in waves is one over them one by one, for any      *)
(* number of files and threads and whatever a wave should hold.            *)
(***************************************************************************)
EXTENDS Waves, SequenceTheorems, TLAPS

USE WidthsAssumption, WorkAssumption

---------------------------------------------------------------------------
(* Types.                                                                  *)

LEMMA Quotient ==
    ASSUME NEW m \in Nat, NEW n \in Nat \ {0}
    PROVE  m \div n \in Nat
BY SMT

LEMMA WidthType ==
    ASSUME TypeOK, Wave # {}
    PROVE  NextWidth \in Nat \ {0}
<1>1. at <= last /\ last - at + 1 \in Nat \ {0} /\ held \in Nat
  BY DEF TypeOK, Wave, Files
<1>2. Each \in Nat BY <1>1, Quotient DEF Each
<1>3. ASSUME NEW n \in Nat PROVE Clamp(n) \in Nat \ {0} BY <1>3 DEF Clamp, Least
<1>4. Each # 0 => Held \div Each \in Nat BY <1>2, Quotient
<1>5. Widest \in Nat \ {0} OBVIOUS
<1> QED BY <1>2, <1>3, <1>4, <1>5 DEF NextWidth

\* What is printed comes after all that was, and what is told too.
LEMMA Prints ==
    ASSUME TypeOK, at \in Files, NEW what \in {"heading", "body", "problem", "said"},
           Written(what) \/ Tell(what)
    PROVE  /\ screen' \in Seq(Lines) /\ out' \in Seq(Lines)
           /\ (screen \o out)' = (screen \o out) \o <<Line(at, what)>>
<1> DEFINE line == <<Line(at, what)>>
<1>1. /\ screen \in Seq(Lines) /\ out \in Seq(Lines)
      /\ line \in Seq(Lines) /\ <<>> \in Seq(Lines)
  BY DEF TypeOK, Lines, Line
<1> HIDE DEF line
<1>2. /\ screen \o out \in Seq(Lines) /\ out \o line \in Seq(Lines)
      /\ (screen \o out) \o line \in Seq(Lines) /\ screen \o (out \o line) \in Seq(Lines)
  BY <1>1, ConcatProperties
<1>3. (screen \o out) \o line = screen \o (out \o line)
  BY <1>1, ConcatAssociative
<1>4. /\ ((screen \o out) \o line) \o <<>> = (screen \o out) \o line
      /\ (screen \o (out \o line)) \o <<>> = screen \o (out \o line)
  BY <1>2, ConcatEmptySeq
<1>5. CASE out' = out \o line /\ screen' = screen BY <1>1, <1>2, <1>3, <1>5 DEF line
<1>6. CASE screen' = screen \o out /\ out' = line BY <1>1, <1>2, <1>6 DEF line
<1>7. CASE screen' = screen \o (out \o line) /\ out' = <<>>
  BY <1>1, <1>2, <1>3, <1>4, <1>7 DEF line
<1>8. CASE screen' = (screen \o out) \o line /\ out' = <<>>
  BY <1>1, <1>2, <1>4, <1>8 DEF line
<1> QED BY <1>5, <1>6, <1>7, <1>8 DEF Written, Tell, line

LEMMA TypeInit == Init => TypeOK
<1> SUFFICES ASSUME Init PROVE TypeOK OBVIOUS
<1>1. last \in 0 .. Count /\ last = LastOf(at, width)
  BY DEF Init, LastOf, Least
<1>2. result \in [Files -> Results] /\ at \in 1 .. Count + 1 BY DEF Init
<1>3. /\ width = First /\ taken = {} /\ done = {} /\ held = 0 /\ step = "read"
      /\ breaking = FALSE /\ status = "running" /\ values = <<>> /\ failedCount = 0
      /\ wrong = 0 /\ screen = <<>> /\ out = <<>>
  BY DEF Init
<1>4. values \in Seq(Files) /\ screen \in Seq(Lines) /\ out \in Seq(Lines) BY <1>3
<1> QED BY <1>1, <1>2, <1>3, <1>4 DEF TypeOK

LEMMA TypeNext == TypeOK /\ [Next]_vars => TypeOK'
<1> SUFFICES ASSUME TypeOK, [Next]_vars PROVE TypeOK' OBVIOUS
<1> USE DEF TypeOK, Files, Wave
<1>1. ASSUME NEW f \in Files, Take(f) \/ Done(f) PROVE TypeOK'
  <2>1. result[f] \in Results OBVIOUS
  <2>2. result[f].printed \in Nat BY <2>1
  <2>3. /\ taken' \subseteq Wave /\ done' \subseteq taken' /\ held' \in Nat
        /\ UNCHANGED <<result, at, width, last, step, breaking, status, values, failedCount,
                       wrong, screen, out>>
        /\ step = "read"
    <3>1. CASE Take(f) BY <3>1 DEF Take
    <3>2. CASE Done(f) BY <3>2, <2>2 DEF Done
    <3> QED BY <1>1, <3>1, <3>2
  <2> QED BY <2>3 DEF LastOf, Least
<1>2. CASE Collect
  <2>1. NextWidth \in Nat \ {0} BY <1>2, WidthType DEF Collect
  <2> HIDE DEF NextWidth
  <2> QED BY <1>2, <2>1 DEF Collect
<1>3. CASE Heading \/ Body
  <2>1. screen' \in Seq(Lines) /\ out' \in Seq(Lines)
    BY <1>3, Prints DEF Heading, Body, Turn
  <2> QED BY <1>3, <2>1 DEF Heading, Body, Turn
<1>4. CASE Succeed \/ Break
  <2>1. at \in Files BY <1>4 DEF Succeed, Break, Turn
  <2>2. Append(values, at) \in Seq(Files) BY <2>1
  <2> QED BY <1>4, <2>2 DEF Succeed, Break, Turn
<1>5. CASE Fail
  <2>1. screen' \in Seq(Lines) /\ out' \in Seq(Lines) BY <1>5, Prints DEF Fail, Turn
  <2> QED BY <1>5, <2>1 DEF Fail, Turn
<1>6. CASE SayNothing \/ Say
  <2>1. screen' \in Seq(Lines) /\ out' \in Seq(Lines)
    BY <1>6, Prints DEF SayNothing, Say, Report
  <2>2. /\ result' = result /\ taken' = taken /\ done' = done /\ held' = held
        /\ values' = values /\ failedCount' = failedCount /\ wrong' \in Nat
        /\ step = "said" /\ at <= last
    BY <1>6 DEF SayNothing, Say, Report
  <2>3. Goes BY <1>6 DEF SayNothing, Say
  <2>4. taken = {} /\ done = {}
    BY <2>2
  <2>5. CASE breaking BY <2>1, <2>2, <2>3, <2>4, <2>5 DEF Goes
  <2>6. CASE ~breaking /\ at < last BY <2>1, <2>2, <2>3, <2>4, <2>6 DEF Goes
  <2>7. CASE ~breaking /\ ~(at < last)
    <3>1. at' = at + 1 /\ step' = "read" /\ last' = LastOf(at + 1, width) /\ width' = width
          /\ breaking' = breaking /\ status' = status
      BY <2>3, <2>7 DEF Goes
    <3>2. last' \in 0 .. Count BY <3>1 DEF LastOf, Least
    <3>3. last' = LastOf(at', width') BY <3>1
    <3> QED BY <2>1, <2>2, <2>4, <2>7, <3>1, <3>2, <3>3
  <2> QED BY <2>5, <2>6, <2>7
<1>7. CASE SayBreaks BY <1>7 DEF SayBreaks, Report
<1>8. CASE End BY <1>8 DEF End
<1>9. CASE UNCHANGED vars BY <1>9 DEF vars, LastOf, Least
<1> QED BY <1>1, <1>2, <1>3, <1>4, <1>5, <1>6, <1>7, <1>8, <1>9 DEF Next

\* A wave is never empty while files are left, its width is never none, and
\* nothing is written before all of it is done.
THEOREM TypeCorrect == Spec => []TypeOK
BY TypeInit, TypeNext, PTL DEF Spec

---------------------------------------------------------------------------
(* The refinement.                                                         *)

LEMMA PromiseInit == TypeOK /\ Init => Promise!Init
<1> SUFFICES ASSUME TypeOK, Init PROVE Promise!Init OBVIOUS
<1>1. <<>> \o <<>> = <<>> OBVIOUS
<1> QED BY <1>1 DEF Init, Promise!Init, Promise!Files, Files

\* While a wave is worked on nothing of the promise changes.
LEMMA ReadingStutters ==
    ASSUME TypeOK, (\E f \in Files : Take(f) \/ Done(f)) \/ Collect
    PROVE  UNCHANGED Promise!vars
BY DEF Take, Done, Collect, Promise!vars

LEMMA TurnMaps ==
    ASSUME TypeOK, NEW from \in {"heading", "body", "count"},
           NEW to \in {"body", "count", "said"}, Turn(from, to)
    PROVE  Promise!Turn(from, to) /\ at \in Files
BY DEF Turn, Promise!Turn, Promise!Files, Files

LEMMA TurnsMap ==
    ASSUME TypeOK, Heading \/ Body \/ Succeed \/ Fail \/ Break
    PROVE  Promise!Next
<1> USE DEF Promise!Add, Promise!Line, Line
<1>1. CASE Heading
  <2>1. Promise!Turn("heading", "body") /\ at \in Files BY <1>1, TurnMaps DEF Heading
  <2>2. CASE Headings
    <3>1. (screen \o out)' = (screen \o out) \o <<Line(at, "heading")>>
      BY <1>1, <2>1, <2>2, Prints DEF Heading
    <3> QED BY <1>1, <2>1, <2>2, <3>1 DEF Heading, Promise!Heading, Promise!Next
  <2>3. CASE ~Headings
    BY <1>1, <2>1, <2>3 DEF Heading, Promise!Heading, Promise!Next
  <2> QED BY <2>2, <2>3
<1>2. CASE Body
  <2>1. Promise!Turn("body", "count") /\ at \in Files BY <1>2, TurnMaps DEF Body
  <2>2. CASE result[at].printed > 0
    <3>1. (screen \o out)' = (screen \o out) \o <<Line(at, "body")>>
      BY <1>2, <2>1, <2>2, Prints DEF Body
    <3> QED BY <1>2, <2>1, <2>2, <3>1 DEF Body, Promise!Body, Promise!Next
  <2>3. CASE ~(result[at].printed > 0)
    BY <1>2, <2>1, <2>3 DEF Body, Promise!Body, Promise!Next
  <2> QED BY <2>2, <2>3
<1>3. CASE Succeed
  <2>1. Promise!Turn("count", "said") BY <1>3, TurnMaps DEF Succeed
  <2> QED BY <1>3, <2>1 DEF Succeed, Promise!Succeed, Promise!Next
<1>4. CASE Fail
  <2>1. Promise!Turn("count", "said") /\ at \in Files BY <1>4, TurnMaps DEF Fail
  <2>2. (screen \o out)' = (screen \o out) \o <<Line(at, "problem")>>
    BY <1>4, <2>1, Prints DEF Fail
  <2> QED BY <1>4, <2>1, <2>2 DEF Fail, Promise!Fail, Promise!Next
<1>5. CASE Break
  <2>1. PICK from \in {"heading", "body", "count"} : Turn(from, "said") BY <1>5 DEF Break
  <2>2. Promise!Turn(from, "said") /\ at \in Promise!Files
    BY <2>1, TurnMaps DEF Promise!Files, Files
  <2>3. Promise!CanBreak BY <1>5, <2>1 DEF Break, CanBreak, Promise!CanBreak
  <2> QED BY <1>5, <2>2, <2>3 DEF Break, Promise!Break, Promise!Next
<1> QED BY <1>1, <1>2, <1>3, <1>4, <1>5

LEMMA ReportMaps ==
    ASSUME TypeOK, Report
    PROVE  Promise!Report /\ at \in Files
BY DEF Report, Promise!Report, Promise!Files, Files

\* The next turn starts with a heading, also when a wave is read before it.
LEMMA GoesMaps ==
    ASSUME TypeOK, Report, Goes
    PROVE  Promise!Goes
BY DEF Report, Goes, Promise!Goes

LEMMA ReportsMap ==
    ASSUME TypeOK, SayNothing \/ Say \/ SayBreaks
    PROVE  Promise!Next
<1> USE DEF Promise!Add, Promise!Line, Line
<1>1. CASE SayNothing
  BY <1>1, ReportMaps, GoesMaps DEF SayNothing, Promise!SayNothing, Promise!Next
<1>2. CASE Say
  <2>1. (screen \o out)' = (screen \o out) \o <<Line(at, "said")>>
    BY <1>2, ReportMaps, Prints DEF Say
  <2> QED BY <1>2, <2>1, ReportMaps, GoesMaps DEF Say, Promise!Say, Promise!Next
<1>3. CASE SayBreaks
  BY <1>3, ReportMaps DEF SayBreaks, Promise!SayBreaks, Promise!Next
<1> QED BY <1>1, <1>2, <1>3

LEMMA EndMaps ==
    ASSUME TypeOK, End
    PROVE  Promise!Next
BY DEF End, Promise!End, Promise!Next

\* Whatever order threads end in and however wide the waves are, what is
\* shown, counted and returned is that of one file after another.
THEOREM WavesAreOneByOne == Spec => AsOneByOne
<1>1. TypeOK /\ [Next]_vars => [Promise!Next]_(Promise!vars)
  <2> SUFFICES ASSUME TypeOK, [Next]_vars PROVE [Promise!Next]_(Promise!vars) OBVIOUS
  <2>1. CASE UNCHANGED vars BY <2>1 DEF vars, Promise!vars
  <2> QED BY <2>1, ReadingStutters, TurnsMap, ReportsMap, EndMaps DEF Next
<1> QED BY <1>1, TypeInit, PromiseInit, TypeCorrect, PTL
        DEF Spec, AsOneByOne, Promise!Spec
=============================================================================
