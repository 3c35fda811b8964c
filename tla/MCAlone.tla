------------------------------ MODULE MCAlone ------------------------------
(***************************************************************************)
(* Modules Waves, Packages, Fixes and FileOrder for TLC.  They share       *)
(* nothing, so each is run with all it may be given while the others rest  *)
(* where they begin.                                                       *)
(***************************************************************************)
EXTENDS Waves, Packages, Fixes, FileOrder

VARIABLE running

waveVars == vars
aloneVars == <<running, waveVars, orderVars, fixVars, fileVars>>

\* Files that print nothing, little or more than should be held, that fail,
\* and that have something to say.
File(printed, said, errors, ok) ==
    [printed |-> printed, said |-> said, errors |-> errors, ok |-> ok]

MCResults ==
    {File(0, FALSE, FALSE, TRUE), File(3, FALSE, FALSE, TRUE),
     File(0, TRUE, TRUE, TRUE), File(1, TRUE, FALSE, TRUE), File(1, TRUE, TRUE, FALSE)}

QuietFiles == result = [f \in Files |-> File(0, FALSE, FALSE, TRUE)] /\ Init

\* Where a package is among those found says nothing of it: they may as well
\* be found in the order of their names.
AnyPackages == names = [p \in Packages |-> p] /\ OrderInit

RoundPackages ==
    /\ names = [p \in Packages |-> p]
    /\ root = <<1>>
    /\ required = [p \in Packages |-> <<IF p = PackageCount THEN 1 ELSE p + 1>>]
    /\ OrderInit

\* Edits of one fix are apart, and sorted with those of all: they may as well
\* be given in the order of the text.
AnyFixes ==
    /\ FixInit
    /\ \A k \in DOMAIN fixes : \A i, j \in DOMAIN fixes[k] : i < j => fixes[k][i].start < fixes[k][j].start

NoFixes == fixes = <<>> /\ FixInit

\* Files are told apart by their place among those given, if they are: they
\* may as well be given as they are numbered.
AsNumbered(list) == \A i, j \in DOMAIN list : i < j => list[i] < list[j]

AnyFiles == FileInit /\ AsNumbered(given)

NoFiles ==
    /\ depends = [f \in Indexed |-> <<>>]
    /\ tops = <<>> /\ given = <<>>
    /\ phase = "ordering"
    /\ FileInit

AloneInit ==
    \/ running = "waves" /\ Init /\ RoundPackages /\ NoFixes /\ NoFiles
    \/ running = "packages" /\ QuietFiles /\ AnyPackages /\ NoFixes /\ NoFiles
    \/ running = "fixes" /\ QuietFiles /\ RoundPackages /\ AnyFixes /\ NoFiles
    \/ running = "files" /\ QuietFiles /\ RoundPackages /\ NoFixes /\ AnyFiles

AloneNext ==
    /\ UNCHANGED running
    /\ \/ running = "waves" /\ Next /\ UNCHANGED <<orderVars, fixVars, fileVars>>
       \/ running = "packages" /\ OrderNext /\ UNCHANGED <<waveVars, fixVars, fileVars>>
       \/ running = "fixes" /\ FixNext /\ UNCHANGED <<waveVars, orderVars, fileVars>>
       \/ /\ running = "files" /\ FileNext /\ AsNumbered(given')
          /\ UNCHANGED <<waveVars, orderVars, fixVars>>

\* Threads are scheduled and work on a file ends; the others are one
\* sequential call.
AloneSpec == AloneInit /\ [][AloneNext]_aloneVars /\ WF_aloneVars(AloneNext)

---------------------------------------------------------------------------
\* Every file has its turn, or writing broke and it was said (parallel); every
\* design is ordered or refused, whatever goes round in it (ordered, and the
\* searches of Dependencies::ordered); fixes are applied (apply), and files put
\* in order (Index::reachable, Index::ordered).
EachEnds ==
    <>(/\ running = "waves" => Ended
       /\ running = "packages" => stage = "done"
       /\ running = "fixes" => fixing = "done"
       /\ running = "files" => phase = "done")
=============================================================================
