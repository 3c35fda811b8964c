-------------------------------- MODULE Store --------------------------------
(***************************************************************************)
(* The cache of mirrors and checkouts every design on the machine shares   *)
(* (astli-resolve: store.rs, mirror.rs), and the runs of astli that write  *)
(* it.  A run resolves, holding the lock of every mirror it opened until   *)
(* resolution ends (resolve.rs), and then checks out one package after     *)
(* another.  Nothing but the lock files keeps two runs apart, and a run    *)
(* may be killed between any two steps.                                    *)
(*                                                                         *)
(* A directory is abstracted to how much of it is there: "none" of it, a   *)
(* part of it ("cut"), or the "whole".                                     *)
(***************************************************************************)
EXTENDS Naturals, FiniteSets

CONSTANTS
    Runs,        \* the runs of astli, each a process
    Cleaner,     \* the run of `astli cache clean` (module StoreClean)
    Nobody,      \* holds a lock nobody holds
    Repos,       \* the repositories, each by its key in the store
    Commits,     \* the commits a repository is checked out at
    Inodes,      \* the files a lock's path may name, one after another
    NoFile,      \* no such file, or no open handle
    Jobs,        \* how many mirrors are opened at once ahead of resolution
    MaxCrashes   \* bound: how often a run is killed

ASSUME RunsAssumption == Cleaner \notin Runs /\ Nobody \notin Runs \union {Cleaner}
ASSUME InodesAssumption == NoFile \notin Inodes
ASSUME BoundsAssumption == Jobs \in Nat \ {0} /\ MaxCrashes \in Nat

VARIABLES
    \* The disk.
    lockFile,    \* the file at git/db/<key>.lock
    mirror,      \* git/db/<key>
    clone,       \* git/db/<key>.partial
    checkout,    \* git/checkouts/<key>/<commit>
    partial,     \* git/checkouts/<key>/<commit>.partial
    sealed,      \* whether the checkout's files are read-only
    list,        \* git/checkouts/<key>/<commit>.files
    \* The kernel.
    holder,      \* who holds the lock on each file
    \* Each run.
    phase,       \* what the run is doing
    fetchAll,    \* Provider::fetch_all: FALSE in the pass that trusts the lock
    reached,     \* the repositories opened ahead of resolution
    need,        \* the repositories resolution asks for
    trusted,     \* State::trusted
    fetched,     \* Store::fetched
    commit,      \* the commit chosen of each repository
    at,          \* the step the run is at with each repository
    handle,      \* the lock file it opened for each repository
    got,         \* how much of the list of files each checkout came with
    crashes

disk == <<lockFile, mirror, clone, checkout, partial, sealed, list>>
choice == <<fetchAll, reached, need, trusted, fetched, commit, got>>
vars == <<disk, holder, phase, choice, at, handle, crashes>>

Amount == {"none", "cut", "whole"}
Phases == {"start", "ahead", "resolve", "checkout", "read", "done", "failed"}
Opening == {"wait", "look", "init", "clone", "place", "open", "fetch"}
Writing == {"write", "fill", "move", "list", "seal", "note", "noting"}
Steps == Opening \union Writing \union {"idle", "held", "failed", "out"}
\* The steps a run takes with the repository's lock taken.
Locked == (Opening \ {"wait"}) \union Writing \union {"held"}

TypeOK ==
    /\ lockFile \in [Repos -> Inodes \union {NoFile}]
    /\ mirror \in [Repos -> Amount]
    /\ clone \in [Repos -> Amount]
    /\ checkout \in [Repos -> [Commits -> Amount]]
    /\ partial \in [Repos -> [Commits -> Amount]]
    /\ sealed \in [Repos -> [Commits -> BOOLEAN]]
    /\ list \in [Repos -> [Commits -> Amount]]
    /\ holder \in [Inodes -> Runs \union {Cleaner, Nobody}]
    /\ phase \in [Runs -> Phases]
    /\ fetchAll \in [Runs -> BOOLEAN]
    /\ reached \in [Runs -> SUBSET Repos]
    /\ need \in [Runs -> SUBSET Repos]
    /\ trusted \in [Runs -> SUBSET Repos]
    /\ fetched \in [Runs -> SUBSET Repos]
    /\ commit \in [Runs -> [Repos -> Commits]]
    /\ at \in [Runs -> [Repos -> Steps]]
    /\ handle \in [Runs -> [Repos -> Inodes \union {NoFile}]]
    /\ got \in [Runs -> [Repos -> Amount]]
    /\ crashes \in Nat

Init ==
    /\ lockFile = [k \in Repos |-> NoFile]
    /\ mirror = [k \in Repos |-> "none"]
    /\ clone = [k \in Repos |-> "none"]
    /\ checkout = [k \in Repos |-> [c \in Commits |-> "none"]]
    /\ partial = [k \in Repos |-> [c \in Commits |-> "none"]]
    /\ sealed = [k \in Repos |-> [c \in Commits |-> FALSE]]
    /\ list = [k \in Repos |-> [c \in Commits |-> "none"]]
    /\ holder = [i \in Inodes |-> Nobody]
    /\ phase = [r \in Runs |-> "start"]
    /\ fetchAll = [r \in Runs |-> FALSE]
    /\ reached = [r \in Runs |-> {}]
    /\ need = [r \in Runs |-> {}]
    /\ trusted = [r \in Runs |-> {}]
    /\ fetched = [r \in Runs |-> {}]
    /\ commit \in [Runs -> [Repos -> Commits]]
    /\ at = [r \in Runs |-> [k \in Repos |-> "idle"]]
    /\ handle = [r \in Runs |-> [k \in Repos |-> NoFile]]
    /\ got = [r \in Runs |-> [k \in Repos |-> "none"]]
    /\ crashes = 0

-----------------------------------------------------------------------------
(* What a run is in the middle of.                                         *)

InProgress(r) == {k \in Repos : at[r][k] \in Opening \union Writing}

Ended(r) == phase[r] \in {"done", "failed"}

\* The workers of `prefetch` have all ended, whether or not they succeeded.
Prefetched(r) == \A k \in reached[r] : at[r][k] \in {"held", "failed"}

\* Solving asked for a mirror that could not be opened.
Refused(r) == \E k \in need[r] : at[r][k] = "failed"

\* Whether a run may open the mirror of k: JOBS workers at a time those of
\* `reached`, each key once, and then resolution what else it needs, in turn.
\* Before and after resolution one mirror is opened at a time, for one use.
MayOpen(r, k) ==
    /\ at[r][k] = "idle"
    /\ \/ /\ phase[r] = "resolve"
          /\ k \in reached[r]
          /\ Cardinality(InProgress(r)) < Jobs
       \/ /\ phase[r] = "resolve"
          /\ k \in need[r] \ reached[r]
          /\ Prefetched(r)
          /\ InProgress(r) = {}
          /\ \A j \in need[r] \ reached[r] : at[r][j] # "failed"
       \/ /\ phase[r] \in {"ahead", "checkout"}
          /\ k \in need[r]
          /\ \A j \in Repos : at[r][j] \in {"idle", "out"}

Unused(i) ==
    /\ holder[i] = Nobody
    /\ \A k \in Repos : lockFile[k] # i
    /\ \A r \in Runs, k \in Repos : handle[r][k] # i

Goto(r, k, step) == at' = [at EXCEPT ![r][k] = step]

\* Closing the one handle of a mirror dropped.
Drop(r, k, step) ==
    /\ holder' = [holder EXCEPT ![handle[r][k]] = Nobody]
    /\ handle' = [handle EXCEPT ![r][k] = NoFile]
    /\ Goto(r, k, step)

\* Closing every handle of a run, as dropping its mirrors or its death does.
DropAllKept(r) ==
    /\ UNCHANGED holder
    /\ handle' = [handle EXCEPT ![r] = [k \in Repos |-> NoFile]]
    /\ at' = [at EXCEPT ![r] = [k \in Repos |-> "idle"]]

DropAll(r) ==
    /\ holder' = [i \in Inodes |-> IF holder[i] = r THEN Nobody ELSE holder[i]]
    /\ handle' = [handle EXCEPT ![r] = [k \in Repos |-> NoFile]]
    /\ at' = [at EXCEPT ![r] = [k \in Repos |-> "idle"]]

-----------------------------------------------------------------------------
(* Mirror::open.  Each step is one call that another run, or the run's     *)
(* death, may come before.                                                 *)

CreateLock(r, k) ==
    /\ MayOpen(r, k)
    /\ \E i \in Inodes :
        /\ IF lockFile[k] = NoFile THEN Unused(i) ELSE i = lockFile[k]
        /\ lockFile' = [lockFile EXCEPT ![k] = i]
        /\ handle' = [handle EXCEPT ![r][k] = i]
    /\ Goto(r, k, "wait")
    /\ UNCHANGED <<mirror, clone, checkout, partial, sealed, list,
                   holder, phase, choice, crashes>>

TakeLockHeld(r, k) ==
    /\ at[r][k] = "wait"
    /\ holder' = [holder EXCEPT ![handle[r][k]] = r]
    /\ Goto(r, k, "look")
    /\ UNCHANGED <<disk, phase, choice, handle, crashes>>

TakeLock(r, k) ==
    /\ at[r][k] = "wait"
    /\ holder[handle[r][k]] = Nobody
    /\ holder' = [holder EXCEPT ![handle[r][k]] = r]
    /\ Goto(r, k, "look")
    /\ UNCHANGED <<disk, phase, choice, handle, crashes>>

\* Any directory there is taken for a mirror.
Look(r, k) ==
    /\ at[r][k] = "look"
    /\ Goto(r, k, IF mirror[k] = "none" THEN "init" ELSE "open")
    /\ UNCHANGED <<disk, holder, phase, choice, handle, crashes>>

InitInPlace(r, k) ==
    /\ at[r][k] = "init"
    /\ clone' = [clone EXCEPT ![k] = "cut"]
    /\ mirror' = [mirror EXCEPT ![k] = "cut"]
    /\ Goto(r, k, "clone")
    /\ UNCHANGED <<lockFile, checkout, partial, sealed, list,
                   holder, phase, choice, handle, crashes>>

\* What an earlier run cut short left is removed first.
InitClone(r, k) ==
    /\ at[r][k] = "init"
    /\ clone' = [clone EXCEPT ![k] = "cut"]
    /\ Goto(r, k, "clone")
    /\ UNCHANGED <<lockFile, mirror, checkout, partial, sealed, list,
                   holder, phase, choice, handle, crashes>>

FillClone(r, k) ==
    /\ at[r][k] = "clone"
    /\ clone[k] # "none"
    /\ clone' = [clone EXCEPT ![k] = "whole"]
    /\ Goto(r, k, "place")
    /\ UNCHANGED <<lockFile, mirror, checkout, partial, sealed, list,
                   holder, phase, choice, handle, crashes>>

PlaceClone(r, k) ==
    /\ at[r][k] = "place"
    /\ clone[k] # "none" /\ mirror[k] = "none"
    /\ mirror' = [mirror EXCEPT ![k] = clone[k]]
    /\ clone' = [clone EXCEPT ![k] = "none"]
    /\ fetched' = [fetched EXCEPT ![r] = @ \union {k}]
    /\ Goto(r, k, "open")
    /\ UNCHANGED <<lockFile, checkout, partial, sealed, list, holder, phase,
                   fetchAll, reached, need, trusted, commit, got, handle, crashes>>

-----------------------------------------------------------------------------
(* `opened`: a mirror is trusted while it holds every commit the lock      *)
(* names of it, and else fetched once a run.  Which commits it holds is    *)
(* not modelled, so it may be trusted in any pass that may trust.          *)

Trust(r, k) ==
    /\ at[r][k] = "open" /\ mirror[k] # "none"
    /\ phase[r] = "resolve" /\ ~fetchAll[r]
    /\ trusted' = [trusted EXCEPT ![r] = @ \union {k}]
    /\ Goto(r, k, "held")
    /\ UNCHANGED <<disk, holder, phase, fetchAll, reached, need, fetched,
                   commit, got, handle, crashes>>

\* A checkout takes the mirror as it is, and one fresh is not fetched again.
OpenMirror(r, k) ==
    /\ at[r][k] = "open" /\ mirror[k] # "none"
    /\ Goto(r, k, IF phase[r] = "checkout" \/ k \in fetched[r] THEN "held" ELSE "fetch")
    /\ UNCHANGED <<disk, holder, phase, choice, handle, crashes>>

Fetch(r, k) ==
    /\ at[r][k] = "fetch" /\ mirror[k] # "none"
    /\ fetched' = [fetched EXCEPT ![r] = @ \union {k}]
    /\ Goto(r, k, "held")
    /\ UNCHANGED <<disk, holder, phase, fetchAll, reached, need, trusted,
                   commit, got, handle, crashes>>

\* What a step needs is not there, or something is where it would put what it
\* wrote, as only a run that deletes can bring about.
Missing(r, k) ==
    LET c == commit[r][k] IN
    \/ at[r][k] = "place" /\ (clone[k] = "none" \/ mirror[k] # "none")
    \/ at[r][k] = "open" /\ mirror[k] # "whole"
    \/ at[r][k] = "held" /\ phase[r] = "checkout" /\ mirror[k] # "whole"
    \/ at[r][k] = "move" /\ (partial[k][c] = "none" \/ checkout[k][c] # "none")
    \/ at[r][k] = "seal" /\ mirror[k] # "whole"
    \/ at[r][k] = "note" /\ checkout[k][c] # "whole"

\* The network, or the disk at a step that writes much, fails: the mirror is
\* dropped, and what was written stays.
Fail(r, k) ==
    /\ at[r][k] \in {"clone", "fetch", "fill", "noting"} \/ Missing(r, k)
    /\ Drop(r, k, "failed")
    /\ UNCHANGED <<disk, phase, choice, crashes>>

-----------------------------------------------------------------------------
(* Mirror::checkout_as, of the commit resolution chose.                    *)

\* Any directory there is taken for a checkout.
CheckOut(r, k) ==
    /\ phase[r] = "checkout" /\ at[r][k] = "held"
    /\ Goto(r, k, IF checkout[k][commit[r][k]] = "none" THEN "write" ELSE "list")
    /\ UNCHANGED <<disk, holder, phase, choice, handle, crashes>>

InitCheckout(r, k) ==
    /\ at[r][k] = "write"
    /\ partial' = [partial EXCEPT ![k][commit[r][k]] = "cut"]
    /\ Goto(r, k, "fill")
    /\ UNCHANGED <<lockFile, mirror, clone, checkout, sealed, list,
                   holder, phase, choice, handle, crashes>>

FillCheckout(r, k) ==
    /\ at[r][k] = "fill"
    /\ partial[k][commit[r][k]] # "none"
    /\ partial' = [partial EXCEPT ![k][commit[r][k]] = "whole"]
    /\ Goto(r, k, "move")
    /\ UNCHANGED <<lockFile, mirror, clone, checkout, sealed, list,
                   holder, phase, choice, handle, crashes>>

PlaceCheckout(r, k) ==
    /\ at[r][k] = "move"
    /\ LET c == commit[r][k] IN
        /\ partial[k][c] # "none" /\ checkout[k][c] = "none"
        /\ checkout' = [checkout EXCEPT ![k][c] = partial[k][c]]
        /\ partial' = [partial EXCEPT ![k][c] = "none"]
        /\ sealed' = [sealed EXCEPT ![k][c] = FALSE]
    /\ Goto(r, k, "list")
    /\ UNCHANGED <<lockFile, mirror, clone, list,
                   holder, phase, choice, handle, crashes>>

\* A list there is gone by, however much of it there is.
ReadList(r, k) ==
    /\ at[r][k] = "list"
    /\ list[k][commit[r][k]] # "none"
    /\ got' = [got EXCEPT ![r][k] = list[k][commit[r][k]]]
    /\ Drop(r, k, "out")
    /\ UNCHANGED <<disk, phase, fetchAll, reached, need, trusted, fetched,
                   commit, crashes>>

MissListUnsealed(r, k) ==
    /\ at[r][k] = "list"
    /\ list[k][commit[r][k]] = "none"
    /\ Goto(r, k, "note")
    /\ UNCHANGED <<disk, holder, phase, choice, handle, crashes>>

MissList(r, k) ==
    /\ at[r][k] = "list"
    /\ list[k][commit[r][k]] = "none"
    /\ Goto(r, k, "seal")
    /\ UNCHANGED <<disk, holder, phase, choice, handle, crashes>>

Seal(r, k) ==
    /\ at[r][k] = "seal"
    /\ sealed' = [sealed EXCEPT ![k][commit[r][k]] = TRUE]
    /\ Goto(r, k, "note")
    /\ UNCHANGED <<lockFile, mirror, clone, checkout, partial, list,
                   holder, phase, choice, handle, crashes>>

\* fs::write makes the file, empty, and then fills it.
CreateList(r, k) ==
    /\ at[r][k] = "note"
    /\ list' = [list EXCEPT ![k][commit[r][k]] = "cut"]
    /\ Goto(r, k, "noting")
    /\ UNCHANGED <<lockFile, mirror, clone, checkout, partial, sealed,
                   holder, phase, choice, handle, crashes>>

FillList(r, k) ==
    /\ at[r][k] = "noting"
    /\ list' = [list EXCEPT ![k][commit[r][k]] = "whole"]
    /\ got' = [got EXCEPT ![r][k] = "whole"]
    /\ Drop(r, k, "out")
    /\ UNCHANGED <<lockFile, mirror, clone, checkout, partial, sealed, phase,
                   fetchAll, reached, need, trusted, fetched, commit, crashes>>

-----------------------------------------------------------------------------
(* A run.  What it resolves is any choice: which repositories its lock     *)
(* names, which resolution asks for and which commit it settles on.        *)

\* A command that reads a mirror before it resolves opens each in turn.
Begin(r) ==
    /\ phase[r] = "start"
    /\ \E ahead \in SUBSET Repos : need' = [need EXCEPT ![r] = ahead]
    /\ phase' = [phase EXCEPT ![r] = "ahead"]
    /\ UNCHANGED <<disk, holder, fetchAll, reached, trusted, fetched, commit,
                   got, at, handle, crashes>>

Close(r, k) ==
    /\ phase[r] = "ahead" /\ at[r][k] = "held"
    /\ Drop(r, k, "out")
    /\ UNCHANGED <<disk, phase, choice, crashes>>

\* The pass that trusts the lock begins.
Resolve(r) ==
    /\ phase[r] = "ahead"
    /\ \A k \in need[r] : at[r][k] = "out"
    /\ \E R \in SUBSET Repos, N \in SUBSET Repos :
        /\ reached' = [reached EXCEPT ![r] = R]
        /\ need' = [need EXCEPT ![r] = N]
    /\ phase' = [phase EXCEPT ![r] = "resolve"]
    /\ DropAll(r)
    /\ UNCHANGED <<disk, fetchAll, trusted, fetched, commit, got, crashes>>

PassEnds(r) ==
    /\ phase[r] = "resolve"
    /\ Prefetched(r)
    /\ InProgress(r) = {}
    /\ \A k \in need[r] : at[r][k] = "held" \/ Refused(r)

\* A pass that trusted a mirror and failed, or moved a package off its
\* locked commit, is made again, fetching each mirror it read.
Restart(r) ==
    /\ PassEnds(r)
    /\ ~fetchAll[r] /\ trusted[r] # {}
    /\ fetchAll' = [fetchAll EXCEPT ![r] = TRUE]
    /\ trusted' = [trusted EXCEPT ![r] = {}]
    /\ reached' = [reached EXCEPT ![r] = @ \union {k \in Repos : at[r][k] = "held"}]
    /\ \E N \in SUBSET Repos : need' = [need EXCEPT ![r] = N]
    /\ DropAll(r)
    /\ UNCHANGED <<disk, phase, fetched, commit, got, crashes>>

\* The mirrors are let go once resolved.  A command that only settles the
\* lock checks nothing out, and one that patches reads what it chooses to.
Solve(r) ==
    /\ PassEnds(r) /\ ~Refused(r)
    /\ \E to \in {"checkout", "done"} : phase' = [phase EXCEPT ![r] = to]
    /\ DropAll(r)
    /\ UNCHANGED <<disk, choice, crashes>>

\* Resolution fails: a mirror could not be opened, or nothing meets every
\* requirement.
GiveUp(r) ==
    /\ \/ PassEnds(r) /\ (fetchAll[r] \/ trusted[r] = {})
       \/ phase[r] \in {"ahead", "checkout"} /\ Refused(r)
    /\ phase' = [phase EXCEPT ![r] = "failed"]
    /\ DropAll(r)
    /\ UNCHANGED <<disk, choice, crashes>>

WalkEarly(r) ==
    /\ phase[r] = "checkout"
    /\ phase' = [phase EXCEPT ![r] = "read"]
    /\ UNCHANGED <<disk, holder, choice, at, handle, crashes>>

\* Every package is checked out, and the run walks them, holding no lock.
Walk(r) ==
    /\ phase[r] = "checkout"
    /\ \A k \in need[r] : at[r][k] = "out"
    /\ phase' = [phase EXCEPT ![r] = "read"]
    /\ UNCHANGED <<disk, holder, choice, at, handle, crashes>>

Finish(r) ==
    /\ phase[r] = "read"
    /\ phase' = [phase EXCEPT ![r] = "done"]
    /\ DropAll(r)
    /\ UNCHANGED <<disk, choice, crashes>>

\* The process dies, the kernel closes its files, and it is started again.
Crash(r) ==
    /\ ~Ended(r) /\ phase[r] # "start"
    /\ crashes < MaxCrashes
    /\ crashes' = crashes + 1
    /\ phase' = [phase EXCEPT ![r] = "start"]
    /\ fetchAll' = [fetchAll EXCEPT ![r] = FALSE]
    /\ reached' = [reached EXCEPT ![r] = {}]
    /\ need' = [need EXCEPT ![r] = {}]
    /\ trusted' = [trusted EXCEPT ![r] = {}]
    /\ fetched' = [fetched EXCEPT ![r] = {}]
    /\ got' = [got EXCEPT ![r] = [k \in Repos |-> "none"]]
    /\ DropAll(r)
    /\ UNCHANGED <<disk, commit>>

Opens(r, k) ==
    \/ CreateLock(r, k) \/ TakeLock(r, k) \/ Look(r, k) \/ InitClone(r, k)
    \/ FillClone(r, k) \/ PlaceClone(r, k) \/ Trust(r, k) \/ OpenMirror(r, k)
    \/ Fetch(r, k) \/ Close(r, k)

ChecksOut(r, k) ==
    \/ CheckOut(r, k) \/ InitCheckout(r, k) \/ FillCheckout(r, k)
    \/ PlaceCheckout(r, k) \/ ReadList(r, k) \/ MissList(r, k) \/ Seal(r, k)
    \/ CreateList(r, k) \/ FillList(r, k)

Proceeds(r) ==
    \/ Begin(r) \/ Resolve(r) \/ Restart(r) \/ Solve(r) \/ GiveUp(r)
    \/ Walk(r) \/ Finish(r)

Step(r) ==
    \/ Proceeds(r)
    \/ \E k \in Repos : Opens(r, k) \/ ChecksOut(r, k) \/ Fail(r, k)

Next == \E r \in Runs : Step(r) \/ Crash(r)

Spec == Init /\ [][Next]_vars

\* The system runs every process, a lock waited for goes to someone when it
\* is let go, and a transfer ends, if only by failing.
FairSpec == Spec /\ \A r \in Runs : WF_vars(Step(r))

-----------------------------------------------------------------------------
(* Properties.                                                             *)

Holds(r, k) == at[r][k] \in Locked

\* A mirror is held locked for as long as a run has it open, through clones,
\* fetches and checkouts, so no two runs write to one at once (mirror.rs:42).
OneWriter == \A r, s \in Runs, k \in Repos : Holds(r, k) /\ Holds(s, k) => r = s

\* A clone or a checkout cut short, by death or failure, is never where the
\* whole one is looked for (mirror.rs:48 and :191).
WholeOrAbsent ==
    \A k \in Repos :
        /\ mirror[k] # "cut"
        /\ \A c \in Commits : checkout[k][c] # "cut"

\* The list is written last: one there, whole or not, is of a checkout that
\* is whole and has been made read-only (mirror.rs:194-198).
ListedIsSealed ==
    \A k \in Repos, c \in Commits :
        list[k][c] # "none" => checkout[k][c] = "whole" /\ sealed[k][c]

\* No run waits for a lock it holds itself, which would be for ever: each
\* mirror is opened once a pass, and all are let go between two passes and
\* before what is checked out is opened again (store.rs:61, resolve.rs:204).
NoSelfWait ==
    \A r \in Runs, k \in Repos : at[r][k] = "wait" => holder[handle[r][k]] # r

\* A run that goes by a checkout goes by one that stays: what it reads holds
\* no lock, and no other run takes away or reseals what has a list.
ReadStays ==
    \A r \in Runs, k \in Repos :
        phase[r] = "read" /\ k \in need[r] =>
            /\ mirror[k] = "whole"
            /\ list[k][commit[r][k]] # "none"
            /\ checkout[k][commit[r][k]] = "whole"

\* A run that reads a checkout knows every file the commit holds
\* (Checkout::files, mirror.rs:308).
HeldIsWhole ==
    \A r \in Runs, k \in Repos :
        phase[r] = "read" /\ k \in need[r] => got[r][k] = "whole"

\* No two runs each wait for a mirror the other holds.
NoCircularWait ==
    \A r, s \in Runs, j, k \in Repos :
        ~ /\ at[r][j] = "wait" /\ at[s][k] = "wait"
          /\ holder[handle[r][j]] = s /\ holder[handle[s][k]] = r

\* Every run ends, whatever others do and wherever they are killed.
EveryRunEnds == \A r \in Runs : <>Ended(r)

-----------------------------------------------------------------------------
(* The inductive invariant.                                                *)

\* A handle is open on the file at its mirror's lock path, no two paths name
\* one file, and the run past waiting has the lock on it.
LockInv ==
    /\ \A r \in Runs, k \in Repos :
        /\ handle[r][k] # NoFile => handle[r][k] = lockFile[k]
        /\ at[r][k] = "wait" \/ Holds(r, k) => handle[r][k] # NoFile
        /\ Holds(r, k) => holder[handle[r][k]] = r
    /\ \A j, k \in Repos : lockFile[j] = lockFile[k] /\ lockFile[j] # NoFile => j = k

\* What a run is about to put in place is whole, and what it is about to
\* list is there, and then sealed.
WriteInv ==
    \A r \in Runs, k \in Repos :
        LET c == commit[r][k] IN
        /\ at[r][k] = "place" => clone[k] = "whole"
        /\ at[r][k] = "move" => partial[k][c] = "whole"
        /\ at[r][k] \in {"list", "seal", "note", "noting"} => checkout[k][c] = "whole"
        /\ at[r][k] \in {"note", "noting"} => sealed[k][c]

\* Everything the lock files and the order of each run's steps keep true, from
\* which no step leads away.
Inductive == TypeOK /\ LockInv /\ WriteInv /\ WholeOrAbsent /\ ListedIsSealed
=============================================================================
