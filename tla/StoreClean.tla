----------------------------- MODULE StoreClean -----------------------------
(***************************************************************************)
(* `astli cache clean` beside the runs that use the cache (Store::clean in *)
(* astli-resolve's store.rs).  It lists the lock files, waits for each in  *)
(* turn, deletes everything but them, lets them go and deletes what is     *)
(* left, the lock files among it.                                          *)
(***************************************************************************)
EXTENDS Store

VARIABLES
    cphase,      \* what the clean is doing
    listed,      \* the repositories whose lock file it found
    chandle      \* the lock files it opened

cvars == <<cphase, listed, chandle>>
allvars == <<vars, cvars>>
runVars == <<phase, choice, at, handle, crashes>>

CInit ==
    /\ Init
    /\ cphase = "idle"
    /\ listed = {}
    /\ chandle = [k \in Repos |-> NoFile]

-----------------------------------------------------------------------------

CList ==
    /\ cphase = "idle"
    /\ cphase' = "locking"
    /\ listed' = {k \in Repos : lockFile[k] # NoFile}
    /\ UNCHANGED <<vars, chandle>>

\* The locks it has, and the one it waits for, if any.
COpened == {k \in listed : chandle[k] # NoFile}
CHeld == {k \in COpened : holder[chandle[k]] = Cleaner}

COpen(k) ==
    /\ cphase = "locking"
    /\ k \in listed \ COpened
    /\ COpened = CHeld
    /\ chandle' = [chandle EXCEPT ![k] = lockFile[k]]
    /\ UNCHANGED <<vars, cphase, listed>>

CLockHeld(k) ==
    /\ cphase = "locking"
    /\ k \in COpened \ CHeld
    /\ holder' = [holder EXCEPT ![chandle[k]] = Cleaner]
    /\ UNCHANGED <<disk, runVars, cvars>>

CLock(k) ==
    /\ cphase = "locking"
    /\ k \in COpened \ CHeld
    /\ holder[chandle[k]] = Nobody
    /\ holder' = [holder EXCEPT ![chandle[k]] = Cleaner]
    /\ UNCHANGED <<disk, runVars, cvars>>

CLocked ==
    /\ cphase = "locking"
    /\ CHeld = listed
    /\ cphase' = "emptying"
    /\ UNCHANGED <<vars, listed, chandle>>

\* A directory is deleted file after file, one directory after another.
Less(amount) == IF amount = "whole" THEN "cut" ELSE "none"

NoneHalfGone ==
    \A k \in Repos : mirror[k] # "cut" /\ \A c \in Commits : checkout[k][c] # "cut"

CDeleteMirror(k) ==
    /\ mirror[k] = "cut" \/ (mirror[k] = "whole" /\ NoneHalfGone)
    /\ mirror' = [mirror EXCEPT ![k] = Less(@)]
    /\ UNCHANGED <<lockFile, clone, checkout, partial, sealed, list>>

CDeleteClone(k) ==
    /\ clone[k] # "none"
    /\ clone' = [clone EXCEPT ![k] = Less(@)]
    /\ UNCHANGED <<lockFile, mirror, checkout, partial, sealed, list>>

CDeleteCheckout(k, c) ==
    /\ checkout[k][c] = "cut" \/ (checkout[k][c] = "whole" /\ NoneHalfGone)
    /\ checkout' = [checkout EXCEPT ![k][c] = Less(@)]
    /\ UNCHANGED <<lockFile, mirror, clone, partial, sealed, list>>

CDeletePartial(k, c) ==
    /\ partial[k][c] # "none"
    /\ partial' = [partial EXCEPT ![k][c] = Less(@)]
    /\ UNCHANGED <<lockFile, mirror, clone, checkout, sealed, list>>

CDeleteList(k, c) ==
    /\ list[k][c] # "none"
    /\ list' = [list EXCEPT ![k][c] = "none"]
    /\ UNCHANGED <<lockFile, mirror, clone, checkout, partial, sealed>>

\* A lock file is kept only while it is one of those listed and held.
CDeleteLock(k) ==
    /\ lockFile[k] # NoFile
    /\ cphase = "emptying" => k \notin listed
    /\ lockFile' = [lockFile EXCEPT ![k] = NoFile]
    /\ UNCHANGED <<mirror, clone, checkout, partial, sealed, list>>

CDelete ==
    /\ cphase \in {"emptying", "removing"}
    /\ \E k \in Repos :
        \/ CDeleteMirror(k) \/ CDeleteClone(k) \/ CDeleteLock(k)
        \/ \E c \in Commits :
            CDeleteCheckout(k, c) \/ CDeletePartial(k, c) \/ CDeleteList(k, c)
    /\ UNCHANGED <<holder, runVars, cvars>>

Emptied ==
    \A k \in Repos :
        /\ mirror[k] = "none" /\ clone[k] = "none"
        /\ \A c \in Commits :
            checkout[k][c] = "none" /\ partial[k][c] = "none" /\ list[k][c] = "none"

CDropAllKept ==
    /\ UNCHANGED holder
    /\ chandle' = [k \in Repos |-> NoFile]

CDropAll ==
    /\ holder' = [i \in Inodes |-> IF holder[i] = Cleaner THEN Nobody ELSE holder[i]]
    /\ chandle' = [k \in Repos |-> NoFile]

CRelease ==
    /\ cphase = "emptying"
    /\ Emptied
    /\ \A k \in Repos \ listed : lockFile[k] = NoFile
    /\ cphase' = "removing"
    /\ CDropAll
    /\ UNCHANGED <<disk, runVars, listed>>

CDone ==
    /\ cphase = "removing"
    /\ Emptied
    /\ \A k \in Repos : lockFile[k] = NoFile
    /\ cphase' = "done"
    /\ UNCHANGED <<vars, listed, chandle>>

\* A run put something into a directory being deleted, or the clean is killed.
CFail ==
    /\ cphase \in {"emptying", "removing"}
    /\ cphase' = "failed"
    /\ CDropAll
    /\ UNCHANGED <<disk, runVars, listed>>

CStep ==
    \/ CList \/ CLocked \/ CDelete \/ CRelease \/ CDone \/ CFail
    \/ \E k \in Repos : COpen(k) \/ CLock(k)

CNext == CStep \/ (Next /\ UNCHANGED cvars)

CSpec == CInit /\ [][CNext]_allvars

CFairSpec ==
    /\ CSpec
    /\ WF_allvars(CStep)
    /\ \A r \in Runs : WF_allvars(Step(r) /\ UNCHANGED cvars)

-----------------------------------------------------------------------------
(* Properties.                                                             *)

\* While everything but the locks is deleted, no run is in a mirror whose
\* lock was there to be waited for, nor waits holding it (store.rs:71-73).
EmptiedAlone ==
    cphase = "emptying" => \A k \in listed, r \in Runs : ~Holds(r, k)

\* The clean ends, and so does every run beside it, one repository at a time.
EveryoneEnds ==
    /\ <>(cphase \in {"done", "failed"})
    /\ \A r \in Runs : <>Ended(r)

-----------------------------------------------------------------------------
(* The inductive invariant.                                                *)

CTypeOK ==
    /\ cphase \in {"idle", "locking", "emptying", "removing", "done", "failed"}
    /\ listed \subseteq Repos
    /\ chandle \in [Repos -> Inodes \union {NoFile}]

\* The repositories whose lock file has not been at risk yet.
Kept ==
    CASE cphase \in {"idle", "locking"} -> Repos
      [] cphase = "emptying" -> listed
      [] OTHER -> {}

\* A file is at the lock path of one repository at most, and opened as its.
OneRepoEach ==
    \A j, k \in Repos : j # k =>
        /\ lockFile[j] # NoFile => lockFile[j] # lockFile[k]
        /\ \A r \in Runs : handle[r][j] # NoFile =>
            /\ handle[r][j] # lockFile[k]
            /\ \A s \in Runs : handle[r][j] # handle[s][k]

\* A run past waiting has the lock on the file it opened, whatever became of
\* the path; up to where its lock file may be deleted, that is the path's file.
HandleInv ==
    \A r \in Runs, k \in Repos :
        /\ at[r][k] = "wait" \/ Holds(r, k) => handle[r][k] # NoFile
        /\ Holds(r, k) => holder[handle[r][k]] = r
        /\ k \in Kept /\ handle[r][k] # NoFile => handle[r][k] = lockFile[k]

\* What the clean opened it listed, and is still there; once it empties the
\* cache it has every lock it listed.
CleanInv ==
    /\ cphase \notin {"locking", "emptying"} => \A k \in Repos : chandle[k] = NoFile
    /\ cphase \in {"locking", "emptying"} =>
        \A k \in Repos : chandle[k] # NoFile => k \in listed /\ chandle[k] = lockFile[k]
    /\ cphase = "emptying" =>
        \A k \in listed : chandle[k] # NoFile /\ holder[chandle[k]] = Cleaner

CInductive == TypeOK /\ CTypeOK /\ OneRepoEach /\ HandleInv /\ CleanInv
=============================================================================
