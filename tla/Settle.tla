------------------------------- MODULE Settle -------------------------------
(***************************************************************************)
(* The three files of a project that commands of astli write: the root's   *)
(* manifest astli.toml, the lock astli.lock and the patches in             *)
(* .astli/patch.toml (astli-cli: lockfile.rs and cmd/*.rs), by one command *)
(* after another.  Every write may fail or be cut short, and what a        *)
(* command promises of the three files together is up to the order it      *)
(* writes and puts back in.                                                *)
(*                                                                         *)
(* A manifest is what it requires of each name: a commit, any commit or    *)
(* nothing.  What a file holds between being opened for writing and being  *)
(* written is nothing, which a manifest and the patches are read with and  *)
(* the lock is not.                                                        *)
(***************************************************************************)
EXTENDS Naturals, FiniteSets

CONSTANTS
    Names,         \* the packages there are
    Needs,         \* the packages each depends on, directly or not
    Commits,       \* the commits of each
    AnyCommit,     \* a requirement any commit meets
    No,            \* nothing required, or nothing locked
    Missing,       \* no lock file
    Unreadable,    \* a lock file cut short, or of another format
    MaxCommands,   \* bound: how many commands are run
    MaxFaults      \* bound: how many writes fail and commands are killed

Manifests == [Names -> Commits \union {AnyCommit, No}]
Locks == [Names -> Commits \union {No}]

ASSUME ValuesAssumption ==
    /\ AnyCommit \notin Commits /\ No \notin Commits /\ No # AnyCommit
    /\ Missing \notin Locks /\ Unreadable \notin Locks /\ Unreadable # Missing
ASSUME NamesAssumption == IsFiniteSet(Names)
ASSUME NeedsAssumption ==
    /\ Needs \in [Names -> SUBSET Names]
    /\ \A n \in Names : \A m \in Needs[n] : Needs[m] \subseteq Needs[n]
ASSUME BoundsAssumption == MaxCommands \in Nat /\ MaxFaults \in Nat

VARIABLES
    manifest, lock, patches,   \* the files
    own,        \* whether the root has an astli.toml, and no Bender.yml's list
    pc,         \* the step the command is at
    job,        \* what the command was asked and what it has read
    commands, faults

vars == <<manifest, lock, patches, own, pc, job, commands, faults>>

Commands == {"build", "update", "add", "remove", "patch", "unpatch", "snapshot"}
\* The commands that put the files back if the design no longer settles.
Rewriters == {"add", "remove", "snapshot"}
Opens == {"lock", "manifest", "patch", "restore", "repatch"}
Fills == {"locking", "writing", "patching", "restoring", "repatching"}
Steps == {"idle", "begun", "settle", "reread", "ok", "err"} \union Opens \union Fills

NoManifest == [n \in Names |-> No]
NoJob == [op |-> "build", names |-> {}, locked |-> FALSE, ahead |-> FALSE,
          text |-> NoManifest, back |-> {}, root |-> NoManifest, patched |-> {},
          next |-> NoManifest, write |-> {}, chosen |-> NoManifest,
          found |-> [manifest |-> NoManifest, lock |-> Missing, patches |-> {}],
          whole |-> TRUE]

Jobs ==
    [op : Commands, names : SUBSET Names, locked : BOOLEAN,
     ahead : BOOLEAN,             \* it settles only to see what there is
     text : Manifests,            \* the manifest and
     back : SUBSET Names,         \* the patches it found, to put back
     root : Manifests,            \* the requirements and
     patched : SUBSET Names,      \* the patches it settles
     next : Manifests,            \* what it writes to the manifest,
     write : SUBSET Names,        \* the patches
     chosen : Locks,              \* and the lock
     \* What only properties read: the files as it found them, and whether
     \* no write failed since.
     found : [manifest : Manifests, lock : Locks \union {Missing, Unreadable},
              patches : SUBSET Names],
     whole : BOOLEAN]

TypeOK ==
    /\ manifest \in Manifests
    /\ lock \in Locks \union {Missing, Unreadable}
    /\ patches \in SUBSET Names
    /\ own \in BOOLEAN
    /\ pc \in Steps
    /\ job \in Jobs
    /\ commands \in 0 .. MaxCommands
    /\ faults \in 0 .. MaxFaults

-----------------------------------------------------------------------------
(* Resolution, over the requirements of the root and what it patches.      *)

\* Every package a root requires, directly or not.
Design(root) ==
    LET direct == {n \in Names : root[n] # No}
    IN  direct \union UNION {Needs[n] : n \in direct}

\* The locks resolution may end with: of each package from a repository the
\* commit required, or else the one preferred, or else any.
Resolutions(root, patched, preferred) ==
    LET sought == Design(root) \ patched
        pinned == {n \in sought : root[n] \in Commits}
    IN  {new \in Locks :
            /\ \A n \in Names : new[n] # No <=> n \in sought
            /\ \A n \in pinned : new[n] = root[n]
            /\ \A n \in sought \ pinned : preferred[n] # No => new[n] = preferred[n]}

\* The lock as settled over, none being the same as one that holds nothing.
Preferred(found) == IF found = Missing THEN NoManifest ELSE found

Settled == Preferred(lock) \in Resolutions(manifest, {}, Preferred(lock))

Init ==
    /\ manifest \in Manifests
    /\ lock \in Locks \union {Missing, Unreadable}
    /\ lock # Unreadable => Settled \/ lock = Missing
    /\ patches \in SUBSET Names
    /\ own \in BOOLEAN
    /\ pc = "idle"
    /\ job = NoJob
    /\ commands = 0 /\ faults = 0

-----------------------------------------------------------------------------
(* A command: it reads the manifest and the patches, and checks its        *)
(* arguments.                                                              *)

Goto(step) == pc' = step

Begin ==
    /\ pc = "idle" /\ commands < MaxCommands
    /\ \E op \in Commands, names \in SUBSET Names, locked \in BOOLEAN :
        /\ op = "build" => names = {}
        /\ op \in {"add", "patch", "unpatch", "snapshot"} => Cardinality(names) = 1
        /\ op = "remove" => names # {}
        /\ job' = [NoJob EXCEPT !.op = op, !.names = names, !.locked = locked,
                !.text = manifest, !.back = patches, !.root = manifest,
                !.patched = patches,
                !.found = [manifest |-> manifest, lock |-> lock, patches |-> patches]]
    /\ Goto("begun")
    /\ commands' = commands + 1
    /\ UNCHANGED <<manifest, lock, patches, own, faults>>

\* A command that reads the dependencies settles them first.
Build ==
    /\ pc = "begun" /\ job.op = "build"
    /\ Goto("settle")
    /\ UNCHANGED <<manifest, lock, patches, own, job, commands, faults>>

\* Every name must be in the lock, and so the lock must be one that reads.
Update ==
    /\ pc = "begun" /\ job.op = "update"
    /\ Goto(IF \/ lock = Unreadable
               \/ lock # Missing /\ \E n \in job.names : lock[n] = No
            THEN "err" ELSE "settle")
    /\ UNCHANGED <<manifest, lock, patches, own, job, commands, faults>>

\* A repository's URL, or a name already there: the requirement is given.
Add ==
    /\ pc = "begun" /\ job.op = "add" /\ own
    /\ \E n \in job.names, asked \in Commits \union {AnyCommit} :
        job' = [job EXCEPT !.next = [job.text EXCEPT ![n] = asked]]
    /\ Goto("manifest")
    /\ UNCHANGED <<manifest, lock, patches, own, commands, faults>>

\* The name of a package the design holds, resolved as if it were not patched.
AddHeld ==
    /\ pc = "begun" /\ job.op = "add" /\ own
    /\ \A n \in job.names : job.text[n] = No
    /\ job' = [job EXCEPT !.ahead = TRUE, !.patched = @ \ job.names]
    /\ Goto("settle")
    /\ UNCHANGED <<manifest, lock, patches, own, commands, faults>>

Remove ==
    /\ pc = "begun" /\ job.op = "remove" /\ own
    /\ \A n \in job.names : job.text[n] # No
    /\ job' = [job EXCEPT
            !.next = [n \in Names |-> IF n \in job.names THEN No ELSE job.text[n]]]
    /\ Goto("manifest")
    /\ UNCHANGED <<manifest, lock, patches, own, commands, faults>>

\* Resolved as if it were not patched, for where it comes from.
Patch ==
    /\ pc = "begun" /\ job.op = "patch"
    /\ job' = [job EXCEPT !.ahead = TRUE, !.patched = @ \ job.names]
    /\ Goto("settle")
    /\ UNCHANGED <<manifest, lock, patches, own, commands, faults>>

Unpatch ==
    /\ pc = "begun" /\ job.op = "unpatch"
    /\ job.names \subseteq job.back
    /\ job' = [job EXCEPT !.write = job.back \ job.names]
    /\ Goto("patch")
    /\ UNCHANGED <<manifest, lock, patches, own, commands, faults>>

SnapshotUnpatched ==
    /\ pc = "begun" /\ job.op = "snapshot" /\ own
    /\ job.names \subseteq job.back
    /\ job' = [job EXCEPT !.write = job.back \ job.names]
    /\ Goto("patch")
    /\ UNCHANGED <<manifest, lock, patches, own, commands, faults>>

\* The commit checked out where the name is patched to is any.
Snapshot ==
    /\ pc = "begun" /\ job.op = "snapshot" /\ own
    /\ job.names \subseteq job.back
    /\ lock # Unreadable
    /\ \E n \in job.names, c \in Commits :
        job' = [job EXCEPT !.next = [job.text EXCEPT ![n] = c],
                           !.write = job.back \ job.names]
    /\ Goto("manifest")
    /\ UNCHANGED <<manifest, lock, patches, own, commands, faults>>

\* An argument is wrong, or a repository or a directory cannot be read.
Refuse ==
    /\ pc = "begun"
    /\ Goto("err")
    /\ UNCHANGED <<manifest, lock, patches, own, job, commands, faults>>

-----------------------------------------------------------------------------
(* settle.                                                                 *)

\* Where a command that could not settle goes on: the files it rewrote are
\* put back.
RefusedKept == "err"
Refused == IF job.op \in Rewriters /\ ~job.ahead THEN "restore" ELSE "err"

\* What of the lock is preferred.
KeptOnly ==
    [n \in Names |-> IF job.op = "update" /\ n \notin job.names THEN No ELSE Preferred(lock)[n]]

Kept ==
    [n \in Names |-> IF job.op = "update" /\ (n \in job.names \/ job.names = {})
                     THEN No ELSE Preferred(lock)[n]]

\* --locked is not handed on by `astli snapshot`.
LockedDropped == job.locked /\ job.op \in {"build", "update"}
Locked == job.locked /\ job.op # "snapshot"

\* A design with patches neither updates nor is as the lock says, an
\* unreadable lock is no lock to settle over, and resolution may fail.
NotSettled ==
    /\ pc = "settle"
    /\ Goto(Refused)
    /\ UNCHANGED <<manifest, lock, patches, own, job, commands, faults>>

\* Once the design has settled: a package looked for must be in it, and is
\* then patched, or required at the version or commit it has.
Onward(new) ==
    IF ~job.ahead THEN job' = job /\ Goto("ok")
    ELSE \E n \in job.names :
        IF n \notin Design(job.root) THEN job' = job /\ Goto("err")
        ELSE IF job.op = "patch"
        THEN job' = [job EXCEPT !.write = job.back \union {n}, !.ahead = FALSE]
             /\ Goto("patch")
        ELSE \E asked \in {AnyCommit, new[n]} :
             job' = [job EXCEPT !.next = [job.text EXCEPT ![n] = asked],
                                !.ahead = FALSE]
             /\ Goto("manifest")

\* A wrong one: a patch keeps no lock from being written.
StaysUnlessPatched(new) ==
    new = Preferred(lock) \/ (~Locked /\ job.op # "update" /\ ~own)

\* While the root patches a dependency the lock is not written, and nor is it
\* where nothing changed or the root has no manifest.
Stays(new) ==
    \/ job.patched # {}
    \/ new = Preferred(lock)
    \/ ~Locked /\ job.op # "update" /\ ~own

Settle ==
    /\ pc = "settle" /\ lock # Unreadable
    /\ ~ (job.patched # {} /\ (Locked \/ job.op = "update"))
    /\ \E new \in Resolutions(job.root, job.patched, Kept) :
        IF Stays(new) THEN Onward(new)
        ELSE IF Locked THEN Goto(Refused) /\ job' = job
        ELSE Goto("lock") /\ job' = [job EXCEPT !.chosen = new]
    /\ UNCHANGED <<manifest, lock, patches, own, commands, faults>>

-----------------------------------------------------------------------------
(* The writes: std::fs::write opens the file, empty, and fills it.         *)

OpenLock ==
    /\ pc = "lock"
    /\ lock' = Unreadable
    /\ Goto("locking")
    /\ UNCHANGED <<manifest, patches, own, job, commands, faults>>

FillLock ==
    /\ pc = "locking"
    /\ lock' = job.chosen
    /\ Onward(job.chosen)
    /\ UNCHANGED <<manifest, patches, own, commands, faults>>

OpenManifest ==
    /\ pc \in {"manifest", "restore"}
    /\ manifest' = NoManifest
    /\ Goto(IF pc = "manifest" THEN "writing" ELSE "restoring")
    /\ UNCHANGED <<lock, patches, own, job, commands, faults>>

\* `astli snapshot` drops the patch once the requirement is there, and puts
\* it back once the requirement is not.
FillManifest ==
    /\ pc = "writing"
    /\ manifest' = job.next
    /\ Goto(IF job.op = "snapshot" THEN "patch" ELSE "reread")
    /\ UNCHANGED <<lock, patches, own, job, commands, faults>>

Restore ==
    /\ pc = "restoring"
    /\ manifest' = job.text
    /\ Goto(IF job.op = "snapshot" THEN "repatch" ELSE "err")
    /\ UNCHANGED <<lock, patches, own, job, commands, faults>>

OpenPatches ==
    /\ pc \in {"patch", "repatch"}
    /\ patches' = {}
    /\ Goto(IF pc = "patch" THEN "patching" ELSE "repatching")
    /\ UNCHANGED <<manifest, lock, own, job, commands, faults>>

FillPatches ==
    /\ pc = "patching"
    /\ patches' = job.write
    /\ Goto(IF job.op = "snapshot" THEN "reread" ELSE "ok")
    /\ UNCHANGED <<manifest, lock, own, job, commands, faults>>

Repatch ==
    /\ pc = "repatching"
    /\ patches' = job.back
    /\ Goto("err")
    /\ UNCHANGED <<manifest, lock, own, job, commands, faults>>

RereadStale ==
    /\ pc = "reread"
    /\ Goto("settle")
    /\ UNCHANGED <<manifest, lock, patches, own, job, commands, faults>>

\* The project as rewritten is read and settled.
Reread ==
    /\ pc = "reread"
    /\ job' = [job EXCEPT !.root = manifest, !.patched = patches]
    /\ Goto("settle")
    /\ UNCHANGED <<manifest, lock, patches, own, commands, faults>>

\* A write fails, on opening the file or on filling it.  Only the lock's is
\* one the command answers; any other ends it.
FailWrite ==
    /\ pc \in Opens \union Fills
    /\ faults < MaxFaults /\ faults' = faults + 1
    /\ job' = [job EXCEPT !.whole = FALSE]
    /\ Goto(IF pc \in {"lock", "locking"} THEN Refused ELSE "err")
    /\ UNCHANGED <<manifest, lock, patches, own, commands>>

\* The process ends, or is killed and leaves the files as they are.
End ==
    /\ \/ pc \in {"ok", "err"} /\ UNCHANGED faults
       \/ pc # "idle" /\ faults < MaxFaults /\ faults' = faults + 1
    /\ Goto("idle")
    /\ job' = NoJob
    /\ UNCHANGED <<manifest, lock, patches, own, commands>>

Asked ==
    \/ Build \/ Update \/ Add \/ AddHeld \/ Remove \/ Patch
    \/ Unpatch \/ Snapshot \/ Refuse

Writes ==
    \/ OpenLock \/ FillLock \/ OpenManifest \/ FillManifest
    \/ Restore \/ OpenPatches \/ FillPatches \/ Repatch \/ FailWrite

Next ==
    \/ Begin \/ Asked \/ NotSettled \/ Settle \/ Reread \/ Writes \/ End

Spec == Init /\ [][Next]_vars

-----------------------------------------------------------------------------
(* Properties.                                                             *)

\* A command told to keep the lock (--locked) never writes it, whichever of
\* its settles finds it would change (lockfile.rs:50, P26).  `astli snapshot`
\* is not told.
LockedKeepsLock ==
    [][job.locked /\ job.op # "snapshot" => lock' = lock]_vars

\* A command that fails, though every write succeeded, leaves the manifest
\* and the patches as it found them: nothing changed yet, or what changed is
\* put back (lockfile.rs:217, snapshot.rs:108, P33).
RefusedRestores ==
    pc = "err" /\ job.whole =>
        manifest = job.found.manifest /\ patches = job.found.patches

\* A command that settles and succeeds leaves a lock that settles to itself:
\* with the same files, --locked would accept it (lockfile.rs:103, P26).
OkSettled ==
    (pc = "ok" /\ job.op # "unpatch" /\ patches = {} /\ (own \/ job.op = "update"))
        => lock # Unreadable /\ Settled

\* `astli update NAME` moves only the packages named (update.rs:37, P26).
UpdateKeepsOthers ==
    \A n \in Names \ job.names :
        /\ pc = "ok" /\ job.op = "update"
        /\ job.names # {}
        /\ n \in Design(manifest) /\ manifest[n] \notin Commits
        /\ job.found.lock \in Locks /\ job.found.lock[n] # No
        => lock[n] = job.found.lock[n]

\* While a snapshot goes well the design builds on the work in the clone,
\* through the patch or at the commit required, whenever it is killed:
\* the requirement is written before the patch is dropped (snapshot.rs:103).
SnapshotHandsOver ==
    \A n \in job.names :
        /\ job.op = "snapshot" /\ job.names \subseteq job.back
        /\ pc \notin {"err", "restore", "restoring", "repatch", "repatching"}
        => n \in patches \/ manifest[n] \in Commits

\* While a patch is in place the lock is written by one command only: one that
\* looks for a package by its name, as if it were not patched, and no other is
\* (lockfile.rs:95, patch.rs:64, P28).
PatchesKeepLock ==
    [][patches # {} =>
        \/ lock' = lock
        \/ job.ahead /\ job.op \in {"patch", "add"} /\ patches \subseteq job.names]_vars

-----------------------------------------------------------------------------
(* The inductive invariant, which relates the files to what the command at *)
(* each step has read of them.                                             *)

Settling == {"settle", "lock", "locking"}
Unchanged == manifest = job.text /\ patches = job.back

\* Which steps a command comes to.
CommandInv ==
    /\ job.text = job.found.manifest /\ job.back = job.found.patches
    /\ pc = "idle" => job.op = "build"
    /\ job.op = "snapshot" => \E n \in Names : job.names = {n}
    /\ job.ahead => job.op \in {"patch", "add"} /\ pc \in Settling \union {"err"}
    /\ pc \in {"manifest", "writing", "reread", "restore", "restoring"} =>
        job.op \in Rewriters
    /\ pc \in {"patch", "patching"} => job.op \in {"patch", "unpatch", "snapshot"}
    /\ pc \in {"repatch", "repatching"} => job.op = "snapshot"
    /\ pc \in Settling => job.op # "unpatch"

OnlyUnlocked == pc \in {"lock", "locking"} => ~Locked

\* What a command that is to fail has to put back.
RestoreInv ==
    /\ pc \in {"begun", "manifest"} => Unchanged
    /\ pc \in Settling /\ (job.ahead \/ job.op \notin Rewriters) => Unchanged
    /\ pc \in Settling \union {"writing", "reread", "restore", "restoring"} =>
        job.op = "snapshot" \/ patches = job.back
    /\ pc \in {"repatch", "repatching"} => manifest = job.text
    /\ RefusedRestores

\* Where the work patched in is while a snapshot goes on.
HandInv ==
    job.op = "snapshot" => \A n \in job.names :
        /\ pc = "writing" => patches = job.back
        /\ pc \in {"manifest", "writing"} => job.next[n] \in Commits
        /\ pc \in Settling \union {"patch", "patching", "reread", "ok"} =>
            manifest[n] \in Commits

\* What is settled is what is there, and what is chosen settles to itself.
SettledInv ==
    /\ pc \in Settling \union {"begun"} /\ ~job.ahead =>
        job.root = manifest /\ job.patched = patches
    /\ job.ahead => job.patched = job.back \ job.names
    /\ pc \in {"lock", "locking"} =>
        job.patched = {} /\ job.chosen \in Resolutions(job.root, {}, job.chosen)
    /\ pc \in {"patch", "patching"} /\ job.op = "patch" => job.write # {}
    /\ OkSettled

\* An update goes by the lock it found.
Keeps(n, new) ==
    /\ job.names # {}
    /\ n \in Design(job.root) /\ job.root[n] \notin Commits
    /\ job.found.lock \in Locks /\ job.found.lock[n] # No
    => new[n] = job.found.lock[n]
KeepInv ==
    /\ job.op = "update" =>
        /\ pc \in {"begun", "settle", "lock"} => lock = job.found.lock
        /\ pc \in {"lock", "locking"} =>
            \A n \in Names \ job.names : Keeps(n, job.chosen)
    /\ UpdateKeepsOthers

Inductive ==
    TypeOK /\ CommandInv /\ OnlyUnlocked /\ RestoreInv /\ HandInv /\ SettledInv /\ KeepInv

-----------------------------------------------------------------------------
(* A property that does not hold.                                          *)

\* While a patch is in place the lock is read and never written (P28,
\* lockfile.rs:52).
PatchedLockStays == [][patches # {} => lock' = lock]_vars
=============================================================================
