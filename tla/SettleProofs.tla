----------------------------- MODULE SettleProofs -----------------------------
(***************************************************************************)
(* What a command promises of a project's files, for any packages, needs   *)
(* and commits, any number of commands, and any faults.                    *)
(***************************************************************************)
EXTENDS Settle, FiniteSetTheorems, TLAPS

LEMMA TypeInit == Init => TypeOK
BY BoundsAssumption DEF Init, TypeOK, NoJob, NoManifest, Jobs, Commands, Steps,
    Manifests, Locks

\* What a command has read and is to write, whichever of it changes.
LEMMA JobChanges ==
    ASSUME NEW j \in Jobs
    PROVE  /\ \A next \in Manifests : [j EXCEPT !.next = next] \in Jobs
           /\ \A write \in SUBSET Names : [j EXCEPT !.write = write] \in Jobs
           /\ \A next \in Manifests, write \in SUBSET Names :
                [j EXCEPT !.next = next, !.write = write] \in Jobs
           /\ \A next \in Manifests :
                [j EXCEPT !.next = next, !.ahead = FALSE] \in Jobs
           /\ \A write \in SUBSET Names :
                [j EXCEPT !.write = write, !.ahead = FALSE] \in Jobs
           /\ \A patched \in SUBSET Names :
                [j EXCEPT !.ahead = TRUE, !.patched = patched] \in Jobs
           /\ [j EXCEPT !.whole = FALSE] \in Jobs
           /\ \A new \in Locks : [j EXCEPT !.chosen = new] \in Jobs
           /\ \A root \in Manifests, patched \in SUBSET Names :
                [j EXCEPT !.root = root, !.patched = patched] \in Jobs
<1>1. \A next \in Manifests : [j EXCEPT !.next = next] \in Jobs BY DEF Jobs
<1>2. \A write \in SUBSET Names : [j EXCEPT !.write = write] \in Jobs BY DEF Jobs
<1>3. \A next \in Manifests, write \in SUBSET Names :
        [j EXCEPT !.next = next, !.write = write] \in Jobs
  BY DEF Jobs
<1>4. \A next \in Manifests : [j EXCEPT !.next = next, !.ahead = FALSE] \in Jobs
  BY DEF Jobs
<1>5. \A write \in SUBSET Names : [j EXCEPT !.write = write, !.ahead = FALSE] \in Jobs
  BY DEF Jobs
<1>6. \A patched \in SUBSET Names :
        [j EXCEPT !.ahead = TRUE, !.patched = patched] \in Jobs
  BY DEF Jobs
<1>7. [j EXCEPT !.whole = FALSE] \in Jobs BY DEF Jobs
<1>8. \A new \in Locks : [j EXCEPT !.chosen = new] \in Jobs BY DEF Jobs
<1>9. \A root \in Manifests, patched \in SUBSET Names :
        [j EXCEPT !.root = root, !.patched = patched] \in Jobs
  BY DEF Jobs
<1> QED BY <1>1, <1>2, <1>3, <1>4, <1>5, <1>6, <1>7, <1>8, <1>9, Zenon

LEMMA NoJobIsJob == NoJob \in Jobs /\ NoManifest \in Manifests
BY DEF NoJob, NoManifest, Jobs, Commands, Manifests, Locks

LEMMA JobNext == ASSUME TypeOK, [Next]_vars PROVE job' \in Jobs
<1>1. /\ job \in Jobs /\ manifest \in Manifests /\ patches \in SUBSET Names
      /\ lock \in Locks \union {Missing, Unreadable}
  BY DEF TypeOK
<1>2. /\ job.text \in Manifests /\ job.back \in SUBSET Names
      /\ job.names \in SUBSET Names /\ job.patched \in SUBSET Names
      /\ job.chosen \in Locks
  BY <1>1 DEF Jobs
<1>3. \A n \in Names, asked \in Commits \union {AnyCommit, No} :
        [job.text EXCEPT ![n] = asked] \in Manifests
  BY <1>2 DEF Manifests
<1>4. ASSUME NEW new \in Locks, Onward(new) PROVE job' \in Jobs
  <2>1. \A n \in Names : new[n] \in Commits \union {No} BY DEF Locks
  <2>2. \A n \in Names : job.back \union {n} \in SUBSET Names BY <1>2
  <2>3. CASE job' = job BY <1>1, <2>3
  <2>4. CASE job' # job
    <3>1. PICK n \in job.names :
            \/ job' = [job EXCEPT !.write = job.back \union {n}, !.ahead = FALSE]
            \/ \E asked \in {AnyCommit, new[n]} :
                  job' = [job EXCEPT !.next = [job.text EXCEPT ![n] = asked],
                                     !.ahead = FALSE]
      BY <1>4, <2>4, Zenon DEF Onward
    <3>2. n \in Names BY <1>2
    <3>3. CASE job' = [job EXCEPT !.write = job.back \union {n}, !.ahead = FALSE]
      <4>1. job.back \union {n} \in SUBSET Names BY <2>2, <3>2
      <4> QED BY <1>1, <1>2, <3>3, <4>1, JobChanges, Zenon
    <3>4. ASSUME NEW asked \in {AnyCommit, new[n]},
                 job' = [job EXCEPT !.next = [job.text EXCEPT ![n] = asked],
                                    !.ahead = FALSE]
          PROVE  job' \in Jobs
      <4>1. [job.text EXCEPT ![n] = asked] \in Manifests BY <1>3, <2>1, <3>2
      <4> QED BY <1>1, <1>2, <3>4, <4>1, JobChanges, Zenon
    <3> QED BY <3>1, <3>3, <3>4
  <2> QED BY <2>3, <2>4
<1>5. CASE Begin
  <2>1. PICK op \in Commands, names \in SUBSET Names, locked \in BOOLEAN :
            job' = [NoJob EXCEPT !.op = op, !.names = names, !.locked = locked,
                !.text = manifest, !.back = patches, !.root = manifest,
                !.patched = patches,
                !.found = [manifest |-> manifest, lock |-> lock, patches |-> patches]]
    BY <1>5, Zenon DEF Begin
  <2> QED BY <1>1, <2>1, NoJobIsJob DEF Jobs
<1>6. CASE Add
  <2>1. PICK n \in job.names, asked \in Commits \union {AnyCommit} :
            job' = [job EXCEPT !.next = [job.text EXCEPT ![n] = asked]]
    BY <1>6, Zenon DEF Add
  <2>2. [job.text EXCEPT ![n] = asked] \in Manifests BY <1>2, <1>3
  <2> QED BY <1>1, <1>2, <2>1, <2>2, JobChanges, Zenon
<1>7. CASE AddHeld \/ Patch
  <2>1. job' = [job EXCEPT !.ahead = TRUE, !.patched = job.patched \ job.names]
    BY <1>7, <1>1 DEF AddHeld, Patch, Jobs
  <2>2. job.patched \ job.names \in SUBSET Names BY <1>2
  <2> QED BY <1>1, <1>2, <2>1, <2>2, JobChanges, Zenon
<1>8. CASE Remove
  <2> DEFINE next == [n \in Names |-> IF n \in job.names THEN No ELSE job.text[n]]
  <2>1. next \in Manifests BY <1>2 DEF Manifests
  <2>2. job' = [job EXCEPT !.next = next] BY <1>8 DEF Remove
  <2> QED BY <1>1, <1>2, <2>1, <2>2, JobChanges, Zenon
<1>9. CASE Unpatch
  <2>1. job.back \ job.names \in SUBSET Names BY <1>2
  <2> QED BY <1>1, <1>2, <1>9, <2>1, JobChanges, Zenon DEF Unpatch
<1>10. CASE Snapshot
  <2>1. PICK n \in job.names, c \in Commits :
            job' = [job EXCEPT !.next = [job.text EXCEPT ![n] = c],
                               !.write = job.back \ job.names]
    BY <1>10, Zenon DEF Snapshot
  <2>2. [job.text EXCEPT ![n] = c] \in Manifests BY <1>2, <1>3
  <2>3. job.back \ job.names \in SUBSET Names BY <1>2
  <2> QED BY <1>1, <1>2, <2>1, <2>2, <2>3, JobChanges, Zenon
<1>11. CASE Settle
  <2>1. PICK new \in Locks :
            \/ Onward(new) \/ job' = job \/ job' = [job EXCEPT !.chosen = new]
    BY <1>11 DEF Settle, Resolutions
  <2> QED BY <1>1, <1>2, <1>4, <2>1, JobChanges, Zenon
<1>12. CASE FillLock BY <1>2, <1>4, <1>12 DEF FillLock
<1>13. CASE FailWrite BY <1>1, <1>2, <1>13, JobChanges, Zenon DEF FailWrite
<1>14. CASE Reread BY <1>1, <1>2, <1>14, JobChanges, Zenon DEF Reread
<1>15. CASE End BY <1>15, NoJobIsJob DEF End
<1>16. CASE Build \/ Update \/ Refuse \/ NotSettled \/ UNCHANGED vars
  BY <1>1, <1>16 DEF Build, Update, Refuse, NotSettled, vars
<1>17. CASE \/ OpenLock \/ OpenManifest \/ FillManifest \/ Restore
            \/ OpenPatches \/ FillPatches \/ Repatch
  BY <1>1, <1>17 DEF OpenLock, OpenManifest, FillManifest, Restore, OpenPatches,
      FillPatches, Repatch
<1> QED
  BY <1>5, <1>6, <1>7, <1>8, <1>9, <1>10, <1>11, <1>12, <1>13, <1>14, <1>15,
     <1>16, <1>17 DEF Next, Asked, Writes

\* Where a command goes once it has looked at its arguments.
LEMMA Asks ==
    ASSUME Asked
    PROVE  /\ pc = "begun" /\ UNCHANGED <<manifest, lock, patches, own, commands, faults>>
           /\ \/ pc' = "settle" /\ job.op \in {"build", "update"} /\ job' = job
              \/ pc' = "err" /\ job' = job
              \/ pc' = "manifest" /\ job.op \in Rewriters /\ (Add \/ Remove \/ Snapshot)
              \/ pc' = "settle" /\ job.op \in {"add", "patch"} /\ (AddHeld \/ Patch)
              \/ pc' = "patch" /\ job.op = "unpatch" /\ Unpatch
<1> USE DEF Goto, Rewriters
<1>1. CASE Build BY <1>1 DEF Build
<1>2. CASE Update BY <1>2 DEF Update
<1>3. CASE Refuse BY <1>3 DEF Refuse
<1>4. ASSUME Add
      PROVE  /\ pc = "begun" /\ UNCHANGED <<manifest, lock, patches, own, commands, faults>>
             /\ pc' = "manifest" /\ job.op = "add"
  BY <1>4, Zenon DEF Add
<1>5. ASSUME Remove
      PROVE  /\ pc = "begun" /\ UNCHANGED <<manifest, lock, patches, own, commands, faults>>
             /\ pc' = "manifest" /\ job.op = "remove"
  BY <1>5, Zenon DEF Remove
<1>6. ASSUME Snapshot
      PROVE  /\ pc = "begun" /\ UNCHANGED <<manifest, lock, patches, own, commands, faults>>
             /\ pc' = "manifest" /\ job.op = "snapshot"
  BY <1>6, Zenon DEF Snapshot
<1>7. CASE AddHeld BY <1>7 DEF AddHeld
<1>8. CASE Patch BY <1>8 DEF Patch
<1>9. CASE Unpatch BY <1>9 DEF Unpatch
<1> QED BY <1>1, <1>2, <1>3, <1>4, <1>5, <1>6, <1>7, <1>8, <1>9 DEF Asked

LEMMA TypeNext == ASSUME TypeOK, [Next]_vars PROVE TypeOK'
<1>1. job' \in Jobs BY JobNext
<1>2. /\ manifest \in Manifests /\ patches \in SUBSET Names /\ own \in BOOLEAN
      /\ lock \in Locks \union {Missing, Unreadable} /\ pc \in Steps
      /\ commands \in 0 .. MaxCommands /\ faults \in 0 .. MaxFaults
  BY DEF TypeOK
<1>3. /\ job.text \in Manifests /\ job.next \in Manifests /\ job.chosen \in Locks
      /\ job.back \in SUBSET Names /\ job.write \in SUBSET Names
  BY DEF TypeOK, Jobs
<1>4. Refused \in Steps BY DEF Refused, Steps, Opens
<1> USE DEF Goto
<1>5. CASE Begin BY <1>1, <1>2, <1>5, BoundsAssumption DEF Begin, TypeOK, Steps
<1>6. CASE Asked
  <2>1. pc' \in {"settle", "manifest", "patch", "err"} BY <1>6, Asks
  <2>2. pc' \in Steps BY <2>1 DEF Steps, Opens
  <2> QED BY <1>1, <1>2, <1>6, <2>2, Asks DEF TypeOK
<1>7. CASE NotSettled BY <1>1, <1>2, <1>4, <1>7 DEF NotSettled, TypeOK
<1>8. ASSUME NEW new, Onward(new) PROVE pc' \in Steps
  <2>1. pc' \in {"ok", "err", "patch", "manifest"} BY <1>8, Zenon DEF Onward
  <2> QED BY <2>1 DEF Steps, Opens
<1>9. CASE Settle
  <2>1. pc' \in Steps
    <3>1. PICK new : Onward(new) \/ pc' = Refused \/ pc' = "lock"
      BY <1>9 DEF Settle
    <3> QED BY <1>4, <1>8, <3>1 DEF Steps, Opens
  <2> QED BY <1>1, <1>2, <1>9, <2>1 DEF Settle, TypeOK
<1>10. CASE OpenLock BY <1>1, <1>2, <1>10 DEF OpenLock, TypeOK, Steps, Fills
<1>11. CASE FillLock BY <1>1, <1>2, <1>3, <1>8, <1>11 DEF FillLock, TypeOK
<1>12. CASE OpenManifest
  BY <1>1, <1>2, <1>12, NoJobIsJob DEF OpenManifest, TypeOK, Steps, Fills
<1>13. CASE FillManifest
  BY <1>1, <1>2, <1>3, <1>13 DEF FillManifest, TypeOK, Steps, Opens
<1>14. CASE Restore BY <1>1, <1>2, <1>3, <1>14 DEF Restore, TypeOK, Steps, Opens
<1>15. CASE OpenPatches BY <1>1, <1>2, <1>15 DEF OpenPatches, TypeOK, Steps, Fills
<1>16. CASE FillPatches BY <1>1, <1>2, <1>3, <1>16 DEF FillPatches, TypeOK, Steps
<1>17. CASE Repatch BY <1>1, <1>2, <1>3, <1>17 DEF Repatch, TypeOK, Steps
<1>18. CASE FailWrite
  BY <1>1, <1>2, <1>4, <1>18, BoundsAssumption DEF FailWrite, TypeOK, Steps
<1>19. CASE Reread BY <1>1, <1>2, <1>19 DEF Reread, TypeOK, Steps
<1>20. CASE End BY <1>1, <1>2, <1>20, BoundsAssumption DEF End, TypeOK, Steps
<1>21. CASE UNCHANGED vars BY <1>21 DEF vars, TypeOK
<1> QED
  BY <1>5, <1>6, <1>7, <1>9, <1>10, <1>11, <1>12, <1>13, <1>14, <1>15, <1>16,
     <1>17, <1>18, <1>19, <1>20, <1>21 DEF Next, Writes

-----------------------------------------------------------------------------
(* What an action makes of what a command has read and is to write.        *)

\* What never changes while a command runs.
Given == <<job.op, job.names, job.locked, job.text, job.back, job.found>>
\* Nor do these, but where a step is about them.
Read == <<job.root, job.patched>>
Written == <<job.next, job.write, job.chosen>>

LEMMA Fields ==
    ASSUME TypeOK
    PROVE  /\ job' = job => UNCHANGED <<Given, Read, Written, job.ahead, job.whole>>
           /\ Add \/ Remove \/ Unpatch \/ Snapshot =>
                UNCHANGED <<Given, Read, job.ahead, job.whole, job.chosen>>
           /\ AddHeld \/ Patch =>
                /\ UNCHANGED <<Given, Written, job.root, job.whole>>
                /\ job'.ahead /\ job'.patched = job.patched \ job.names
           /\ FailWrite => UNCHANGED <<Given, Read, Written, job.ahead>> /\ ~job'.whole
           /\ Reread =>
                /\ UNCHANGED <<Given, Written, job.ahead, job.whole>>
                /\ job'.root = manifest /\ job'.patched = patches
           /\ Unpatch => job'.write = job.back \ job.names
           /\ Snapshot =>
                /\ job'.write = job.back \ job.names
                /\ \E n \in job.names, c \in Commits : job'.next = [job.text EXCEPT ![n] = c]
<1>1. job \in Jobs BY DEF TypeOK
<1> USE <1>1 DEF Given, Read, Written
<1>2. job' = job => UNCHANGED <<Given, Read, Written, job.ahead, job.whole>>
  OBVIOUS
<1>3. ASSUME Add PROVE UNCHANGED <<Given, Read, job.ahead, job.whole, job.chosen>>
  BY <1>3 DEF Add, Jobs
<1>4. ASSUME Remove PROVE UNCHANGED <<Given, Read, job.ahead, job.whole, job.chosen>>
  BY <1>4 DEF Remove, Jobs
<1>5. ASSUME Unpatch
      PROVE  /\ UNCHANGED <<Given, Read, job.ahead, job.whole, job.chosen>>
             /\ job'.write = job.back \ job.names
  BY <1>5 DEF Unpatch, Jobs
<1>6. ASSUME Snapshot
      PROVE  /\ UNCHANGED <<Given, Read, job.ahead, job.whole, job.chosen>>
             /\ job'.write = job.back \ job.names
             /\ \E n \in job.names, c \in Commits : job'.next = [job.text EXCEPT ![n] = c]
  BY <1>6 DEF Snapshot, Jobs
<1>7. ASSUME AddHeld \/ Patch
      PROVE  /\ UNCHANGED <<Given, Written, job.root, job.whole>>
             /\ job'.ahead /\ job'.patched = job.patched \ job.names
  BY <1>7 DEF AddHeld, Patch, Jobs
<1>8. ASSUME FailWrite
      PROVE  UNCHANGED <<Given, Read, Written, job.ahead>> /\ ~job'.whole
  BY <1>8 DEF FailWrite, Jobs
<1>9. ASSUME Reread
      PROVE  /\ UNCHANGED <<Given, Written, job.ahead, job.whole>>
             /\ job'.root = manifest /\ job'.patched = patches
  BY <1>9 DEF Reread, Jobs
<1> QED BY <1>2, <1>3, <1>4, <1>5, <1>6, <1>7, <1>8, <1>9

LEMMA Begins ==
    ASSUME Begin
    PROVE  /\ pc = "idle" /\ pc' = "begun" /\ job'.op \in Commands
           /\ job'.names \in SUBSET Names
           /\ job'.op = "snapshot" => Cardinality(job'.names) = 1
           /\ job'.text = manifest /\ job'.back = patches
           /\ job'.root = manifest /\ job'.patched = patches
           /\ job'.found = [manifest |-> manifest, lock |-> lock, patches |-> patches]
           /\ ~job'.ahead
           /\ UNCHANGED <<manifest, lock, patches>>
<1>1. PICK op \in Commands, names \in SUBSET Names, locked \in BOOLEAN :
        /\ op \in {"add", "patch", "unpatch", "snapshot"} => Cardinality(names) = 1
        /\ job' = [NoJob EXCEPT !.op = op, !.names = names, !.locked = locked,
            !.text = manifest, !.back = patches, !.root = manifest,
            !.patched = patches,
            !.found = [manifest |-> manifest, lock |-> lock, patches |-> patches]]
  BY Zenon DEF Begin
<1>2. pc = "idle" /\ pc' = "begun" /\ UNCHANGED <<manifest, lock, patches>>
  BY DEF Begin, Goto
<1> QED BY <1>1, <1>2 DEF NoJob

\* Where a command goes on that has settled.
LEMMA GoesOn ==
    ASSUME TypeOK, NEW new \in Locks, Onward(new)
    PROVE  /\ UNCHANGED <<Given, Read, job.whole, job.chosen>>
           /\ \/ job' = job /\ ~job.ahead /\ pc' = "ok"
              \/ job' = job /\ job.ahead /\ pc' = "err"
              \/ /\ job.ahead /\ job.op = "patch" /\ ~job'.ahead /\ pc' = "patch"
                 /\ job'.write # {}
              \/ job.ahead /\ job.op # "patch" /\ ~job'.ahead /\ pc' = "manifest"
<1>1. job \in Jobs BY DEF TypeOK
<1>2. CASE job' = job /\ ~job.ahead /\ pc' = "ok" BY <1>2 DEF Given, Read
<1>3. CASE job' = job /\ job.ahead /\ pc' = "err" BY <1>3 DEF Given, Read
<1>4. ASSUME job.ahead, job.op = "patch", pc' = "patch", NEW n \in job.names,
             job' = [job EXCEPT !.write = job.back \union {n}, !.ahead = FALSE]
      PROVE  /\ UNCHANGED <<Given, Read, job.whole, job.chosen>>
             /\ ~job'.ahead /\ job'.write # {}
  BY <1>1, <1>4 DEF Given, Read, Jobs
<1>5. ASSUME job.ahead, job.op # "patch", pc' = "manifest",
             NEW n \in job.names, NEW asked \in {AnyCommit, new[n]},
             job' = [job EXCEPT !.next = [job.text EXCEPT ![n] = asked],
                                !.ahead = FALSE]
      PROVE  UNCHANGED <<Given, Read, job.whole, job.chosen>> /\ ~job'.ahead
  BY <1>1, <1>5 DEF Given, Read, Jobs
<1>6. \/ job' = job /\ ~job.ahead /\ pc' = "ok"
      \/ job' = job /\ job.ahead /\ pc' = "err"
      \/ /\ job.ahead /\ job.op = "patch" /\ pc' = "patch"
         /\ \E n \in job.names :
                job' = [job EXCEPT !.write = job.back \union {n}, !.ahead = FALSE]
      \/ /\ job.ahead /\ job.op # "patch" /\ pc' = "manifest"
         /\ \E n \in job.names : \E asked \in {AnyCommit, new[n]} :
                job' = [job EXCEPT !.next = [job.text EXCEPT ![n] = asked],
                                   !.ahead = FALSE]
  BY Zenon DEF Onward, Goto
<1> QED BY <1>2, <1>3, <1>4, <1>5, <1>6, Zenon

\* Where a command goes on from settle.
SettlesTo(new) ==
    /\ UNCHANGED <<manifest, lock, patches, own>> /\ lock # Unreadable
    /\ pc = "settle"
    /\ UNCHANGED <<Given, Read, job.whole>>
    /\ \/ Onward(new) /\ Stays(new)
       \/ job' = job /\ pc' = Refused
       \/ /\ pc' = "lock" /\ UNCHANGED job.ahead /\ job.patched = {} /\ ~Locked
          /\ job'.chosen = new

LEMMA Settles ==
    ASSUME TypeOK, Settle
    PROVE  \E new \in Resolutions(job.root, job.patched, Kept) : SettlesTo(new)
<1>1. job \in Jobs BY DEF TypeOK
<1>2. PICK new \in Resolutions(job.root, job.patched, Kept) :
        \/ Onward(new) /\ Stays(new)
        \/ Goto(Refused) /\ job' = job
        \/ /\ Goto("lock") /\ job' = [job EXCEPT !.chosen = new]
           /\ job.patched = {} /\ ~Locked
  BY Zenon DEF Settle, Stays
<1>3. new \in Locks BY DEF Resolutions
<1>4. UNCHANGED <<manifest, lock, patches, own>> /\ lock # Unreadable /\ pc = "settle"
  BY DEF Settle
<1>5. ASSUME Onward(new), Stays(new) PROVE SettlesTo(new)
  <2>1. UNCHANGED <<Given, Read, job.whole>> BY <1>3, <1>5, GoesOn
  <2> QED BY <1>4, <1>5, <2>1 DEF SettlesTo
<1>6. ASSUME Goto(Refused), job' = job PROVE SettlesTo(new)
  BY <1>4, <1>6 DEF Goto, Given, Read, SettlesTo
<1>7. ASSUME Goto("lock"), job' = [job EXCEPT !.chosen = new], job.patched = {}, ~Locked
      PROVE  SettlesTo(new)
  <2>1. UNCHANGED <<Given, Read, job.whole, job.ahead>> /\ job'.chosen = new
    BY <1>1, <1>7 DEF Given, Read, Jobs
  <2> QED BY <1>4, <1>7, <2>1 DEF Goto, SettlesTo
<1>8. SettlesTo(new) BY <1>2, <1>5, <1>6, <1>7
<1> QED BY <1>8

LEMMA Ends == ASSUME End PROVE pc' = "idle" /\ job' = NoJob
BY DEF End, Goto

-----------------------------------------------------------------------------
(* The parts of the inductive invariant, each kept by every step.          *)

LEMMA CommandNext == ASSUME TypeOK, CommandInv, [Next]_vars PROVE CommandInv'
<1> USE DEF CommandInv, Settling, Rewriters, Goto, Given
<1>1. CASE Begin
  <2>1. job'.op = "snapshot" => \E n \in Names : job'.names = {n}
    <3>1. SUFFICES ASSUME job'.op = "snapshot" PROVE \E n : job'.names = {n}
      BY <1>1, Begins
    <3>2. IsFiniteSet(job'.names)
      BY <1>1, NamesAssumption, FS_Subset, Begins
    <3>3. Cardinality(job'.names) = 1 BY <1>1, <3>1, Begins
    <3> QED BY <3>2, <3>3, FS_Singleton
  <2> QED BY <1>1, <2>1, Begins
<1>2. CASE Asked
  <2>1. CASE job' = job BY <1>2, <2>1, Asks, Fields
  <2>2. CASE Add \/ Remove \/ Snapshot BY <1>2, <2>2, Asks, Fields
  <2>3. CASE AddHeld \/ Patch BY <1>2, <2>3, Asks, Fields
  <2>4. CASE Unpatch BY <1>2, <2>4, Asks, Fields
  <2> QED BY <1>2, <2>1, <2>2, <2>3, <2>4, Asks
<1>3. CASE NotSettled BY <1>3, Fields DEF NotSettled, Refused
<1>4. ASSUME NEW new \in Locks, Onward(new), pc \in Settling PROVE CommandInv'
  BY <1>4, GoesOn
<1>5. CASE Settle
  <2>1. PICK new \in Resolutions(job.root, job.patched, Kept) : SettlesTo(new)
    BY <1>5, Settles
  <2>2. new \in Locks BY DEF Resolutions
  <2>3. CASE Onward(new) BY <1>4, <2>1, <2>2, <2>3 DEF SettlesTo
  <2>4. CASE job' = job /\ pc' = Refused BY <2>1, <2>4 DEF SettlesTo, Refused
  <2>5. CASE pc' = "lock" /\ UNCHANGED job.ahead BY <2>1, <2>5 DEF SettlesTo
  <2> QED BY <2>1, <2>3, <2>4, <2>5 DEF SettlesTo
<1>6. CASE OpenLock BY <1>6 DEF OpenLock
<1>7. CASE FillLock
  <2>1. job.chosen \in Locks BY DEF TypeOK, Jobs
  <2> QED BY <1>4, <1>7, <2>1 DEF FillLock
<1>8. CASE OpenManifest BY <1>8 DEF OpenManifest
<1>9. CASE FillManifest BY <1>9 DEF FillManifest
<1>10. CASE Restore BY <1>10 DEF Restore
<1>11. CASE OpenPatches BY <1>11 DEF OpenPatches
<1>12. CASE FillPatches BY <1>12 DEF FillPatches
<1>13. CASE Repatch BY <1>13 DEF Repatch
<1>14. CASE FailWrite BY <1>14, Fields DEF FailWrite, Refused, Opens, Fills
<1>15. CASE Reread BY <1>15, Fields DEF Reread
<1>16. CASE End BY <1>16, Ends DEF NoJob
<1>17. CASE UNCHANGED vars BY <1>17 DEF vars
<1> QED
  BY <1>1, <1>2, <1>3, <1>5, <1>6, <1>7, <1>8, <1>9, <1>10, <1>11,
     <1>12, <1>13, <1>14, <1>15, <1>16, <1>17 DEF Next, Writes

LEMMA UnlockedNext ==
    ASSUME TypeOK, CommandInv, OnlyUnlocked, [Next]_vars
    PROVE  OnlyUnlocked'
<1> USE DEF OnlyUnlocked, Locked, Goto, Given
<1>1. CASE Begin BY <1>1, Begins
<1>2. CASE Asked BY <1>2, Asks
<1>3. CASE NotSettled BY <1>3 DEF NotSettled, Refused
<1>4. ASSUME NEW new \in Locks, Onward(new) PROVE OnlyUnlocked' BY <1>4, GoesOn
<1>5. CASE Settle
  <2>1. PICK new \in Resolutions(job.root, job.patched, Kept) : SettlesTo(new)
    BY <1>5, Settles
  <2>2. new \in Locks BY DEF Resolutions
  <2>3. CASE Onward(new) BY <1>4, <2>2, <2>3
  <2>4. CASE pc' # "lock" /\ pc' # "locking" BY <2>4
  <2>5. CASE ~Locked BY <2>1, <2>5 DEF SettlesTo
  <2>6. Refused \notin {"lock", "locking"} BY DEF Refused
  <2> QED BY <2>1, <2>3, <2>4, <2>5, <2>6 DEF SettlesTo
<1>6. CASE OpenLock BY <1>6 DEF OpenLock
<1>7. CASE FillLock
  <2>1. job.chosen \in Locks BY DEF TypeOK, Jobs
  <2> QED BY <1>4, <1>7, <2>1 DEF FillLock
<1>8. CASE \/ OpenManifest \/ FillManifest \/ Restore \/ OpenPatches
           \/ FillPatches \/ Repatch
  BY <1>8 DEF OpenManifest, FillManifest, Restore, OpenPatches, FillPatches, Repatch
<1>9. CASE FailWrite BY <1>9 DEF FailWrite, Refused
<1>10. CASE Reread BY <1>10 DEF Reread
<1>11. CASE End BY <1>11, Ends
<1>12. CASE UNCHANGED vars BY <1>12 DEF vars
<1> QED
  BY <1>1, <1>2, <1>3, <1>5, <1>6, <1>7, <1>8, <1>9, <1>10, <1>11, <1>12
  DEF Next, Writes

LEMMA RestoreNext ==
    ASSUME TypeOK, CommandInv, RestoreInv, [Next]_vars
    PROVE  RestoreInv'
<1> USE DEF RestoreInv, RefusedRestores, Unchanged, CommandInv, Settling, Rewriters,
    Goto, Given
<1>1. CASE Begin BY <1>1, Begins
<1>2. CASE Asked
  <2>1. CASE job' = job BY <1>2, <2>1, Asks, Fields
  <2>2. CASE Add \/ Remove \/ Snapshot BY <1>2, <2>2, Asks, Fields
  <2>3. CASE AddHeld \/ Patch BY <1>2, <2>3, Asks, Fields
  <2>4. CASE Unpatch BY <1>2, <2>4, Asks, Fields
  <2> QED BY <1>2, <2>1, <2>2, <2>3, <2>4, Asks
<1>3. CASE NotSettled BY <1>3, Fields DEF NotSettled, Refused
<1>4. ASSUME NEW new \in Locks, Onward(new), pc \in Settling,
             UNCHANGED <<manifest, patches>>
      PROVE  RestoreInv'
  BY <1>4, GoesOn
<1>5. CASE Settle
  <2>1. PICK new \in Resolutions(job.root, job.patched, Kept) : SettlesTo(new)
    BY <1>5, Settles
  <2>2. new \in Locks BY DEF Resolutions
  <2>3. CASE Onward(new) BY <1>4, <2>1, <2>2, <2>3 DEF SettlesTo
  <2>4. CASE job' = job /\ pc' = Refused BY <2>1, <2>4 DEF SettlesTo, Refused
  <2>5. CASE pc' = "lock" /\ UNCHANGED job.ahead BY <2>1, <2>5 DEF SettlesTo
  <2> QED BY <2>1, <2>3, <2>4, <2>5 DEF SettlesTo
<1>6. CASE OpenLock BY <1>6 DEF OpenLock
<1>7. CASE FillLock
  <2>1. job.chosen \in Locks BY DEF TypeOK, Jobs
  <2> QED BY <1>4, <1>7, <2>1 DEF FillLock
<1>8. CASE OpenManifest BY <1>8 DEF OpenManifest
<1>9. CASE FillManifest BY <1>9 DEF FillManifest
<1>10. CASE Restore BY <1>10 DEF Restore
<1>11. CASE OpenPatches BY <1>11 DEF OpenPatches
<1>12. CASE FillPatches BY <1>12 DEF FillPatches
<1>13. CASE Repatch BY <1>13 DEF Repatch
<1>14. CASE FailWrite BY <1>14, Fields DEF FailWrite, Refused, Opens, Fills
<1>15. CASE Reread BY <1>15, Fields DEF Reread
<1>16. CASE End BY <1>16, Ends DEF NoJob
<1>17. CASE UNCHANGED vars BY <1>17 DEF vars
<1> QED
  BY <1>1, <1>2, <1>3, <1>5, <1>6, <1>7, <1>8, <1>9, <1>10, <1>11, <1>12, <1>13,
     <1>14, <1>15, <1>16, <1>17 DEF Next, Writes

LEMMA HandNext ==
    ASSUME TypeOK, CommandInv, RestoreInv, HandInv, [Next]_vars
    PROVE  HandInv'
<1> USE DEF HandInv, CommandInv, Settling, Rewriters, Goto, Given
<1>1. CASE Begin BY <1>1, Begins
<1>2. CASE Asked
  <2>1. CASE job' = job /\ pc' \in {"settle", "err"} BY <1>2, <2>1, Asks
  <2>2. CASE Snapshot
    <3>1. PICK n \in job.names, c \in Commits : job'.next = [job.text EXCEPT ![n] = c]
      BY <2>2, Fields
    <3>2. job.names = {n} /\ n \in Names /\ job.text \in [Names -> Commits \union {AnyCommit, No}]
      BY <2>2, <3>1 DEF Snapshot, TypeOK, Jobs, Manifests
    <3>3. \A m \in job.names : job'.next[m] \in Commits BY <3>1, <3>2
    <3> QED BY <1>2, <2>2, <3>3, Asks, Fields
  <2>3. CASE Add \/ Remove \/ AddHeld \/ Patch \/ Unpatch
    BY <2>3, Fields DEF Add, Remove, AddHeld, Patch, Unpatch
  <2> QED BY <1>2, <2>1, <2>2, <2>3, Asks
<1>3. CASE NotSettled BY <1>3 DEF NotSettled, Refused
<1>4. ASSUME NEW new \in Locks, Onward(new), pc \in Settling, UNCHANGED manifest
      PROVE  HandInv'
  BY <1>4, GoesOn
<1>5. CASE Settle
  <2>1. PICK new \in Resolutions(job.root, job.patched, Kept) : SettlesTo(new)
    BY <1>5, Settles
  <2>2. new \in Locks BY DEF Resolutions
  <2>3. CASE Onward(new) BY <1>4, <2>1, <2>2, <2>3 DEF SettlesTo
  <2>4. CASE job' = job /\ pc' = Refused BY <2>1, <2>4 DEF SettlesTo, Refused
  <2>5. CASE pc' = "lock" BY <2>1, <2>5 DEF SettlesTo
  <2> QED BY <2>1, <2>3, <2>4, <2>5 DEF SettlesTo
<1>6. CASE OpenLock BY <1>6 DEF OpenLock
<1>7. CASE FillLock
  <2>1. job.chosen \in Locks BY DEF TypeOK, Jobs
  <2> QED BY <1>4, <1>7, <2>1 DEF FillLock
<1>8. CASE OpenManifest BY <1>8 DEF OpenManifest, RestoreInv, Unchanged
<1>9. CASE FillManifest BY <1>9 DEF FillManifest
<1>10. CASE Restore BY <1>10 DEF Restore
<1>11. CASE OpenPatches BY <1>11 DEF OpenPatches
<1>12. CASE FillPatches BY <1>12 DEF FillPatches
<1>13. CASE Repatch BY <1>13 DEF Repatch
<1>14. CASE FailWrite BY <1>14, Fields DEF FailWrite, Refused, Opens, Fills
<1>15. CASE Reread BY <1>15, Fields DEF Reread
<1>16. CASE End BY <1>16, Ends DEF NoJob
<1>17. CASE UNCHANGED vars BY <1>17 DEF vars
<1> QED
  BY <1>1, <1>2, <1>3, <1>5, <1>6, <1>7, <1>8, <1>9, <1>10, <1>11, <1>12, <1>13,
     <1>14, <1>15, <1>16, <1>17 DEF Next, Writes

\* What a resolution over any lock chooses is chosen over itself.
LEMMA SettlesAgain ==
    ASSUME NEW root \in Manifests, NEW preferred, NEW new \in Resolutions(root, {}, preferred)
    PROVE  new \in Resolutions(root, {}, new)
BY DEF Resolutions

LEMMA Chosen ==
    ASSUME NEW new \in Locks
    PROVE  Preferred(new) = new /\ new # Unreadable
BY ValuesAssumption DEF Preferred

LEMMA SettledNext ==
    ASSUME TypeOK, CommandInv, RestoreInv, SettledInv, [Next]_vars
    PROVE  SettledInv'
<1>0. job.root \in Manifests /\ job.chosen \in Locks BY DEF TypeOK, Jobs
<1> USE DEF SettledInv, OkSettled, CommandInv, Settling, Rewriters, Goto, Given, Read
<1>1. CASE Begin BY <1>1, Begins
<1>2. CASE Asked
  <2>1. CASE job' = job BY <1>2, <2>1, Asks
  <2>2. CASE Add \/ Remove \/ Snapshot BY <1>2, <2>2, Asks, Fields
  <2>3. CASE AddHeld \/ Patch
    <3>1. pc = "begun" /\ ~job.ahead /\ job.patched = patches /\ patches = job.back
      BY <1>2, Asks DEF RestoreInv, Unchanged
    <3>2. job'.patched = job.back \ job.names /\ UNCHANGED Given BY <2>3, <3>1, Fields
    <3> QED BY <1>2, <2>3, <3>1, <3>2, Asks, Fields
  <2>4. CASE Unpatch BY <1>2, <2>4, Asks, Fields
  <2> QED BY <1>2, <2>1, <2>2, <2>3, <2>4, Asks
<1>3. CASE NotSettled BY <1>3 DEF NotSettled, Refused
<1>4. CASE Settle
  <2>1. PICK new \in Resolutions(job.root, job.patched, Kept) : SettlesTo(new)
    BY <1>4, Settles
  <2>2. new \in Locks BY DEF Resolutions
  <2>3. CASE Onward(new) /\ Stays(new)
    <3>1. CASE pc' # "ok" BY <2>1, <2>2, <2>3, <3>1, GoesOn DEF SettlesTo
    <3>2. CASE pc' = "ok"
      <4>1. job' = job /\ ~job.ahead BY <2>2, <2>3, <3>2, GoesOn
      <4>2. job.root = manifest /\ job.patched = patches /\ UNCHANGED <<manifest, lock, patches, own>>
        BY <2>1, <4>1 DEF SettlesTo
      <4>3. ASSUME patches = {}, own \/ job.op = "update"
            PROVE  lock # Unreadable /\ Settled
        <5>1. new = Preferred(lock) BY <2>3, <4>2, <4>3 DEF Stays
        <5>2. new \in Resolutions(manifest, {}, new) BY <1>0, <4>2, <4>3, SettlesAgain
        <5> QED BY <2>1, <5>1, <5>2 DEF Settled, SettlesTo
      <4> QED BY <3>2, <4>1, <4>2, <4>3 DEF Settled
    <3> QED BY <3>1, <3>2
  <2>4. CASE job' = job /\ pc' = Refused BY <2>1, <2>4 DEF SettlesTo, Refused
  <2>5. CASE pc' = "lock" /\ UNCHANGED job.ahead /\ job.patched = {} /\ job'.chosen = new
    <3>1. new \in Resolutions(job.root, {}, new) BY <1>0, <2>5, SettlesAgain
    <3> QED BY <2>1, <2>5, <3>1 DEF SettlesTo
  <2> QED BY <2>1, <2>3, <2>4, <2>5 DEF SettlesTo
<1>5. CASE OpenLock BY <1>5 DEF OpenLock
<1>6. CASE FillLock
  <2>1. Onward(job.chosen) /\ pc = "locking" /\ lock' = job.chosen
        /\ UNCHANGED <<manifest, patches, own>>
    BY <1>6 DEF FillLock
  <2>2. Preferred(lock') = job.chosen /\ lock' # Unreadable BY <1>0, <2>1, Chosen
  <2>3. CASE pc' # "ok" BY <1>0, <2>1, <2>3, GoesOn
  <2>4. CASE pc' = "ok"
    <3>1. job' = job /\ ~job.ahead BY <1>0, <2>1, <2>4, GoesOn
    <3>2. job.chosen \in Resolutions(manifest, {}, job.chosen) BY <2>1, <3>1
    <3> QED BY <2>1, <2>2, <2>4, <3>1, <3>2 DEF Settled, Preferred
  <2> QED BY <2>3, <2>4
<1>7. CASE OpenManifest BY <1>7 DEF OpenManifest
<1>8. CASE FillManifest BY <1>8 DEF FillManifest
<1>9. CASE Restore BY <1>9 DEF Restore
<1>10. CASE OpenPatches BY <1>10 DEF OpenPatches
<1>11. CASE FillPatches BY <1>11 DEF FillPatches
<1>12. CASE Repatch BY <1>12 DEF Repatch
<1>13. CASE FailWrite BY <1>13, Fields DEF FailWrite, Refused, Opens, Fills, Written
<1>14. CASE Reread BY <1>14, Fields DEF Reread
<1>15. CASE End BY <1>15, Ends DEF NoJob
<1>16. CASE UNCHANGED vars BY <1>16 DEF vars, Settled
<1> QED
  BY <1>1, <1>2, <1>3, <1>4, <1>5, <1>6, <1>7, <1>8, <1>9, <1>10, <1>11, <1>12, <1>13,
     <1>14, <1>15, <1>16 DEF Next, Writes

LEMMA KeepNext ==
    ASSUME TypeOK, CommandInv, SettledInv, KeepInv, [Next]_vars
    PROVE  KeepInv'
<1> USE DEF KeepInv, Keeps, UpdateKeepsOthers, CommandInv, Settling, Rewriters, Goto,
    Given, Read
<1>1. CASE Begin BY <1>1, Begins
<1>2. CASE Asked
  <2>1. CASE job' = job BY <1>2, <2>1, Asks
  <2>2. CASE Add \/ Remove \/ Snapshot BY <1>2, <2>2, Asks, Fields
  <2>3. CASE AddHeld \/ Patch BY <1>2, <2>3, Asks, Fields
  <2>4. CASE Unpatch BY <1>2, <2>4, Asks, Fields
  <2> QED BY <1>2, <2>1, <2>2, <2>3, <2>4, Asks
<1>3. CASE NotSettled BY <1>3 DEF NotSettled, Refused
<1>4. CASE Settle
  <2>1. PICK new \in Resolutions(job.root, job.patched, Kept) : SettlesTo(new)
    BY <1>4, Settles
  <2>2. new \in Locks BY DEF Resolutions
  <2>3. ASSUME job.op = "update"
        PROVE  /\ job.root = manifest /\ lock = job.found.lock
               /\ \A n \in Names \ job.names : job.patched = {} => Keeps(n, new)
    <3>1. ~job.ahead BY <2>3
    <3>2. job.root = manifest /\ lock = job.found.lock
      BY <2>1, <2>3, <3>1 DEF SettledInv, SettlesTo
    <3>3. ASSUME NEW n \in Names \ job.names, job.patched = {}, job.names # {},
                 n \in Design(job.root), job.root[n] \notin Commits,
                 job.found.lock \in Locks, job.found.lock[n] # No
          PROVE  new[n] = job.found.lock[n]
      <4>1. Kept[n] = lock[n]
        BY <2>3, <3>2, <3>3, ValuesAssumption DEF Kept, Preferred
      <4> QED BY <3>2, <3>3, <4>1 DEF Resolutions
    <3> QED BY <3>2, <3>3
  <2>4. CASE Onward(new) /\ Stays(new)
    <3>1. CASE job.op # "update" BY <2>1, <2>2, <2>4, <3>1, GoesOn DEF SettlesTo
    <3>2. CASE job.op = "update"
      <4>1. ~ (job.patched # {} /\ job.op = "update") BY <1>4 DEF Settle
      <4>2. job.patched = {} /\ new = Preferred(lock) BY <2>4, <3>2, <4>1 DEF Stays
      <4>3. job' = job /\ pc' = "ok" BY <2>2, <2>4, <3>2, GoesOn
      <4> QED BY <2>1, <2>3, <3>2, <4>2, <4>3, ValuesAssumption DEF SettlesTo, Preferred
    <3> QED BY <3>1, <3>2
  <2>5. CASE job' = job /\ pc' = Refused BY <2>1, <2>5 DEF SettlesTo, Refused
  <2>6. CASE pc' = "lock" /\ UNCHANGED job.ahead /\ job.patched = {} /\ job'.chosen = new
    BY <2>1, <2>3, <2>6 DEF SettlesTo
  <2> QED BY <2>1, <2>4, <2>5, <2>6 DEF SettlesTo
<1>5. CASE OpenLock BY <1>5 DEF OpenLock
<1>6. CASE FillLock
  <2>1. Onward(job.chosen) /\ pc = "locking" /\ lock' = job.chosen /\ UNCHANGED manifest
    BY <1>6 DEF FillLock
  <2>2. job.chosen \in Locks BY DEF TypeOK, Jobs
  <2>3. CASE job.op # "update" BY <2>1, <2>2, <2>3, GoesOn
  <2>4. CASE job.op = "update"
    <3>1. job' = job /\ pc' = "ok" /\ job.root = manifest
      BY <2>1, <2>2, <2>4, GoesOn DEF SettledInv
    <3> QED BY <2>1, <2>4, <3>1
  <2> QED BY <2>3, <2>4
<1>7. CASE OpenManifest BY <1>7 DEF OpenManifest
<1>8. CASE FillManifest BY <1>8 DEF FillManifest
<1>9. CASE Restore BY <1>9 DEF Restore
<1>10. CASE OpenPatches BY <1>10 DEF OpenPatches
<1>11. CASE FillPatches BY <1>11 DEF FillPatches
<1>12. CASE Repatch BY <1>12 DEF Repatch
<1>13. CASE FailWrite BY <1>13, Fields DEF FailWrite, Refused, Opens, Fills, Written
<1>14. CASE Reread BY <1>14, Fields DEF Reread
<1>15. CASE End BY <1>15, Ends DEF NoJob
<1>16. CASE UNCHANGED vars BY <1>16 DEF vars
<1> QED
  BY <1>1, <1>2, <1>3, <1>4, <1>5, <1>6, <1>7, <1>8, <1>9, <1>10, <1>11, <1>12, <1>13,
     <1>14, <1>15, <1>16 DEF Next, Writes

-----------------------------------------------------------------------------
(* The theorems.                                                           *)

\* The files, and what a command has read of them, are of their types
\* (lockfile.rs, cmd/*.rs).
THEOREM TypeCorrect == Spec => []TypeOK
<1>1. Init => TypeOK BY TypeInit
<1>2. TypeOK /\ [Next]_vars => TypeOK' BY TypeNext
<1> QED BY <1>1, <1>2, PTL DEF Spec

LEMMA InductiveInit == Init => Inductive
<1> SUFFICES ASSUME Init PROVE Inductive OBVIOUS
<1>1. pc = "idle" /\ job = NoJob BY DEF Init
<1>2. CommandInv BY <1>1 DEF CommandInv, NoJob, Settling
<1>3. OnlyUnlocked BY <1>1 DEF OnlyUnlocked
<1>4. RestoreInv BY <1>1 DEF RestoreInv, RefusedRestores, Settling
<1>5. HandInv BY <1>1 DEF HandInv, Settling
<1>6. SettledInv BY <1>1 DEF SettledInv, OkSettled, Settling, NoJob
<1>7. KeepInv BY <1>1 DEF KeepInv, UpdateKeepsOthers
<1> QED BY TypeInit, <1>2, <1>3, <1>4, <1>5, <1>6, <1>7 DEF Inductive

LEMMA InductiveNext == Inductive /\ [Next]_vars => Inductive'
BY TypeNext, CommandNext, UnlockedNext, RestoreNext, HandNext, SettledNext, KeepNext
DEF Inductive

\* At every step the files are related to what the command has read of them
\* as the inductive invariant has it.
THEOREM Invariance == Spec => []Inductive
BY InductiveInit, InductiveNext, PTL DEF Spec

\* A command that fails though no write did leaves the manifest and the
\* patches as it found them (lockfile.rs, rewrite; snapshot.rs).
THEOREM RefusedCommandsRestore == Spec => []RefusedRestores
<1>1. Inductive => RefusedRestores BY DEF Inductive, RestoreInv
<1> QED BY <1>1, Invariance, PTL

\* A command that succeeds leaves a lock that --locked would accept.
THEOREM SuccessSettles == Spec => []OkSettled
<1>1. Inductive => OkSettled BY DEF Inductive, SettledInv
<1> QED BY <1>1, Invariance, PTL

\* An update of packages by name moves no other (update.rs).
THEOREM UpdateMovesOnlyNamed == Spec => []UpdateKeepsOthers
<1>1. Inductive => UpdateKeepsOthers BY DEF Inductive, KeepInv
<1> QED BY <1>1, Invariance, PTL

\* A snapshot is never without the work patched in while it goes well
\* (snapshot.rs, write_requirement before the patch is dropped).
THEOREM SnapshotKeepsWork == Spec => []SnapshotHandsOver
<1>1. Inductive => SnapshotHandsOver
  BY DEF Inductive, TypeOK, Steps, Opens, Fills, CommandInv, RestoreInv, HandInv,
      SnapshotHandsOver, Unchanged, Settling
<1> QED BY <1>1, Invariance, PTL

\* The lock is written at two steps.
LEMMA LockWrites ==
    ASSUME [Next]_vars, lock' # lock
    PROVE  pc \in {"lock", "locking"}
<1>1. CASE Begin BY <1>1, Begins
<1>2. CASE Asked BY <1>2, Asks
<1>3. CASE NotSettled \/ Reread \/ End \/ Settle
  BY <1>3 DEF NotSettled, Reread, End, Settle
<1>4. CASE Writes
  BY <1>4 DEF Writes, OpenLock, FillLock, OpenManifest, FillManifest, Restore,
      OpenPatches, FillPatches, Repatch, FailWrite
<1> QED BY <1>1, <1>2, <1>3, <1>4 DEF Next, vars

\* No command told to keep the lock writes it (lockfile.rs, --locked).
THEOREM LockedLockStays == Spec => LockedKeepsLock
<1>1. ASSUME Inductive, [Next]_vars, job.locked /\ job.op # "snapshot"
      PROVE  lock' = lock
  BY <1>1, LockWrites DEF Inductive, OnlyUnlocked, Locked
<1>2. Inductive /\ [Next]_vars => [job.locked /\ job.op # "snapshot" => lock' = lock]_vars
  BY <1>1
<1> QED BY <1>2, Invariance, PTL DEF Spec, LockedKeepsLock

\* With a patch in place the lock is written only by a command that looks for
\* the one package patched, as if it were not (lockfile.rs, settle; patch.rs).
THEOREM PatchedLockKept == Spec => PatchesKeepLock
<1>1. ASSUME Inductive, [Next]_vars, patches # {}, lock' # lock
      PROVE  job.ahead /\ job.op \in {"patch", "add"} /\ patches \subseteq job.names
  <2>1. pc \in {"lock", "locking"} BY <1>1, LockWrites
  <2>2. job.patched = {} BY <1>1, <2>1 DEF Inductive, SettledInv
  <2>3. job.ahead BY <1>1, <2>1, <2>2 DEF Inductive, SettledInv, Settling
  <2>4. job.op \in {"patch", "add"} BY <1>1, <2>3 DEF Inductive, CommandInv
  <2>5. patches = job.back
    BY <1>1, <2>1, <2>3 DEF Inductive, RestoreInv, Unchanged, Settling
  <2>6. job.patched = job.back \ job.names BY <1>1, <2>3 DEF Inductive, SettledInv
  <2> QED BY <2>2, <2>3, <2>4, <2>5, <2>6
<1>2. Inductive /\ [Next]_vars =>
        [patches # {} =>
            \/ lock' = lock
            \/ job.ahead /\ job.op \in {"patch", "add"} /\ patches \subseteq job.names]_vars
  BY <1>1
<1> QED BY <1>2, Invariance, PTL DEF Spec, PatchesKeepLock
=============================================================================
