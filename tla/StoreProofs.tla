----------------------------- MODULE StoreProofs -----------------------------
(***************************************************************************)
(* What the store's locks keep, for any number of runs, repositories and   *)
(* commits, and what a run can rely on: that it never waits for itself,    *)
(* that what it reads without a lock stays, that a clean empties the cache *)
(* alone, and that the store keeps its promise.                            *)
(***************************************************************************)
EXTENDS StoreClean, StoreRefinement, TLAPS

LEMMA TypeInit == Init => TypeOK
BY BoundsAssumption DEF Init, TypeOK, Amount, Phases, Steps

LEMMA TypeNext == ASSUME TypeOK, [Next]_vars PROVE TypeOK'
<1> USE DEF TypeOK, Amount, Goto, Drop, DropAll, disk, choice
<1> USE DEF Phases, Steps, Opening, Writing
<1>1. ASSUME NEW r \in Runs, NEW k \in Repos, Opens(r, k) PROVE TypeOK'
  <2>1. CASE CreateLock(r, k) BY <2>1 DEF CreateLock
  <2>2. CASE TakeLock(r, k) BY <2>2 DEF TakeLock
  <2>3. CASE Look(r, k) BY <2>3 DEF Look
  <2>4. CASE InitClone(r, k) BY <2>4 DEF InitClone
  <2>5. CASE FillClone(r, k) BY <2>5 DEF FillClone
  <2>6. CASE PlaceClone(r, k) BY <2>6 DEF PlaceClone
  <2>7. CASE Trust(r, k) BY <2>7 DEF Trust
  <2>8. CASE OpenMirror(r, k) BY <2>8 DEF OpenMirror
  <2>9. CASE Fetch(r, k) BY <2>9 DEF Fetch
  <2>10. CASE Close(r, k) BY <2>10 DEF Close
  <2> QED BY <1>1, <2>1, <2>2, <2>3, <2>4, <2>5, <2>6, <2>7, <2>8, <2>9, <2>10 DEF Opens
<1>2. ASSUME NEW r \in Runs, NEW k \in Repos, ChecksOut(r, k) PROVE TypeOK'
  <2>1. CASE CheckOut(r, k) BY <2>1 DEF CheckOut
  <2>2. CASE InitCheckout(r, k) BY <2>2 DEF InitCheckout
  <2>3. CASE FillCheckout(r, k) BY <2>3 DEF FillCheckout
  <2>4. CASE PlaceCheckout(r, k) BY <2>4 DEF PlaceCheckout
  <2>5. CASE ReadList(r, k)
    <3>1. list[k][commit[r][k]] \in Amount OBVIOUS
    <3>2. got' \in [Runs -> [Repos -> Amount]] BY <2>5, <3>1 DEF ReadList
    <3> QED BY <2>5, <3>2 DEF ReadList
  <2>6. CASE MissList(r, k) BY <2>6 DEF MissList
  <2>7. CASE Seal(r, k) BY <2>7 DEF Seal
  <2>8. CASE CreateList(r, k) BY <2>8 DEF CreateList
  <2>9. CASE FillList(r, k) BY <2>9 DEF FillList
  <2> QED BY <1>2, <2>1, <2>2, <2>3, <2>4, <2>5, <2>6, <2>7, <2>8, <2>9 DEF ChecksOut
<1>3. ASSUME NEW r \in Runs, Proceeds(r) PROVE TypeOK'
  <2>1. CASE Begin(r) BY <2>1 DEF Begin
  <2>2. CASE Resolve(r) BY <2>2 DEF Resolve
  <2>3. CASE Restart(r) BY <2>3 DEF Restart
  <2>4. CASE Solve(r) BY <2>4 DEF Solve
  <2>5. CASE GiveUp(r) BY <2>5 DEF GiveUp
  <2>6. CASE Walk(r) BY <2>6 DEF Walk
  <2>7. CASE Finish(r) BY <2>7 DEF Finish
  <2> QED BY <1>3, <2>1, <2>2, <2>3, <2>4, <2>5, <2>6, <2>7 DEF Proceeds
<1>4. ASSUME NEW r \in Runs, NEW k \in Repos, Fail(r, k) PROVE TypeOK'
  BY <1>4 DEF Fail
<1>5. ASSUME NEW r \in Runs, Crash(r) PROVE TypeOK'
  BY <1>5 DEF Crash
<1>6. CASE UNCHANGED vars BY <1>6 DEF vars
<1> QED BY <1>1, <1>2, <1>3, <1>4, <1>5, <1>6 DEF Next, Step

\* Every variable keeps to its type, for any number of runs and repositories.
THEOREM TypeCorrect == Spec => []TypeOK
<1>1. Init => TypeOK BY TypeInit
<1>2. TypeOK /\ [Next]_vars => TypeOK' BY TypeNext
<1> QED BY <1>1, <1>2, PTL DEF Spec

-----------------------------------------------------------------------------
(* Who holds which lock.  Three lemmas say what the three ways a step      *)
(* touches the locks keep: moving on with the lock held, dropping one      *)
(* mirror and dropping them all.                                           *)

LEMMA LockMovesOn ==
    ASSUME TypeOK, LockInv,
           NEW r \in Runs, NEW k \in Repos, NEW step \in Locked,
           Holds(r, k), Goto(r, k, step), UNCHANGED <<lockFile, holder, handle>>
    PROVE  LockInv'
<1>1. \A s \in Runs, j \in Repos : (s # r \/ j # k) => at'[s][j] = at[s][j]
  BY DEF Goto, TypeOK
<1>2. at'[r][k] = step BY DEF Goto, TypeOK
<1>3. step # "wait" BY DEF Locked, Opening, Writing
<1> QED BY <1>1, <1>2, <1>3 DEF LockInv, Holds

LEMMA LockDrop ==
    ASSUME TypeOK, LockInv,
           NEW r \in Runs, NEW k \in Repos, NEW step \in {"failed", "out"},
           Holds(r, k), Drop(r, k, step), UNCHANGED lockFile
    PROVE  LockInv'
<1>1. \A s \in Runs, j \in Repos :
        (s # r \/ j # k) => at'[s][j] = at[s][j] /\ handle'[s][j] = handle[s][j]
  BY DEF Drop, Goto, TypeOK
<1>2. at'[r][k] = step /\ handle'[r][k] = NoFile BY DEF Drop, Goto, TypeOK
<1>3. step # "wait" /\ step \notin Locked BY DEF Locked, Opening, Writing
<1>4. \A i \in Inodes : i # handle[r][k] => holder'[i] = holder[i]
  BY DEF Drop, TypeOK
<1>5. ASSUME NEW s \in Runs, NEW j \in Repos, s # r \/ j # k, Holds(s, j)
      PROVE  handle[s][j] # handle[r][k] /\ handle[s][j] \in Inodes
  BY <1>5 DEF LockInv, TypeOK
<1> QED BY <1>1, <1>2, <1>3, <1>4, <1>5 DEF LockInv, Holds

LEMMA LockDropAll ==
    ASSUME TypeOK, LockInv, NEW r \in Runs, DropAll(r), UNCHANGED lockFile
    PROVE  LockInv'
<1>1. \A s \in Runs, j \in Repos :
        s # r => at'[s][j] = at[s][j] /\ handle'[s][j] = handle[s][j]
  BY DEF DropAll, TypeOK
<1>2. \A j \in Repos : at'[r][j] = "idle" /\ handle'[r][j] = NoFile
  BY DEF DropAll, TypeOK
<1>3. "idle" # "wait" /\ "idle" \notin Locked BY DEF Locked, Opening, Writing
<1>4. \A i \in Inodes : holder[i] # r => holder'[i] = holder[i] BY DEF DropAll
<1>5. \A s \in Runs, j \in Repos : Holds(s, j) => handle[s][j] \in Inodes
  BY DEF LockInv, TypeOK
<1> QED BY <1>1, <1>2, <1>3, <1>4, <1>5 DEF LockInv, Holds

LEMMA LockInit == Init => LockInv
BY DEF Init, LockInv, Holds, Locked, Opening, Writing

LEMMA LockNext == ASSUME TypeOK, LockInv, [Next]_vars PROVE LockInv'
<1> USE DEF disk, choice
<1>1. ASSUME NEW r \in Runs, NEW k \in Repos, Opens(r, k) PROVE LockInv'
  <2>1. CASE CreateLock(r, k)
    <3>1. PICK i \in Inodes :
            /\ IF lockFile[k] = NoFile THEN Unused(i) ELSE i = lockFile[k]
            /\ lockFile' = [lockFile EXCEPT ![k] = i]
            /\ handle' = [handle EXCEPT ![r][k] = i]
      BY <2>1 DEF CreateLock
    <3>2. Goto(r, k, "wait") /\ holder' = holder BY <2>1 DEF CreateLock
    <3>3. i # NoFile BY InodesAssumption
    <3>4. \A s \in Runs, j \in Repos :
            (s # r \/ j # k) => at'[s][j] = at[s][j] /\ handle'[s][j] = handle[s][j]
      BY <3>1, <3>2 DEF Goto, TypeOK
    <3>5. at'[r][k] = "wait" /\ handle'[r][k] = i /\ lockFile'[k] = i
      BY <3>1, <3>2 DEF Goto, TypeOK
    <3>6. \A j \in Repos : j # k => lockFile'[j] = lockFile[j] /\ lockFile[j] # i
      BY <3>1, <3>3 DEF TypeOK, LockInv, Unused
    <3>7. lockFile[k] = NoFile => \A s \in Runs : handle[s][k] = NoFile
      BY DEF LockInv
    <3>8. lockFile[k] # NoFile => lockFile'[k] = lockFile[k] BY <3>1, <3>5
    <3>9. "wait" \notin Locked BY DEF Locked, Opening, Writing
    <3> QED BY <3>2, <3>3, <3>4, <3>5, <3>6, <3>7, <3>8, <3>9 DEF LockInv, Holds
  <2>2. CASE TakeLock(r, k)
    <3>1. handle[r][k] \in Inodes BY <2>2 DEF TakeLock, LockInv, TypeOK
    <3>2. /\ at[r][k] = "wait" /\ holder[handle[r][k]] = Nobody
          /\ holder' = [holder EXCEPT ![handle[r][k]] = r]
          /\ Goto(r, k, "look") /\ UNCHANGED <<lockFile, handle>>
      BY <2>2 DEF TakeLock
    <3>3. \A s \in Runs, j \in Repos : (s # r \/ j # k) => at'[s][j] = at[s][j]
      BY <3>2 DEF Goto, TypeOK
    <3>4. at'[r][k] = "look" /\ holder'[handle[r][k]] = r
      BY <3>1, <3>2 DEF Goto, TypeOK
    <3>5. \A s \in Runs, j \in Repos :
            Holds(s, j) => holder'[handle[s][j]] = holder[handle[s][j]]
      BY <3>1, <3>2, RunsAssumption DEF LockInv, TypeOK
    <3> QED BY <3>2, <3>3, <3>4, <3>5 DEF LockInv, Holds
  <2>3. CASE ~ (CreateLock(r, k) \/ TakeLock(r, k) \/ Close(r, k))
    <3>1. Holds(r, k) /\ UNCHANGED <<lockFile, holder, handle>>
      BY <1>1, <2>3
      DEF Opens, Look, InitClone, FillClone, PlaceClone, Trust, OpenMirror, Fetch,
          Holds, Locked, Opening
    <3>2. PICK step \in Locked : Goto(r, k, step)
      BY <1>1, <2>3
      DEF Opens, Look, InitClone, FillClone, PlaceClone, Trust, OpenMirror, Fetch,
          Locked, Opening
    <3> QED BY <3>1, <3>2, LockMovesOn
  <2>4. CASE Close(r, k)
    <3>1. Holds(r, k) /\ Drop(r, k, "out") /\ UNCHANGED lockFile
      BY <2>4 DEF Close, Holds, Locked
    <3> QED BY <3>1, LockDrop
  <2> QED BY <2>1, <2>2, <2>3, <2>4
<1>2. ASSUME NEW r \in Runs, NEW k \in Repos, ChecksOut(r, k) PROVE LockInv'
  <2>1. CASE ReadList(r, k) \/ FillList(r, k)
    <3>1. Holds(r, k) /\ Drop(r, k, "out") /\ UNCHANGED lockFile
      BY <2>1 DEF ReadList, FillList, Holds, Locked, Writing
    <3> QED BY <3>1, LockDrop
  <2>2. CASE ~ (ReadList(r, k) \/ FillList(r, k))
    <3>1. Holds(r, k) /\ UNCHANGED <<lockFile, holder, handle>>
      BY <1>2, <2>2
      DEF ChecksOut, CheckOut, InitCheckout, FillCheckout, PlaceCheckout, MissList,
          Seal, CreateList, Holds, Locked, Writing
    <3>2. PICK step \in Locked : Goto(r, k, step)
      BY <1>2, <2>2
      DEF ChecksOut, CheckOut, InitCheckout, FillCheckout, PlaceCheckout, MissList,
          Seal, CreateList, Locked, Writing
    <3> QED BY <3>1, <3>2, LockMovesOn
  <2> QED BY <2>1, <2>2
<1>3. ASSUME NEW r \in Runs, Proceeds(r) PROVE LockInv'
  <2>1. CASE Begin(r) \/ Walk(r)
    <3>1. UNCHANGED <<lockFile, holder, handle, at>> BY <2>1 DEF Begin, Walk
    <3> QED BY <3>1 DEF LockInv, Holds
  <2>2. CASE ~ (Begin(r) \/ Walk(r))
    <3>1. DropAll(r) /\ UNCHANGED lockFile
      BY <1>3, <2>2 DEF Proceeds, Resolve, Restart, Solve, GiveUp, Finish
    <3> QED BY <3>1, LockDropAll
  <2> QED BY <2>1, <2>2
<1>4. ASSUME NEW r \in Runs, NEW k \in Repos, Fail(r, k) PROVE LockInv'
  <2>1. Holds(r, k) BY <1>4 DEF Fail, Missing, Holds, Locked, Opening, Writing
  <2>2. Drop(r, k, "failed") /\ UNCHANGED lockFile BY <1>4 DEF Fail
  <2> QED BY <2>1, <2>2, LockDrop
<1>5. ASSUME NEW r \in Runs, Crash(r) PROVE LockInv'
  <2>1. DropAll(r) /\ UNCHANGED lockFile BY <1>5 DEF Crash
  <2> QED BY <2>1, LockDropAll
<1>6. CASE UNCHANGED vars BY <1>6 DEF vars, LockInv, Holds
<1> QED BY <1>1, <1>2, <1>3, <1>4, <1>5, <1>6 DEF Next, Step

LEMMA LockExcludes == TypeOK /\ LockInv => OneWriter
BY DEF LockInv, OneWriter, Holds

\* However many runs share the store, and wherever they are killed, no two are
\* past the lock of one mirror at once.
THEOREM MutualExclusion == Spec => []OneWriter
<1>1. Init => TypeOK /\ LockInv BY TypeInit, LockInit
<1>2. TypeOK /\ LockInv /\ [Next]_vars => (TypeOK /\ LockInv)'
  BY TypeNext, LockNext
<1>3. TypeOK /\ LockInv => OneWriter BY LockExcludes
<1> QED BY <1>1, <1>2, <1>3, PTL DEF Spec

-----------------------------------------------------------------------------
(* What the disk holds.  Steps that write rely on the lock: what a run is  *)
(* about to put in place is nobody else's to touch.                        *)

DiskInv == WriteInv /\ WholeOrAbsent /\ ListedIsSealed

\* The steps of which WriteInv says something.
Claiming == {"place", "move", "list", "seal", "note", "noting"}

LEMMA DiskStays ==
    ASSUME DiskInv, UNCHANGED <<disk, commit>>,
           \A s \in Runs, j \in Repos : at'[s][j] \in Claiming => at'[s][j] = at[s][j]
    PROVE  DiskInv'
BY DEF DiskInv, WriteInv, WholeOrAbsent, ListedIsSealed, Claiming, disk

LEMMA AtElsewhere ==
    ASSUME TypeOK, NEW r \in Runs, NEW k \in Repos, NEW step, Goto(r, k, step)
    PROVE  /\ at'[r][k] = step
           /\ \A s \in Runs, j \in Repos : (s # r \/ j # k) => at'[s][j] = at[s][j]
BY DEF Goto, TypeOK

LEMMA DroppedStays ==
    ASSUME TypeOK, DiskInv, NEW r \in Runs, DropAll(r), UNCHANGED <<disk, commit>>
    PROVE  DiskInv'
<1>1. \A s \in Runs, j \in Repos : at'[s][j] \in Claiming => at'[s][j] = at[s][j]
  BY DEF DropAll, Claiming, TypeOK
<1> QED BY <1>1, DiskStays

LEMMA GoesOnStays ==
    ASSUME TypeOK, DiskInv, NEW r \in Runs, NEW k \in Repos, NEW step,
           Goto(r, k, step), step \notin Claiming, UNCHANGED <<disk, commit>>
    PROVE  DiskInv'
BY AtElsewhere, DiskStays

\* Nobody but the run past a mirror's lock is at a step WriteInv speaks of.
LEMMA Alone ==
    ASSUME TypeOK, LockInv, NEW r \in Runs, NEW k \in Repos, Holds(r, k)
    PROVE  \A s \in Runs : s # r => at[s][k] \notin Claiming
BY LockExcludes DEF OneWriter, Holds, Locked, Opening, Writing, Claiming

LEMMA OpensKeepsDisk ==
    ASSUME TypeOK, LockInv, DiskInv, NEW r \in Runs, NEW k \in Repos, Opens(r, k)
    PROVE  DiskInv'
<1> USE DEF disk, choice
<1>1. CASE CreateLock(r, k)
  <2>1. Goto(r, k, "wait") /\ "wait" \notin Claiming BY <1>1 DEF CreateLock, Claiming
  <2>2. UNCHANGED <<mirror, clone, checkout, partial, sealed, list, commit>>
    BY <1>1 DEF CreateLock
  <2>3. \A s \in Runs, j \in Repos : at'[s][j] \in Claiming => at'[s][j] = at[s][j]
    BY <2>1, AtElsewhere
  <2> QED BY <2>2, <2>3 DEF DiskInv, WriteInv, WholeOrAbsent, ListedIsSealed, Claiming
<1>2. CASE InitClone(r, k)
  <2>1. Goto(r, k, "clone") /\ Holds(r, k) /\ at[r][k] = "init"
    BY <1>2 DEF InitClone, Holds, Locked, Opening
  <2>2. UNCHANGED <<mirror, checkout, partial, sealed, list, commit>>
    BY <1>2 DEF InitClone
  <2>3. \A j \in Repos : j # k => clone'[j] = clone[j] BY <1>2 DEF InitClone, TypeOK
  <2>4. \A s \in Runs, j \in Repos :
          at'[s][j] \in Claiming => at'[s][j] = at[s][j] /\ j # k
    BY <2>1, AtElsewhere, Alone DEF Claiming
  <2> QED BY <2>2, <2>3, <2>4 DEF DiskInv, WriteInv, WholeOrAbsent, ListedIsSealed, Claiming
<1>3. CASE FillClone(r, k)
  <2>1. Goto(r, k, "place") /\ Holds(r, k) /\ at[r][k] = "clone"
    BY <1>3 DEF FillClone, Holds, Locked, Opening
  <2>2. UNCHANGED <<mirror, checkout, partial, sealed, list, commit>>
    BY <1>3 DEF FillClone
  <2>3. clone'[k] = "whole" /\ \A j \in Repos : j # k => clone'[j] = clone[j]
    BY <1>3 DEF FillClone, TypeOK
  <2>4. at'[r][k] = "place" BY <2>1, AtElsewhere
  <2>5. \A s \in Runs, j \in Repos :
          at'[s][j] \in Claiming => (s = r /\ j = k) \/ (at'[s][j] = at[s][j] /\ j # k)
    BY <2>1, AtElsewhere, Alone
  <2> QED BY <2>2, <2>3, <2>4, <2>5
          DEF DiskInv, WriteInv, WholeOrAbsent, ListedIsSealed, Claiming
<1>4. CASE PlaceClone(r, k)
  <2>1. Goto(r, k, "open") /\ Holds(r, k) /\ at[r][k] = "place"
    BY <1>4 DEF PlaceClone, Holds, Locked, Opening
  <2>2. UNCHANGED <<checkout, partial, sealed, list, commit>>
    BY <1>4 DEF PlaceClone
  <2>3. /\ mirror'[k] = "whole"
        /\ \A j \in Repos : j # k => clone'[j] = clone[j] /\ mirror'[j] = mirror[j]
    BY <1>4, <2>1 DEF PlaceClone, TypeOK, DiskInv, WriteInv
  <2>4. \A s \in Runs, j \in Repos :
          at'[s][j] \in Claiming => at'[s][j] = at[s][j] /\ j # k
    BY <2>1, AtElsewhere, Alone DEF Claiming
  <2> QED BY <2>2, <2>3, <2>4 DEF DiskInv, WriteInv, WholeOrAbsent, ListedIsSealed, Claiming
<1>5. CASE ~ (CreateLock(r, k) \/ InitClone(r, k) \/ FillClone(r, k) \/ PlaceClone(r, k))
  <2>1. UNCHANGED <<disk, commit>>
    BY <1>5 DEF Opens, TakeLock, Look, Trust, OpenMirror, Fetch, Close
  <2>2. \E step : Goto(r, k, step) /\ step \notin Claiming
    BY <1>5 DEF Opens, TakeLock, Look, Trust, OpenMirror, Fetch, Close, Drop, Claiming
  <2> QED BY <2>1, <2>2, GoesOnStays
<1> QED BY <1>1, <1>2, <1>3, <1>4, <1>5

\* Writing one commit's checkout leaves every other as it is.
LEMMA ChecksOutKeepsDisk ==
    ASSUME TypeOK, LockInv, DiskInv, NEW r \in Runs, NEW k \in Repos, ChecksOut(r, k)
    PROVE  DiskInv'
<1> DEFINE c == commit[r][k]
<1> USE DEF disk, choice
<1>1. c \in Commits BY DEF TypeOK
<1>2. Holds(r, k)
  BY DEF ChecksOut, CheckOut, InitCheckout, FillCheckout, PlaceCheckout, ReadList,
         MissList, Seal, CreateList, FillList, Holds, Locked, Writing
<1>3. commit' = commit /\ UNCHANGED <<lockFile, mirror, clone>>
  BY DEF ChecksOut, CheckOut, InitCheckout, FillCheckout, PlaceCheckout, ReadList,
         MissList, Seal, CreateList, FillList
<1>4. \E step : Goto(r, k, step)
  BY DEF ChecksOut, CheckOut, InitCheckout, FillCheckout, PlaceCheckout, ReadList,
         MissList, Seal, CreateList, FillList, Drop
<1>5. \A s \in Runs, j \in Repos :
        (s # r \/ j # k) => at'[s][j] = at[s][j] /\ (j = k => at[s][j] \notin Claiming)
  BY <1>2, <1>4, AtElsewhere, Alone
<1>6. \A j \in Repos, d \in Commits : (j # k \/ d # c) =>
        /\ partial'[j][d] = partial[j][d] /\ checkout'[j][d] = checkout[j][d]
        /\ sealed'[j][d] = sealed[j][d] /\ list'[j][d] = list[j][d]
  BY <1>1 DEF ChecksOut, CheckOut, InitCheckout, FillCheckout, PlaceCheckout, ReadList,
         MissList, Seal, CreateList, FillList, TypeOK
<1>7. SUFFICES
        /\ at'[r][k] = "place" => clone[k] = "whole"
        /\ at'[r][k] = "move" => partial'[k][c] = "whole"
        /\ at'[r][k] \in {"list", "seal", "note", "noting"} => checkout'[k][c] = "whole"
        /\ at'[r][k] \in {"note", "noting"} => sealed'[k][c]
        /\ checkout'[k][c] # "cut"
        /\ list'[k][c] # "none" => checkout'[k][c] = "whole" /\ sealed'[k][c]
  <2>1. WriteInv'
    <3>1. ASSUME NEW s \in Runs, NEW j \in Repos, s # r \/ j # k
          PROVE  at'[s][j] \in Claiming =>
                   /\ at'[s][j] = at[s][j] /\ j # k
                   /\ commit[s][j] \in Commits
      BY <3>1, <1>5 DEF TypeOK
    <3> QED BY <1>3, <1>6, <1>7, <3>1 DEF DiskInv, WriteInv, Claiming
  <2>2. WholeOrAbsent' BY <1>3, <1>6, <1>7 DEF DiskInv, WholeOrAbsent
  <2>3. ListedIsSealed' BY <1>3, <1>6, <1>7 DEF DiskInv, ListedIsSealed
  <2> QED BY <2>1, <2>2, <2>3 DEF DiskInv
<1>8. /\ at[r][k] = "move" => partial[k][c] = "whole"
      /\ at[r][k] \in {"list", "seal", "note", "noting"} => checkout[k][c] = "whole"
      /\ at[r][k] \in {"note", "noting"} => sealed[k][c]
      /\ checkout[k][c] # "cut"
      /\ list[k][c] # "none" => checkout[k][c] = "whole" /\ sealed[k][c]
      /\ checkout[k][c] \in Amount
  BY <1>1 DEF DiskInv, WriteInv, WholeOrAbsent, ListedIsSealed, TypeOK
<1>9. CASE CheckOut(r, k)
  <2>1. at'[r][k] = (IF checkout[k][c] = "none" THEN "write" ELSE "list")
    BY <1>9, AtElsewhere DEF CheckOut
  <2> QED BY <1>8, <1>9, <2>1 DEF CheckOut, Amount
<1>10. CASE InitCheckout(r, k)
  <2>1. at'[r][k] = "fill" BY <1>10, AtElsewhere DEF InitCheckout
  <2> QED BY <1>8, <1>10, <2>1 DEF InitCheckout
<1>11. CASE FillCheckout(r, k)
  <2>1. at'[r][k] = "move" BY <1>11, AtElsewhere DEF FillCheckout
  <2>2. partial'[k][c] = "whole" BY <1>1, <1>11 DEF FillCheckout, TypeOK
  <2> QED BY <1>8, <1>11, <2>1, <2>2 DEF FillCheckout
<1>12. CASE PlaceCheckout(r, k)
  <2>1. at'[r][k] = "list" BY <1>12, AtElsewhere DEF PlaceCheckout
  <2>2. checkout'[k][c] = partial[k][c] /\ checkout[k][c] = "none"
    BY <1>1, <1>12 DEF PlaceCheckout, TypeOK
  <2>3. at[r][k] = "move" /\ list' = list BY <1>12 DEF PlaceCheckout
  <2> QED BY <1>8, <2>1, <2>2, <2>3
<1>13. CASE ReadList(r, k)
  <2>1. at'[r][k] = "out" BY <1>13, AtElsewhere DEF ReadList, Drop
  <2> QED BY <1>8, <1>13, <2>1 DEF ReadList
<1>14. CASE MissList(r, k)
  <2>1. at'[r][k] = "seal" BY <1>14, AtElsewhere DEF MissList
  <2> QED BY <1>8, <1>14, <2>1 DEF MissList
<1>15. CASE Seal(r, k)
  <2>1. at'[r][k] = "note" BY <1>15, AtElsewhere DEF Seal
  <2>2. sealed'[k][c] BY <1>1, <1>15 DEF Seal, TypeOK
  <2> QED BY <1>8, <1>15, <2>1, <2>2 DEF Seal
<1>16. CASE CreateList(r, k)
  <2>1. at'[r][k] = "noting" BY <1>16, AtElsewhere DEF CreateList
  <2> QED BY <1>8, <1>16, <2>1 DEF CreateList
<1>17. CASE FillList(r, k)
  <2>1. at'[r][k] = "out" BY <1>17, AtElsewhere DEF FillList, Drop
  <2> QED BY <1>8, <1>17, <2>1 DEF FillList
<1> QED
  BY <1>9, <1>10, <1>11, <1>12, <1>13, <1>14, <1>15, <1>16, <1>17 DEF ChecksOut

LEMMA DiskInit == Init => DiskInv
BY DEF Init, DiskInv, WriteInv, WholeOrAbsent, ListedIsSealed

LEMMA DiskNext == ASSUME TypeOK, LockInv, DiskInv, [Next]_vars PROVE DiskInv'
<1> USE DEF disk, choice
<1>1. ASSUME NEW r \in Runs, Proceeds(r) PROVE DiskInv'
  <2>1. UNCHANGED <<disk, commit>>
    BY <1>1 DEF Proceeds, Begin, Resolve, Restart, Solve, GiveUp, Walk, Finish
  <2>2. DropAll(r) \/ UNCHANGED at
    BY <1>1 DEF Proceeds, Begin, Resolve, Restart, Solve, GiveUp, Walk, Finish
  <2> QED BY <2>1, <2>2, DroppedStays, DiskStays
<1>2. ASSUME NEW r \in Runs, NEW k \in Repos, Fail(r, k) PROVE DiskInv'
  <2>1. Goto(r, k, "failed") /\ UNCHANGED <<disk, commit>> BY <1>2 DEF Fail, Drop
  <2>2. "failed" \notin Claiming BY DEF Claiming
  <2> QED BY <2>1, <2>2, GoesOnStays
<1>3. ASSUME NEW r \in Runs, Crash(r) PROVE DiskInv'
  <2>1. DropAll(r) /\ UNCHANGED <<disk, commit>> BY <1>3 DEF Crash
  <2> QED BY <2>1, DroppedStays
<1>4. CASE UNCHANGED vars BY <1>4, DiskStays DEF vars
<1> QED BY <1>1, <1>2, <1>3, <1>4, OpensKeepsDisk, ChecksOutKeepsDisk DEF Next, Step

\* From any state the invariant allows, no step leads out of it.
THEOREM Invariance == Spec => []Inductive
<1>1. Init => Inductive
  BY TypeInit, LockInit, DiskInit DEF Inductive, DiskInv
<1>2. Inductive /\ [Next]_vars => Inductive'
  BY TypeNext, LockNext, DiskNext DEF Inductive, DiskInv
<1> QED BY <1>1, <1>2, PTL DEF Spec

\* Nothing cut short is ever taken for a mirror or a checkout, whoever dies
\* where: what is renamed into place was filled by the run that holds its lock.
THEOREM NeverCutShort == Spec => []WholeOrAbsent
<1>1. Inductive => WholeOrAbsent BY DEF Inductive
<1> QED BY <1>1, Invariance, PTL

\* A checkout with a list beside it is whole and was made read-only first.
THEOREM ListComesLast == Spec => []ListedIsSealed
<1>1. Inductive => ListedIsSealed BY DEF Inductive
<1> QED BY <1>1, Invariance, PTL

-----------------------------------------------------------------------------
(* Locks are let go with the mirrors they are of.                          *)

\* A lock is held only through a mirror the run has open.
HeldOpen ==
    \A r \in Runs, i \in Inodes :
        holder[i] = r => \E k \in Repos : handle[r][k] = i /\ Holds(r, k)

LEMMA HeldOpenInit == Init => HeldOpen
BY RunsAssumption DEF Init, HeldOpen

\* A step with one mirror's lock taken and kept.
LEMMA HeldMovesOn ==
    ASSUME TypeOK, HeldOpen, NEW r \in Runs, NEW k \in Repos, NEW step \in Locked,
           Goto(r, k, step), UNCHANGED <<holder, handle>>
    PROVE  HeldOpen'
<1>1. at'[r][k] = step BY AtElsewhere
<1>2. \A s \in Runs, j \in Repos : Holds(s, j) => Holds(s, j)'
  BY <1>1, AtElsewhere DEF Holds
<1> QED BY <1>2 DEF HeldOpen

LEMMA HeldDrop ==
    ASSUME TypeOK, LockInv, HeldOpen, NEW r \in Runs, NEW k \in Repos,
           NEW step \in {"failed", "out"}, Holds(r, k), Drop(r, k, step)
    PROVE  HeldOpen'
<1>1. handle[r][k] \in Inodes BY DEF LockInv, TypeOK
<1>2. holder' = [holder EXCEPT ![handle[r][k]] = Nobody] BY DEF Drop
<1>3. \A s \in Runs, j \in Repos :
        s # r \/ j # k => at'[s][j] = at[s][j] /\ handle'[s][j] = handle[s][j]
  BY AtElsewhere DEF Drop, TypeOK
<1>4. SUFFICES ASSUME NEW s \in Runs, NEW i \in Inodes, holder'[i] = s
               PROVE  \E j \in Repos : handle'[s][j] = i /\ Holds(s, j)'
  BY DEF HeldOpen
<1>5. i # handle[r][k] /\ holder[i] = s BY <1>1, <1>2, <1>4, RunsAssumption DEF TypeOK
<1>6. PICK j \in Repos : handle[s][j] = i /\ Holds(s, j) BY <1>5 DEF HeldOpen
<1>7. s # r \/ j # k BY <1>5, <1>6
<1> QED BY <1>3, <1>6, <1>7 DEF Holds

LEMMA HeldDropAll ==
    ASSUME TypeOK, HeldOpen, NEW r \in Runs, DropAll(r)
    PROVE  HeldOpen'
<1>1. SUFFICES ASSUME NEW s \in Runs, NEW i \in Inodes, holder'[i] = s
               PROVE  \E j \in Repos : handle'[s][j] = i /\ Holds(s, j)'
  BY DEF HeldOpen
<1>2. holder'[i] = IF holder[i] = r THEN Nobody ELSE holder[i] BY DEF DropAll
<1>3. s # r /\ holder[i] = s BY <1>1, <1>2, RunsAssumption
<1>4. PICK j \in Repos : handle[s][j] = i /\ Holds(s, j) BY <1>3 DEF HeldOpen
<1>5. at'[s][j] = at[s][j] /\ handle'[s][j] = handle[s][j]
  BY <1>3 DEF DropAll, TypeOK
<1> QED BY <1>4, <1>5 DEF Holds

LEMMA HeldOpenNext ==
    ASSUME TypeOK, LockInv, HeldOpen, [Next]_vars PROVE HeldOpen'
<1> USE DEF disk, choice
<1>1. ASSUME NEW r \in Runs, NEW k \in Repos, Opens(r, k) PROVE HeldOpen'
  <2>1. CASE CreateLock(r, k)
    <3>1. at[r][k] = "idle" /\ Goto(r, k, "wait") /\ holder' = holder
      BY <2>1 DEF CreateLock, MayOpen
    <3>2. ~ Holds(r, k) BY <3>1 DEF Holds, Locked, Opening, Writing
    <3>3. \A s \in Runs, j \in Repos :
            s # r \/ j # k => at'[s][j] = at[s][j] /\ handle'[s][j] = handle[s][j]
      BY <2>1, <3>1, AtElsewhere DEF CreateLock, TypeOK
    <3> QED BY <3>1, <3>2, <3>3 DEF HeldOpen, Holds
  <2>2. CASE TakeLock(r, k)
    <3>1. handle[r][k] \in Inodes BY <2>2 DEF TakeLock, LockInv, TypeOK
    <3>2. /\ holder' = [holder EXCEPT ![handle[r][k]] = r] /\ handle' = handle
          /\ Goto(r, k, "look") /\ at[r][k] = "wait"
      BY <2>2 DEF TakeLock
    <3>3. Holds(r, k)' BY <3>2, AtElsewhere DEF Holds, Locked, Opening
    <3>4. \A s \in Runs, j \in Repos : Holds(s, j) => Holds(s, j)'
      BY <3>2, <3>3, AtElsewhere DEF Holds
    <3>5. \A i \in Inodes : i # handle[r][k] => holder'[i] = holder[i]
      BY <3>2 DEF TypeOK
    <3>6. holder'[handle[r][k]] = r BY <3>1, <3>2 DEF TypeOK
    <3> QED BY <3>2, <3>3, <3>4, <3>5, <3>6 DEF HeldOpen
  <2>3. CASE ~ (CreateLock(r, k) \/ TakeLock(r, k) \/ Close(r, k))
    <3>1. UNCHANGED <<holder, handle>>
      BY <1>1, <2>3
      DEF Opens, Look, InitClone, FillClone, PlaceClone, Trust, OpenMirror, Fetch
    <3>2. PICK step \in Locked : Goto(r, k, step)
      BY <1>1, <2>3
      DEF Opens, Look, InitClone, FillClone, PlaceClone, Trust, OpenMirror, Fetch,
          Locked, Opening
    <3> QED BY <3>1, <3>2, HeldMovesOn
  <2>4. CASE Close(r, k)
    <3>1. Holds(r, k) /\ Drop(r, k, "out") BY <2>4 DEF Close, Holds, Locked
    <3> QED BY <3>1, HeldDrop
  <2> QED BY <2>1, <2>2, <2>3, <2>4
<1>2. ASSUME NEW r \in Runs, NEW k \in Repos, ChecksOut(r, k) PROVE HeldOpen'
  <2>1. CASE ReadList(r, k) \/ FillList(r, k)
    <3>1. Holds(r, k) /\ Drop(r, k, "out")
      BY <2>1 DEF ReadList, FillList, Holds, Locked, Writing
    <3> QED BY <3>1, HeldDrop
  <2>2. CASE ~ (ReadList(r, k) \/ FillList(r, k))
    <3>1. UNCHANGED <<holder, handle>>
      BY <1>2, <2>2
      DEF ChecksOut, CheckOut, InitCheckout, FillCheckout, PlaceCheckout, MissList,
          Seal, CreateList
    <3>2. PICK step \in Locked : Goto(r, k, step)
      BY <1>2, <2>2
      DEF ChecksOut, CheckOut, InitCheckout, FillCheckout, PlaceCheckout, MissList,
          Seal, CreateList, Locked, Writing
    <3> QED BY <3>1, <3>2, HeldMovesOn
  <2> QED BY <2>1, <2>2
<1>3. ASSUME NEW r \in Runs, Proceeds(r) PROVE HeldOpen'
  <2>1. CASE Begin(r) \/ Walk(r)
    <3>1. UNCHANGED <<holder, handle, at>> BY <2>1 DEF Begin, Walk
    <3> QED BY <3>1 DEF HeldOpen, Holds
  <2>2. CASE ~ (Begin(r) \/ Walk(r))
    <3>1. DropAll(r)
      BY <1>3, <2>2 DEF Proceeds, Resolve, Restart, Solve, GiveUp, Finish
    <3> QED BY <3>1, HeldDropAll
  <2> QED BY <2>1, <2>2
<1>4. ASSUME NEW r \in Runs, NEW k \in Repos, Fail(r, k) PROVE HeldOpen'
  <2>1. Holds(r, k) BY <1>4 DEF Fail, Missing, Holds, Locked, Opening, Writing
  <2>2. Drop(r, k, "failed") BY <1>4 DEF Fail
  <2> QED BY <2>1, <2>2, HeldDrop
<1>5. ASSUME NEW r \in Runs, Crash(r) PROVE HeldOpen'
  BY <1>5, HeldDropAll DEF Crash
<1>6. CASE UNCHANGED vars BY <1>6 DEF vars, HeldOpen, Holds
<1> QED BY <1>1, <1>2, <1>3, <1>4, <1>5, <1>6 DEF Next, Step

\* A run that waits for a lock waits for another run's, and so not for ever by
\* its own doing: each lock it has is of a mirror it is past waiting for.
THEOREM NoRunWaitsForItself == Spec => []NoSelfWait
<1>1. Init => TypeOK /\ LockInv /\ HeldOpen BY TypeInit, LockInit, HeldOpenInit
<1>2. TypeOK /\ LockInv /\ HeldOpen /\ [Next]_vars => (TypeOK /\ LockInv /\ HeldOpen)'
  BY TypeNext, LockNext, HeldOpenNext
<1>3. TypeOK /\ LockInv /\ HeldOpen => NoSelfWait
  <2>1. SUFFICES ASSUME TypeOK, LockInv, HeldOpen, NEW r \in Runs, NEW k \in Repos,
                        at[r][k] = "wait", holder[handle[r][k]] = r
                 PROVE  FALSE
    BY DEF NoSelfWait
  <2>2. handle[r][k] \in Inodes /\ handle[r][k] = lockFile[k]
    BY <2>1 DEF LockInv, TypeOK
  <2>3. PICK j \in Repos : handle[r][j] = handle[r][k] /\ Holds(r, j)
    BY <2>1, <2>2 DEF HeldOpen
  <2>4. j = k BY <2>1, <2>2, <2>3, InodesAssumption DEF LockInv
  <2> QED BY <2>1, <2>3, <2>4 DEF Holds, Locked, Opening, Writing
<1> QED BY <1>1, <1>2, <1>3, PTL DEF Spec

-----------------------------------------------------------------------------
(* What a run goes by once it has let the locks go.                        *)

\* The mirror of the repository is there, and its checkout is listed and whole.
Stays(k, c) == mirror[k] = "whole" /\ list[k][c] # "none" /\ checkout[k][c] = "whole"

\* The steps that find the mirror there.
Past == {"open", "fetch", "held"} \union Writing

\* A mirror a run is past opening is there, and what the run is done checking
\* out, which is all it reads, stays.
ReadInv ==
    \A r \in Runs, k \in Repos :
        /\ at[r][k] \in Past => mirror[k] # "none"
        /\ phase[r] \in {"checkout", "read"} /\ at[r][k] = "out"
              => Stays(k, commit[r][k])
        /\ phase[r] = "read" /\ k \in need[r] => at[r][k] = "out"

\* Nothing a run writes takes away a mirror, a list or a checkout.
LEMMA NothingGoes ==
    ASSUME Inductive, NEW r \in Runs, NEW k \in Repos,
           Opens(r, k) \/ ChecksOut(r, k) \/ Fail(r, k)
    PROVE  /\ commit' = commit
           /\ \A j \in Repos : mirror[j] # "none" => mirror'[j] = mirror[j]
           /\ \A j \in Repos, c \in Commits :
                /\ list[j][c] # "none" => list'[j][c] # "none"
                /\ checkout[j][c] # "none" => checkout'[j][c] = checkout[j][c]
<1> USE DEF disk, choice, Inductive, TypeOK
<1>1. CASE Opens(r, k)
  BY <1>1 DEF Opens, CreateLock, TakeLock, Look, InitClone, FillClone, PlaceClone,
              Trust, OpenMirror, Fetch, Close
<1>2. CASE ChecksOut(r, k)
  <2>1. CASE PlaceCheckout(r, k)
    <3> DEFINE c == commit[r][k]
    <3>1. c \in Commits /\ checkout[k][c] = "none" BY <2>1 DEF PlaceCheckout
    <3>2. checkout' = [checkout EXCEPT ![k][c] = partial[k][c]]
      BY <2>1 DEF PlaceCheckout
    <3>3. UNCHANGED <<commit, mirror, list>> BY <2>1 DEF PlaceCheckout
    <3>4. \A j \in Repos, d \in Commits :
            j # k \/ d # c => checkout'[j][d] = checkout[j][d]
      BY <3>1, <3>2
    <3> QED BY <3>1, <3>3, <3>4
  <2>2. CASE CreateList(r, k) \/ FillList(r, k)
    <3>1. UNCHANGED <<commit, mirror, checkout>> BY <2>2 DEF CreateList, FillList
    <3>2. PICK a \in {"cut", "whole"} :
            list' = [list EXCEPT ![k][commit[r][k]] = a]
      BY <2>2 DEF CreateList, FillList
    <3> QED BY <3>1, <3>2
  <2>3. CASE ~ (PlaceCheckout(r, k) \/ CreateList(r, k) \/ FillList(r, k))
    <3>1. UNCHANGED <<commit, mirror, checkout, list>>
      BY <1>2, <2>3 DEF ChecksOut, CheckOut, InitCheckout, FillCheckout, ReadList,
                        MissList, Seal
    <3> QED BY <3>1
  <2> QED BY <2>1, <2>2, <2>3
<1>3. CASE Fail(r, k) BY <1>3 DEF Fail
<1> QED BY <1>1, <1>2, <1>3

\* One step of one run with one mirror keeps what every run goes by, if where
\* it leads the run with that mirror is as it should be.
LEMMA ReadStep ==
    ASSUME Inductive, ReadInv, NEW r \in Runs, NEW k \in Repos, NEW step,
           Opens(r, k) \/ ChecksOut(r, k) \/ Fail(r, k),
           Goto(r, k, step), at[r][k] # "out", UNCHANGED <<phase, need>>,
           step \in Past => mirror'[k] # "none",
           step = "out" /\ phase[r] \in {"checkout", "read"} => Stays(k, commit[r][k])'
    PROVE  ReadInv'
<1>1. TypeOK BY DEF Inductive
<1>2. at'[r][k] = step /\ \A s \in Runs, j \in Repos : s # r \/ j # k => at'[s][j] = at[s][j]
  BY <1>1, AtElsewhere
<1>3. \A s \in Runs, j \in Repos : commit[s][j] \in Commits BY <1>1 DEF TypeOK
<1>4. \A j \in Repos, c \in Commits : Stays(j, c) => Stays(j, c)'
  BY NothingGoes DEF Stays
<1>5. commit' = commit /\ \A j \in Repos : mirror[j] # "none" => mirror'[j] # "none"
  BY NothingGoes
<1> SUFFICES ASSUME NEW s \in Runs, NEW j \in Repos
             PROVE  /\ at'[s][j] \in Past => mirror'[j] # "none"
                    /\ phase'[s] \in {"checkout", "read"} /\ at'[s][j] = "out"
                         => Stays(j, commit[s][j])'
                    /\ phase'[s] = "read" /\ j \in need'[s] => at'[s][j] = "out"
  BY DEF ReadInv
<1>6. CASE s = r /\ j = k BY <1>2, <1>6 DEF ReadInv
<1>7. CASE s # r \/ j # k
  <2>1. at'[s][j] = at[s][j] BY <1>2, <1>7
  <2>2. Stays(j, commit[s][j]) => Stays(j, commit[s][j])'
    BY <1>3, <1>4, <1>5 DEF Stays
  <2> QED BY <1>5, <2>1, <2>2 DEF ReadInv
<1> QED BY <1>6, <1>7

LEMMA ReadDropAll ==
    ASSUME Inductive, ReadInv, NEW r \in Runs, DropAll(r),
           UNCHANGED <<mirror, checkout, list, commit>>, phase'[r] # "read",
           \A s \in Runs : s # r => phase'[s] = phase[s] /\ need'[s] = need[s]
    PROVE  ReadInv'
<1>1. \A j \in Repos : at'[r][j] = "idle" BY DEF DropAll, Inductive, TypeOK
<1>2. \A s \in Runs, j \in Repos : s # r => at'[s][j] = at[s][j]
  BY DEF DropAll, Inductive, TypeOK
<1>3. "idle" \notin Past BY DEF Past, Writing
<1> QED BY <1>1, <1>2, <1>3 DEF ReadInv, Stays

LEMMA ReadInit == Init => ReadInv
BY DEF Init, ReadInv, Past, Writing

LEMMA ReadNext ==
    ASSUME Inductive, ReadInv, [Next]_vars PROVE ReadInv'
<1> USE DEF disk, choice
<1>1. ASSUME NEW r \in Runs, NEW k \in Repos, Opens(r, k) PROVE ReadInv'
  <2>1. at[r][k] # "out" /\ UNCHANGED <<phase, need>>
    BY <1>1 DEF Opens, CreateLock, MayOpen, TakeLock, Look, InitClone, FillClone,
                PlaceClone, Trust, OpenMirror, Fetch, Close
  <2>2. CASE Close(r, k)
    <3>1. Goto(r, k, "out") /\ phase[r] = "ahead" BY <2>2 DEF Close, Drop
    <3>2. "out" \notin Past BY DEF Past, Writing
    <3> QED BY <1>1, <2>1, <3>1, <3>2, ReadStep
  <2>3. CASE CreateLock(r, k) \/ TakeLock(r, k) \/ InitClone(r, k) \/ FillClone(r, k)
    <3>1. PICK step \in {"wait", "look", "clone", "place"} : Goto(r, k, step)
      BY <2>3 DEF CreateLock, TakeLock, InitClone, FillClone
    <3>2. step \notin Past /\ step # "out" BY DEF Past, Writing
    <3> QED BY <1>1, <2>1, <3>1, <3>2, ReadStep
  <2>4. CASE Look(r, k)
    <3>1. Goto(r, k, IF mirror[k] = "none" THEN "init" ELSE "open") /\ mirror' = mirror
      BY <2>4 DEF Look
    <3>2. "init" \notin Past BY DEF Past, Writing
    <3> QED BY <1>1, <2>1, <3>1, <3>2, ReadStep
  <2>5. CASE PlaceClone(r, k)
    <3>1. Goto(r, k, "open") BY <2>5 DEF PlaceClone
    <3>2. mirror'[k] # "none" BY <2>5 DEF PlaceClone, Inductive, TypeOK
    <3> QED BY <1>1, <2>1, <3>1, <3>2, ReadStep
  <2>6. CASE Trust(r, k) \/ OpenMirror(r, k) \/ Fetch(r, k)
    <3>1. PICK step \in {"held", "fetch"} : Goto(r, k, step)
      BY <2>6 DEF Trust, OpenMirror, Fetch
    <3>2. mirror'[k] # "none" BY <2>6 DEF Trust, OpenMirror, Fetch
    <3> QED BY <1>1, <2>1, <3>1, <3>2, ReadStep
  <2> QED BY <1>1, <2>2, <2>3, <2>4, <2>5, <2>6 DEF Opens
<1>2. ASSUME NEW r \in Runs, NEW k \in Repos, ChecksOut(r, k) PROVE ReadInv'
  <2> DEFINE c == commit[r][k]
  <2>1. at[r][k] \in Past /\ UNCHANGED <<phase, need, mirror, commit>>
    BY <1>2 DEF ChecksOut, CheckOut, InitCheckout, FillCheckout, PlaceCheckout,
                ReadList, MissList, Seal, CreateList, FillList, Past, Writing
  <2>2. at[r][k] # "out" /\ mirror[k] # "none" BY <2>1 DEF ReadInv, Past, Writing
  <2>3. CASE ReadList(r, k) \/ FillList(r, k)
    <3>1. Goto(r, k, "out") BY <2>3 DEF ReadList, FillList, Drop
    <3>2. c \in Commits BY DEF Inductive, TypeOK
    <3>3. mirror[k] = "whole"
      BY <2>2 DEF Inductive, TypeOK, Amount, WholeOrAbsent
    <3>4. checkout[k][c] = "whole" /\ checkout' = checkout
      BY <2>3 DEF ReadList, FillList, Inductive, WriteInv
    <3>5. list'[k][c] # "none"
      BY <2>3, <3>2 DEF ReadList, FillList, Inductive, TypeOK
    <3>6. Stays(k, commit[r][k])' BY <2>1, <3>3, <3>4, <3>5 DEF Stays
    <3> QED BY <1>2, <2>1, <2>2, <3>1, <3>6, ReadStep
  <2>4. CASE ~ (ReadList(r, k) \/ FillList(r, k))
    <3>1. PICK step \in Writing : Goto(r, k, step)
      BY <1>2, <2>4 DEF ChecksOut, CheckOut, InitCheckout, FillCheckout,
                        PlaceCheckout, MissList, Seal, CreateList, Writing
    <3>2. step # "out" BY DEF Writing
    <3> QED BY <1>2, <2>1, <2>2, <3>1, <3>2, ReadStep
  <2> QED BY <2>3, <2>4
<1>3. ASSUME NEW r \in Runs, NEW k \in Repos, Fail(r, k) PROVE ReadInv'
  <2>1. Goto(r, k, "failed") /\ UNCHANGED <<phase, need>> BY <1>3 DEF Fail, Drop
  <2>2. at[r][k] # "out" BY <1>3 DEF Fail, Missing
  <2>3. "failed" \notin Past BY DEF Past, Writing
  <2> QED BY <1>3, <2>1, <2>2, <2>3, ReadStep
<1>4. ASSUME NEW r \in Runs, Proceeds(r) \/ Crash(r) PROVE ReadInv'
  <2>1. UNCHANGED <<mirror, checkout, list, commit>>
    BY <1>4 DEF Proceeds, Begin, Resolve, Restart, Solve, GiveUp, Walk, Finish, Crash
  <2>2. \A s \in Runs : s # r => phase'[s] = phase[s] /\ need'[s] = need[s]
    BY <1>4 DEF Proceeds, Begin, Resolve, Restart, Solve, GiveUp, Walk, Finish, Crash,
                Inductive, TypeOK
  <2>3. CASE Begin(r)
    <3>1. phase'[r] = "ahead" /\ at' = at BY <2>3 DEF Begin, Inductive, TypeOK
    <3> QED BY <2>1, <2>2, <3>1 DEF ReadInv, Stays
  <2>4. CASE Walk(r)
    <3>1. phase[r] = "checkout" /\ \A k \in need[r] : at[r][k] = "out"
      BY <2>4 DEF Walk
    <3>2. UNCHANGED <<at, need>> BY <2>4 DEF Walk
    <3> QED BY <2>1, <2>2, <3>1, <3>2 DEF ReadInv, Stays
  <2>5. CASE ~ (Begin(r) \/ Walk(r))
    <3>1. DropAll(r)
      BY <1>4, <2>5 DEF Proceeds, Resolve, Restart, Solve, GiveUp, Finish, Crash
    <3>2. phase'[r] # "read"
      BY <1>4, <2>5 DEF Proceeds, Resolve, Restart, PassEnds, Solve, GiveUp, Finish,
                        Crash, Inductive, TypeOK
    <3> QED BY <2>1, <2>2, <3>1, <3>2, ReadDropAll
  <2> QED BY <2>3, <2>4, <2>5
<1>5. CASE UNCHANGED vars BY <1>5 DEF vars, ReadInv, Stays
<1> QED BY <1>1, <1>2, <1>3, <1>4, <1>5 DEF Next, Step

\* What a run reads after it let the locks go stays as it checked it out,
\* whatever other runs do and wherever they are killed: nothing written by a
\* run takes away or replaces what is in place (mirror.rs:191-198).
THEOREM WhatIsReadStays == Spec => []ReadStays
<1>1. Init => ReadInv BY ReadInit
<1>2. Inductive /\ ReadInv /\ [Next]_vars => ReadInv' BY ReadNext
<1>3. ReadInv => ReadStays BY DEF ReadInv, ReadStays, Stays
<1> QED BY <1>1, <1>2, <1>3, Invariance, PTL DEF Spec

-----------------------------------------------------------------------------
(* `astli cache clean` beside the runs (StoreClean).  It deletes lock files *)
(* under runs that have them open, so LockInv does not outlive its first    *)
(* deletion; what is kept is what a run past waiting holds, and the paths   *)
(* of the mirrors whose locks the clean waited for.                         *)

\* What a step of a run does to the locks is one of six things.
LEMMA LockSteps ==
    ASSUME [Next]_vars
    PROVE  \/ UNCHANGED <<lockFile, holder, handle, at>>
           \/ \E r \in Runs : DropAll(r) /\ UNCHANGED lockFile
           \/ \E r \in Runs, k \in Repos :
                \/ CreateLock(r, k) \/ TakeLock(r, k)
                \/ /\ Holds(r, k) /\ UNCHANGED <<lockFile, holder, handle>>
                   /\ \E step \in Locked : Goto(r, k, step)
                \/ /\ Holds(r, k) /\ UNCHANGED lockFile
                   /\ \E step \in {"failed", "out"} : Drop(r, k, step)
<1> USE DEF disk, choice
<1>1. ASSUME NEW r \in Runs, Proceeds(r)
      PROVE  UNCHANGED <<lockFile, holder, handle, at>> \/ (DropAll(r) /\ UNCHANGED lockFile)
  BY <1>1 DEF Proceeds, Begin, Resolve, Restart, Solve, GiveUp, Walk, Finish
<1>2. ASSUME NEW r \in Runs, Crash(r) PROVE DropAll(r) /\ UNCHANGED lockFile
  BY <1>2 DEF Crash
<1>3. ASSUME NEW r \in Runs, NEW k \in Repos, Fail(r, k)
      PROVE  Holds(r, k) /\ UNCHANGED lockFile /\ Drop(r, k, "failed")
  BY <1>3 DEF Fail, Missing, Holds, Locked, Opening, Writing
<1>4. ASSUME NEW r \in Runs, NEW k \in Repos, ChecksOut(r, k)
      PROVE  /\ Holds(r, k) /\ UNCHANGED lockFile
             /\ \/ Drop(r, k, "out")
                \/ UNCHANGED <<holder, handle>> /\ \E step \in Locked : Goto(r, k, step)
  BY <1>4
  DEF ChecksOut, CheckOut, InitCheckout, FillCheckout, PlaceCheckout, ReadList,
      MissList, Seal, CreateList, FillList, Holds, Locked, Writing
<1>5. ASSUME NEW r \in Runs, NEW k \in Repos, Opens(r, k),
             ~ CreateLock(r, k), ~ TakeLock(r, k)
      PROVE  /\ Holds(r, k) /\ UNCHANGED lockFile
             /\ \/ Drop(r, k, "out")
                \/ UNCHANGED <<holder, handle>> /\ \E step \in Locked : Goto(r, k, step)
  BY <1>5
  DEF Opens, Look, InitClone, FillClone, PlaceClone, Trust, OpenMirror, Fetch, Close,
      Holds, Locked, Opening
<1>6. CASE UNCHANGED vars BY <1>6 DEF vars
<1> QED BY <1>1, <1>2, <1>3, <1>4, <1>5, <1>6 DEF Next, Step

\* What the clean keeps true of the locks.
CLocks == OneRepoEach /\ HandleInv /\ CleanInv

LEMMA CleanInit == CInit => CInductive
<1>1. CInit => TypeOK BY TypeInit DEF CInit
<1>2. CInit => CTypeOK BY DEF CInit, CTypeOK
<1>3. CInit => CLocks
  BY DEF CInit, Init, CLocks, OneRepoEach, HandleInv, CleanInv, Holds, Locked, Opening,
         Writing
<1> QED BY <1>1, <1>2, <1>3 DEF CInductive, CLocks

\* A run's step, the clean's standing still.
LEMMA RunKeepsLocks ==
    ASSUME TypeOK, CTypeOK, CLocks, [Next]_vars, UNCHANGED cvars
    PROVE  CLocks'
<1> USE DEF cvars
<1>0. Kept' = Kept BY DEF Kept
<1>1. CASE UNCHANGED <<lockFile, holder, handle, at>>
  BY <1>0, <1>1 DEF CLocks, OneRepoEach, HandleInv, CleanInv, Holds
<1>2. ASSUME NEW r \in Runs, DropAll(r), UNCHANGED lockFile PROVE CLocks'
  <2>1. \A s \in Runs, j \in Repos :
          s # r => at'[s][j] = at[s][j] /\ handle'[s][j] = handle[s][j]
    BY <1>2 DEF DropAll, TypeOK
  <2>2. \A j \in Repos : at'[r][j] = "idle" /\ handle'[r][j] = NoFile
    BY <1>2 DEF DropAll, TypeOK
  <2>3. "idle" # "wait" /\ "idle" \notin Locked BY DEF Locked, Opening, Writing
  <2>4. \A i \in Inodes : holder[i] # r => holder'[i] = holder[i] BY <1>2 DEF DropAll
  <2>5. OneRepoEach' BY <1>2, <2>1, <2>2 DEF CLocks, OneRepoEach
  <2>6. \A s \in Runs, j \in Repos : Holds(s, j) => handle[s][j] \in Inodes
    BY DEF CLocks, HandleInv, TypeOK
  <2>7. HandleInv'
    BY <1>0, <1>2, <2>1, <2>2, <2>3, <2>4, <2>6 DEF CLocks, HandleInv, Holds
  <2>8. \A j \in listed : chandle[j] # NoFile => chandle[j] \in Inodes BY DEF CTypeOK
  <2>9. CleanInv' BY <1>2, <2>4, <2>8, RunsAssumption DEF CLocks, CleanInv
  <2> QED BY <2>5, <2>7, <2>9 DEF CLocks
<1>3. ASSUME NEW r \in Runs, NEW k \in Repos, CreateLock(r, k) PROVE CLocks'
  <2>1. PICK i \in Inodes :
          /\ IF lockFile[k] = NoFile THEN Unused(i) ELSE i = lockFile[k]
          /\ lockFile' = [lockFile EXCEPT ![k] = i]
          /\ handle' = [handle EXCEPT ![r][k] = i]
    BY <1>3 DEF CreateLock
  <2>2. Goto(r, k, "wait") /\ holder' = holder /\ at[r][k] = "idle"
    BY <1>3 DEF CreateLock, MayOpen
  <2>3. i # NoFile BY InodesAssumption
  <2>4. \A s \in Runs, j \in Repos :
          (s # r \/ j # k) => at'[s][j] = at[s][j] /\ handle'[s][j] = handle[s][j]
    BY <2>1, <2>2 DEF Goto, TypeOK
  <2>5. at'[r][k] = "wait" /\ handle'[r][k] = i /\ lockFile'[k] = i
    BY <2>1, <2>2 DEF Goto, TypeOK
  <2>6. \A j \in Repos : j # k => lockFile'[j] = lockFile[j] /\ lockFile[j] # i
    BY <2>1, <2>3 DEF TypeOK, CLocks, OneRepoEach, Unused
  <2>7. \A s \in Runs, j \in Repos : j # k => handle[s][j] # i
    BY <2>1, <2>3 DEF CLocks, OneRepoEach, Unused
  <2>8. "wait" \notin Locked BY DEF Locked, Opening, Writing
  <2>9. lockFile[k] # NoFile => lockFile'[k] = lockFile[k] BY <2>1, <2>5
  <2>10. lockFile[k] = NoFile /\ k \in Kept => \A s \in Runs : handle[s][k] = NoFile
    BY DEF CLocks, HandleInv
  <2>11. OneRepoEach'
    BY <2>3, <2>4, <2>5, <2>6, <2>7 DEF CLocks, OneRepoEach
  <2>12. HandleInv'
    BY <1>0, <2>2, <2>3, <2>4, <2>5, <2>6, <2>8, <2>9, <2>10 DEF CLocks, HandleInv, Holds
  <2>13. CleanInv' BY <2>2, <2>6, <2>9 DEF CLocks, CleanInv
  <2> QED BY <2>11, <2>12, <2>13 DEF CLocks
<1>4. ASSUME NEW r \in Runs, NEW k \in Repos, TakeLock(r, k) PROVE CLocks'
  <2>1. /\ at[r][k] = "wait" /\ holder[handle[r][k]] = Nobody
        /\ holder' = [holder EXCEPT ![handle[r][k]] = r]
        /\ Goto(r, k, "look") /\ UNCHANGED <<lockFile, handle>>
    BY <1>4 DEF TakeLock, disk
  <2>2. handle[r][k] \in Inodes BY <2>1 DEF CLocks, HandleInv, TypeOK
  <2>3. \A s \in Runs, j \in Repos : (s # r \/ j # k) => at'[s][j] = at[s][j]
    BY <2>1, AtElsewhere
  <2>4. at'[r][k] = "look" /\ holder'[handle[r][k]] = r
    BY <2>1, <2>2, AtElsewhere DEF TypeOK
  <2>5. \A i \in Inodes : holder[i] # Nobody => holder'[i] = holder[i]
    BY <2>1, <2>2 DEF TypeOK
  <2>6. HandleInv'
    <3>1. \A s \in Runs, j \in Repos : Holds(s, j) =>
            handle[s][j] \in Inodes /\ holder[handle[s][j]] # Nobody
      BY RunsAssumption DEF CLocks, HandleInv, TypeOK
    <3> QED BY <1>0, <2>1, <2>2, <2>3, <2>4, <2>5, <3>1, InodesAssumption
            DEF CLocks, HandleInv, Holds
  <2>7. CleanInv'
    <3>1. \A j \in listed : chandle[j] # NoFile => chandle[j] \in Inodes BY DEF CTypeOK
    <3> QED BY <2>1, <2>5, <3>1, RunsAssumption DEF CLocks, CleanInv
  <2> QED BY <2>1, <2>6, <2>7 DEF CLocks, OneRepoEach
<1>5. ASSUME NEW r \in Runs, NEW k \in Repos, NEW step \in Locked, Holds(r, k),
             Goto(r, k, step), UNCHANGED <<lockFile, holder, handle>>
      PROVE  CLocks'
  <2>1. \A s \in Runs, j \in Repos : (s # r \/ j # k) => at'[s][j] = at[s][j]
    BY <1>5, AtElsewhere
  <2>2. at'[r][k] = step /\ step # "wait"
    BY <1>5, AtElsewhere DEF Locked, Opening, Writing
  <2> QED BY <1>0, <1>5, <2>1, <2>2 DEF CLocks, OneRepoEach, HandleInv, CleanInv, Holds
<1>6. ASSUME NEW r \in Runs, NEW k \in Repos, NEW step \in {"failed", "out"},
             Holds(r, k), Drop(r, k, step), UNCHANGED lockFile
      PROVE  CLocks'
  <2>1. \A s \in Runs, j \in Repos :
          (s # r \/ j # k) => at'[s][j] = at[s][j] /\ handle'[s][j] = handle[s][j]
    BY <1>6, AtElsewhere DEF Drop, TypeOK
  <2>2. at'[r][k] = step /\ handle'[r][k] = NoFile
    BY <1>6, AtElsewhere DEF Drop, TypeOK
  <2>3. step # "wait" /\ step \notin Locked BY <1>6 DEF Locked, Opening, Writing
  <2>4. holder[handle[r][k]] = r /\ handle[r][k] \in Inodes
    BY <1>6 DEF CLocks, HandleInv, TypeOK
  <2>5. \A i \in Inodes : i # handle[r][k] => holder'[i] = holder[i]
    BY <1>6 DEF Drop, TypeOK
  <2>6. OneRepoEach' BY <1>6, <2>1, <2>2 DEF CLocks, OneRepoEach
  <2>7. ASSUME NEW s \in Runs, NEW j \in Repos, s # r \/ j # k, Holds(s, j)
        PROVE  handle[s][j] # handle[r][k] /\ handle[s][j] \in Inodes
    BY <2>4, <2>7 DEF CLocks, HandleInv, OneRepoEach, TypeOK
  <2>8. HandleInv'
    BY <1>0, <1>6, <2>1, <2>2, <2>3, <2>5, <2>7 DEF CLocks, HandleInv, Holds
  <2>9. CleanInv'
    <3>1. \A j \in listed : chandle[j] # NoFile => chandle[j] \in Inodes BY DEF CTypeOK
    <3> QED BY <1>6, <2>4, <2>5, <3>1, RunsAssumption DEF CLocks, CleanInv
  <2> QED BY <2>6, <2>8, <2>9 DEF CLocks
<1> QED BY <1>1, <1>2, <1>3, <1>4, <1>5, <1>6, LockSteps

\* A step of the clean.
LEMMA CleanKeepsLocks ==
    ASSUME TypeOK, CTypeOK, CLocks, CStep
    PROVE  CLocks'
<1> USE DEF runVars, vars, cvars
<1>1. CASE CList
  <2>1. UNCHANGED <<lockFile, holder, handle, at, chandle>> /\ cphase' = "locking"
        /\ cphase = "idle"
    BY <1>1 DEF CList, disk
  <2>2. Kept = Repos /\ Kept' = Repos BY <2>1 DEF Kept
  <2> QED BY <2>1, <2>2 DEF CLocks, OneRepoEach, HandleInv, CleanInv, Holds
<1>2. ASSUME NEW k \in Repos, COpen(k) PROVE CLocks'
  <2>1. /\ UNCHANGED <<lockFile, holder, handle, at, cphase, listed>>
        /\ cphase = "locking" /\ k \in listed
        /\ chandle' = [chandle EXCEPT ![k] = lockFile[k]]
    BY <1>2 DEF COpen, disk
  <2>2. Kept' = Kept BY <2>1 DEF Kept
  <2>3. CleanInv' BY <2>1 DEF CLocks, CleanInv, CTypeOK
  <2> QED BY <2>1, <2>2, <2>3 DEF CLocks, OneRepoEach, HandleInv, Holds
<1>3. ASSUME NEW k \in Repos, CLock(k) PROVE CLocks'
  <2>1. /\ UNCHANGED <<lockFile, handle, at, cvars>>
        /\ cphase = "locking" /\ k \in listed
        /\ chandle[k] # NoFile /\ holder[chandle[k]] = Nobody
        /\ holder' = [holder EXCEPT ![chandle[k]] = Cleaner]
    BY <1>3 DEF CLock, COpened, disk
  <2>2. Kept' = Kept BY <2>1 DEF Kept
  <2>3. \A i \in Inodes : holder[i] # Nobody => holder'[i] = holder[i]
    BY <2>1 DEF CTypeOK, TypeOK
  <2>4. \A s \in Runs, j \in Repos : Holds(s, j) =>
          handle[s][j] \in Inodes /\ holder[handle[s][j]] # Nobody
    BY RunsAssumption DEF CLocks, HandleInv, TypeOK
  <2> QED BY <2>1, <2>2, <2>3, <2>4 DEF CLocks, OneRepoEach, HandleInv, CleanInv, Holds
<1>4. CASE CLocked
  <2>1. /\ UNCHANGED <<lockFile, holder, handle, at, listed, chandle>>
        /\ cphase = "locking" /\ cphase' = "emptying" /\ CHeld = listed
    BY <1>4 DEF CLocked, disk
  <2>2. Kept = Repos /\ Kept' \subseteq Repos BY <2>1 DEF Kept, CTypeOK
  <2>3. CleanInv' BY <2>1 DEF CLocks, CleanInv, CHeld, COpened
  <2> QED BY <2>1, <2>2, <2>3 DEF CLocks, OneRepoEach, HandleInv, Holds
<1>5. CASE CDelete
  <2>1. UNCHANGED <<holder, handle, at, cvars>> /\ cphase \in {"emptying", "removing"}
    BY <1>5 DEF CDelete
  <2>2. Kept' = Kept BY <2>1 DEF Kept
  <2>3. PICK k \in Repos :
          \/ UNCHANGED lockFile
          \/ /\ cphase = "emptying" => k \notin listed
             /\ lockFile' = [lockFile EXCEPT ![k] = NoFile]
    BY <1>5
    DEF CDelete, CDeleteMirror, CDeleteClone, CDeleteLock, CDeleteCheckout,
        CDeletePartial, CDeleteList
  <2>4. \A j \in Repos : lockFile'[j] = lockFile[j] \/ lockFile'[j] = NoFile
    BY <2>3 DEF TypeOK
  <2>5. \A j \in Kept : lockFile'[j] = lockFile[j]
    <3>1. CASE cphase = "emptying"
      <4>1. Kept = listed BY <3>1 DEF Kept
      <4> QED BY <2>3, <3>1, <4>1 DEF TypeOK, CTypeOK
    <3>2. CASE cphase = "removing"
      <4>1. Kept = {} BY <3>2 DEF Kept
      <4> QED BY <4>1
    <3> QED BY <2>1, <3>1, <3>2
  <2>6. OneRepoEach' BY <2>1, <2>4 DEF CLocks, OneRepoEach
  <2>7. HandleInv' BY <2>1, <2>2, <2>5 DEF CLocks, HandleInv, Holds
  <2>8. CleanInv' BY <2>1, <2>5 DEF CLocks, CleanInv, Kept
  <2> QED BY <2>6, <2>7, <2>8 DEF CLocks
<1>6. CASE CRelease \/ CFail
  <2>1. /\ UNCHANGED <<lockFile, handle, at, listed>> /\ CDropAll
        /\ cphase' \in {"removing", "failed"}
    BY <1>6 DEF CRelease, CFail, disk
  <2>2. Kept' = {} BY <2>1 DEF Kept
  <2>3. \A s \in Runs, j \in Repos : Holds(s, j) =>
          handle[s][j] \in Inodes /\ holder[handle[s][j]] # Cleaner
    BY RunsAssumption DEF CLocks, HandleInv, TypeOK
  <2>4. HandleInv' BY <2>1, <2>2, <2>3 DEF CLocks, HandleInv, Holds, CDropAll
  <2>5. CleanInv' BY <2>1 DEF CleanInv, CDropAll
  <2> QED BY <2>1, <2>4, <2>5 DEF CLocks, OneRepoEach
<1>7. CASE CDone
  <2>1. /\ UNCHANGED <<lockFile, holder, handle, at, chandle>>
        /\ cphase = "removing" /\ cphase' = "done"
    BY <1>7 DEF CDone, disk
  <2>2. Kept' = {} BY <2>1 DEF Kept
  <2> QED BY <2>1, <2>2 DEF CLocks, OneRepoEach, HandleInv, CleanInv, Holds
<1> QED BY <1>1, <1>2, <1>3, <1>4, <1>5, <1>6, <1>7 DEF CStep

LEMMA CleanKeepsTypes == ASSUME TypeOK, CTypeOK, CStep PROVE TypeOK' /\ CTypeOK'
<1> USE DEF TypeOK, CTypeOK, runVars, vars, cvars, disk, choice
<1>1. CASE CList BY <1>1 DEF CList
<1>2. ASSUME NEW k \in Repos, COpen(k) \/ CLock(k) PROVE TypeOK' /\ CTypeOK'
  BY <1>2 DEF COpen, CLock
<1>3. CASE CLocked \/ CDone BY <1>3 DEF CLocked, CDone
<1>4. CASE CDelete
  <2>1. UNCHANGED <<holder, runVars, cvars>> BY <1>4 DEF CDelete
  <2>2. /\ lockFile' \in [Repos -> Inodes \union {NoFile}]
        /\ mirror' \in [Repos -> Amount]
        /\ clone' \in [Repos -> Amount]
        /\ checkout' \in [Repos -> [Commits -> Amount]]
        /\ partial' \in [Repos -> [Commits -> Amount]]
        /\ sealed' \in [Repos -> [Commits -> BOOLEAN]]
        /\ list' \in [Repos -> [Commits -> Amount]]
    <3> USE DEF Less, Amount
    <3>1. PICK k \in Repos :
            \/ CDeleteMirror(k) \/ CDeleteClone(k) \/ CDeleteLock(k)
            \/ \E c \in Commits :
                CDeleteCheckout(k, c) \/ CDeletePartial(k, c) \/ CDeleteList(k, c)
      BY <1>4 DEF CDelete
    <3>2. CASE CDeleteMirror(k) BY <3>2 DEF CDeleteMirror
    <3>3. CASE CDeleteClone(k) BY <3>3 DEF CDeleteClone
    <3>4. CASE CDeleteLock(k) BY <3>4 DEF CDeleteLock
    <3>5. ASSUME NEW c \in Commits, CDeleteCheckout(k, c) PROVE checkout' \in [Repos -> [Commits -> Amount]]
      BY <3>5 DEF CDeleteCheckout
    <3>6. ASSUME NEW c \in Commits, CDeletePartial(k, c) PROVE partial' \in [Repos -> [Commits -> Amount]]
      BY <3>6 DEF CDeletePartial
    <3>7. ASSUME NEW c \in Commits, CDeleteList(k, c) PROVE list' \in [Repos -> [Commits -> Amount]]
      BY <3>7 DEF CDeleteList
    <3> QED BY <3>1, <3>2, <3>3, <3>4, <3>5, <3>6, <3>7
            DEF CDeleteCheckout, CDeletePartial, CDeleteList
  <2> QED BY <2>1, <2>2
<1>5. CASE CRelease \/ CFail BY <1>5 DEF CRelease, CFail, CDropAll
<1> QED BY <1>1, <1>2, <1>3, <1>4, <1>5 DEF CStep

\* While a clean empties the cache no run is past the lock of a mirror it
\* waited for, however many runs and mirrors there are and whoever dies.
THEOREM CleanEmptiesAlone == CSpec => []EmptiedAlone
<1>1. CInit => CInductive BY CleanInit
<1>2. CInductive /\ [CNext]_allvars => CInductive'
  <2>1. SUFFICES ASSUME CInductive, [CNext]_allvars PROVE CInductive' OBVIOUS
  <2>2. CASE CStep
    BY <2>1, <2>2, CleanKeepsTypes, CleanKeepsLocks DEF CInductive, CLocks
  <2>3. CASE [Next]_vars /\ UNCHANGED cvars
    <3>1. TypeOK' /\ CLocks'
      BY <2>1, <2>3, TypeNext, RunKeepsLocks DEF CInductive, CLocks
    <3>2. CTypeOK' BY <2>1, <2>3 DEF CInductive, CTypeOK, cvars
    <3> QED BY <3>1, <3>2 DEF CInductive, CLocks
  <2> QED BY <2>1, <2>2, <2>3 DEF CNext, allvars
<1>3. CInductive => EmptiedAlone
  <2>1. SUFFICES ASSUME CInductive, cphase = "emptying", NEW k \in listed, NEW r \in Runs,
                        Holds(r, k)
                 PROVE  FALSE
    BY DEF EmptiedAlone
  <2>2. k \in Repos /\ k \in Kept BY <2>1 DEF CInductive, CTypeOK, Kept
  <2>3. handle[r][k] = lockFile[k] /\ holder[handle[r][k]] = r
    BY <2>1, <2>2 DEF CInductive, HandleInv
  <2>4. chandle[k] = lockFile[k] /\ holder[chandle[k]] = Cleaner
    BY <2>1, <2>2 DEF CInductive, CleanInv
  <2> QED BY <2>3, <2>4, RunsAssumption
<1> QED BY <1>1, <1>2, <1>3, PTL DEF CSpec

-----------------------------------------------------------------------------
(* The refinement: every step of the files and locks is a step of          *)
(* StorePromise, or changes nothing the promise speaks of.                 *)

\* A run past opening a mirror has a whole one under it, and the list it is
\* filling exists: what publishing and taking rest on.
MirrorInv ==
    \A r \in Runs, k \in Repos :
        /\ at[r][k] \in {"fetch", "held"} \union Writing => mirror[k] = "whole"
        /\ at[r][k] = "noting" => list[k][commit[r][k]] # "none"

LEMMA MirrorInit == Init => MirrorInv
BY DEF Init, MirrorInv, Writing

\* Neither a mirror nor a list is taken away.
LEMMA Grows ==
    ASSUME Inductive, NEW r \in Runs, Step(r) \/ Crash(r)
    PROVE  /\ \A k \in Repos : mirror[k] = "whole" => mirror'[k] = "whole"
           /\ \A k \in Repos, c \in Commits : list[k][c] # "none" => list'[k][c] # "none"
           /\ commit' = commit
<1> USE DEF disk, choice
<1> USE DEF Inductive, TypeOK, WriteInv
<1>1. ASSUME NEW k \in Repos, Opens(r, k)
      PROVE  /\ \A j \in Repos : mirror[j] = "whole" => mirror'[j] = "whole"
             /\ list' = list /\ commit' = commit
  BY <1>1 DEF Opens, CreateLock, TakeLock, Look, InitClone, FillClone, PlaceClone, Trust,
              OpenMirror, Fetch, Close
<1>2. ASSUME NEW k \in Repos, ChecksOut(r, k)
      PROVE  /\ mirror' = mirror /\ commit' = commit
             /\ \A j \in Repos, c \in Commits : list[j][c] # "none" => list'[j][c] # "none"
  <2>1. commit[r][k] \in Commits OBVIOUS
  <2>2. mirror' = mirror /\ commit' = commit
    BY <1>2 DEF ChecksOut, CheckOut, InitCheckout, FillCheckout, PlaceCheckout,
                ReadList, MissList, Seal, CreateList, FillList
  <2>3. CASE CreateList(r, k) \/ FillList(r, k)
    <3>1. \E amount \in {"cut", "whole"} :
            list' = [list EXCEPT ![k][commit[r][k]] = amount]
      BY <2>3 DEF CreateList, FillList
    <3> QED BY <2>1, <2>2, <3>1
  <2>4. CASE ~ (CreateList(r, k) \/ FillList(r, k))
    BY <1>2, <2>2, <2>4 DEF ChecksOut, CheckOut, InitCheckout, FillCheckout, PlaceCheckout,
                            ReadList, MissList, Seal
  <2> QED BY <2>2, <2>3, <2>4
<1>3. ASSUME Proceeds(r) \/ Crash(r) PROVE UNCHANGED <<mirror, list, commit>>
  BY <1>3 DEF Proceeds, Begin, Resolve, Restart, Solve, GiveUp, Walk, Finish, Crash
<1>4. ASSUME NEW k \in Repos, Fail(r, k) PROVE UNCHANGED <<mirror, list, commit>>
  BY <1>4 DEF Fail
<1> QED BY <1>1, <1>2, <1>3, <1>4 DEF Step

\* What every step does to where its run is.
LEMMA MirrorNext ==
    ASSUME Inductive, MirrorInv, NEW r \in Runs, Step(r) \/ Crash(r)
    PROVE  MirrorInv'
<1> USE DEF disk, choice
<1> DEFINE Onward == {"fetch", "held"} \union Writing
<1>1. ASSUME NEW k \in Repos, Opens(r, k) \/ ChecksOut(r, k) \/ Fail(r, k)
      PROVE  \E step : Goto(r, k, step)
                       /\ (step \in Onward => mirror'[k] = "whole")
                       /\ (step = "noting" => list'[k][commit[r][k]] # "none")
  <2> USE DEF Writing
  <2>1. mirror[k] \in Amount /\ mirror[k] # "cut" BY DEF Inductive, TypeOK, WholeOrAbsent
  <2>2. CASE Opens(r, k)
    BY <2>1, <2>2 DEF Opens, CreateLock, TakeLock, Look, InitClone, FillClone, PlaceClone,
                Trust, OpenMirror, Fetch, Close, Drop, Amount, MirrorInv
  <2>3. CASE Fail(r, k) BY <2>3 DEF Fail, Drop
  <2>4. CASE CreateList(r, k)
    <3>1. list'[k][commit[r][k]] = "cut" BY <2>4 DEF CreateList, Inductive, TypeOK
    <3> QED BY <2>4, <3>1 DEF CreateList, MirrorInv
  <2>5. CASE ChecksOut(r, k) /\ ~CreateList(r, k)
    BY <2>5 DEF ChecksOut, CheckOut, InitCheckout, FillCheckout, PlaceCheckout, ReadList,
                MissList, Seal, FillList, Drop, MirrorInv
  <2> QED BY <1>1, <2>2, <2>3, <2>4, <2>5
<1>2. ASSUME NEW k \in Repos, Opens(r, k) \/ ChecksOut(r, k) \/ Fail(r, k)
      PROVE  MirrorInv'
  <2>1. PICK step : Goto(r, k, step)
                    /\ (step \in Onward => mirror'[k] = "whole")
                    /\ (step = "noting" => list'[k][commit[r][k]] # "none")
    BY <1>1, <1>2
  <2>2. /\ at'[r][k] = step
        /\ \A s \in Runs, j \in Repos : (s # r \/ j # k) => at'[s][j] = at[s][j]
    BY <2>1, AtElsewhere DEF Inductive
  <2>3. \A s \in Runs, j \in Repos : commit[s][j] \in Commits BY DEF Inductive, TypeOK
  <2>4. Step(r) BY <1>2 DEF Step
  <2>5. /\ \A j \in Repos : mirror[j] = "whole" => mirror'[j] = "whole"
        /\ \A j \in Repos, c \in Commits : list[j][c] # "none" => list'[j][c] # "none"
        /\ commit' = commit
    BY <2>4, Grows
  <2> QED BY <2>1, <2>2, <2>3, <2>5 DEF MirrorInv
<1>3. ASSUME Proceeds(r) \/ Crash(r) PROVE MirrorInv'
  <2>1. DropAll(r) \/ UNCHANGED at
    BY <1>3 DEF Proceeds, Begin, Resolve, Restart, Solve, GiveUp, Walk, Finish, Crash
  <2>2. \A s \in Runs, j \in Repos : at'[s][j] = at[s][j] \/ at'[s][j] = "idle"
    <3>1. at \in [Runs -> [Repos -> Steps]] BY DEF Inductive, TypeOK
    <3> QED BY <2>1, <3>1 DEF DropAll
  <2>3. \A s \in Runs, j \in Repos : commit[s][j] \in Commits BY DEF Inductive, TypeOK
  <2> QED BY <1>3, <2>2, <2>3, Grows DEF MirrorInv, Step, Writing
<1> QED BY <1>2, <1>3 DEF Step

-----------------------------------------------------------------------------
(* The mapping.                                                            *)

LEMMA WriterIs ==
    ASSUME OneWriter, NEW k \in Repos
    PROVE  /\ \A r \in Runs : Holds(r, k) <=> writer[k] = r
           /\ (\A r \in Runs : ~Holds(r, k)) => writer[k] = Nobody
BY RunsAssumption DEF writer, OneWriter

LEMMA WriterIsNext ==
    ASSUME OneWriter', NEW k \in Repos
    PROVE  /\ \A r \in Runs : Holds(r, k)' <=> writer'[k] = r
           /\ (\A r \in Runs : ~Holds(r, k)') => writer'[k] = Nobody
BY RunsAssumption DEF writer, OneWriter

\* A step of one run at one repository changes the writer of no other, and of
\* that one only by the run taking its lock or dropping it.
LEMMA WriterMoves ==
    ASSUME Inductive, OneWriter, OneWriter',
           NEW r \in Runs, NEW k \in Repos, NEW step, Goto(r, k, step)
    PROVE  /\ (step \in Locked <=> Holds(r, k)) => writer' = writer
           /\ step \notin Locked /\ Holds(r, k) => writer' = [writer EXCEPT ![k] = Nobody]
           /\ step \in Locked /\ (\A s \in Runs : ~Holds(s, k)) =>
                writer[k] = Nobody /\ writer' = [writer EXCEPT ![k] = r]
<1>1. /\ at'[r][k] = step
      /\ \A s \in Runs, j \in Repos : (s # r \/ j # k) => at'[s][j] = at[s][j]
  BY AtElsewhere DEF Inductive
<1>2. Holds(r, k)' <=> step \in Locked BY <1>1 DEF Holds
<1>3. \A s \in Runs, j \in Repos : (s # r \/ j # k) => (Holds(s, j)' <=> Holds(s, j))
  BY <1>1 DEF Holds
<1>4. writer = [j \in Repos |-> writer[j]] /\ writer' = [j \in Repos |-> writer'[j]]
  BY DEF writer
<1>5. \A j \in Repos : j # k => writer'[j] = writer[j]
  <2> SUFFICES ASSUME NEW j \in Repos, j # k PROVE writer'[j] = writer[j] OBVIOUS
  <2>1. CASE \E s \in Runs : Holds(s, j) BY <2>1, <1>3, WriterIs, WriterIsNext
  <2>2. CASE \A s \in Runs : ~Holds(s, j) BY <2>2, <1>3, WriterIs, WriterIsNext
  <2> QED BY <2>1, <2>2
<1>6. ASSUME step \in Locked <=> Holds(r, k) PROVE writer'[k] = writer[k]
  <2>1. CASE \E s \in Runs : Holds(s, k)
    BY <2>1, <1>2, <1>3, <1>6, WriterIs, WriterIsNext
  <2>2. CASE \A s \in Runs : ~Holds(s, k)
    BY <2>2, <1>2, <1>3, <1>6, WriterIs, WriterIsNext
  <2> QED BY <2>1, <2>2
<1>7. ASSUME step \notin Locked, Holds(r, k) PROVE writer'[k] = Nobody
  <2>1. \A s \in Runs : ~Holds(s, k)' BY <1>2, <1>3, <1>7 DEF OneWriter
  <2> QED BY <2>1, WriterIsNext
<1>8. ASSUME step \in Locked, \A s \in Runs : ~Holds(s, k)
      PROVE  writer[k] = Nobody /\ writer'[k] = r
  BY <1>2, <1>8, WriterIs, WriterIsNext
<1> QED BY <1>4, <1>5, <1>6, <1>7, <1>8

LEMMA WriterDropped ==
    ASSUME Inductive, OneWriter, OneWriter', NEW r \in Runs, DropAll(r)
    PROVE  writer' = [k \in Repos |-> IF writer[k] = r THEN Nobody ELSE writer[k]]
<1>1. \A s \in Runs, j \in Repos : s # r => (Holds(s, j)' <=> Holds(s, j))
  BY DEF DropAll, Inductive, TypeOK, Holds
<1>2. \A j \in Repos : ~Holds(r, j)'
  <2>1. "idle" \notin Locked BY DEF Locked, Opening, Writing
  <2>2. \A j \in Repos : at'[r][j] = "idle" BY DEF DropAll, Inductive, TypeOK
  <2> QED BY <2>1, <2>2 DEF Holds
<1>3. ASSUME NEW k \in Repos
      PROVE  writer'[k] = IF writer[k] = r THEN Nobody ELSE writer[k]
  <2>1. CASE Holds(r, k)
    <3>1. \A s \in Runs : ~Holds(s, k)' BY <2>1, <1>1, <1>2 DEF OneWriter
    <3> QED BY <2>1, <3>1, WriterIs, WriterIsNext
  <2>2. CASE ~Holds(r, k) /\ \E s \in Runs : Holds(s, k)
    BY <2>2, <1>1, WriterIs, WriterIsNext
  <2>3. CASE \A s \in Runs : ~Holds(s, k)
    BY <2>3, <1>1, <1>2, WriterIs, WriterIsNext
  <2> QED BY <2>1, <2>2, <2>3
<1> QED BY <1>3 DEF writer

\* What the promise says of the disk follows from what the disk holds.
LEMMA SameOnDisk ==
    ASSUME UNCHANGED <<mirror, list>>
    PROVE  mirrored' = mirrored /\ published' = published
BY DEF mirrored, published

LEMMA OpensPromised ==
    ASSUME Inductive, OneWriter, OneWriter', MirrorInv,
           NEW r \in Runs, NEW k \in Repos, Opens(r, k)
    PROVE  [Promise!Next]_(Promise!pvars)
<1> USE DEF disk, choice
<1>1. reading' = reading
  BY DEF Opens, CreateLock, TakeLock, Look, InitClone, FillClone, PlaceClone, Trust,
         OpenMirror, Fetch, Close, reading
<1>2. CASE TakeLock(r, k)
  <2>1. Goto(r, k, "look") /\ "look" \in Locked /\ UNCHANGED <<mirror, list>>
    BY <1>2 DEF TakeLock, Locked, Opening
  <2>2. \A s \in Runs : ~Holds(s, k)
    <3> SUFFICES ASSUME NEW s \in Runs, Holds(s, k) PROVE FALSE OBVIOUS
    <3>1. handle[s][k] = handle[r][k] /\ holder[handle[s][k]] = s
      BY <1>2 DEF TakeLock, Inductive, LockInv
    <3> QED BY <3>1, <1>2, RunsAssumption DEF TakeLock
  <2>3. writer[k] = Nobody /\ writer' = [writer EXCEPT ![k] = r]
    BY <2>1, <2>2, WriterMoves
  <2>4. Promise!Enter(r, k) BY <1>1, <2>1, <2>3, SameOnDisk DEF Promise!Enter
  <2> QED BY <2>4 DEF Promise!Next
<1>3. CASE PlaceClone(r, k)
  <2>1. Goto(r, k, "open") /\ "open" \in Locked /\ Holds(r, k) /\ list' = list
    BY <1>3 DEF PlaceClone, Locked, Opening, Holds
  <2>2. writer' = writer /\ writer[k] = r BY <2>1, WriterMoves, WriterIs
  <2>3. mirrored' = mirrored \union {k}
    <3>1. clone[k] = "whole" BY <1>3 DEF PlaceClone, Inductive, WriteInv
    <3>2. mirror' = [mirror EXCEPT ![k] = "whole"] BY <1>3, <3>1 DEF PlaceClone
    <3> QED BY <3>2 DEF mirrored, Inductive, TypeOK
  <2>4. published' = published BY <2>1 DEF published
  <2>5. Promise!Mirror(r, k) BY <1>1, <2>2, <2>3, <2>4 DEF Promise!Mirror
  <2> QED BY <2>5 DEF Promise!Next
<1>4. CASE Close(r, k)
  <2>1. Goto(r, k, "out") /\ "out" \notin Locked /\ Holds(r, k) /\ UNCHANGED <<mirror, list>>
    BY <1>4 DEF Close, Drop, Locked, Opening, Writing, Holds
  <2>2. writer' = [writer EXCEPT ![k] = Nobody] /\ writer[k] = r
    BY <2>1, WriterMoves, WriterIs
  <2>3. writer' = [j \in Repos |-> IF j \in {k} /\ writer[j] = r THEN Nobody ELSE writer[j]]
    BY <2>2 DEF writer
  <2>4. Promise!Leave(r, {k}) BY <1>1, <2>1, <2>3, SameOnDisk DEF Promise!Leave
  <2> QED BY <2>4 DEF Promise!Next
<1>5. CASE CreateLock(r, k)
  <2>1. Goto(r, k, "wait") /\ "wait" \notin Locked /\ ~Holds(r, k) /\ UNCHANGED <<mirror, list>>
    BY <1>5 DEF CreateLock, MayOpen, Locked, Opening, Writing, Holds
  <2> QED BY <1>1, <2>1, WriterMoves, SameOnDisk DEF Promise!pvars
<1>6. CASE ~ (TakeLock(r, k) \/ PlaceClone(r, k) \/ Close(r, k) \/ CreateLock(r, k))
  <2>1. Holds(r, k) /\ UNCHANGED <<mirror, list>>
    BY <1>6 DEF Opens, Look, InitClone, FillClone, Trust, OpenMirror, Fetch,
                Holds, Locked, Opening
  <2>2. PICK step \in Locked : Goto(r, k, step)
    BY <1>6 DEF Opens, Look, InitClone, FillClone, Trust, OpenMirror, Fetch,
                Locked, Opening
  <2> QED BY <1>1, <2>1, <2>2, WriterMoves, SameOnDisk DEF Promise!pvars
<1> QED BY <1>2, <1>3, <1>4, <1>5, <1>6

\* What a run takes is the list of the commit it goes by.
LEMMA ReadingTakes ==
    ASSUME Inductive, NEW r \in Runs, NEW k \in Repos, NEW amount \in {"cut", "whole"},
           got' = [got EXCEPT ![r][k] = amount], commit' = commit
    PROVE  reading' = [reading EXCEPT ![r] = @ \union {<<k, commit[r][k]>>}]
<1>1. commit[r][k] \in Commits /\ amount # "none" BY DEF Inductive, TypeOK
<1>2. \A s \in Runs, j \in Repos :
        got'[s][j] = IF s = r /\ j = k THEN amount ELSE got[s][j]
  BY DEF Inductive, TypeOK
<1>3. \A s \in Runs : s # r => reading'[s] = reading[s] BY <1>2 DEF reading
<1>4. reading'[r] = reading[r] \union {<<k, commit[r][k]>>} BY <1>1, <1>2 DEF reading
<1> QED BY <1>3, <1>4 DEF reading

LEMMA ChecksOutPromised ==
    ASSUME Inductive, OneWriter, OneWriter', MirrorInv,
           NEW r \in Runs, NEW k \in Repos, ChecksOut(r, k)
    PROVE  [Promise!Next]_(Promise!pvars)
<1> DEFINE c == commit[r][k]
<1> USE DEF disk, choice
<1>1. c \in Commits BY DEF Inductive, TypeOK
<1>2. Holds(r, k)
  BY DEF ChecksOut, CheckOut, InitCheckout, FillCheckout, PlaceCheckout, ReadList,
         MissList, Seal, CreateList, FillList, Holds, Locked, Writing
<1>3. writer[k] = r BY <1>2, WriterIs
<1>4. commit' = commit /\ mirrored' = mirrored
  BY DEF ChecksOut, CheckOut, InitCheckout, FillCheckout, PlaceCheckout, ReadList,
         MissList, Seal, CreateList, FillList, mirrored
<1>5. ASSUME NEW amount \in {"cut", "whole"}, list' = [list EXCEPT ![k][c] = amount]
      PROVE  published' = published \union {<<k, c>>}
  <2>1. \A j \in Repos, d \in Commits :
          list'[j][d] = IF j = k /\ d = c THEN amount ELSE list[j][d]
    BY <1>1, <1>5 DEF Inductive, TypeOK
  <2> QED BY <1>1, <2>1 DEF published
<1>6. CASE CreateList(r, k)
  <2>1. Goto(r, k, "noting") /\ "noting" \in Locked /\ got' = got
    BY <1>6 DEF CreateList, Locked, Writing
  <2>2. writer' = writer BY <1>2, <2>1, WriterMoves
  <2>3. reading' = reading BY <1>4, <2>1 DEF reading
  <2>4. published' = published \union {<<k, c>>} BY <1>5, <1>6 DEF CreateList
  <2>5. k \in mirrored BY <1>6 DEF CreateList, MirrorInv, Writing, mirrored
  <2>6. Promise!Publish(r, k, c)
    BY <1>3, <1>4, <2>2, <2>3, <2>4, <2>5 DEF Promise!Publish
  <2> QED BY <1>1, <2>6 DEF Promise!Next
<1>7. CASE ReadList(r, k) \/ FillList(r, k)
  <2>1. Goto(r, k, "out") /\ "out" \notin Locked
    BY <1>7 DEF ReadList, FillList, Drop, Locked, Opening, Writing
  <2>2. writer' = [writer EXCEPT ![k] = Nobody] BY <1>2, <2>1, WriterMoves
  <2>3. <<k, c>> \in published /\ published' = published
    <3>1. list[k][c] # "none" BY <1>7 DEF ReadList, FillList, MirrorInv
    <3>2. <<k, c>> \in published BY <1>1, <3>1 DEF published
    <3>3. CASE ReadList(r, k) BY <3>2, <3>3 DEF ReadList, published
    <3>4. CASE FillList(r, k) BY <3>2, <3>4, <1>5 DEF FillList
    <3> QED BY <1>7, <3>2, <3>3, <3>4
  <2>4. \E amount \in {"cut", "whole"} : got' = [got EXCEPT ![r][k] = amount]
    <3>1. list[k][c] \in Amount BY <1>1 DEF Inductive, TypeOK
    <3> QED BY <1>7, <3>1 DEF ReadList, FillList, Amount
  <2>5. reading' = [reading EXCEPT ![r] = @ \union {<<k, c>>}]
    BY <1>4, <2>4, ReadingTakes
  <2>6. Promise!Take(r, k, c)
    BY <1>3, <1>4, <2>2, <2>3, <2>5 DEF Promise!Take
  <2> QED BY <1>1, <2>6 DEF Promise!Next
<1>8. CASE ~ (CreateList(r, k) \/ ReadList(r, k) \/ FillList(r, k))
  <2>1. UNCHANGED <<list, got>>
    BY <1>8 DEF ChecksOut, CheckOut, InitCheckout, FillCheckout, PlaceCheckout,
                MissList, Seal
  <2>2. PICK step \in Locked : Goto(r, k, step)
    BY <1>8 DEF ChecksOut, CheckOut, InitCheckout, FillCheckout, PlaceCheckout,
                MissList, Seal, Locked, Writing
  <2>3. writer' = writer BY <1>2, <2>2, WriterMoves
  <2>4. published' = published /\ reading' = reading
    BY <1>4, <2>1 DEF published, reading
  <2> QED BY <1>4, <2>3, <2>4 DEF Promise!pvars
<1> QED BY <1>6, <1>7, <1>8

LEMMA RunPromised ==
    ASSUME Inductive, OneWriter, OneWriter', NEW r \in Runs,
           Proceeds(r) \/ Crash(r) \/ (\E k \in Repos : Fail(r, k))
    PROVE  [Promise!Next]_(Promise!pvars)
<1> USE DEF disk, choice
<1>1. mirrored' = mirrored /\ published' = published
  <2>1. UNCHANGED <<mirror, list>>
    BY DEF Proceeds, Begin, Resolve, Restart, Solve, GiveUp, Walk, Finish, Crash, Fail
  <2> QED BY <2>1, SameOnDisk
<1>2. CASE Begin(r) \/ Walk(r)
  <2>1. UNCHANGED <<at, got, commit>> BY <1>2 DEF Begin, Walk
  <2>2. writer' = writer /\ reading' = reading BY <2>1 DEF writer, reading, Holds
  <2> QED BY <1>1, <2>2 DEF Promise!pvars
<1>3. CASE Proceeds(r) /\ ~ (Begin(r) \/ Walk(r))
  <2>1. DropAll(r) /\ UNCHANGED <<got, commit>>
    BY <1>3 DEF Proceeds, Resolve, Restart, Solve, GiveUp, Finish
  <2>2. writer' = [k \in Repos |-> IF k \in Repos /\ writer[k] = r THEN Nobody ELSE writer[k]]
    BY <2>1, WriterDropped
  <2>3. reading' = reading BY <2>1 DEF reading
  <2>4. Promise!Leave(r, Repos) BY <1>1, <2>2, <2>3 DEF Promise!Leave
  <2> QED BY <2>4 DEF Promise!Next
<1>4. CASE Crash(r)
  <2>1. /\ DropAll(r) /\ commit' = commit
        /\ got' = [got EXCEPT ![r] = [k \in Repos |-> "none"]]
    BY <1>4 DEF Crash
  <2>2. writer' = [k \in Repos |-> IF writer[k] = r THEN Nobody ELSE writer[k]]
    BY <2>1, WriterDropped
  <2>3. reading' = [reading EXCEPT ![r] = {}]
    <3>1. got \in [Runs -> [Repos -> Amount]] BY DEF Inductive, TypeOK
    <3>2. \A s \in Runs : s # r => reading'[s] = reading[s] BY <2>1, <3>1 DEF reading
    <3>3. reading'[r] = {} BY <2>1, <3>1 DEF reading
    <3>4. /\ reading = [s \in Runs |-> reading[s]]
          /\ reading' = [s \in Runs |-> reading'[s]]
      BY DEF reading
    <3> QED BY <3>2, <3>3, <3>4
  <2>4. Promise!Die(r) BY <1>1, <2>2, <2>3 DEF Promise!Die
  <2> QED BY <2>4 DEF Promise!Next
<1>5. ASSUME NEW k \in Repos, Fail(r, k) PROVE [Promise!Next]_(Promise!pvars)
  <2>1. Goto(r, k, "failed") /\ "failed" \notin Locked /\ Holds(r, k)
    BY <1>5 DEF Fail, Drop, Missing, Locked, Opening, Writing, Holds
  <2>2. writer' = [writer EXCEPT ![k] = Nobody] /\ writer[k] = r
    BY <2>1, WriterMoves, WriterIs
  <2>3. writer' = [j \in Repos |-> IF j \in {k} /\ writer[j] = r THEN Nobody ELSE writer[j]]
    BY <2>2 DEF writer
  <2>4. reading' = reading BY <1>5 DEF Fail, reading
  <2>5. Promise!Leave(r, {k}) BY <1>1, <2>3, <2>4 DEF Promise!Leave
  <2> QED BY <2>5 DEF Promise!Next
<1> QED BY <1>2, <1>3, <1>4, <1>5

\* However many runs there are, the cache never has two writers to one
\* repository, never takes back what it published, and lets no run go by what
\* it did not publish.
THEOREM StoreKeepsPromise == Spec => KeepsPromise
<1>1. Init => Promise!Init
  <2> SUFFICES ASSUME Init PROVE Promise!Init OBVIOUS
  <2>1. writer = [k \in Repos |-> Nobody]
    BY DEF Init, writer, Holds, Locked, Opening, Writing
  <2>2. mirrored = {} /\ published = {} BY DEF Init, mirrored, published
  <2>3. reading = [r \in Runs |-> {}] BY DEF Init, reading
  <2> QED BY <2>1, <2>2, <2>3 DEF Promise!Init
<1>2. Init => MirrorInv BY MirrorInit
<1>3. Inductive /\ MirrorInv /\ [Next]_vars => MirrorInv'
  <2>1. UNCHANGED vars /\ MirrorInv => MirrorInv' BY DEF vars, disk, choice, MirrorInv
  <2> QED BY <2>1, MirrorNext DEF Next
<1>4. Inductive => OneWriter BY LockExcludes DEF Inductive
<1>5. Inductive /\ OneWriter /\ OneWriter' /\ MirrorInv /\ [Next]_vars
      => [Promise!Next]_(Promise!pvars)
  <2>1. UNCHANGED vars => UNCHANGED Promise!pvars
    BY DEF vars, disk, choice, Promise!pvars, writer, mirrored, published, reading, Holds
  <2> QED
    BY <2>1, OpensPromised, ChecksOutPromised, RunPromised DEF Next, Step
<1> QED
  BY <1>1, <1>2, <1>3, <1>4, <1>5, Invariance, PTL DEF Spec, KeepsPromise, Promise!Spec
=============================================================================
