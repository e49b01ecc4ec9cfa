-------------------------- MODULE SessionsProofs --------------------------
(* Proofs about the parts that hold a session. Who may write a saved one          *)
(* (SessionLock), for any number of runs and turns: a run's steps are told apart    *)
(* by where they take it (RunsMove), and what they keep is proved in six parts.      *)
(* And the host that serves one engine to its clients (EngineHost), for any number  *)
(* of engines, events and lost connections: the client follows the session's log,    *)
(* and the session says what is true of the engine.                                  *)
EXTENDS MCSessions, StoreProofs, CheckpointsProofs

-----------------------------------------------------------------------------
(* SessionLock *)

Holding == {"create", "fresh", "resume", "rebuild", "own", "delete", "drop"}
Purposes == {"create", "resume", "delete"}

\* A run holds a lock, of a file it has open, at these places only.
LocksAreHeld ==
  \A r \in Runs :
    /\ runs[r].holds <=> At(r, Holding)
    /\ At(r, Holding \cup {"lock"}) => runs[r].open # 0
    /\ At(r, {"open", "lock"}) => runs[r].purpose \in Purposes
    /\ At(r, {"open", "lock", "create"}) => runs[r].memory = {}

\* try_lock: a lock file is held by one run.
OneHolder ==
  \A r, s \in Runs : runs[r].holds /\ runs[s].holds /\ runs[r].open = runs[s].open => r = s

\* The run that makes the session, until the file is there.
Makes(r) == \/ At(r, {"open", "lock"}) /\ runs[r].purpose = "create"
            \/ At(r, {"create"})

\* The session is made once; until then nobody else is after it.
MadeOnce ==
  /\ ~born => \A r \in Runs : At(r, {"away"})
  /\ ~born \/ (\E r \in Runs : Makes(r)) => ~sessionFile.exists /\ turnsMade = 0 /\ ~removed
  /\ \A r, s \in Runs : Makes(r) /\ s # r => At(s, {"away"})

\* While the file is there no lock file was unlinked, so the runs that may lock all have the
\* same one open, and the one run that read the file has what is in it.
FileIsKept ==
  ~exposed =>
    /\ removed => ~sessionFile.exists
    /\ sessionFile.exists =>
         /\ sessionFile.turns = 1..turnsMade
         /\ \A r \in Runs : /\ At(r, Holding \cup {"lock"}) => runs[r].open = lockPath
                            /\ ~At(r, {"drop", "unlink"})
    /\ \A r \in Runs :
         /\ At(r, {"rebuild", "fresh", "own"}) =>
              sessionFile.exists /\ runs[r].memory = sessionFile.turns
         /\ ~At(r, {"unlocked"})

\* The lock file that run opened is the one at the path: nobody was there to unlink it.
MakerIsAtThePath ==
  \A r \in Runs : Makes(r) /\ ~At(r, {"open"}) => runs[r].open = lockPath

LockInv ==
  LockTypeOK /\ LocksAreHeld /\ OneHolder /\ MadeOnce /\ MakerIsAtThePath /\ FileIsKept

RunRecords == [at : LockPlaces, purpose : {"none"} \cup Purposes, open : {0} \cup LockFiles,
               holds : BOOLEAN, memory : SUBSET LockTurnIds]

\* Run r is at another place, with this lock and these messages; the others stay.
Moves(r, at, purpose, open, holds, messages) ==
  /\ runs' \in [Runs -> RunRecords]
  /\ runs'[r].at = at /\ runs'[r].purpose = purpose /\ runs'[r].open = open
  /\ runs'[r].holds = holds /\ runs'[r].memory = messages
  /\ \A s \in Runs : s # r => runs'[s] = runs[s]

\* There is always a lock file that no run has open: runs have one open each, at most.
LEMMA LockFileIsFree ==
  ASSUME LockTypeOK
  PROVE  \E f \in LockFiles : \A s \in Runs : runs[s].open # f
<1> DEFINE n == Cardinality(Runs)
           OpenFiles == {runs[s].open : s \in Runs}
<1>1. IsFiniteSet(Runs) /\ n \in Nat
  BY LockBoundsAssumption, FS_CardinalityType
<1>2. IsFiniteSet(OpenFiles) /\ Cardinality(OpenFiles) <= n
  <2> DEFINE open == [s \in Runs |-> runs[s].open]
  <2>1. open = [s \in Runs |-> open[s]] /\ OpenFiles = {open[s] : s \in Runs}
    OBVIOUS
  <2> HIDE DEF open
  <2>2. QED
    BY <1>1, <2>1, FewValues
<1>3. Cardinality(LockFiles) = n + 1
  BY <1>1, FS_Interval DEF LockFiles
<1>4. ~(LockFiles \in SUBSET OpenFiles)
  <2> SUFFICES ASSUME LockFiles \in SUBSET OpenFiles PROVE FALSE
    OBVIOUS
  <2>1. Cardinality(LockFiles) <= Cardinality(OpenFiles) /\ Cardinality(OpenFiles) \in Nat
    BY <1>2, FS_Subset, FS_CardinalityType
  <2>2. QED
    BY <1>1, <1>2, <1>3, <2>1
<1>5. QED
  BY <1>4

\* Giving one run its new record.
LEMMA RunMoves ==
  ASSUME LockTypeOK, NEW r \in Runs, NEW run \in RunRecords, Becomes(r, run)
  PROVE  Moves(r, run.at, run.purpose, run.open, run.holds, run.memory)
  BY DEF LockTypeOK, Becomes, Moves, RunRecords, Purposes

\* Where each step of a run takes it.
LEMMA RunsMove ==
  ASSUME LockTypeOK, NEW r \in Runs
  PROVE  /\ \A purpose \in Purposes : Begin(r, purpose) =>
             Moves(r, "open", purpose, 0, FALSE, {})
         /\ OpenLockFile(r) =>
             Moves(r, "lock", runs[r].purpose, lockPath', runs[r].holds, runs[r].memory)
         /\ TryLock(r) /\ runs[r].purpose \in Purposes =>
             \/ CanLock(r) /\ Moves(r, runs[r].purpose, runs[r].purpose, runs[r].open, TRUE, runs[r].memory)
             \/ Moves(r, "away", "none", 0, FALSE, {})
         /\ CreateFile(r) =>
             Moves(r, "fresh", runs[r].purpose, runs[r].open, runs[r].holds, runs[r].memory)
         /\ Load(r) =>
             \/ Moves(r, "rebuild", runs[r].purpose, runs[r].open, runs[r].holds, sessionFile.turns) /\ sessionFile.exists
             \/ Moves(r, "away", "none", 0, FALSE, {})
         /\ Rebuild(r) =>
             \/ Moves(r, "own", runs[r].purpose, runs[r].open, runs[r].holds, runs[r].memory)
             \/ Moves(r, "away", "none", 0, FALSE, {})
         /\ PushTurn(r) =>
             \E at \in {"own", "unlocked"} :
               /\ Moves(r, at, runs[r].purpose, runs[r].open, runs[r].holds, runs[r].memory \cup {turnsMade + 1})
               /\ at = "unlocked" <=> At(r, {"unlocked"})
         /\ SwitchAway(r) =>
             Moves(r, "away", "none", 0, FALSE, {})
         /\ ClearBegins(r) =>
             Moves(r, "clearing", runs[r].purpose, 0, FALSE, runs[r].memory)
         /\ ClearEnds(r) =>
             \/ Moves(r, "away", "none", 0, FALSE, {})
             \/ exposed' /\ Moves(r, "unlocked", runs[r].purpose, runs[r].open, runs[r].holds, runs[r].memory)
         /\ EndRun(r) =>
             Moves(r, "away", "none", 0, FALSE, {})
         /\ DiscardUnused(r) =>
             Moves(r, "delete", runs[r].purpose, runs[r].open, runs[r].holds, runs[r].memory)
         /\ DeleteFile(r) =>
             Moves(r, "drop", runs[r].purpose, runs[r].open, runs[r].holds, runs[r].memory)
         /\ DropLock(r) =>
             Moves(r, "unlink", runs[r].purpose, 0, FALSE, runs[r].memory)
         /\ UnlinkLock(r) =>
             Moves(r, "away", "none", 0, FALSE, {})
         /\ LeavePlaceholder(r) =>
             Moves(r, "placeholder", runs[r].purpose, 0, FALSE, runs[r].memory)
         /\ RemovePlaceholder(r) =>
             Moves(r, "unlink", runs[r].purpose, runs[r].open, runs[r].holds, runs[r].memory)
<1> DEFINE run == runs[r]
<1>0. run \in RunRecords
  BY DEF LockTypeOK, RunRecords, Purposes
<1>a. ASSUME Becomes(r, Away) PROVE Moves(r, "away", "none", 0, FALSE, {})
  <2>1. Away \in RunRecords /\ Away.at = "away" /\ Away.purpose = "none" /\ Away.open = 0
        /\ Away.holds = FALSE /\ Away.memory = {}
    BY DEF Away, RunRecords, LockPlaces
  <2> HIDE DEF Away
  <2>2. QED
    BY <1>a, <2>1, RunMoves
<1>d. ASSUME NEW place \in LockPlaces, Goes(r, place)
      PROVE  Moves(r, place, run.purpose, run.open, run.holds, run.memory)
  <2> DEFINE now == [run EXCEPT !.at = place]
  <2>1. /\ now \in RunRecords /\ now.at = place /\ now.purpose = run.purpose
        /\ now.open = run.open /\ now.holds = run.holds /\ now.memory = run.memory
    BY <1>0 DEF RunRecords
  <2>2. Becomes(r, now)
    BY <1>d DEF Goes
  <2> HIDE DEF now, run
  <2>3. QED
    BY <2>1, <2>2, RunMoves
<1>e. ASSUME NEW place \in LockPlaces, Becomes(r, [Released(run) EXCEPT !.at = place])
      PROVE  Moves(r, place, run.purpose, 0, FALSE, run.memory)
  <2> DEFINE now == [Released(run) EXCEPT !.at = place]
  <2>1. /\ now \in RunRecords /\ now.at = place /\ now.purpose = run.purpose
        /\ now.open = 0 /\ now.holds = FALSE /\ now.memory = run.memory
    BY <1>0 DEF RunRecords, Released
  <2> HIDE DEF now, run
  <2>2. QED
    BY <1>e, <2>1, RunMoves DEF now
<1>1. ASSUME NEW purpose \in Purposes, Begin(r, purpose)
      PROVE  Moves(r, "open", purpose, 0, FALSE, {})
  <2> DEFINE now == [Away EXCEPT !.at = "open", !.purpose = purpose]
  <2>1. /\ now \in RunRecords /\ now.at = "open" /\ now.purpose = purpose
        /\ now.open = 0 /\ now.holds = FALSE /\ now.memory = {}
    BY <1>0 DEF RunRecords, LockPlaces, Away
  <2>2. Becomes(r, now)
    BY <1>1 DEF Begin
  <2> HIDE DEF now, run
  <2>3. QED
    BY <2>1, <2>2, RunMoves DEF run
<1>2. ASSUME OpenLockFile(r)
      PROVE  Moves(r, "lock", runs[r].purpose, lockPath', runs[r].holds, runs[r].memory)
  <2>0. lockPath' \in {0} \cup LockFiles
    BY <1>2, LockFileIsFree DEF OpenLockFile, LockTypeOK
  <2> DEFINE now == [run EXCEPT !.at = "lock", !.open = lockPath']
  <2>1. /\ now \in RunRecords /\ now.at = "lock" /\ now.purpose = run.purpose
        /\ now.open = lockPath' /\ now.holds = run.holds /\ now.memory = run.memory
    BY <1>0, <2>0 DEF RunRecords, LockPlaces
  <2>2. Becomes(r, now)
    BY <1>2 DEF OpenLockFile
  <2> HIDE DEF now, run
  <2>3. QED
    BY <2>1, <2>2, RunMoves DEF run
<1>3. ASSUME TryLock(r) /\ runs[r].purpose \in Purposes
      PROVE  \/ CanLock(r) /\ Moves(r, runs[r].purpose, runs[r].purpose, runs[r].open, TRUE, runs[r].memory)
             \/ Moves(r, "away", "none", 0, FALSE, {})
  <2>1. CASE Becomes(r, Away)
    BY <1>a, <2>1
  <2>2. CASE CanLock(r) /\ Becomes(r, [run EXCEPT !.at = run.purpose, !.holds = TRUE])
    <3> DEFINE now == [run EXCEPT !.at = run.purpose, !.holds = TRUE]
    <3>1. /\ now \in RunRecords /\ now.at = run.purpose /\ now.purpose = run.purpose
          /\ now.open = run.open /\ now.holds = TRUE /\ now.memory = run.memory
      BY <1>0, <1>3 DEF RunRecords, LockPlaces, Purposes
    <3>2. Becomes(r, now)
      BY <2>2
    <3> HIDE DEF now, run
    <3>3. QED
      BY <2>2, <3>1, <3>2, RunMoves DEF run
  <2>3. QED
    BY <1>3, <2>1, <2>2 DEF TryLock
<1>4. ASSUME CreateFile(r)
      PROVE  Moves(r, "fresh", runs[r].purpose, runs[r].open, runs[r].holds, runs[r].memory)
  BY <1>4, <1>d DEF CreateFile, LockPlaces
<1>5. ASSUME Load(r)
      PROVE  \/ Moves(r, "rebuild", runs[r].purpose, runs[r].open, runs[r].holds, sessionFile.turns) /\ sessionFile.exists
             \/ Moves(r, "away", "none", 0, FALSE, {})
  <2>1. CASE Becomes(r, Away)
    BY <1>a, <2>1
  <2>2. CASE /\ sessionFile.exists
             /\ Becomes(r, [run EXCEPT !.at = "rebuild", !.memory = sessionFile.turns])
    <3> DEFINE now == [run EXCEPT !.at = "rebuild", !.memory = sessionFile.turns]
    <3>0. sessionFile.turns \in SUBSET LockTurnIds
      BY DEF LockTypeOK
    <3>1. /\ now \in RunRecords /\ now.at = "rebuild" /\ now.purpose = run.purpose
          /\ now.open = run.open /\ now.holds = run.holds /\ now.memory = sessionFile.turns
      BY <1>0, <3>0 DEF RunRecords, LockPlaces
    <3>2. Becomes(r, now)
      BY <2>2
    <3> HIDE DEF now, run
    <3>3. QED
      BY <2>2, <3>1, <3>2, RunMoves DEF run
  <2>3. QED
    BY <1>5, <2>1, <2>2 DEF Load
<1>6. ASSUME Rebuild(r)
      PROVE  \/ Moves(r, "own", runs[r].purpose, runs[r].open, runs[r].holds, runs[r].memory)
             \/ Moves(r, "away", "none", 0, FALSE, {})
  BY <1>6, <1>a, <1>d DEF Rebuild, LockPlaces
<1>7. ASSUME PushTurn(r)
      PROVE  \E at \in {"own", "unlocked"} :
               /\ Moves(r, at, runs[r].purpose, runs[r].open, runs[r].holds, runs[r].memory \cup {turnsMade + 1})
               /\ at = "unlocked" <=> At(r, {"unlocked"})
  <2> DEFINE at == IF run.at = "fresh" THEN "own" ELSE run.at
             messages == run.memory \cup {turnsMade + 1}
             now == [run EXCEPT !.memory = messages, !.at = at]
  <2>1. at \in {"own", "unlocked"} /\ (at = "unlocked" <=> At(r, {"unlocked"}))
    BY <1>7 DEF PushTurn, At, Writing
  <2>2. messages \in SUBSET LockTurnIds
    BY <1>0, <1>7, LockBoundsAssumption DEF PushTurn, RunRecords, LockTurnIds, LockTypeOK
  <2>3. Becomes(r, now)
    BY <1>7 DEF PushTurn
  <2> HIDE DEF at, messages
  <2>4. /\ now \in RunRecords /\ now.at = at /\ now.purpose = run.purpose
        /\ now.open = run.open /\ now.holds = run.holds /\ now.memory = messages
    BY <1>0, <2>1, <2>2 DEF RunRecords, LockPlaces
  <2> HIDE DEF now, run
  <2>5. Moves(r, at, run.purpose, run.open, run.holds, messages)
    BY <2>3, <2>4, RunMoves
  <2> USE DEF run
  <2>6. QED
    BY <2>1, <2>5 DEF messages
<1>8. ASSUME SwitchAway(r)
      PROVE  Moves(r, "away", "none", 0, FALSE, {})
  BY <1>8, <1>a DEF SwitchAway, LockPlaces
<1>9. ASSUME ClearBegins(r)
      PROVE  Moves(r, "clearing", runs[r].purpose, 0, FALSE, runs[r].memory)
  BY <1>9, <1>e DEF ClearBegins, LockPlaces
<1>10. ASSUME ClearEnds(r)
      PROVE  \/ Moves(r, "away", "none", 0, FALSE, {})
             \/ exposed' /\ Moves(r, "unlocked", runs[r].purpose, runs[r].open, runs[r].holds, runs[r].memory)
  BY <1>10, <1>a, <1>d DEF ClearEnds, LockPlaces
<1>11. ASSUME EndRun(r)
      PROVE  Moves(r, "away", "none", 0, FALSE, {})
  BY <1>11, <1>a DEF EndRun, LockPlaces
<1>12. ASSUME DiscardUnused(r)
      PROVE  Moves(r, "delete", runs[r].purpose, runs[r].open, runs[r].holds, runs[r].memory)
  BY <1>12, <1>d DEF DiscardUnused, LockPlaces
<1>13. ASSUME DeleteFile(r)
      PROVE  Moves(r, "drop", runs[r].purpose, runs[r].open, runs[r].holds, runs[r].memory)
  BY <1>13, <1>d DEF DeleteFile, Deletes, LockPlaces
<1>14. ASSUME DropLock(r)
      PROVE  Moves(r, "unlink", runs[r].purpose, 0, FALSE, runs[r].memory)
  BY <1>14, <1>e DEF DropLock, LockPlaces
<1>15. ASSUME UnlinkLock(r)
      PROVE  Moves(r, "away", "none", 0, FALSE, {})
  BY <1>15, <1>a DEF UnlinkLock, LockPlaces
<1>16. ASSUME LeavePlaceholder(r)
      PROVE  Moves(r, "placeholder", runs[r].purpose, 0, FALSE, runs[r].memory)
  BY <1>16, <1>e DEF LeavePlaceholder, LockPlaces
<1>17. ASSUME RemovePlaceholder(r)
      PROVE  Moves(r, "unlink", runs[r].purpose, runs[r].open, runs[r].holds, runs[r].memory)
  BY <1>17, <1>d DEF RemovePlaceholder, LockPlaces
<1>18. QED
  BY <1>1, <1>2, <1>3, <1>4, <1>5, <1>6, <1>7, <1>8, <1>9, <1>10, <1>11, <1>12, <1>13, <1>14, <1>15, <1>16, <1>17

\* A step of one run that holds a lock only where it did or where it could get one.
LEMMA RunKeepsItsLock ==
  ASSUME LocksAreHeld, OneHolder, NEW r \in Runs,
         \A s \in Runs : s # r => runs'[s] = runs[s],
         runs'[r].holds <=> runs'[r].at \in Holding,
         runs'[r].at \in Holding \cup {"lock"} => runs'[r].open # 0,
         runs'[r].at \in {"open", "lock"} => runs'[r].purpose \in Purposes,
         runs'[r].at \in {"open", "lock", "create"} => runs'[r].memory = {},
         runs'[r].holds => \A s \in Runs :
                             s # r => ~(runs[s].holds /\ runs[s].open = runs'[r].open)
  PROVE  LocksAreHeld' /\ OneHolder'
<1>1. ASSUME NEW s \in Runs
      PROVE  /\ runs'[s].holds <=> runs'[s].at \in Holding
             /\ runs'[s].at \in Holding \cup {"lock"} => runs'[s].open # 0
             /\ runs'[s].at \in {"open", "lock"} => runs'[s].purpose \in Purposes
             /\ runs'[s].at \in {"open", "lock", "create"} => runs'[s].memory = {}
  <2> HIDE DEF Holding, Purposes
  <2>1. CASE s = r
    BY <2>1
  <2>2. CASE s # r
    BY <2>2 DEF LocksAreHeld, At
  <2>3. QED
    BY <2>1, <2>2
<1>2. ASSUME NEW s \in Runs, NEW t \in Runs, s # t, runs'[s].holds, runs'[t].holds,
             runs'[s].open = runs'[t].open
      PROVE  FALSE
  BY <1>2 DEF OneHolder
<1>3. LocksAreHeld'
  BY <1>1 DEF LocksAreHeld, At
<1>4. OneHolder'
  BY <1>2 DEF OneHolder
<1>5. QED
  BY <1>3, <1>4

\* A run holds its lock from try_lock on, until it drops it, and a lock that is held
\* refuses the others.
LEMMA NextLocks ==
  ASSUME LockTypeOK, LocksAreHeld, OneHolder, [LockNext]_lockVars
  PROVE  LocksAreHeld' /\ OneHolder'
<1> DEFINE Goal == LocksAreHeld' /\ OneHolder'
<1>a. ASSUME NEW r \in Runs, Moves(r, "away", "none", 0, FALSE, {}) PROVE Goal
  BY <1>a, RunKeepsItsLock DEF Moves, Holding
<1>b. ASSUME NEW r \in Runs
      PROVE  /\ runs[r].holds <=> runs[r].at \in Holding
             /\ runs[r].at \in Holding \cup {"lock"} => runs[r].open # 0
             /\ runs[r].at \in {"open", "lock"} => runs[r].purpose \in Purposes
             /\ runs[r].at \in {"open", "lock", "create"} => runs[r].memory = {}
             /\ runs[r].holds => \A s \in Runs : s # r =>
                                   ~(runs[s].holds /\ runs[s].open = runs[r].open)
  BY <1>b DEF LocksAreHeld, OneHolder, At
<1>c. ASSUME NEW r \in Runs, runs[r].holds, \A s \in Runs : s # r => runs'[s] = runs[s],
             runs'[r].open = runs[r].open, runs'[r].holds,
             runs'[r].at \in Holding \ {"create"}
      PROVE  Goal
  <2>1. runs'[r].at \notin {"open", "lock", "create"}
    BY <1>c DEF Holding
  <2>2. runs'[r].open # 0
    BY <1>b, <1>c
  <2>3. \A s \in Runs : s # r => ~(runs[s].holds /\ runs[s].open = runs'[r].open)
    BY <1>b, <1>c
  <2>4. QED
    BY <1>c, <2>1, <2>2, <2>3, RunKeepsItsLock
<1>1. ASSUME NEW r \in Runs, NEW purpose \in Purposes, Begin(r, purpose) PROVE Goal
  <2>1. Moves(r, "open", purpose, 0, FALSE, {})
    BY <1>1, RunsMove
  <2>2. QED
    BY <2>1, RunKeepsItsLock DEF Moves, Holding
<1>2. ASSUME NEW r \in Runs, OpenLockFile(r) PROVE Goal
  <2>1. lockPath' # 0
    BY <1>2, LockFileIsFree, LockBoundsAssumption, FS_CardinalityType DEF OpenLockFile, LockFiles
  <2>2. Moves(r, "lock", runs[r].purpose, lockPath', runs[r].holds, runs[r].memory)
    BY <1>2, RunsMove
  <2>3. ~runs[r].holds /\ runs[r].purpose \in Purposes /\ runs[r].memory = {}
    BY <1>2, <1>b DEF OpenLockFile, At, Holding
  <2>4. QED
    BY <2>1, <2>2, <2>3, RunKeepsItsLock DEF Moves, Holding
<1>3. ASSUME NEW r \in Runs, TryLock(r) PROVE Goal
  <2>1. At(r, {"lock"}) /\ runs[r].purpose \in Purposes /\ runs[r].open # 0
    BY <1>3, <1>b DEF TryLock, At
  <2>2. \/ CanLock(r) /\ Moves(r, runs[r].purpose, runs[r].purpose, runs[r].open, TRUE, runs[r].memory)
        \/ Moves(r, "away", "none", 0, FALSE, {})
    BY <1>3, <2>1, RunsMove
  <2>3. CASE CanLock(r) /\ Moves(r, runs[r].purpose, runs[r].purpose, runs[r].open, TRUE, runs[r].memory)
    <3>1. runs[r].memory = {}
      BY <2>1, <1>b DEF At
    <3>2. runs[r].purpose \in Holding /\ runs[r].purpose \notin {"open", "lock"}
      BY <2>1 DEF Holding, Purposes
    <3>3. \A s \in Runs : s # r => ~(runs[s].holds /\ runs[s].open = runs[r].open)
      BY <2>3 DEF CanLock
    <3>4. QED
      BY <2>1, <2>3, <3>1, <3>2, <3>3, RunKeepsItsLock DEF Moves
  <2>4. QED
    BY <1>a, <2>2, <2>3
<1>4. ASSUME NEW r \in Runs, CreateFile(r) PROVE Goal
  <2>1. Moves(r, "fresh", runs[r].purpose, runs[r].open, runs[r].holds, runs[r].memory)
    BY <1>4, RunsMove
  <2>2. runs[r].at \in Holding /\ runs[r].holds
    BY <1>4, <1>b DEF CreateFile, At, Holding
  <2>3. QED
    BY <1>a, <1>c, <2>1, <2>2, RunKeepsItsLock DEF Moves, Holding
<1>5. ASSUME NEW r \in Runs, Load(r) PROVE Goal
  <2>1. \/ Moves(r, "rebuild", runs[r].purpose, runs[r].open, runs[r].holds, sessionFile.turns) /\ sessionFile.exists
        \/ Moves(r, "away", "none", 0, FALSE, {})
    BY <1>5, RunsMove
  <2>2. runs[r].at \in Holding /\ runs[r].holds
    BY <1>5, <1>b DEF Load, At, Holding
  <2>3. QED
    BY <1>a, <1>c, <2>1, <2>2, RunKeepsItsLock DEF Moves, Holding
<1>6. ASSUME NEW r \in Runs, Rebuild(r) PROVE Goal
  <2>1. \/ Moves(r, "own", runs[r].purpose, runs[r].open, runs[r].holds, runs[r].memory)
        \/ Moves(r, "away", "none", 0, FALSE, {})
    BY <1>6, RunsMove
  <2>2. runs[r].at \in Holding /\ runs[r].holds
    BY <1>6, <1>b DEF Rebuild, At, Holding
  <2>3. QED
    BY <1>a, <1>c, <2>1, <2>2, RunKeepsItsLock DEF Moves, Holding
<1>7. ASSUME NEW r \in Runs, PushTurn(r) PROVE Goal
  <2>1. PICK at \in {"own", "unlocked"} :
          /\ Moves(r, at, runs[r].purpose, runs[r].open, runs[r].holds, runs[r].memory \cup {turnsMade + 1})
          /\ at = "unlocked" <=> At(r, {"unlocked"})
    BY <1>7, RunsMove
  <2>2. (runs[r].holds <=> at = "own") /\ (at = "own" => runs[r].open # 0)
    BY <1>7, <1>b, <2>1 DEF PushTurn, At, Holding, Writing
  <2>3. QED
    BY <1>b, <2>1, <2>2, RunKeepsItsLock DEF Moves, Holding
<1>8. ASSUME NEW r \in Runs, SaveSession(r) PROVE Goal
  BY <1>8 DEF SaveSession, LocksAreHeld, OneHolder, At
<1>9. ASSUME NEW r \in Runs, SwitchAway(r) PROVE Goal
  BY <1>9, <1>a, RunsMove
<1>10. ASSUME NEW r \in Runs, ClearBegins(r) PROVE Goal
  <2>1. Moves(r, "clearing", runs[r].purpose, 0, FALSE, runs[r].memory)
    BY <1>10, RunsMove
  <2>2. runs[r].at \in Holding /\ runs[r].holds
    BY <1>10, <1>b DEF ClearBegins, At, Holding
  <2>3. QED
    BY <1>a, <1>b, <2>1, <2>2, RunKeepsItsLock DEF Moves, Holding
<1>11. ASSUME NEW r \in Runs, ClearEnds(r) PROVE Goal
  <2>1. \/ Moves(r, "away", "none", 0, FALSE, {})
        \/ exposed' /\ Moves(r, "unlocked", runs[r].purpose, runs[r].open, runs[r].holds, runs[r].memory)
    BY <1>11, RunsMove
  <2>2. runs[r].at \notin Holding /\ ~runs[r].holds
    BY <1>11, <1>b DEF ClearEnds, At, Holding
  <2>3. QED
    BY <1>a, <1>b, <2>1, <2>2, RunKeepsItsLock DEF Moves, Holding
<1>12. ASSUME NEW r \in Runs, EndRun(r) PROVE Goal
  BY <1>12, <1>a, RunsMove
<1>13. ASSUME NEW r \in Runs, DiscardUnused(r) PROVE Goal
  <2>1. Moves(r, "delete", runs[r].purpose, runs[r].open, runs[r].holds, runs[r].memory)
    BY <1>13, RunsMove
  <2>2. runs[r].at \in Holding /\ runs[r].holds
    BY <1>13, <1>b DEF DiscardUnused, At, Holding
  <2>3. QED
    BY <1>a, <1>c, <2>1, <2>2, RunKeepsItsLock DEF Moves, Holding
<1>14. ASSUME NEW r \in Runs, DeleteFile(r) PROVE Goal
  <2>1. Moves(r, "drop", runs[r].purpose, runs[r].open, runs[r].holds, runs[r].memory)
    BY <1>14, RunsMove
  <2>2. runs[r].at \in Holding /\ runs[r].holds
    BY <1>14, <1>b DEF DeleteFile, Deletes, At, Holding
  <2>3. QED
    BY <1>a, <1>c, <2>1, <2>2, RunKeepsItsLock DEF Moves, Holding
<1>15. ASSUME NEW r \in Runs, DropLock(r) PROVE Goal
  <2>1. Moves(r, "unlink", runs[r].purpose, 0, FALSE, runs[r].memory)
    BY <1>15, RunsMove
  <2>2. runs[r].at \in Holding /\ runs[r].holds
    BY <1>15, <1>b DEF DropLock, At, Holding
  <2>3. QED
    BY <1>a, <1>b, <2>1, <2>2, RunKeepsItsLock DEF Moves, Holding
<1>16. ASSUME NEW r \in Runs, UnlinkLock(r) PROVE Goal
  BY <1>16, <1>a, RunsMove
<1>17. ASSUME NEW r \in Runs, LeavePlaceholder(r) PROVE Goal
  <2>1. Moves(r, "placeholder", runs[r].purpose, 0, FALSE, runs[r].memory)
    BY <1>17, RunsMove
  <2>2. runs[r].at \in Holding /\ runs[r].holds
    BY <1>17, <1>b DEF LeavePlaceholder, At, Holding
  <2>3. QED
    BY <1>a, <1>b, <2>1, <2>2, RunKeepsItsLock DEF Moves, Holding
<1>18. ASSUME NEW r \in Runs, RemovePlaceholder(r) PROVE Goal
  <2>1. Moves(r, "unlink", runs[r].purpose, runs[r].open, runs[r].holds, runs[r].memory)
    BY <1>18, RunsMove
  <2>2. runs[r].at \notin Holding /\ ~runs[r].holds
    BY <1>18, <1>b DEF RemovePlaceholder, At, Holding
  <2>3. QED
    BY <1>a, <1>b, <2>1, <2>2, RunKeepsItsLock DEF Moves, Holding
<1>19. ASSUME SessionIsGone \/ UNCHANGED lockVars PROVE Goal
  BY <1>19 DEF SessionIsGone, lockVars, LocksAreHeld, OneHolder, At
<1> HIDE DEF Goal
<1>20. ASSUME NEW r \in Runs,
             \/ \E purpose \in Purposes : Begin(r, purpose)
             \/ OpenLockFile(r) \/ TryLock(r) \/ CreateFile(r) \/ Load(r) \/ Rebuild(r)
             \/ PushTurn(r) \/ SaveSession(r) \/ SwitchAway(r) \/ ClearBegins(r)
             \/ ClearEnds(r) \/ EndRun(r) \/ DiscardUnused(r) \/ DeleteFile(r)
             \/ DropLock(r) \/ UnlinkLock(r) \/ LeavePlaceholder(r) \/ RemovePlaceholder(r)
      PROVE  Goal
  BY <1>1, <1>2, <1>3, <1>4, <1>5, <1>6, <1>7, <1>8, <1>9, <1>10, <1>11, <1>12, <1>13, <1>14, <1>15, <1>16, <1>17, <1>18, <1>20
<1>21. Goal
  BY <1>19, <1>20 DEF LockNext, Purposes
<1>22. QED
  BY <1>21 DEF Goal

\* Every step of a run keeps the types.
LEMMA NextLockTypes ==
  ASSUME LockTypeOK, LocksAreHeld, [LockNext]_lockVars
  PROVE  LockTypeOK'
<1>1. ASSUME NEW r \in Runs, NEW purpose \in Purposes, Begin(r, purpose) PROVE LockTypeOK'
  <2>1. Moves(r, "open", purpose, 0, FALSE, {})
    BY <1>1, RunsMove
  <2>2. QED
    BY <1>1, <2>1 DEF Begin, FilesUnchanged, LockHistoryUnchanged, Moves, RunRecords, Purposes, LockTypeOK
<1>2. ASSUME NEW r \in Runs, OpenLockFile(r) PROVE LockTypeOK'
  <2>1. Moves(r, "lock", runs[r].purpose, lockPath', runs[r].holds, runs[r].memory)
    BY <1>2, RunsMove
  <2>2. lockPath' \in {0} \cup LockFiles
    BY <1>2, LockFileIsFree DEF OpenLockFile, LockTypeOK
  <2>3. QED
    BY <1>2, <2>1, <2>2 DEF OpenLockFile, LockHistoryUnchanged, Moves, RunRecords, Purposes, LockTypeOK
<1>3. ASSUME NEW r \in Runs, TryLock(r) PROVE LockTypeOK'
  <2>0. runs[r].purpose \in Purposes
    BY <1>3 DEF TryLock, LocksAreHeld, At
  <2>1. \/ CanLock(r) /\ Moves(r, runs[r].purpose, runs[r].purpose, runs[r].open, TRUE, runs[r].memory)
        \/ Moves(r, "away", "none", 0, FALSE, {})
    BY <1>3, <2>0, RunsMove
  <2>2. QED
    BY <1>3, <2>1 DEF TryLock, FilesUnchanged, LockHistoryUnchanged, Moves, RunRecords, Purposes, LockTypeOK
<1>4. ASSUME NEW r \in Runs, CreateFile(r) PROVE LockTypeOK'
  <2>1. Moves(r, "fresh", runs[r].purpose, runs[r].open, runs[r].holds, runs[r].memory)
    BY <1>4, RunsMove
  <2>2. QED
    BY <1>4, <2>1 DEF CreateFile, Saved, FilesUnchanged, LockHistoryUnchanged, Moves, RunRecords, Purposes, LockTypeOK
<1>5. ASSUME NEW r \in Runs, Load(r) PROVE LockTypeOK'
  <2>1. \/ Moves(r, "rebuild", runs[r].purpose, runs[r].open, runs[r].holds, sessionFile.turns) /\ sessionFile.exists
        \/ Moves(r, "away", "none", 0, FALSE, {})
    BY <1>5, RunsMove
  <2>2. QED
    BY <1>5, <2>1 DEF Load, FilesUnchanged, LockHistoryUnchanged, Moves, RunRecords, Purposes, LockTypeOK
<1>6. ASSUME NEW r \in Runs, Rebuild(r) PROVE LockTypeOK'
  <2>1. \/ Moves(r, "own", runs[r].purpose, runs[r].open, runs[r].holds, runs[r].memory)
        \/ Moves(r, "away", "none", 0, FALSE, {})
    BY <1>6, RunsMove
  <2>2. QED
    BY <1>6, <2>1 DEF Rebuild, FilesUnchanged, LockHistoryUnchanged, Moves, RunRecords, Purposes, LockTypeOK
<1>7. ASSUME NEW r \in Runs, PushTurn(r) PROVE LockTypeOK'
  <2>1. \E at \in {"own", "unlocked"} :
          /\ Moves(r, at, runs[r].purpose, runs[r].open, runs[r].holds, runs[r].memory \cup {turnsMade + 1})
          /\ at = "unlocked" <=> At(r, {"unlocked"})
    BY <1>7, RunsMove
  <2>2. turnsMade' \in 0..LockTurns /\ turnsMade' \in LockTurnIds
    BY <1>7, LockBoundsAssumption DEF PushTurn, LockTypeOK, LockTurnIds
  <2>3. sessionFile' \in [exists : BOOLEAN, turns : SUBSET LockTurnIds]
    BY <1>7, <2>2 DEF PushTurn, Saved, LockTypeOK
  <2>4. QED
    BY <1>7, <2>1, <2>2, <2>3 DEF PushTurn, Moves, RunRecords, Purposes, LockTypeOK
<1>8. ASSUME NEW r \in Runs, SaveSession(r) PROVE LockTypeOK'
  BY <1>8 DEF SaveSession, Saved, LockTypeOK, LockHistoryUnchanged
<1>9. ASSUME NEW r \in Runs, SwitchAway(r) PROVE LockTypeOK'
  <2>1. Moves(r, "away", "none", 0, FALSE, {})
    BY <1>9, RunsMove
  <2>2. QED
    BY <1>9, <2>1 DEF SwitchAway, FilesUnchanged, LockHistoryUnchanged, Moves, RunRecords, Purposes, LockTypeOK
<1>10. ASSUME NEW r \in Runs, ClearBegins(r) PROVE LockTypeOK'
  <2>1. Moves(r, "clearing", runs[r].purpose, 0, FALSE, runs[r].memory)
    BY <1>10, RunsMove
  <2>2. QED
    BY <1>10, <2>1 DEF ClearBegins, FilesUnchanged, LockHistoryUnchanged, Moves, RunRecords, Purposes, LockTypeOK
<1>11. ASSUME NEW r \in Runs, ClearEnds(r) PROVE LockTypeOK'
  <2>1. \/ Moves(r, "away", "none", 0, FALSE, {})
        \/ exposed' /\ Moves(r, "unlocked", runs[r].purpose, runs[r].open, runs[r].holds, runs[r].memory)
    BY <1>11, RunsMove
  <2>2. QED
    BY <1>11, <2>1 DEF ClearEnds, FilesUnchanged, LockHistoryUnchanged, Moves, RunRecords, Purposes, LockTypeOK
<1>12. ASSUME NEW r \in Runs, EndRun(r) PROVE LockTypeOK'
  <2>1. Moves(r, "away", "none", 0, FALSE, {})
    BY <1>12, RunsMove
  <2>2. QED
    BY <1>12, <2>1 DEF EndRun, FilesUnchanged, LockHistoryUnchanged, Moves, RunRecords, Purposes, LockTypeOK
<1>13. ASSUME NEW r \in Runs, DiscardUnused(r) PROVE LockTypeOK'
  <2>1. Moves(r, "delete", runs[r].purpose, runs[r].open, runs[r].holds, runs[r].memory)
    BY <1>13, RunsMove
  <2>2. QED
    BY <1>13, <2>1 DEF DiscardUnused, FilesUnchanged, LockHistoryUnchanged, Moves, RunRecords, Purposes, LockTypeOK
<1>14. ASSUME NEW r \in Runs, DeleteFile(r) PROVE LockTypeOK'
  <2>1. Moves(r, "drop", runs[r].purpose, runs[r].open, runs[r].holds, runs[r].memory)
    BY <1>14, RunsMove
  <2>2. QED
    BY <1>14, <2>1 DEF DeleteFile, Deletes, Absent, FilesUnchanged, LockHistoryUnchanged, Moves, RunRecords, Purposes, LockTypeOK
<1>15. ASSUME NEW r \in Runs, DropLock(r) PROVE LockTypeOK'
  <2>1. Moves(r, "unlink", runs[r].purpose, 0, FALSE, runs[r].memory)
    BY <1>15, RunsMove
  <2>2. QED
    BY <1>15, <2>1 DEF DropLock, FilesUnchanged, LockHistoryUnchanged, Moves, RunRecords, Purposes, LockTypeOK
<1>16. ASSUME NEW r \in Runs, UnlinkLock(r) PROVE LockTypeOK'
  <2>1. Moves(r, "away", "none", 0, FALSE, {})
    BY <1>16, RunsMove
  <2>2. QED
    BY <1>16, <2>1 DEF UnlinkLock, FilesUnchanged, LockHistoryUnchanged, Moves, RunRecords, Purposes, LockTypeOK
<1>17. ASSUME NEW r \in Runs, LeavePlaceholder(r) PROVE LockTypeOK'
  <2>1. Moves(r, "placeholder", runs[r].purpose, 0, FALSE, runs[r].memory)
    BY <1>17, RunsMove
  <2>2. QED
    BY <1>17, <2>1 DEF LeavePlaceholder, FilesUnchanged, LockHistoryUnchanged, Moves, RunRecords, Purposes, LockTypeOK
<1>18. ASSUME NEW r \in Runs, RemovePlaceholder(r) PROVE LockTypeOK'
  <2>1. Moves(r, "unlink", runs[r].purpose, runs[r].open, runs[r].holds, runs[r].memory)
    BY <1>18, RunsMove
  <2>2. QED
    BY <1>18, <2>1 DEF RemovePlaceholder, Absent, FilesUnchanged, LockHistoryUnchanged, Moves, RunRecords, Purposes, LockTypeOK
<1>19. CASE SessionIsGone \/ UNCHANGED lockVars
  BY <1>19 DEF SessionIsGone, lockVars, LockTypeOK
<1>20. ASSUME NEW r \in Runs,
             \/ \E purpose \in Purposes : Begin(r, purpose)
             \/ OpenLockFile(r) \/ TryLock(r) \/ CreateFile(r) \/ Load(r) \/ Rebuild(r)
             \/ PushTurn(r) \/ SaveSession(r) \/ SwitchAway(r) \/ ClearBegins(r)
             \/ ClearEnds(r) \/ EndRun(r) \/ DiscardUnused(r) \/ DeleteFile(r)
             \/ DropLock(r) \/ UnlinkLock(r) \/ LeavePlaceholder(r) \/ RemovePlaceholder(r)
      PROVE  LockTypeOK'
  BY <1>1, <1>2, <1>3, <1>4, <1>5, <1>6, <1>7, <1>8, <1>9, <1>10, <1>11, <1>12, <1>13, <1>14, <1>15, <1>16, <1>17, <1>18, <1>20
<1>21. QED
  BY <1>19, <1>20 DEF LockNext, Purposes

\* A step of one run that makes the session only if it did so before.
LEMMA RunMakesOnce ==
  ASSUME MadeOnce, NEW r \in Runs, ~At(r, {"away"}), born' = born,
         \A s \in Runs : s # r => runs'[s] = runs[s],
         Makes(r)' => /\ Makes(r)
                      /\ UNCHANGED <<sessionFile, turnsMade, removed>>
  PROVE  MadeOnce'
<1>1. born
  BY DEF MadeOnce
<1>2. ASSUME NEW s \in Runs, Makes(s)' PROVE s = r /\ Makes(r)
  <2>1. CASE s # r
    <3>1. Makes(s)
      BY <1>2, <2>1 DEF Makes, At
    <3>2. QED
      BY <2>1, <3>1 DEF MadeOnce
  <2>2. QED
    BY <1>2, <2>1
<1>3. ASSUME NEW s \in Runs, NEW t \in Runs, Makes(s)', t # s PROVE At(t, {"away"})'
  <2>1. s = r /\ At(t, {"away"})
    BY <1>2, <1>3 DEF MadeOnce
  <2>2. QED
    BY <1>3, <2>1 DEF At
<1>4. (\E s \in Runs : Makes(s)') => ~sessionFile'.exists /\ turnsMade' = 0 /\ ~removed'
  BY <1>2 DEF MadeOnce
<1>5. QED
  BY <1>1, <1>3, <1>4 DEF MadeOnce

\* The session is made once, by a run that is alone.
LEMMA NextMadeOnce ==
  ASSUME LockTypeOK, LocksAreHeld, MadeOnce, [LockNext]_lockVars
  PROVE  MadeOnce'
<1>1. ASSUME NEW r \in Runs, NEW purpose \in Purposes, Begin(r, purpose) PROVE MadeOnce'
  <2>1. Moves(r, "open", purpose, 0, FALSE, {})
    BY <1>1, RunsMove
  <2>2. CASE purpose = "create"
    <3>1. ~born /\ born' /\ \A s \in Runs : At(s, {"away"})
      BY <1>1, <2>2 DEF Begin, MadeOnce
    <3>2. ~sessionFile'.exists /\ turnsMade' = 0 /\ ~removed'
      BY <1>1, <3>1 DEF Begin, MadeOnce, FilesUnchanged
    <3>3. \A s \in Runs : s # r => At(s, {"away"})' /\ ~Makes(s)'
      BY <2>1, <3>1 DEF Moves, At, Makes
    <3>4. QED
      BY <3>1, <3>2, <3>3 DEF MadeOnce
  <2>3. CASE purpose # "create"
    <3>1. sessionFile.exists /\ born' /\ UNCHANGED <<sessionFile, turnsMade, removed>>
      BY <1>1, <2>3 DEF Begin, FilesUnchanged
    <3>2. \A s \in Runs : ~Makes(s)
      BY <3>1 DEF MadeOnce
    <3>3. ASSUME NEW s \in Runs PROVE ~Makes(s)'
      <4>1. CASE s = r
        BY <2>1, <2>3, <4>1 DEF Moves, Makes, At
      <4>2. CASE s # r
        BY <2>1, <3>2, <4>2 DEF Moves, Makes, At
      <4>3. QED
        BY <4>1, <4>2
    <3>4. QED
      BY <3>1, <3>3 DEF MadeOnce
  <2>4. QED
    BY <2>2, <2>3
<1>2. ASSUME NEW r \in Runs, OpenLockFile(r) PROVE MadeOnce'
  <2>1. Moves(r, "lock", runs[r].purpose, lockPath', runs[r].holds, runs[r].memory)
    BY <1>2, RunsMove
  <2>2. Makes(r)' => Makes(r)
    BY <1>2, <2>1 DEF OpenLockFile, Moves, Makes, At, Purposes
  <2>3. QED
    BY <1>2, <2>1, <2>2, RunMakesOnce DEF OpenLockFile, FilesUnchanged, LockHistoryUnchanged, Moves, At
<1>3. ASSUME NEW r \in Runs, TryLock(r) PROVE MadeOnce'
  <2>0. runs[r].purpose \in Purposes
    BY <1>3 DEF TryLock, LocksAreHeld, At
  <2>1. \/ CanLock(r) /\ Moves(r, runs[r].purpose, runs[r].purpose, runs[r].open, TRUE, runs[r].memory)
        \/ Moves(r, "away", "none", 0, FALSE, {})
    BY <1>3, <2>0, RunsMove
  <2>2. Makes(r)' => Makes(r)
    BY <1>3, <2>1 DEF TryLock, Moves, Makes, At, Purposes
  <2>3. QED
    BY <1>3, <2>1, <2>2, RunMakesOnce DEF TryLock, FilesUnchanged, LockHistoryUnchanged, Moves, At
<1>4. ASSUME NEW r \in Runs, CreateFile(r) PROVE MadeOnce'
  <2>1. Moves(r, "fresh", runs[r].purpose, runs[r].open, runs[r].holds, runs[r].memory)
    BY <1>4, RunsMove
  <2>2. ~Makes(r)'
    BY <1>4, <2>1 DEF Moves, Makes, At
  <2>3. QED
    BY <1>4, <2>1, <2>2, RunMakesOnce DEF CreateFile, LockHistoryUnchanged, Moves, At
<1>5. ASSUME NEW r \in Runs, Load(r) PROVE MadeOnce'
  <2>1. \/ Moves(r, "rebuild", runs[r].purpose, runs[r].open, runs[r].holds, sessionFile.turns) /\ sessionFile.exists
        \/ Moves(r, "away", "none", 0, FALSE, {})
    BY <1>5, RunsMove
  <2>2. ~Makes(r)'
    BY <1>5, <2>1 DEF Moves, Makes, At
  <2>3. QED
    BY <1>5, <2>1, <2>2, RunMakesOnce DEF Load, LockHistoryUnchanged, Moves, At
<1>6. ASSUME NEW r \in Runs, Rebuild(r) PROVE MadeOnce'
  <2>1. \/ Moves(r, "own", runs[r].purpose, runs[r].open, runs[r].holds, runs[r].memory)
        \/ Moves(r, "away", "none", 0, FALSE, {})
    BY <1>6, RunsMove
  <2>2. ~Makes(r)'
    BY <1>6, <2>1 DEF Moves, Makes, At
  <2>3. QED
    BY <1>6, <2>1, <2>2, RunMakesOnce DEF Rebuild, LockHistoryUnchanged, Moves, At
<1>7. ASSUME NEW r \in Runs, PushTurn(r) PROVE MadeOnce'
  <2>1. \E at \in {"own", "unlocked"} :
          /\ Moves(r, at, runs[r].purpose, runs[r].open, runs[r].holds, runs[r].memory \cup {turnsMade + 1})
          /\ at = "unlocked" <=> At(r, {"unlocked"})
    BY <1>7, RunsMove
  <2>2. ~Makes(r)'
    BY <1>7, <2>1 DEF Moves, Makes, At
  <2>3. QED
    BY <1>7, <2>1, <2>2, RunMakesOnce DEF PushTurn, Moves, At, Writing
<1>8. ASSUME NEW r \in Runs, SaveSession(r) PROVE MadeOnce'
  <2>1. ~Makes(r)' /\ ~At(r, {"away"})
    BY <1>8 DEF SaveSession, Makes, At
  <2>2. QED
    BY <1>8, <2>1, RunMakesOnce DEF SaveSession, LockHistoryUnchanged
<1>9. ASSUME NEW r \in Runs, SwitchAway(r) PROVE MadeOnce'
  <2>1. Moves(r, "away", "none", 0, FALSE, {})
    BY <1>9, RunsMove
  <2>2. ~Makes(r)'
    BY <1>9, <2>1 DEF Moves, Makes, At
  <2>3. QED
    BY <1>9, <2>1, <2>2, RunMakesOnce DEF SwitchAway, LockHistoryUnchanged, Moves, At
<1>10. ASSUME NEW r \in Runs, ClearBegins(r) PROVE MadeOnce'
  <2>1. Moves(r, "clearing", runs[r].purpose, 0, FALSE, runs[r].memory)
    BY <1>10, RunsMove
  <2>2. ~Makes(r)'
    BY <1>10, <2>1 DEF Moves, Makes, At
  <2>3. QED
    BY <1>10, <2>1, <2>2, RunMakesOnce DEF ClearBegins, LockHistoryUnchanged, Moves, At
<1>11. ASSUME NEW r \in Runs, ClearEnds(r) PROVE MadeOnce'
  <2>1. \/ Moves(r, "away", "none", 0, FALSE, {})
        \/ exposed' /\ Moves(r, "unlocked", runs[r].purpose, runs[r].open, runs[r].holds, runs[r].memory)
    BY <1>11, RunsMove
  <2>2. ~Makes(r)'
    BY <1>11, <2>1 DEF Moves, Makes, At
  <2>3. QED
    BY <1>11, <2>1, <2>2, RunMakesOnce DEF ClearEnds, Moves, At
<1>12. ASSUME NEW r \in Runs, EndRun(r) PROVE MadeOnce'
  <2>1. Moves(r, "away", "none", 0, FALSE, {})
    BY <1>12, RunsMove
  <2>2. ~Makes(r)'
    BY <1>12, <2>1 DEF Moves, Makes, At
  <2>3. QED
    BY <1>12, <2>1, <2>2, RunMakesOnce DEF EndRun, LockHistoryUnchanged, Moves, At
<1>13. ASSUME NEW r \in Runs, DiscardUnused(r) PROVE MadeOnce'
  <2>1. Moves(r, "delete", runs[r].purpose, runs[r].open, runs[r].holds, runs[r].memory)
    BY <1>13, RunsMove
  <2>2. ~Makes(r)'
    BY <1>13, <2>1 DEF Moves, Makes, At
  <2>3. QED
    BY <1>13, <2>1, <2>2, RunMakesOnce DEF DiscardUnused, LockHistoryUnchanged, Moves, At
<1>14. ASSUME NEW r \in Runs, DeleteFile(r) PROVE MadeOnce'
  <2>1. Moves(r, "drop", runs[r].purpose, runs[r].open, runs[r].holds, runs[r].memory)
    BY <1>14, RunsMove
  <2>2. ~Makes(r)'
    BY <1>14, <2>1 DEF Moves, Makes, At
  <2>3. QED
    BY <1>14, <2>1, <2>2, RunMakesOnce DEF DeleteFile, Deletes, Moves, At
<1>15. ASSUME NEW r \in Runs, DropLock(r) PROVE MadeOnce'
  <2>1. Moves(r, "unlink", runs[r].purpose, 0, FALSE, runs[r].memory)
    BY <1>15, RunsMove
  <2>2. ~Makes(r)'
    BY <1>15, <2>1 DEF Moves, Makes, At
  <2>3. QED
    BY <1>15, <2>1, <2>2, RunMakesOnce DEF DropLock, LockHistoryUnchanged, Moves, At
<1>16. ASSUME NEW r \in Runs, UnlinkLock(r) PROVE MadeOnce'
  <2>1. Moves(r, "away", "none", 0, FALSE, {})
    BY <1>16, RunsMove
  <2>2. ~Makes(r)'
    BY <1>16, <2>1 DEF Moves, Makes, At
  <2>3. QED
    BY <1>16, <2>1, <2>2, RunMakesOnce DEF UnlinkLock, LockHistoryUnchanged, Moves, At
<1>17. ASSUME NEW r \in Runs, LeavePlaceholder(r) PROVE MadeOnce'
  <2>1. Moves(r, "placeholder", runs[r].purpose, 0, FALSE, runs[r].memory)
    BY <1>17, RunsMove
  <2>2. ~Makes(r)'
    BY <1>17, <2>1 DEF Moves, Makes, At
  <2>3. QED
    BY <1>17, <2>1, <2>2, RunMakesOnce DEF LeavePlaceholder, LockHistoryUnchanged, Moves, At
<1>18. ASSUME NEW r \in Runs, RemovePlaceholder(r) PROVE MadeOnce'
  <2>1. Moves(r, "unlink", runs[r].purpose, runs[r].open, runs[r].holds, runs[r].memory)
    BY <1>18, RunsMove
  <2>2. ~Makes(r)'
    BY <1>18, <2>1 DEF Moves, Makes, At
  <2>3. QED
    BY <1>18, <2>1, <2>2, RunMakesOnce DEF RemovePlaceholder, Moves, At
<1>19. CASE SessionIsGone \/ UNCHANGED lockVars
  BY <1>19 DEF SessionIsGone, lockVars, MadeOnce, Makes, At
<1>20. ASSUME NEW r \in Runs,
             \/ \E purpose \in Purposes : Begin(r, purpose)
             \/ OpenLockFile(r) \/ TryLock(r) \/ CreateFile(r) \/ Load(r) \/ Rebuild(r)
             \/ PushTurn(r) \/ SaveSession(r) \/ SwitchAway(r) \/ ClearBegins(r)
             \/ ClearEnds(r) \/ EndRun(r) \/ DiscardUnused(r) \/ DeleteFile(r)
             \/ DropLock(r) \/ UnlinkLock(r) \/ LeavePlaceholder(r) \/ RemovePlaceholder(r)
      PROVE  MadeOnce'
  BY <1>1, <1>2, <1>3, <1>4, <1>5, <1>6, <1>7, <1>8, <1>9, <1>10, <1>11, <1>12, <1>13, <1>14, <1>15, <1>16, <1>17, <1>18, <1>20
<1>21. QED
  BY <1>19, <1>20 DEF LockNext, Purposes

\* Nobody unlinks the lock file of the run that makes the session.
LEMMA NextMaker ==
  ASSUME LockTypeOK, LocksAreHeld, MadeOnce, MakerIsAtThePath, [LockNext]_lockVars
  PROVE  MakerIsAtThePath'
<1>1. ASSUME NEW r \in Runs, NEW purpose \in Purposes, Begin(r, purpose) PROVE MakerIsAtThePath'
  <2>1. Moves(r, "open", purpose, 0, FALSE, {})
    BY <1>1, RunsMove
  <2>2. QED
    BY <1>1, <2>1 DEF Begin, FilesUnchanged, MakerIsAtThePath, Moves, Makes, At, Purposes
<1>2. ASSUME NEW r \in Runs, OpenLockFile(r) PROVE MakerIsAtThePath'
  <2>1. Moves(r, "lock", runs[r].purpose, lockPath', runs[r].holds, runs[r].memory)
    BY <1>2, RunsMove
  <2>2. \A s \in Runs : s # r => ~Makes(s)
    BY <1>2 DEF OpenLockFile, At, MadeOnce
  <2>3. QED
    BY <1>2, <2>1, <2>2 DEF OpenLockFile, MakerIsAtThePath, Moves, Makes, At
<1>3. ASSUME NEW r \in Runs, TryLock(r) PROVE MakerIsAtThePath'
  <2>0. runs[r].purpose \in Purposes
    BY <1>3 DEF TryLock, LocksAreHeld, At
  <2>1. \/ CanLock(r) /\ Moves(r, runs[r].purpose, runs[r].purpose, runs[r].open, TRUE, runs[r].memory)
        \/ Moves(r, "away", "none", 0, FALSE, {})
    BY <1>3, <2>0, RunsMove
  <2>2. QED
    BY <1>3, <2>0, <2>1 DEF TryLock, FilesUnchanged, MakerIsAtThePath, Moves, Makes, At, Purposes
<1>4. ASSUME NEW r \in Runs, CreateFile(r) PROVE MakerIsAtThePath'
  <2>1. Moves(r, "fresh", runs[r].purpose, runs[r].open, runs[r].holds, runs[r].memory)
    BY <1>4, RunsMove
  <2>2. QED
    BY <1>4, <2>1 DEF CreateFile, MakerIsAtThePath, Moves, Makes, At, Purposes
<1>5. ASSUME NEW r \in Runs, Load(r) PROVE MakerIsAtThePath'
  <2>1. \/ Moves(r, "rebuild", runs[r].purpose, runs[r].open, runs[r].holds, sessionFile.turns) /\ sessionFile.exists
        \/ Moves(r, "away", "none", 0, FALSE, {})
    BY <1>5, RunsMove
  <2>2. QED
    BY <1>5, <2>1 DEF Load, FilesUnchanged, MakerIsAtThePath, Moves, Makes, At, Purposes
<1>6. ASSUME NEW r \in Runs, Rebuild(r) PROVE MakerIsAtThePath'
  <2>1. \/ Moves(r, "own", runs[r].purpose, runs[r].open, runs[r].holds, runs[r].memory)
        \/ Moves(r, "away", "none", 0, FALSE, {})
    BY <1>6, RunsMove
  <2>2. QED
    BY <1>6, <2>1 DEF Rebuild, FilesUnchanged, MakerIsAtThePath, Moves, Makes, At, Purposes
<1>7. ASSUME NEW r \in Runs, PushTurn(r) PROVE MakerIsAtThePath'
  <2>1. \E at \in {"own", "unlocked"} :
          /\ Moves(r, at, runs[r].purpose, runs[r].open, runs[r].holds, runs[r].memory \cup {turnsMade + 1})
          /\ at = "unlocked" <=> At(r, {"unlocked"})
    BY <1>7, RunsMove
  <2>2. QED
    BY <1>7, <2>1 DEF PushTurn, MakerIsAtThePath, Moves, Makes, At, Purposes
<1>8. ASSUME NEW r \in Runs, SaveSession(r) PROVE MakerIsAtThePath'
  BY <1>8 DEF SaveSession, MakerIsAtThePath, Makes, At
<1>9. ASSUME NEW r \in Runs, SwitchAway(r) PROVE MakerIsAtThePath'
  <2>1. Moves(r, "away", "none", 0, FALSE, {})
    BY <1>9, RunsMove
  <2>2. QED
    BY <1>9, <2>1 DEF SwitchAway, FilesUnchanged, MakerIsAtThePath, Moves, Makes, At, Purposes
<1>10. ASSUME NEW r \in Runs, ClearBegins(r) PROVE MakerIsAtThePath'
  <2>1. Moves(r, "clearing", runs[r].purpose, 0, FALSE, runs[r].memory)
    BY <1>10, RunsMove
  <2>2. QED
    BY <1>10, <2>1 DEF ClearBegins, FilesUnchanged, MakerIsAtThePath, Moves, Makes, At, Purposes
<1>11. ASSUME NEW r \in Runs, ClearEnds(r) PROVE MakerIsAtThePath'
  <2>1. \/ Moves(r, "away", "none", 0, FALSE, {})
        \/ exposed' /\ Moves(r, "unlocked", runs[r].purpose, runs[r].open, runs[r].holds, runs[r].memory)
    BY <1>11, RunsMove
  <2>2. QED
    BY <1>11, <2>1 DEF ClearEnds, FilesUnchanged, MakerIsAtThePath, Moves, Makes, At, Purposes
<1>12. ASSUME NEW r \in Runs, EndRun(r) PROVE MakerIsAtThePath'
  <2>1. Moves(r, "away", "none", 0, FALSE, {})
    BY <1>12, RunsMove
  <2>2. QED
    BY <1>12, <2>1 DEF EndRun, FilesUnchanged, MakerIsAtThePath, Moves, Makes, At, Purposes
<1>13. ASSUME NEW r \in Runs, DiscardUnused(r) PROVE MakerIsAtThePath'
  <2>1. Moves(r, "delete", runs[r].purpose, runs[r].open, runs[r].holds, runs[r].memory)
    BY <1>13, RunsMove
  <2>2. QED
    BY <1>13, <2>1 DEF DiscardUnused, FilesUnchanged, MakerIsAtThePath, Moves, Makes, At, Purposes
<1>14. ASSUME NEW r \in Runs, DeleteFile(r) PROVE MakerIsAtThePath'
  <2>1. Moves(r, "drop", runs[r].purpose, runs[r].open, runs[r].holds, runs[r].memory)
    BY <1>14, RunsMove
  <2>2. QED
    BY <1>14, <2>1 DEF DeleteFile, MakerIsAtThePath, Moves, Makes, At, Purposes
<1>15. ASSUME NEW r \in Runs, DropLock(r) PROVE MakerIsAtThePath'
  <2>1. Moves(r, "unlink", runs[r].purpose, 0, FALSE, runs[r].memory)
    BY <1>15, RunsMove
  <2>2. QED
    BY <1>15, <2>1 DEF DropLock, FilesUnchanged, MakerIsAtThePath, Moves, Makes, At, Purposes
<1>16. ASSUME NEW r \in Runs, UnlinkLock(r) PROVE MakerIsAtThePath'
  <2>1. Moves(r, "away", "none", 0, FALSE, {})
    BY <1>16, RunsMove
  <2>2. \A s \in Runs : s # r => ~Makes(s)
    BY <1>16 DEF UnlinkLock, At, MadeOnce
  <2>3. QED
    BY <1>16, <2>1, <2>2 DEF UnlinkLock, MakerIsAtThePath, Moves, Makes, At
<1>17. ASSUME NEW r \in Runs, LeavePlaceholder(r) PROVE MakerIsAtThePath'
  <2>1. Moves(r, "placeholder", runs[r].purpose, 0, FALSE, runs[r].memory)
    BY <1>17, RunsMove
  <2>2. QED
    BY <1>17, <2>1 DEF LeavePlaceholder, FilesUnchanged, MakerIsAtThePath, Moves, Makes, At, Purposes
<1>18. ASSUME NEW r \in Runs, RemovePlaceholder(r) PROVE MakerIsAtThePath'
  <2>1. Moves(r, "unlink", runs[r].purpose, runs[r].open, runs[r].holds, runs[r].memory)
    BY <1>18, RunsMove
  <2>2. QED
    BY <1>18, <2>1 DEF RemovePlaceholder, MakerIsAtThePath, Moves, Makes, At, Purposes
<1>19. CASE SessionIsGone \/ UNCHANGED lockVars
  BY <1>19 DEF SessionIsGone, lockVars, MakerIsAtThePath, Makes, At
<1>20. ASSUME NEW r \in Runs,
             \/ \E purpose \in Purposes : Begin(r, purpose)
             \/ OpenLockFile(r) \/ TryLock(r) \/ CreateFile(r) \/ Load(r) \/ Rebuild(r)
             \/ PushTurn(r) \/ SaveSession(r) \/ SwitchAway(r) \/ ClearBegins(r)
             \/ ClearEnds(r) \/ EndRun(r) \/ DiscardUnused(r) \/ DeleteFile(r)
             \/ DropLock(r) \/ UnlinkLock(r) \/ LeavePlaceholder(r) \/ RemovePlaceholder(r)
      PROVE  MakerIsAtThePath'
  BY <1>1, <1>2, <1>3, <1>4, <1>5, <1>6, <1>7, <1>8, <1>9, <1>10, <1>11, <1>12, <1>13, <1>14, <1>15, <1>16, <1>17, <1>18, <1>20
<1>21. QED
  BY <1>19, <1>20 DEF LockNext, Purposes

\* A step of one run that leaves the file's turns alone, and its lock with it.
LEMMA RunKeepsTheFile ==
  ASSUME LocksAreHeld, FileIsKept, NEW r \in Runs,
         \A s \in Runs : s # r => runs'[s] = runs[s],
         ~exposed' =>
           /\ ~exposed
           /\ sessionFile'.exists <=> sessionFile.exists
           /\ sessionFile'.turns = sessionFile.turns
           /\ turnsMade' = turnsMade
           /\ removed' <=> removed
           /\ sessionFile.exists =>
                /\ lockPath \in {0, lockPath'}
                /\ runs'[r].at \in Holding \cup {"lock"} => runs'[r].open = lockPath'
                /\ runs'[r].at \notin {"drop", "unlink"}
           /\ runs'[r].at \in {"rebuild", "fresh", "own"} =>
                sessionFile.exists /\ runs'[r].memory = sessionFile.turns
           /\ runs'[r].at # "unlocked"
  PROVE  FileIsKept'
<1> SUFFICES ASSUME ~exposed'
             PROVE  FileIsKept'
  BY DEF FileIsKept
<1>1. /\ removed' => ~sessionFile'.exists
      /\ sessionFile'.exists => sessionFile'.turns = 1..turnsMade'
  BY DEF FileIsKept
<1>2. ASSUME NEW s \in Runs
      PROVE  /\ sessionFile'.exists =>
                  /\ runs'[s].at \in Holding \cup {"lock"} => runs'[s].open = lockPath'
                  /\ runs'[s].at \notin {"drop", "unlink"}
             /\ runs'[s].at \in {"rebuild", "fresh", "own"} =>
                  sessionFile'.exists /\ runs'[s].memory = sessionFile'.turns
             /\ runs'[s].at # "unlocked"
  <2> HIDE DEF Holding
  <2>1. CASE s = r
    BY <2>1
  <2>2. CASE s # r
    <3>1. /\ sessionFile.exists =>
               /\ runs[s].at \in Holding \cup {"lock"} =>
                    runs[s].open = lockPath /\ runs[s].open # 0
               /\ runs[s].at \notin {"drop", "unlink"}
          /\ runs[s].at \in {"rebuild", "fresh", "own"} =>
               sessionFile.exists /\ runs[s].memory = sessionFile.turns
          /\ runs[s].at # "unlocked"
      BY DEF FileIsKept, LocksAreHeld, At
    <3>2. runs'[s] = runs[s]
      BY <2>2
    <3>3. QED
      BY <3>1, <3>2
  <2>3. QED
    BY <2>1, <2>2
<1>3. QED
  BY <1>1, <1>2 DEF FileIsKept, At

\* While nothing exposed the session its file stays what was pushed, and what its one
\* writer has.
LEMMA NextFileIsKept ==
  ASSUME LockTypeOK, LocksAreHeld, OneHolder, MadeOnce, MakerIsAtThePath, FileIsKept, [LockNext]_lockVars
  PROVE  FileIsKept'
<1>a. ASSUME NEW r \in Runs, ~exposed
      PROVE  /\ sessionFile.exists =>
                  /\ sessionFile.turns = 1..turnsMade
                  /\ runs[r].at \in Holding \cup {"lock"} => runs[r].open = lockPath
                  /\ runs[r].at \notin {"drop", "unlink"}
             /\ runs[r].at \in {"rebuild", "fresh", "own"} =>
                  sessionFile.exists /\ runs[r].memory = sessionFile.turns
             /\ runs[r].at # "unlocked"
  BY <1>a DEF FileIsKept, At
<1>b. ASSUME NEW r \in Runs, NEW s \in Runs, ~exposed, sessionFile.exists, s # r,
             runs[r].at \in Holding
      PROVE  runs[s].at \notin Holding
  BY <1>a, <1>b DEF LocksAreHeld, OneHolder, At
<1>1. ASSUME NEW r \in Runs, NEW purpose \in Purposes, Begin(r, purpose) PROVE FileIsKept'
  <2>1. Moves(r, "open", purpose, 0, FALSE, {})
    BY <1>1, RunsMove
  <2>2. ASSUME ~exposed'
        PROVE  /\ ~exposed
               /\ sessionFile'.exists <=> sessionFile.exists
               /\ sessionFile'.turns = sessionFile.turns
               /\ turnsMade' = turnsMade
               /\ removed' <=> removed
               /\ sessionFile.exists =>
                    /\ lockPath \in {0, lockPath'}
                    /\ runs'[r].at \in Holding \cup {"lock"} => runs'[r].open = lockPath'
                    /\ runs'[r].at \notin {"drop", "unlink"}
               /\ runs'[r].at \in {"rebuild", "fresh", "own"} =>
                    sessionFile.exists /\ runs'[r].memory = sessionFile.turns
               /\ runs'[r].at # "unlocked"
    BY <1>1, <1>a, <2>1, <2>2 DEF Begin, FilesUnchanged, Moves, At, Holding
  <2>3. QED
    BY <2>1, <2>2, RunKeepsTheFile DEF Moves
<1>2. ASSUME NEW r \in Runs, OpenLockFile(r) PROVE FileIsKept'
  <2>1. Moves(r, "lock", runs[r].purpose, lockPath', runs[r].holds, runs[r].memory)
    BY <1>2, RunsMove
  <2>2. ASSUME ~exposed'
        PROVE  /\ ~exposed
               /\ sessionFile'.exists <=> sessionFile.exists
               /\ sessionFile'.turns = sessionFile.turns
               /\ turnsMade' = turnsMade
               /\ removed' <=> removed
               /\ sessionFile.exists =>
                    /\ lockPath \in {0, lockPath'}
                    /\ runs'[r].at \in Holding \cup {"lock"} => runs'[r].open = lockPath'
                    /\ runs'[r].at \notin {"drop", "unlink"}
               /\ runs'[r].at \in {"rebuild", "fresh", "own"} =>
                    sessionFile.exists /\ runs'[r].memory = sessionFile.turns
               /\ runs'[r].at # "unlocked"
    BY <1>2, <1>a, <2>1, <2>2 DEF OpenLockFile, LockHistoryUnchanged, Moves, At, Holding
  <2>3. QED
    BY <2>1, <2>2, RunKeepsTheFile DEF Moves
<1>3. ASSUME NEW r \in Runs, TryLock(r) PROVE FileIsKept'
  <2>0. runs[r].purpose \in Purposes
    BY <1>3 DEF TryLock, LocksAreHeld, At
  <2>1. \/ CanLock(r) /\ Moves(r, runs[r].purpose, runs[r].purpose, runs[r].open, TRUE, runs[r].memory)
        \/ Moves(r, "away", "none", 0, FALSE, {})
    BY <1>3, <2>0, RunsMove
  <2>2. ASSUME ~exposed'
        PROVE  /\ ~exposed
               /\ sessionFile'.exists <=> sessionFile.exists
               /\ sessionFile'.turns = sessionFile.turns
               /\ turnsMade' = turnsMade
               /\ removed' <=> removed
               /\ sessionFile.exists =>
                    /\ lockPath \in {0, lockPath'}
                    /\ runs'[r].at \in Holding \cup {"lock"} => runs'[r].open = lockPath'
                    /\ runs'[r].at \notin {"drop", "unlink"}
               /\ runs'[r].at \in {"rebuild", "fresh", "own"} =>
                    sessionFile.exists /\ runs'[r].memory = sessionFile.turns
               /\ runs'[r].at # "unlocked"
    BY <1>3, <1>a, <2>1, <2>2, <2>0 DEF TryLock, FilesUnchanged, LockHistoryUnchanged, Moves, At, Holding, Purposes
  <2>3. QED
    BY <2>1, <2>2, RunKeepsTheFile DEF Moves
<1>4. ASSUME NEW r \in Runs, CreateFile(r) PROVE FileIsKept'
  <2>1. Moves(r, "fresh", runs[r].purpose, runs[r].open, runs[r].holds, runs[r].memory)
    BY <1>4, RunsMove
  <2>2. Makes(r) /\ runs[r].at = "create"
    BY <1>4 DEF CreateFile, At, Makes
  <2>3. /\ turnsMade = 0 /\ ~removed /\ runs[r].open = lockPath /\ runs[r].memory = {}
        /\ \A s \in Runs : s # r => runs[s].at = "away"
    BY <2>2 DEF MadeOnce, MakerIsAtThePath, LocksAreHeld, At
  <2>4. /\ sessionFile'.exists /\ sessionFile'.turns = {}
        /\ UNCHANGED <<lockPath, turnsMade, removed, exposed>>
    BY <1>4 DEF CreateFile, Saved, LockHistoryUnchanged
  <2>5. ASSUME NEW s \in Runs
        PROVE  /\ runs'[s].at \in {"fresh", "away"}
               /\ runs'[s].at = "fresh" => runs'[s].open = lockPath /\ runs'[s].memory = {}
    <3>1. CASE s = r
      BY <2>1, <2>3, <3>1 DEF Moves
    <3>2. CASE s # r
      BY <2>1, <2>3, <3>2 DEF Moves
    <3>3. QED
      BY <3>1, <3>2
  <2>6. sessionFile'.turns = 1..turnsMade'
    BY <2>3, <2>4
  <2>7. QED
    BY <2>3, <2>4, <2>5, <2>6 DEF FileIsKept, At, Holding
<1>5. ASSUME NEW r \in Runs, Load(r) PROVE FileIsKept'
  <2>1. \/ Moves(r, "rebuild", runs[r].purpose, runs[r].open, runs[r].holds, sessionFile.turns) /\ sessionFile.exists
        \/ Moves(r, "away", "none", 0, FALSE, {})
    BY <1>5, RunsMove
  <2>2. ASSUME ~exposed'
        PROVE  /\ ~exposed
               /\ sessionFile'.exists <=> sessionFile.exists
               /\ sessionFile'.turns = sessionFile.turns
               /\ turnsMade' = turnsMade
               /\ removed' <=> removed
               /\ sessionFile.exists =>
                    /\ lockPath \in {0, lockPath'}
                    /\ runs'[r].at \in Holding \cup {"lock"} => runs'[r].open = lockPath'
                    /\ runs'[r].at \notin {"drop", "unlink"}
               /\ runs'[r].at \in {"rebuild", "fresh", "own"} =>
                    sessionFile.exists /\ runs'[r].memory = sessionFile.turns
               /\ runs'[r].at # "unlocked"
    BY <1>5, <1>a, <2>1, <2>2 DEF Load, FilesUnchanged, LockHistoryUnchanged, Moves, At, Holding
  <2>3. QED
    BY <2>1, <2>2, RunKeepsTheFile DEF Moves
<1>6. ASSUME NEW r \in Runs, Rebuild(r) PROVE FileIsKept'
  <2>1. \/ Moves(r, "own", runs[r].purpose, runs[r].open, runs[r].holds, runs[r].memory)
        \/ Moves(r, "away", "none", 0, FALSE, {})
    BY <1>6, RunsMove
  <2>2. ASSUME ~exposed'
        PROVE  /\ ~exposed
               /\ sessionFile'.exists <=> sessionFile.exists
               /\ sessionFile'.turns = sessionFile.turns
               /\ turnsMade' = turnsMade
               /\ removed' <=> removed
               /\ sessionFile.exists =>
                    /\ lockPath \in {0, lockPath'}
                    /\ runs'[r].at \in Holding \cup {"lock"} => runs'[r].open = lockPath'
                    /\ runs'[r].at \notin {"drop", "unlink"}
               /\ runs'[r].at \in {"rebuild", "fresh", "own"} =>
                    sessionFile.exists /\ runs'[r].memory = sessionFile.turns
               /\ runs'[r].at # "unlocked"
    BY <1>6, <1>a, <2>1, <2>2 DEF Rebuild, FilesUnchanged, LockHistoryUnchanged, Moves, At, Holding
  <2>3. QED
    BY <2>1, <2>2, RunKeepsTheFile DEF Moves
<1>7. ASSUME NEW r \in Runs, PushTurn(r) PROVE FileIsKept'
  <2>1. \E at \in {"own", "unlocked"} :
          /\ Moves(r, at, runs[r].purpose, runs[r].open, runs[r].holds, runs[r].memory \cup {turnsMade + 1})
          /\ at = "unlocked" <=> At(r, {"unlocked"})
    BY <1>7, RunsMove
  <2>2. SUFFICES ASSUME ~exposed'
                 PROVE  FileIsKept'
    BY DEF FileIsKept
  <2>3. /\ ~exposed /\ UNCHANGED <<lockPath, removed, exposed>>
        /\ runs[r].at \in {"fresh", "own"} /\ turnsMade' = turnsMade + 1
    BY <1>7, <1>a, <2>2 DEF PushTurn, At, Writing
  <2>4. /\ sessionFile.exists /\ ~removed /\ runs[r].open = lockPath
        /\ sessionFile.turns = 1..turnsMade /\ runs[r].memory = 1..turnsMade
    BY <1>a, <2>3 DEF FileIsKept, Holding
  <2>5. 1..turnsMade' = 1..turnsMade \cup {turnsMade + 1}
    BY <2>3 DEF LockTypeOK
  <2>6. sessionFile'.exists /\ sessionFile'.turns = 1..turnsMade'
    BY <1>7, <2>4, <2>5 DEF PushTurn, Saved
  <2>7. /\ runs'[r].at = "own" /\ runs'[r].open = lockPath'
        /\ runs'[r].memory = 1..turnsMade'
    BY <2>1, <2>3, <2>4, <2>5 DEF Moves, At
  <2>8. ASSUME NEW s \in Runs, s # r
        PROVE  /\ runs'[s].at \notin Holding \cup {"unlink", "unlocked"}
               /\ runs'[s].at = "lock" => runs'[s].open = lockPath'
    <3>1. runs'[s] = runs[s] /\ runs[s].at \notin Holding
      BY <1>b, <2>1, <2>3, <2>4, <2>8 DEF Moves, Holding
    <3>2. /\ runs[s].at \notin {"unlink", "unlocked"}
          /\ runs[s].at = "lock" => runs[s].open = lockPath
      BY <1>a, <2>3, <2>4
    <3>3. QED
      BY <2>3, <3>1, <3>2
  <2>9. ASSUME NEW s \in Runs
        PROVE  /\ runs'[s].at \in Holding \cup {"lock"} => runs'[s].open = lockPath'
               /\ runs'[s].at \notin {"drop", "unlink", "unlocked"}
               /\ runs'[s].at \in {"rebuild", "fresh", "own"} =>
                    runs'[s].memory = sessionFile'.turns
    BY <2>6, <2>7, <2>8 DEF Holding
  <2>10. QED
    BY <2>3, <2>4, <2>6, <2>9 DEF FileIsKept, At
<1>8. ASSUME NEW r \in Runs, SaveSession(r) PROVE FileIsKept'
  <2>1. ASSUME ~exposed'
        PROVE  /\ ~exposed
               /\ sessionFile'.exists <=> sessionFile.exists
               /\ sessionFile'.turns = sessionFile.turns
    BY <1>8, <1>a, <2>1 DEF SaveSession, At, Saved, LockHistoryUnchanged
  <2>2. ASSUME ~exposed
        PROVE  /\ sessionFile.exists =>
                    /\ runs[r].at \in Holding \cup {"lock"} => runs[r].open = lockPath
                    /\ runs[r].at \notin {"drop", "unlink"}
               /\ runs[r].at \in {"rebuild", "fresh", "own"} =>
                    sessionFile.exists /\ runs[r].memory = sessionFile.turns
               /\ runs[r].at # "unlocked"
    BY <1>a, <2>2
  <2>3. QED
    BY <1>8, <2>1, <2>2, RunKeepsTheFile DEF SaveSession, LockHistoryUnchanged
<1>9. ASSUME NEW r \in Runs, SwitchAway(r) PROVE FileIsKept'
  <2>1. Moves(r, "away", "none", 0, FALSE, {})
    BY <1>9, RunsMove
  <2>2. ASSUME ~exposed'
        PROVE  /\ ~exposed
               /\ sessionFile'.exists <=> sessionFile.exists
               /\ sessionFile'.turns = sessionFile.turns
               /\ turnsMade' = turnsMade
               /\ removed' <=> removed
               /\ sessionFile.exists =>
                    /\ lockPath \in {0, lockPath'}
                    /\ runs'[r].at \in Holding \cup {"lock"} => runs'[r].open = lockPath'
                    /\ runs'[r].at \notin {"drop", "unlink"}
               /\ runs'[r].at \in {"rebuild", "fresh", "own"} =>
                    sessionFile.exists /\ runs'[r].memory = sessionFile.turns
               /\ runs'[r].at # "unlocked"
    BY <1>9, <1>a, <2>1, <2>2 DEF SwitchAway, FilesUnchanged, LockHistoryUnchanged, Moves, At, Holding
  <2>3. QED
    BY <2>1, <2>2, RunKeepsTheFile DEF Moves
<1>10. ASSUME NEW r \in Runs, ClearBegins(r) PROVE FileIsKept'
  <2>1. Moves(r, "clearing", runs[r].purpose, 0, FALSE, runs[r].memory)
    BY <1>10, RunsMove
  <2>2. ASSUME ~exposed'
        PROVE  /\ ~exposed
               /\ sessionFile'.exists <=> sessionFile.exists
               /\ sessionFile'.turns = sessionFile.turns
               /\ turnsMade' = turnsMade
               /\ removed' <=> removed
               /\ sessionFile.exists =>
                    /\ lockPath \in {0, lockPath'}
                    /\ runs'[r].at \in Holding \cup {"lock"} => runs'[r].open = lockPath'
                    /\ runs'[r].at \notin {"drop", "unlink"}
               /\ runs'[r].at \in {"rebuild", "fresh", "own"} =>
                    sessionFile.exists /\ runs'[r].memory = sessionFile.turns
               /\ runs'[r].at # "unlocked"
    BY <1>10, <1>a, <2>1, <2>2 DEF ClearBegins, FilesUnchanged, LockHistoryUnchanged, Moves, At, Holding
  <2>3. QED
    BY <2>1, <2>2, RunKeepsTheFile DEF Moves
<1>11. ASSUME NEW r \in Runs, ClearEnds(r) PROVE FileIsKept'
  <2>1. \/ Moves(r, "away", "none", 0, FALSE, {})
        \/ exposed' /\ Moves(r, "unlocked", runs[r].purpose, runs[r].open, runs[r].holds, runs[r].memory)
    BY <1>11, RunsMove
  <2>2. ASSUME ~exposed'
        PROVE  /\ ~exposed
               /\ sessionFile'.exists <=> sessionFile.exists
               /\ sessionFile'.turns = sessionFile.turns
               /\ turnsMade' = turnsMade
               /\ removed' <=> removed
               /\ sessionFile.exists =>
                    /\ lockPath \in {0, lockPath'}
                    /\ runs'[r].at \in Holding \cup {"lock"} => runs'[r].open = lockPath'
                    /\ runs'[r].at \notin {"drop", "unlink"}
               /\ runs'[r].at \in {"rebuild", "fresh", "own"} =>
                    sessionFile.exists /\ runs'[r].memory = sessionFile.turns
               /\ runs'[r].at # "unlocked"
    BY <1>11, <1>a, <2>1, <2>2 DEF ClearEnds, FilesUnchanged, Moves, At, Holding
  <2>3. QED
    BY <2>1, <2>2, RunKeepsTheFile DEF Moves
<1>12. ASSUME NEW r \in Runs, EndRun(r) PROVE FileIsKept'
  <2>1. Moves(r, "away", "none", 0, FALSE, {})
    BY <1>12, RunsMove
  <2>2. ASSUME ~exposed'
        PROVE  /\ ~exposed
               /\ sessionFile'.exists <=> sessionFile.exists
               /\ sessionFile'.turns = sessionFile.turns
               /\ turnsMade' = turnsMade
               /\ removed' <=> removed
               /\ sessionFile.exists =>
                    /\ lockPath \in {0, lockPath'}
                    /\ runs'[r].at \in Holding \cup {"lock"} => runs'[r].open = lockPath'
                    /\ runs'[r].at \notin {"drop", "unlink"}
               /\ runs'[r].at \in {"rebuild", "fresh", "own"} =>
                    sessionFile.exists /\ runs'[r].memory = sessionFile.turns
               /\ runs'[r].at # "unlocked"
    BY <1>12, <1>a, <2>1, <2>2 DEF EndRun, FilesUnchanged, LockHistoryUnchanged, Moves, At, Holding
  <2>3. QED
    BY <2>1, <2>2, RunKeepsTheFile DEF Moves
<1>13. ASSUME NEW r \in Runs, DiscardUnused(r) PROVE FileIsKept'
  <2>1. Moves(r, "delete", runs[r].purpose, runs[r].open, runs[r].holds, runs[r].memory)
    BY <1>13, RunsMove
  <2>2. ASSUME ~exposed'
        PROVE  /\ ~exposed
               /\ sessionFile'.exists <=> sessionFile.exists
               /\ sessionFile'.turns = sessionFile.turns
               /\ turnsMade' = turnsMade
               /\ removed' <=> removed
               /\ sessionFile.exists =>
                    /\ lockPath \in {0, lockPath'}
                    /\ runs'[r].at \in Holding \cup {"lock"} => runs'[r].open = lockPath'
                    /\ runs'[r].at \notin {"drop", "unlink"}
               /\ runs'[r].at \in {"rebuild", "fresh", "own"} =>
                    sessionFile.exists /\ runs'[r].memory = sessionFile.turns
               /\ runs'[r].at # "unlocked"
    BY <1>13, <1>a, <2>1, <2>2 DEF DiscardUnused, FilesUnchanged, LockHistoryUnchanged, Moves, At, Holding
  <2>3. QED
    BY <2>1, <2>2, RunKeepsTheFile DEF Moves
<1>14. ASSUME NEW r \in Runs, DeleteFile(r) PROVE FileIsKept'
  <2>1. Moves(r, "drop", runs[r].purpose, runs[r].open, runs[r].holds, runs[r].memory)
    BY <1>14, RunsMove
  <2>2. SUFFICES ASSUME ~exposed'
                 PROVE  FileIsKept'
    BY DEF FileIsKept
  <2>3. ~exposed /\ ~sessionFile'.exists /\ runs[r].at = "delete"
    BY <1>14, <2>2 DEF DeleteFile, Deletes, Absent, At
  <2>4. ASSUME NEW s \in Runs
        PROVE  runs'[s].at \notin {"rebuild", "fresh", "own", "unlocked"}
    <3>1. CASE s = r
      BY <2>1, <3>1 DEF Moves
    <3>2. CASE s # r
      <4>1. sessionFile.exists => runs[s].at \notin Holding
        BY <1>b, <2>3, <3>2 DEF Holding
      <4>2. runs[s].at \notin {"rebuild", "fresh", "own", "unlocked"}
        BY <1>a, <2>3, <4>1 DEF Holding
      <4>3. QED
        BY <2>1, <3>2, <4>2 DEF Moves
    <3>3. QED
      BY <3>1, <3>2
  <2>5. QED
    BY <2>3, <2>4 DEF FileIsKept, At
<1>15. ASSUME NEW r \in Runs, DropLock(r) PROVE FileIsKept'
  <2>1. Moves(r, "unlink", runs[r].purpose, 0, FALSE, runs[r].memory)
    BY <1>15, RunsMove
  <2>2. ASSUME ~exposed'
        PROVE  /\ ~exposed
               /\ sessionFile'.exists <=> sessionFile.exists
               /\ sessionFile'.turns = sessionFile.turns
               /\ turnsMade' = turnsMade
               /\ removed' <=> removed
               /\ sessionFile.exists =>
                    /\ lockPath \in {0, lockPath'}
                    /\ runs'[r].at \in Holding \cup {"lock"} => runs'[r].open = lockPath'
                    /\ runs'[r].at \notin {"drop", "unlink"}
               /\ runs'[r].at \in {"rebuild", "fresh", "own"} =>
                    sessionFile.exists /\ runs'[r].memory = sessionFile.turns
               /\ runs'[r].at # "unlocked"
    BY <1>15, <1>a, <2>1, <2>2 DEF DropLock, FilesUnchanged, LockHistoryUnchanged, Moves, At, Holding
  <2>3. QED
    BY <2>1, <2>2, RunKeepsTheFile DEF Moves
<1>16. ASSUME NEW r \in Runs, UnlinkLock(r) PROVE FileIsKept'
  <2>1. Moves(r, "away", "none", 0, FALSE, {})
    BY <1>16, RunsMove
  <2>2. ASSUME ~exposed'
        PROVE  /\ ~exposed
               /\ sessionFile'.exists <=> sessionFile.exists
               /\ sessionFile'.turns = sessionFile.turns
               /\ turnsMade' = turnsMade
               /\ removed' <=> removed
               /\ sessionFile.exists =>
                    /\ lockPath \in {0, lockPath'}
                    /\ runs'[r].at \in Holding \cup {"lock"} => runs'[r].open = lockPath'
                    /\ runs'[r].at \notin {"drop", "unlink"}
               /\ runs'[r].at \in {"rebuild", "fresh", "own"} =>
                    sessionFile.exists /\ runs'[r].memory = sessionFile.turns
               /\ runs'[r].at # "unlocked"
    BY <1>16, <1>a, <2>1, <2>2 DEF UnlinkLock, LockHistoryUnchanged, Moves, At, Holding
  <2>3. QED
    BY <2>1, <2>2, RunKeepsTheFile DEF Moves
<1>17. ASSUME NEW r \in Runs, LeavePlaceholder(r) PROVE FileIsKept'
  <2>1. Moves(r, "placeholder", runs[r].purpose, 0, FALSE, runs[r].memory)
    BY <1>17, RunsMove
  <2>2. ASSUME ~exposed'
        PROVE  /\ ~exposed
               /\ sessionFile'.exists <=> sessionFile.exists
               /\ sessionFile'.turns = sessionFile.turns
               /\ turnsMade' = turnsMade
               /\ removed' <=> removed
               /\ sessionFile.exists =>
                    /\ lockPath \in {0, lockPath'}
                    /\ runs'[r].at \in Holding \cup {"lock"} => runs'[r].open = lockPath'
                    /\ runs'[r].at \notin {"drop", "unlink"}
               /\ runs'[r].at \in {"rebuild", "fresh", "own"} =>
                    sessionFile.exists /\ runs'[r].memory = sessionFile.turns
               /\ runs'[r].at # "unlocked"
    BY <1>17, <1>a, <2>1, <2>2 DEF LeavePlaceholder, FilesUnchanged, LockHistoryUnchanged, Moves, At, Holding
  <2>3. QED
    BY <2>1, <2>2, RunKeepsTheFile DEF Moves
<1>18. ASSUME NEW r \in Runs, RemovePlaceholder(r) PROVE FileIsKept'
  <2>1. Moves(r, "unlink", runs[r].purpose, runs[r].open, runs[r].holds, runs[r].memory)
    BY <1>18, RunsMove
  <2>2. SUFFICES ASSUME ~exposed'
                 PROVE  FileIsKept'
    BY DEF FileIsKept
  <2>3. /\ ~sessionFile'.exists
        /\ \A s \in Runs : runs[s].at \notin {"rebuild", "fresh", "own", "unlocked"}
    BY <1>18, <2>2 DEF RemovePlaceholder, Absent, At, Writing
  <2>4. ASSUME NEW s \in Runs
        PROVE  runs'[s].at \notin {"rebuild", "fresh", "own", "unlocked"}
    BY <2>1, <2>3 DEF Moves
  <2>5. QED
    BY <2>3, <2>4 DEF FileIsKept, At
<1>19. CASE SessionIsGone \/ UNCHANGED lockVars
  BY <1>19 DEF SessionIsGone, lockVars, FileIsKept, Holding, At
<1>20. ASSUME NEW r \in Runs,
             \/ \E purpose \in Purposes : Begin(r, purpose)
             \/ OpenLockFile(r) \/ TryLock(r) \/ CreateFile(r) \/ Load(r) \/ Rebuild(r)
             \/ PushTurn(r) \/ SaveSession(r) \/ SwitchAway(r) \/ ClearBegins(r)
             \/ ClearEnds(r) \/ EndRun(r) \/ DiscardUnused(r) \/ DeleteFile(r)
             \/ DropLock(r) \/ UnlinkLock(r) \/ LeavePlaceholder(r) \/ RemovePlaceholder(r)
      PROVE  FileIsKept'
  BY <1>1, <1>2, <1>3, <1>4, <1>5, <1>6, <1>7, <1>8, <1>9, <1>10, <1>11, <1>12, <1>13, <1>14, <1>15, <1>16, <1>17, <1>18, <1>20
<1>21. QED
  BY <1>19, <1>20 DEF LockNext, Purposes

\* The invariant holds in every reachable state.
THEOREM LockInvariance == LockSpec => []LockInv
<1>1. LockInit => LockInv
  <2> SUFFICES ASSUME LockInit PROVE LockInv
    OBVIOUS
  <2>1. LockTypeOK
    <3>1. Away \in RunRecords /\ Absent \in [exists : BOOLEAN, turns : SUBSET LockTurnIds]
      BY DEF Away, Absent, RunRecords, LockPlaces
    <3>2. 0 \in 0..LockTurns
      BY LockBoundsAssumption
    <3> HIDE DEF Away, Absent
    <3>3. QED
      BY <3>1, <3>2 DEF LockInit, LockTypeOK, RunRecords, Purposes
  <2>2. \A r \in Runs : runs[r].at = "away" /\ ~runs[r].holds
    BY DEF LockInit, Away
  <2>3. ~born /\ turnsMade = 0 /\ ~removed /\ ~sessionFile.exists
    BY DEF LockInit, Absent
  <2>4. QED
    BY <2>1, <2>2, <2>3 DEF LockInv, LocksAreHeld, OneHolder, MadeOnce, MakerIsAtThePath, FileIsKept, Makes, At, Holding
<1>2. LockInv /\ [LockNext]_lockVars => LockInv'
  BY NextLockTypes, NextLocks, NextMadeOnce, NextMaker, NextFileIsKept DEF LockInv
<1>3. QED
  BY <1>1, <1>2, PTL DEF LockSpec

\* The session's file, its lock and the runs stay in their types.
THEOREM LockTypes == LockSpec => []LockTypeOK
<1>1. LockInv => LockTypeOK
  BY DEF LockInv
<1>2. QED
  BY <1>1, LockInvariance, PTL

\* A session nothing exposed has one writer, and every turn pushed is in its file.
THEOREM NoTurnsAreLost == LockSpec => []NoTurnIsLost
<1>1. ASSUME LockInv PROVE NoTurnIsLost
  <2> SUFFICES ASSUME ~exposed PROVE NoTurnIsLost
    BY DEF NoTurnIsLost
  <2>1. ASSUME NEW r \in Runs, At(r, Writing)
        PROVE  /\ At(r, {"fresh", "own"}) /\ sessionFile.exists
               /\ runs[r].memory = sessionFile.turns /\ runs[r].holds /\ runs[r].open = lockPath
    BY <1>1, <2>1 DEF LockInv, FileIsKept, LocksAreHeld, At, Writing, Holding
  <2>2. OneWriter
    <3> DEFINE writers == {r \in Runs : At(r, Writing)}
    <3>1. ASSUME NEW r \in writers, NEW s \in writers PROVE r = s
      BY <1>1, <2>1, <3>1 DEF LockInv, OneHolder
    <3>2. CASE writers = {}
      BY <3>2, FS_EmptySet DEF OneWriter
    <3>3. CASE writers # {}
      <4>1. PICK r \in writers : TRUE
        BY <3>3
      <4>2. writers = {r}
        BY <3>1, <4>1
      <4>3. Cardinality(writers) = 1
        BY <4>2, FS_Singleton
      <4>4. QED
        BY <4>3 DEF OneWriter
    <3>4. QED
      BY <3>2, <3>3
  <2>3. QED
    BY <1>1, <2>1, <2>2 DEF LockInv, FileIsKept, NoTurnIsLost
<1>2. QED
  BY <1>1, LockInvariance, PTL

-----------------------------------------------------------------------------
(* EngineHost *)

\* What is recorded, and what an engine writes of it.
Events == {action \in Actions : action.type = "requested" => action.id \in HostRequestIds}
EngineEvents == {action \in Events :
  action.type \in {"ready", "transcript", "requested", "finished", "disconnected"}}

EngineRecords == [phase : Phases, resumed : BOOLEAN, work : Nat, asked : 0..HostRequests,
                  pending : 0..HostRequests, out : Seq(EngineEvents)]
Restarts == [old : Engines, resumed : BOOLEAN, n : Nat]

\* Each restart makes an engine or still waits to make it, so there are engines enough.
HostCounts ==
  /\ restarting \subseteq Restarts /\ IsFiniteSet(restarting)
  /\ created \in Nat /\ restarts \in Nat
  /\ created + Cardinality(restarting) = restarts
  /\ \A restart \in restarting : restart.n < restarts
  /\ restarts <= disruptions /\ disruptions \in 0..HostDisruptions
  /\ submits \in 0..HostSubmits /\ answers \in 0..HostAnswers
  /\ transport = created /\ attached \subseteq 0..created
  /\ overlapped \in BOOLEAN /\ (overlapped => restarts > 0)

EnginesOK ==
  /\ engines \in [Engines -> EngineRecords]
  /\ \A e \in Engines :
       /\ engines[e].work <= submits /\ engines[e].pending <= engines[e].asked
       /\ engines[e].phase = "absent" <=> e > created

Frames == [t : {"snapshot"}, seq : Nat, state : Sessions]
            \cup [t : {"action"}, seq : Nat, action : Events]

\* The log ends in the session. The frames on the way to the client are its last steps, one
\* frame each in their order, the first perhaps the session the client starts from; a client
\* that has its snapshot is at the place of the log before them.
LogOK ==
  /\ session \in Sessions /\ seq \in Nat /\ view \in Sessions /\ joined \in BOOLEAN
  /\ log \in Seq(Sessions) /\ Len(log) = seq + 1 /\ log[seq + 1] = session
  /\ downlink \in Seq(Frames) /\ lastSeq \in -1..seq

LinkOK ==
  /\ ~joined => downlink = <<>>
  /\ \A i \in 1..Len(downlink) :
       /\ downlink[i].seq = seq - Len(downlink) + i
       /\ \/ /\ downlink[i].t = "snapshot" /\ i = 1
             /\ downlink[i].state = log[downlink[i].seq + 1]
          \/ /\ downlink[i].t = "action" /\ downlink[i].seq > 0
             /\ log[downlink[i].seq + 1] = Reduce(log[downlink[i].seq], downlink[i].action)
  /\ Following => lastSeq = seq - Len(downlink) /\ view = log[lastSeq + 1]

\* An event of this kind is on its way from the engine.
Comes(e, type) == \E i \in 1..Len(engines[e].out) : engines[e].out[i].type = type

\* Of the engine it sends to the host shows what is true, or will hear what makes it so.
EngineIsKnown ==
  LET engine == engines[transport] IN
  /\ engine.phase \in {"starting", "running", "exited"}
  /\ engine.phase = "starting" => engine.out = <<>> /\ session.connection = "connecting"
  /\ engine.phase = "running" =>
       ~Comes(transport, "disconnected") /\ (session.connection = "ready" \/ Comes(transport, "ready"))
  /\ engine.phase = "exited" =>
       IF engine.out = <<>> THEN session.connection = "exited"
       ELSE engine.out[Len(engine.out)].type = "disconnected"

\* Until restarts overlap, the host listens to the one engine it sends to, or to none while
\* the one restart waits.
HostKnows ==
  ~overlapped =>
    /\ restarting = {} => attached = {transport} /\ EngineIsKnown
    /\ restarting # {} => attached = {}
    /\ \A a, b \in restarting : a = b

\* Until the first restart, what the session is busy with is the engine's, or its end comes.
HostWorks ==
  restarts = 0 /\ session.busy =>
    \/ engines[transport].work > 0
    \/ Comes(transport, "finished") \/ Comes(transport, "disconnected")

\* An engine is in another phase, with this work and these requests, and wrote these events.
Tells(e, phase, work, asked, pending, events) ==
  /\ engines' \in [Engines -> EngineRecords]
  /\ engines'[e].phase = phase /\ engines'[e].work = work
  /\ engines'[e].asked = asked /\ engines'[e].pending = pending
  /\ events \in Seq(EngineEvents)
  /\ engines'[e].out = IF e \in attached THEN engines[e].out \o events ELSE <<>>
  /\ \A d \in Engines : d # e => engines'[d] = engines[d]

HostInv == HostCounts /\ EnginesOK /\ LogOK /\ LinkOK /\ HostKnows /\ HostWorks

\* A recorded action leaves a session.
LEMMA Reduced ==
  ASSUME NEW s \in Sessions, NEW action \in Events
  PROVE  Reduce(s, action) \in Sessions
<1>1. action.type = "requested" => action.id \in HostRequestIds
  BY DEF Events
<1>2. s.connection \in {"connecting", "ready", "exited"} /\ s.busy \in BOOLEAN
      /\ s.permissions \subseteq HostRequestIds
  BY DEF Sessions
<1>3. (CASE action.type = "connecting" -> "connecting"
         [] action.type = "ready" -> "ready"
         [] action.type = "disconnected" -> "exited"
         [] OTHER -> s.connection) \in {"connecting", "ready", "exited"}
  BY <1>2
<1>4. ((s.busy \/ action.type = "submitted") /\ ~EndsTurn(action)) \in BOOLEAN
  OBVIOUS
<1>5. (CASE action.type = "requested" -> s.permissions \cup {action.id}
         [] action.type = "answered" -> s.permissions \ {action.id}
         [] EndsTurn(action) \/ action.type = "transcript" -> {}
         [] OTHER -> s.permissions) \subseteq HostRequestIds
  BY <1>1, <1>2 DEF EndsTurn
<1>6. QED
  BY <1>3, <1>4, <1>5 DEF Reduce, Sessions

\* Writing events: what is heard of the engine, and the engine's record.
LEMMA Emits ==
  ASSUME EnginesOK, NEW e \in Engines, NEW record \in EngineRecords,
         NEW events \in Seq(EngineEvents), record.out = engines[e].out,
         Emit(e, record, events)
  PROVE  Tells(e, record.phase, record.work, record.asked, record.pending, events)
<1> DEFINE heard == IF e \in attached THEN record.out \o events ELSE <<>>
           now == [record EXCEPT !.out = heard]
<1>1. heard \in Seq(EngineEvents)
  BY ConcatProperties, EmptySeq DEF EngineRecords
<1> HIDE DEF heard
<1>2. /\ now \in EngineRecords /\ now.phase = record.phase /\ now.work = record.work
      /\ now.asked = record.asked /\ now.pending = record.pending /\ now.out = heard
  BY <1>1 DEF EngineRecords
<1>3. engines' = [engines EXCEPT ![e] = now]
  BY DEF Emit, heard
<1> HIDE DEF now
<1>4. /\ engines' \in [Engines -> EngineRecords] /\ engines'[e] = now
      /\ \A d \in Engines : d # e => engines'[d] = engines[d]
  BY <1>2, <1>3 DEF EnginesOK
<1>5. QED
  BY <1>2, <1>4 DEF Tells, heard

\* What each step of an engine tells.
LEMMA EnginesTell ==
  ASSUME EnginesOK, HostCounts, NEW e \in Engines
  PROVE  /\ EngineReady(e) =>
              \E events \in Seq(EngineEvents) :
                /\ Tells(e, "running", engines[e].work, engines[e].asked, engines[e].pending, events)
                /\ \E i \in 1..Len(events) : events[i].type = "ready"
                /\ \A i \in 1..Len(events) : events[i].type \in {"ready", "transcript"}
         /\ EngineAsks(e) =>
              \E events \in Seq(EngineEvents) :
                /\ Tells(e, "running", engines[e].work, engines[e].asked + 1, engines[e].asked + 1, events)
                /\ \A i \in 1..Len(events) : events[i].type = "requested"
         /\ EngineFinishes(e) =>
              \E events \in Seq(EngineEvents) :
                /\ Tells(e, engines[e].phase, engines[e].work - 1, engines[e].asked, 0, events)
                /\ Len(events) = 1 /\ events[1].type = "finished"
         /\ EngineExits(e) =>
              \E events \in Seq(EngineEvents) :
                /\ Tells(e, "exited", 0, engines[e].asked, 0, events)
                /\ Len(events) = 1 /\ events[1].type = "disconnected"
<1> DEFINE engine == engines[e]
<1>0. engine \in EngineRecords
  BY DEF EnginesOK
<1>a. \A type \in {"ready", "transcript", "finished", "disconnected"} :
        Action(type) \in EngineEvents /\ Action(type).type = type
  BY DEF Action, EngineEvents, Events, Actions, ActionTypes
<1>1. ASSUME EngineReady(e)
      PROVE  \E events \in Seq(EngineEvents) :
                /\ Tells(e, "running", engines[e].work, engines[e].asked, engines[e].pending, events)
                /\ \E i \in 1..Len(events) : events[i].type = "ready"
                /\ \A i \in 1..Len(events) : events[i].type \in {"ready", "transcript"}
  <2> DEFINE record == [engine EXCEPT !.phase = "running"]
             events == IF engine.resumed THEN <<Action("ready"), Action("transcript")>>
                                         ELSE <<Action("ready")>>
  <2>1. /\ record \in EngineRecords /\ record.phase = "running" /\ record.work = engine.work
        /\ record.asked = engine.asked /\ record.pending = engine.pending
        /\ record.out = engine.out
    BY <1>0 DEF EngineRecords, Phases
  <2>2. /\ events \in Seq(EngineEvents)
        /\ \E i \in 1..Len(events) : events[i].type = "ready"
        /\ \A i \in 1..Len(events) : events[i].type \in {"ready", "transcript"}
    <3> DEFINE first == Action("ready")
               second == Action("transcript")
    <3>1. first \in EngineEvents /\ second \in EngineEvents /\ first.type = "ready"
          /\ second.type = "transcript"
      BY <1>a
    <3> HIDE DEF first, second
    <3>2. CASE engine.resumed
      <4>1. events = <<first, second>>
        BY <3>2 DEF first, second
      <4> HIDE DEF events
      <4>2. QED
        BY <3>1, <4>1
    <3>3. CASE ~engine.resumed
      <4>1. events = <<first>>
        BY <3>3 DEF first
      <4> HIDE DEF events
      <4>2. QED
        BY <3>1, <4>1
    <3>4. QED
      BY <3>2, <3>3
  <2>3. Emit(e, record, events)
    BY <1>1 DEF EngineReady
  <2> HIDE DEF record, events
  <2>4. Tells(e, record.phase, record.work, record.asked, record.pending, events)
    BY <2>1, <2>2, <2>3, Emits
  <2>5. QED
    BY <2>1, <2>2, <2>4
<1>2. ASSUME EngineAsks(e)
      PROVE  \E events \in Seq(EngineEvents) :
                /\ Tells(e, "running", engines[e].work, engines[e].asked + 1, engines[e].asked + 1, events)
                /\ \A i \in 1..Len(events) : events[i].type = "requested"
  <2> DEFINE record == [engine EXCEPT !.asked = @ + 1, !.pending = engine.asked + 1]
             event == About("requested", engine.asked + 1)
  <2>0. engine.asked + 1 \in 1..HostRequests /\ engine.asked + 1 \in 0..HostRequests
    BY <1>0, <1>2, HostBoundsAssumption DEF EngineAsks, EngineRecords
  <2>1. /\ record \in EngineRecords /\ record.phase = engine.phase /\ record.work = engine.work
        /\ record.asked = engine.asked + 1 /\ record.pending = engine.asked + 1
        /\ record.out = engine.out
    <3> DEFINE next == engine.asked + 1
    <3>1. record = [engine EXCEPT !.asked = next, !.pending = next]
      BY <1>0 DEF EngineRecords
    <3>2. next \in 0..HostRequests
      BY <2>0
    <3> HIDE DEF next, record
    <3>3. /\ record \in EngineRecords /\ record.phase = engine.phase
          /\ record.work = engine.work /\ record.out = engine.out
          /\ record.asked = next /\ record.pending = next
      BY <1>0, <3>1, <3>2 DEF EngineRecords
    <3>4. QED
      BY <3>3 DEF next
  <2>2. event \in EngineEvents /\ event.type = "requested"
    BY <2>0 DEF About, EngineEvents, Events, Actions, ActionTypes, HostRequestIds
  <2>3. Emit(e, record, <<event>>) /\ engine.phase = "running"
    BY <1>2 DEF EngineAsks
  <2> HIDE DEF record, event
  <2>4. <<event>> \in Seq(EngineEvents)
    BY <2>2
  <2>5. Tells(e, record.phase, record.work, record.asked, record.pending, <<event>>)
    BY <2>1, <2>3, <2>4, Emits
  <2>6. \A i \in 1..Len(<<event>>) : <<event>>[i].type = "requested"
    BY <2>2
  <2>7. QED
    BY <2>1, <2>3, <2>4, <2>5, <2>6
<1>3. ASSUME EngineFinishes(e)
      PROVE  \E events \in Seq(EngineEvents) :
                /\ Tells(e, engines[e].phase, engines[e].work - 1, engines[e].asked, 0, events)
                /\ Len(events) = 1 /\ events[1].type = "finished"
  <2> DEFINE record == [engine EXCEPT !.work = @ - 1, !.pending = 0]
             event == Action("finished")
  <2>0. engine.work - 1 \in Nat /\ 0 \in 0..HostRequests
    BY <1>0, <1>3, HostBoundsAssumption DEF EngineFinishes, EngineRecords
  <2>1. /\ record \in EngineRecords /\ record.phase = engine.phase
        /\ record.work = engine.work - 1 /\ record.asked = engine.asked /\ record.pending = 0
        /\ record.out = engine.out
    BY <1>0, <2>0 DEF EngineRecords
  <2>2. event \in EngineEvents /\ event.type = "finished"
    BY <1>a
  <2>3. Emit(e, record, <<event>>)
    BY <1>3 DEF EngineFinishes
  <2> HIDE DEF record, event
  <2>4. <<event>> \in Seq(EngineEvents)
    BY <2>2
  <2>5. Tells(e, record.phase, record.work, record.asked, record.pending, <<event>>)
    BY <2>1, <2>3, <2>4, Emits
  <2>6. Len(<<event>>) = 1 /\ <<event>>[1].type = "finished"
    BY <2>2
  <2>7. QED
    BY <2>1, <2>4, <2>5, <2>6
<1>4. ASSUME EngineExits(e)
      PROVE  \E events \in Seq(EngineEvents) :
                /\ Tells(e, "exited", 0, engines[e].asked, 0, events)
                /\ Len(events) = 1 /\ events[1].type = "disconnected"
  <2> DEFINE record == [engine EXCEPT !.phase = "exited", !.work = 0, !.pending = 0]
             event == Action("disconnected")
  <2>0. 0 \in 0..HostRequests
    BY HostBoundsAssumption
  <2>1. /\ record \in EngineRecords /\ record.phase = "exited"
        /\ record.work = 0 /\ record.asked = engine.asked /\ record.pending = 0
        /\ record.out = engine.out
    BY <1>0, <2>0 DEF EngineRecords, Phases
  <2>2. event \in EngineEvents /\ event.type = "disconnected"
    BY <1>a
  <2>3. Emit(e, record, <<event>>)
    BY <1>4 DEF EngineExits
  <2> HIDE DEF record, event
  <2>4. <<event>> \in Seq(EngineEvents)
    BY <2>2
  <2>5. Tells(e, record.phase, record.work, record.asked, record.pending, <<event>>)
    BY <2>1, <2>3, <2>4, Emits
  <2>6. Len(<<event>>) = 1 /\ <<event>>[1].type = "disconnected"
    BY <2>2
  <2>7. QED
    BY <2>1, <2>4, <2>5, <2>6
<1>5. QED
  BY <1>1, <1>2, <1>3, <1>4

\* The engine the host sends to exists, and one more can be made for every restart that waits.
LEMMA EnginesAreThere ==
  ASSUME HostCounts
  PROVE  /\ created \in Engines /\ transport \in Engines /\ restarts \in Engines
         /\ restarting # {} => created + 1 \in Engines /\ created < restarts
         /\ restarts = 0 => restarting = {} /\ transport = 0 /\ ~overlapped
<1>1. Cardinality(restarting) \in Nat
  BY FS_CardinalityType DEF HostCounts
<1>2. restarting # {} => Cardinality(restarting) # 0
  BY FS_EmptySet DEF HostCounts
<1>3. QED
  BY <1>1, <1>2, HostBoundsAssumption DEF HostCounts, Engines

\* Every step keeps the counts.
LEMMA NextCounts ==
  ASSUME HostCounts, [HostNext]_hostAllVars
  PROVE  HostCounts'
<1>1. CASE UNCHANGED <<hostBounds, transport, attached, restarting, overlapped>>
  BY <1>1 DEF HostCounts, hostBounds
<1>2. ASSUME NEW e \in Engines, EngineExits(e) PROVE HostCounts'
  BY <1>2, HostBoundsAssumption DEF EngineExits, EngineUnchanged, hostVars, Disrupt, HostCounts
<1>3. CASE HostForwards
  BY <1>3, HostBoundsAssumption DEF HostForwards, HostCounts
<1>4. ASSUME NEW card \in Engines \X HostRequestIds, HostForwardsAnswer(card) PROVE HostCounts'
  BY <1>4, HostBoundsAssumption DEF HostForwardsAnswer, HostCounts
<1>5. ASSUME NEW resumed \in BOOLEAN, HostRestart(resumed) PROVE HostCounts'
  <2> DEFINE restart == [old |-> transport, resumed |-> resumed, n |-> restarts]
  <2>1. restart \in Restarts /\ restart.n = restarts
    BY EnginesAreThere DEF Restarts, HostCounts
  <2>2. restart \notin restarting
    BY <2>1 DEF HostCounts
  <2>3. restarting' = restarting \cup {restart}
    BY <1>5 DEF HostRestart
  <2> HIDE DEF restart
  <2>4. IsFiniteSet(restarting') /\ Cardinality(restarting') = Cardinality(restarting) + 1
    BY <2>2, <2>3, FS_AddElement DEF HostCounts
  <2>5. Cardinality(restarting) \in Nat
    BY FS_CardinalityType DEF HostCounts
  <2>6. /\ restarts' = restarts + 1 /\ disruptions' = disruptions + 1
        /\ disruptions < HostDisruptions /\ attached' = {}
        /\ overlapped' = (overlapped \/ restarting # {})
        /\ UNCHANGED <<transport, created, submits, answers>>
    BY <1>5 DEF HostRestart, Disrupt, StopListening
  <2>7. created' + Cardinality(restarting') = restarts'
    BY <2>4, <2>5, <2>6 DEF HostCounts
  <2>8. restarting' \subseteq Restarts /\ \A r \in restarting' : r.n < restarts'
    BY <2>1, <2>3, <2>6 DEF HostCounts, Restarts
  <2>9. restarts' <= disruptions' /\ disruptions' \in 0..HostDisruptions
    BY <2>6, HostBoundsAssumption DEF HostCounts
  <2>10. QED
    BY <2>4, <2>6, <2>7, <2>8, <2>9 DEF HostCounts
<1>6. CASE HostReplaces
  <2>1. PICK restart \in restarting :
          /\ restarting' = restarting \ {restart} /\ created' = created + 1
          /\ transport' = created + 1 /\ attached' = attached \cup {created + 1}
          /\ UNCHANGED <<overlapped, submits, answers, restarts, disruptions>>
    BY <1>6 DEF HostReplaces
  <2>2. IsFiniteSet(restarting') /\ Cardinality(restarting') = Cardinality(restarting) - 1
    BY <2>1, FS_RemoveElement DEF HostCounts
  <2>3. Cardinality(restarting) \in Nat
    BY FS_CardinalityType DEF HostCounts
  <2>4. created' + Cardinality(restarting') = restarts' /\ created' \in Nat
    BY <2>1, <2>2, <2>3 DEF HostCounts
  <2>5. attached' \subseteq 0..created'
    BY <2>1 DEF HostCounts
  <2>6. QED
    BY <2>1, <2>2, <2>4, <2>5 DEF HostCounts
<1>7. CASE ClientLeaves
  BY <1>7, HostBoundsAssumption DEF ClientLeaves, hostVars, Disrupt, HostCounts
<1>8. ASSUME NEW e \in Engines,
             EngineReady(e) \/ EngineAsks(e) \/ EngineFinishes(e) \/ HostHears(e)
      PROVE  UNCHANGED <<hostBounds, transport, attached, restarting, overlapped>>
  BY <1>8 DEF EngineReady, EngineAsks, EngineFinishes, HostHears, EngineUnchanged, hostVars, hostBounds
<1>9. HostWelcomes \/ ClientReceives \/ HostRests \/ UNCHANGED hostAllVars =>
        UNCHANGED <<hostBounds, transport, attached, restarting, overlapped>>
  BY DEF HostWelcomes, ClientReceives, HostRests, hostAllVars, hostVars
<1>10. QED
  BY <1>1, <1>2, <1>3, <1>4, <1>5, <1>6, <1>7, <1>8, <1>9 DEF HostNext

\* Every step keeps the engines' records.
LEMMA NextEngines ==
  ASSUME HostCounts, EnginesOK, [HostNext]_hostAllVars
  PROVE  EnginesOK'
<1>0. submits \in Nat /\ created \in Nat /\ transport \in Engines
  BY EnginesAreThere DEF HostCounts
<1>1. CASE UNCHANGED <<engines, created, submits>>
  BY <1>1 DEF EnginesOK
<1>a. ASSUME NEW e \in Engines, NEW phase, NEW work \in 0..engines[e].work, NEW asked, NEW pending,
             NEW events, Tells(e, phase, work, asked, pending, events), pending <= asked,
             phase # "absent", engines[e].phase # "absent", UNCHANGED <<created, submits>>
      PROVE  EnginesOK'
  <2>1. engines[e].work \in Nat /\ engines[e].work <= submits
    BY DEF EnginesOK, EngineRecords
  <2>2. work <= submits
    BY <1>0, <2>1
  <2>3. QED
    BY <1>a, <2>2 DEF Tells, EnginesOK
<1>b. ASSUME NEW e \in Engines
      PROVE  engines[e].work \in Nat /\ engines[e].asked \in 0..HostRequests
             /\ engines[e].pending \in Nat /\ engines[e].pending <= engines[e].asked
  BY HostBoundsAssumption DEF EnginesOK, EngineRecords
<1>2. ASSUME NEW e \in Engines, EngineReady(e) PROVE EnginesOK'
  <2>1. PICK events \in Seq(EngineEvents) :
          Tells(e, "running", engines[e].work, engines[e].asked, engines[e].pending, events)
    BY <1>2, EnginesTell
  <2>2. engines[e].phase = "starting" /\ UNCHANGED <<created, submits>>
    BY <1>2 DEF EngineReady, EngineUnchanged
  <2>3. engines[e].work \in 0..engines[e].work
    BY <1>b
  <2>4. QED
    BY <1>a, <1>b, <2>1, <2>2, <2>3
<1>3. ASSUME NEW e \in Engines, EngineAsks(e) PROVE EnginesOK'
  <2>1. PICK events \in Seq(EngineEvents) :
          Tells(e, "running", engines[e].work, engines[e].asked + 1, engines[e].asked + 1, events)
    BY <1>3, EnginesTell
  <2>2. engines[e].phase = "running" /\ UNCHANGED <<created, submits>>
    BY <1>3 DEF EngineAsks, EngineUnchanged
  <2>3. engines[e].work \in 0..engines[e].work /\ engines[e].asked + 1 <= engines[e].asked + 1
    BY <1>b
  <2>4. QED
    BY <1>a, <2>1, <2>2, <2>3
<1>4. ASSUME NEW e \in Engines, EngineFinishes(e) PROVE EnginesOK'
  <2>1. PICK events \in Seq(EngineEvents) :
          Tells(e, engines[e].phase, engines[e].work - 1, engines[e].asked, 0, events)
    BY <1>4, EnginesTell
  <2>2. engines[e].phase \in {"running", "closing"} /\ engines[e].work > 0
        /\ UNCHANGED <<created, submits>>
    BY <1>4 DEF EngineFinishes, EngineUnchanged
  <2>3. engines[e].work - 1 \in 0..engines[e].work /\ 0 <= engines[e].asked
    BY <1>b, <2>2
  <2>4. QED
    BY <1>a, <2>1, <2>2, <2>3
<1>5. ASSUME NEW e \in Engines, EngineExits(e) PROVE EnginesOK'
  <2>1. PICK events \in Seq(EngineEvents) :
          Tells(e, "exited", 0, engines[e].asked, 0, events)
    BY <1>5, EnginesTell
  <2>2. engines[e].phase \in {"starting", "running", "closing"} /\ UNCHANGED <<created, submits>>
    BY <1>5 DEF EngineExits, EngineUnchanged
  <2>3. 0 \in 0..engines[e].work /\ 0 <= engines[e].asked
    BY <1>b
  <2>4. QED
    BY <1>a, <2>1, <2>2, <2>3
<1>6. ASSUME NEW e \in Engines, HostHears(e) PROVE EnginesOK'
  <2>1. Tail(engines[e].out) \in Seq(EngineEvents)
    BY <1>6, FirstTaken DEF HostHears, EnginesOK, EngineRecords
  <2>2. engines' = [engines EXCEPT ![e].out = Tail(@)] /\ UNCHANGED <<created, submits>>
    BY <1>6 DEF HostHears, hostBounds
  <2>3. QED
    BY <2>1, <2>2 DEF EnginesOK, EngineRecords
<1>7. CASE HostForwards
  <2>1. CASE engines' = engines
    BY <1>0, <1>7, <2>1, <1>b DEF HostForwards, EnginesOK
  <2>2. CASE engines' = [engines EXCEPT ![transport].work = @ + 1]
    <3>1. submits' = submits + 1 /\ UNCHANGED created
      BY <1>7 DEF HostForwards
    <3>2. engines' \in [Engines -> EngineRecords]
      <4>1. engines[transport].work + 1 \in Nat
        BY <1>0, <1>b
      <4>2. QED
        BY <1>0, <2>2, <4>1 DEF EnginesOK, EngineRecords
    <3>3. ASSUME NEW e \in Engines
          PROVE  /\ engines'[e].work <= submits' /\ engines'[e].pending = engines[e].pending
                 /\ engines'[e].asked = engines[e].asked /\ engines'[e].phase = engines[e].phase
      <4>1. engines[e].work <= submits /\ engines[e].work \in Nat
        BY <1>b DEF EnginesOK
      <4>2. QED
        BY <1>0, <2>2, <3>1, <4>1 DEF EnginesOK, EngineRecords
    <3>4. QED
      BY <3>1, <3>2, <3>3 DEF EnginesOK
  <2>3. QED
    BY <1>7, <2>1, <2>2 DEF HostForwards
<1>8. ASSUME NEW card \in Engines \X HostRequestIds, HostForwardsAnswer(card) PROVE EnginesOK'
  <2>1. UNCHANGED <<created, submits>>
    BY <1>8 DEF HostForwardsAnswer
  <2>2. CASE engines' = engines
    BY <2>1, <2>2 DEF EnginesOK
  <2>3. CASE engines' = [engines EXCEPT ![transport].pending = IF @ = card[2] THEN 0 ELSE @]
    <3> DEFINE pending == IF engines[transport].pending = card[2] THEN 0 ELSE engines[transport].pending
    <3>1. pending \in 0..HostRequests /\ pending <= engines[transport].asked
      BY <1>0, <1>b, HostBoundsAssumption DEF EnginesOK, EngineRecords
    <3>2. engines' = [engines EXCEPT ![transport].pending = pending]
      BY <2>3
    <3> HIDE DEF pending
    <3>3. engines' \in [Engines -> EngineRecords]
      <4> DEFINE new == [engines[transport] EXCEPT !.pending = pending]
      <4>1. engines[transport] \in EngineRecords
        BY <1>0 DEF EnginesOK
      <4>2. new \in EngineRecords
        BY <3>1, <4>1 DEF EngineRecords
      <4>3. engines' = [engines EXCEPT ![transport] = new]
        BY <3>2
      <4> HIDE DEF new
      <4>4. QED
        BY <4>2, <4>3 DEF EnginesOK
    <3>4. ASSUME NEW e \in Engines
          PROVE  /\ engines'[e].work = engines[e].work /\ engines'[e].asked = engines[e].asked
                 /\ engines'[e].phase = engines[e].phase
                 /\ engines'[e].pending <= engines'[e].asked
      <4>1. CASE e = transport
        BY <1>0, <3>1, <3>2, <4>1 DEF EnginesOK, EngineRecords
      <4>2. CASE e # transport
        <5>1. engines'[e] = engines[e]
          BY <3>2, <4>2 DEF EnginesOK
        <5>2. QED
          BY <5>1 DEF EnginesOK
      <4>3. QED
        BY <4>1, <4>2
    <3>5. QED
      BY <2>1, <3>3, <3>4 DEF EnginesOK
  <2>4. QED
    BY <1>8, <2>2, <2>3 DEF HostForwardsAnswer
<1>9. ASSUME NEW resumed \in BOOLEAN, HostRestart(resumed) PROVE EnginesOK'
  <2>1. UNCHANGED <<created, submits>> /\ attached' = {}
    BY <1>9 DEF HostRestart, StopListening
  <2>2. ASSUME NEW e \in Engines
        PROVE  /\ engines'[e] \in EngineRecords
               /\ engines'[e].work = engines[e].work /\ engines'[e].pending = engines[e].pending
               /\ engines'[e].asked = engines[e].asked
               /\ engines'[e].phase = "absent" <=> engines[e].phase = "absent"
    <3> DEFINE engine == engines[e]
               phase == IF e = transport /\ engine.phase \in {"starting", "running"} THEN "closing" ELSE engine.phase
    <3>1. engines'[e] = [engine EXCEPT !.out = <<>>, !.phase = phase]
      BY <1>9, <2>1 DEF HostRestart
    <3>2. engine \in EngineRecords /\ phase \in Phases
      BY DEF EnginesOK, EngineRecords, Phases
    <3>3. <<>> \in Seq(EngineEvents) /\ (phase = "absent" <=> engine.phase = "absent")
      OBVIOUS
    <3> HIDE DEF phase, engine
    <3>4. QED
      BY <3>1, <3>2, <3>3 DEF EngineRecords, engine
  <2>3. engines' \in [Engines -> EngineRecords]
    <3>1. engines' = [e \in Engines |-> engines'[e]]
      BY <1>9 DEF HostRestart
    <3>2. QED
      BY <2>2, <3>1
  <2>4. QED
    BY <2>1, <2>2, <2>3 DEF EnginesOK
<1>10. CASE HostReplaces
  <2>1. PICK restart \in restarting :
          /\ created' = created + 1 /\ UNCHANGED submits
          /\ engines' = [engines EXCEPT ![created + 1] = NewEngine(restart.resumed)]
    BY <1>10 DEF HostReplaces
  <2>2. created + 1 \in Engines
    BY <2>1, EnginesAreThere
  <2> DEFINE new == NewEngine(restart.resumed)
  <2>3. restart.resumed \in BOOLEAN
    BY <2>1 DEF HostCounts, Restarts
  <2>4. /\ new \in EngineRecords /\ new.phase = "starting" /\ new.work = 0
        /\ new.pending = 0 /\ new.asked = 0
    BY <2>3, HostBoundsAssumption DEF NewEngine, EngineRecords, Phases
  <2> HIDE DEF new
  <2>5. engines' = [engines EXCEPT ![created + 1] = new]
    BY <2>1 DEF new
  <2>6. engines' \in [Engines -> EngineRecords]
    BY <2>4, <2>5 DEF EnginesOK
  <2>7. ASSUME NEW e \in Engines
        PROVE  /\ engines'[e].work <= submits' /\ engines'[e].pending <= engines'[e].asked
               /\ engines'[e].phase = "absent" <=> e > created'
    <3>0. e \in Nat
      BY DEF Engines
    <3>1. CASE e = created + 1
      BY <1>0, <2>1, <2>2, <2>4, <2>5, <3>1 DEF EnginesOK
    <3>2. CASE e # created + 1
      BY <1>0, <2>1, <2>5, <3>0, <3>2 DEF EnginesOK
    <3>3. QED
      BY <3>1, <3>2
  <2>8. QED
    BY <2>6, <2>7 DEF EnginesOK
<1>11. HostWelcomes \/ ClientReceives \/ ClientLeaves \/ HostRests \/ UNCHANGED hostAllVars =>
         UNCHANGED <<engines, created, submits>>
  BY DEF HostWelcomes, ClientReceives, ClientLeaves, HostRests, hostAllVars, hostBounds
<1>12. QED
  BY <1>1, <1>2, <1>3, <1>4, <1>5, <1>6, <1>7, <1>8, <1>9, <1>10, <1>11 DEF HostNext

\* What a step does to the log and the client: it records one action, it is the client's, or
\* it leaves both alone.
LEMMA HostStepKinds ==
  ASSUME HostCounts, EnginesOK, [HostNext]_hostAllVars
  PROVE  \/ \E action \in Events : Record(action) /\ UNCHANGED <<joined, lastSeq, view>>
         \/ UNCHANGED <<session, seq, log, clientVars>>
         \/ HostWelcomes \/ ClientReceives \/ ClientLeaves
<1>a. \A type \in {"submitted", "connecting"} : Action(type) \in Events
  BY DEF Action, Events, Actions, ActionTypes
<1>1. ASSUME NEW e \in Engines,
             EngineReady(e) \/ EngineAsks(e) \/ EngineFinishes(e) \/ EngineExits(e)
      PROVE  UNCHANGED <<session, seq, log, clientVars>>
  BY <1>1 DEF EngineReady, EngineAsks, EngineFinishes, EngineExits, EngineUnchanged, hostVars
<1>2. ASSUME NEW e \in Engines, HostHears(e)
      PROVE  \E action \in Events : Record(action) /\ UNCHANGED <<joined, lastSeq, view>>
  <2>1. Head(engines[e].out) \in Events
    BY <1>2, FirstTaken DEF HostHears, EnginesOK, EngineRecords, EngineEvents
  <2>2. QED
    BY <1>2, <2>1 DEF HostHears
<1>3. CASE HostForwards
  BY <1>3, <1>a DEF HostForwards, NoRecord, clientVars
<1>4. ASSUME NEW card \in Engines \X HostRequestIds, HostForwardsAnswer(card)
      PROVE  \/ \E action \in Events : Record(action) /\ UNCHANGED <<joined, lastSeq, view>>
             \/ UNCHANGED <<session, seq, log, clientVars>>
  <2>1. About("answered", card[2]) \in Events
    BY DEF About, Events, Actions, ActionTypes
  <2>2. QED
    BY <1>4, <2>1 DEF HostForwardsAnswer, NoRecord, clientVars
<1>5. ASSUME NEW resumed \in BOOLEAN, HostRestart(resumed)
      PROVE  UNCHANGED <<session, seq, log, clientVars>>
  BY <1>5 DEF HostRestart
<1>6. CASE HostReplaces
  BY <1>6, <1>a DEF HostReplaces
<1>7. CASE HostRests \/ UNCHANGED hostAllVars
  BY <1>7 DEF HostRests, hostAllVars, hostVars
<1>8. QED
  BY <1>1, <1>2, <1>3, <1>4, <1>5, <1>6, <1>7 DEF HostNext

\* The frames on their way, with the log one longer.
LEMMA RecordKeepsTheLink ==
  ASSUME LogOK, LinkOK, NEW action \in Events, Record(action), UNCHANGED <<joined, lastSeq, view>>
  PROVE  /\ LogOK' /\ LinkOK'
         /\ session' \in Sessions /\ log' = Append(log, session')
         /\ Following' <=> Following
<1> DEFINE frame == [t |-> "action", seq |-> seq + 1, action |-> action]
<1>1. /\ session' \in Sessions /\ session' = Reduce(session, action)
      /\ seq' = seq + 1 /\ log' = Append(log, session')
      /\ downlink' = IF joined THEN Append(downlink, frame) ELSE downlink
  BY Reduced DEF Record, LogOK, FrameSeq
<1>2. frame \in Frames /\ frame.t = "action" /\ frame.seq = seq + 1 /\ frame.action = action
  BY DEF Frames, LogOK
<1> HIDE DEF frame
<1>3. /\ log' \in Seq(Sessions) /\ Len(log') = seq' + 1 /\ log'[seq' + 1] = session'
      /\ \A k \in 1..(seq + 1) : log'[k] = log[k]
  <2>1. /\ log' \in Seq(Sessions) /\ Len(log') = Len(log) + 1
        /\ \A k \in 1..Len(log') : \/ k = Len(log) + 1 /\ log'[k] = session'
                                   \/ k \in 1..Len(log) /\ log'[k] = log[k]
    BY <1>1, LastAdded DEF LogOK
  <2>2. Len(log) = seq + 1 /\ seq \in Nat
    BY DEF LogOK
  <2>3. seq' + 1 \in 1..Len(log') /\ seq' + 1 \notin 1..Len(log)
    BY <1>1, <2>1, <2>2
  <2>4. ASSUME NEW k \in 1..(seq + 1) PROVE log'[k] = log[k]
    BY <2>1, <2>2
  <2>5. QED
    BY <1>1, <2>1, <2>2, <2>3, <2>4
<1>4. Len(downlink) \in Nat /\ (~joined => Len(downlink) = 0)
  BY LenProperties, EmptySeq DEF LogOK, LinkOK
<1>5. CASE ~joined
  <2>1. downlink' = <<>> /\ downlink = <<>>
    BY <1>1, <1>5 DEF LinkOK
  <2>2. LogOK'
    BY <1>1, <1>3, <2>1, <1>5 DEF LogOK
  <2>3. LinkOK' /\ (Following' <=> Following)
    BY <1>5, <2>1 DEF LinkOK, Following
  <2>4. QED
    BY <1>1, <2>2, <2>3
<1>6. CASE joined
  <2>1. /\ downlink' \in Seq(Frames) /\ Len(downlink') = Len(downlink) + 1
        /\ \A k \in 1..Len(downlink') :
             \/ k = Len(downlink) + 1 /\ downlink'[k] = frame
             \/ k \in 1..Len(downlink) /\ downlink'[k] = downlink[k]
    BY <1>1, <1>2, <1>6, LastAdded DEF LogOK
  <2>0. \A k \in Nat : seq' - Len(downlink') + k = seq - Len(downlink) + k
    <3>1. seq' = seq + 1 /\ Len(downlink') = Len(downlink) + 1 /\ seq \in Nat
      BY <1>1, <2>1 DEF LogOK
    <3>2. QED
      BY <3>1, <1>4
  <2>2. LogOK'
    BY <1>1, <1>3, <2>1, <1>6 DEF LogOK
  <2>3. ASSUME NEW i \in 1..Len(downlink')
        PROVE  /\ downlink'[i].seq = seq' - Len(downlink') + i
               /\ \/ /\ downlink'[i].t = "snapshot" /\ i = 1
                     /\ downlink'[i].state = log'[downlink'[i].seq + 1]
                  \/ /\ downlink'[i].t = "action" /\ downlink'[i].seq > 0
                     /\ log'[downlink'[i].seq + 1]
                          = Reduce(log'[downlink'[i].seq], downlink'[i].action)
    <3>1. CASE i = Len(downlink) + 1 /\ downlink'[i] = frame
      <4>1. log'[seq' + 1] = Reduce(log'[seq'], action)
        BY <1>1, <1>3 DEF LogOK
      <4>2. seq + 1 > 0 /\ seq \in Nat
        BY DEF LogOK
      <4>3. seq + 1 = seq' - Len(downlink') + i
        BY <1>4, <2>0, <3>1, <4>2
      <4>4. QED
        BY <1>1, <1>2, <3>1, <4>1, <4>2, <4>3
    <3>2. CASE i \in 1..Len(downlink) /\ downlink'[i] = downlink[i]
      <4>1. /\ downlink[i].seq = seq - Len(downlink) + i
            /\ \/ /\ downlink[i].t = "snapshot" /\ i = 1
                  /\ downlink[i].state = log[downlink[i].seq + 1]
               \/ /\ downlink[i].t = "action" /\ downlink[i].seq > 0
                  /\ log[downlink[i].seq + 1] = Reduce(log[downlink[i].seq], downlink[i].action)
        BY <3>2 DEF LinkOK
      <4>2. downlink[i].seq \in Nat
        BY <3>2, ElementOfSeq DEF LogOK, Frames
      <4>3. downlink[i].seq + 1 \in 1..(seq + 1)
        BY <1>4, <3>2, <4>1, <4>2 DEF LogOK
      <4>4. downlink[i].seq > 0 => downlink[i].seq \in 1..(seq + 1)
        BY <4>2, <4>3 DEF LogOK
      <4>5. downlink'[i].seq = seq' - Len(downlink') + i
        <5>1. seq' - Len(downlink') + i = seq - Len(downlink) + i
          BY <1>4, <2>0, <3>2
        <5>2. QED
          BY <3>2, <4>1, <5>1
      <4>6. QED
        BY <1>3, <3>2, <4>1, <4>3, <4>4, <4>5
    <3>3. QED
      BY <2>1, <3>1, <3>2
  <2>4. Following' <=> Following
    <3>1. DOMAIN downlink = 1..Len(downlink) /\ DOMAIN downlink' = 1..Len(downlink')
      BY <2>1, LenProperties DEF LogOK
    <3>2. 1..Len(downlink) \subseteq 1..Len(downlink')
      BY <1>4, <2>1
    <3>3. \A k \in 1..Len(downlink) : downlink'[k] = downlink[k]
      BY <1>4, <2>1, <3>2
    <3>4. \A k \in 1..Len(downlink') : k \notin 1..Len(downlink) => downlink'[k].t # "snapshot"
      BY <1>2, <2>1
    <3>5. QED
      BY <1>6, <3>1, <3>2, <3>3, <3>4 DEF Following
  <2>5. ASSUME Following PROVE lastSeq = seq' - Len(downlink') /\ view = log'[lastSeq + 1]
    <3>1. lastSeq = seq - Len(downlink) /\ view = log[lastSeq + 1] /\ lastSeq \in -1..seq
      BY <2>5 DEF LinkOK, LogOK
    <3>2. lastSeq + 1 \in 1..(seq + 1)
      <4>1. CASE Len(downlink) = 0
        BY <3>1, <4>1 DEF LogOK
      <4>2. CASE Len(downlink) # 0
        <5>1. 1 \in 1..Len(downlink) /\ 1 \in DOMAIN downlink
          BY <1>4, <4>2, LenProperties DEF LogOK
        <5>2. downlink[1].seq > 0 /\ downlink[1].seq = seq - Len(downlink) + 1
          BY <2>5, <5>1 DEF LinkOK, Following
        <5>3. QED
          BY <1>4, <3>1, <5>2 DEF LogOK
      <4>3. QED
        BY <4>1, <4>2
    <3>3. QED
      BY <1>1, <1>3, <1>4, <2>1, <3>1, <3>2 DEF LogOK
  <2>6. LinkOK'
    BY <1>6, <2>3, <2>4, <2>5 DEF LinkOK
  <2>7. QED
    BY <1>1, <2>2, <2>4, <2>6
<1>7. QED
  BY <1>5, <1>6 DEF LogOK

\* The client that follows the log is at a place of it.
LEMMA FollowsAtAPlace ==
  ASSUME LogOK, LinkOK, Following
  PROVE  lastSeq \in 0..seq /\ view = log[lastSeq + 1]
<1>1. Len(downlink) \in Nat /\ DOMAIN downlink = 1..Len(downlink)
  BY LenProperties DEF LogOK
<1>2. lastSeq = seq - Len(downlink) /\ view = log[lastSeq + 1]
  BY DEF LinkOK
<1>3. CASE Len(downlink) = 0
  BY <1>2, <1>3 DEF LogOK
<1>4. CASE Len(downlink) # 0
  <2>1. 1 \in 1..Len(downlink) /\ 1 \in DOMAIN downlink
    BY <1>1, <1>4
  <2>2. downlink[1].seq > 0 /\ downlink[1].seq = seq - Len(downlink) + 1
    BY <2>1 DEF LinkOK, Following
  <2>3. QED
    BY <1>1, <1>2, <2>2 DEF LogOK
<1>5. QED
  BY <1>3, <1>4

\* Receiving the first frame: the snapshot, or the next step of the log.
LEMMA ReceivedInOrder ==
  ASSUME LogOK, LinkOK, ClientReceives
  PROVE  /\ LogOK' /\ LinkOK' /\ Following' /\ UNCHANGED log
         /\ lastSeq' \in 0..seq /\ view' = log[lastSeq' + 1]
         /\ Following => lastSeq' = lastSeq + 1
<1> DEFINE frame == downlink[1]
<1>1. /\ downlink # <<>> /\ Head(downlink) = frame /\ frame \in Frames /\ 1 \in 1..Len(downlink)
      /\ downlink' = Tail(downlink) /\ downlink' \in Seq(Frames)
      /\ Len(downlink') = Len(downlink) - 1
      /\ \A k \in 1..Len(downlink') : k + 1 \in 1..Len(downlink) /\ downlink'[k] = downlink[k + 1]
      /\ Len(downlink) \in Nat
  BY FirstTaken, HeadTailProperties, LenProperties DEF ClientReceives, LogOK
<1>2. joined /\ UNCHANGED <<session, seq, log, joined>>
  BY DEF ClientReceives, hostVars
<1>3. /\ frame.seq = seq - Len(downlink) + 1 /\ frame.seq \in 0..seq
      /\ \/ /\ frame.t = "snapshot" /\ frame.state = log[frame.seq + 1]
         \/ /\ frame.t = "action" /\ frame.seq > 0
            /\ log[frame.seq + 1] = Reduce(log[frame.seq], frame.action)
  <2>1. frame.seq \in Nat
    BY <1>1 DEF Frames
  <2>2. QED
    BY <1>1, <2>1 DEF LinkOK, LogOK
<1>4. ASSUME NEW k \in 1..Len(downlink')
      PROVE  /\ downlink'[k].seq = seq' - Len(downlink') + k
             /\ downlink'[k].t = "action" /\ downlink'[k].seq > 0
             /\ log'[downlink'[k].seq + 1]
                  = Reduce(log'[downlink'[k].seq], downlink'[k].action)
  <2>1. k + 1 \in 1..Len(downlink) /\ downlink'[k] = downlink[k + 1] /\ k + 1 # 1
    BY <1>1
  <2>2. /\ downlink[k + 1].seq = seq - Len(downlink) + (k + 1)
        /\ downlink[k + 1].t = "action" /\ downlink[k + 1].seq > 0
        /\ log[downlink[k + 1].seq + 1]
             = Reduce(log[downlink[k + 1].seq], downlink[k + 1].action)
    BY <2>1 DEF LinkOK
  <2>3. seq' - Len(downlink') + k = seq - Len(downlink) + (k + 1)
    BY <1>1, <1>2 DEF LogOK
  <2>4. QED
    BY <1>2, <2>1, <2>2, <2>3
<1>5. Following'
  <2>1. DOMAIN downlink' = 1..Len(downlink')
    BY <1>1, LenProperties
  <2>2. QED
    BY <1>2, <1>4, <2>1 DEF Following
<1>6. ASSUME frame.t = "action"
      PROVE  Following /\ lastSeq = frame.seq - 1 /\ view = log[frame.seq]
  <2>1. DOMAIN downlink = 1..Len(downlink)
    BY <1>1, LenProperties
  <2>2. ASSUME NEW i \in 1..Len(downlink) PROVE downlink[i].t # "snapshot"
    BY <1>6, <2>2 DEF LinkOK
  <2>3. Following
    BY <1>2, <2>1, <2>2 DEF Following
  <2>4. lastSeq = seq - Len(downlink) /\ view = log[lastSeq + 1]
    BY <2>3 DEF LinkOK
  <2>5. QED
    BY <1>1, <1>3, <2>3, <2>4 DEF LogOK
<1>7. lastSeq' = frame.seq /\ view' = log[frame.seq + 1] /\ (Following => lastSeq' = lastSeq + 1)
  <2>1. CASE frame.t = "snapshot"
    <3>1. ~Following
      <4>1. 1 \in DOMAIN downlink
        BY <1>1, LenProperties DEF LogOK
      <4>2. QED
        BY <2>1, <4>1 DEF Following
    <3>2. view' = frame.state /\ lastSeq' = frame.seq
      BY <1>1, <2>1 DEF ClientReceives
    <3>3. QED
      BY <1>3, <2>1, <3>1, <3>2
  <2>2. CASE frame.t = "action"
    <3>1. IsNew(frame)
      BY <1>3, <1>6, <2>2 DEF IsNew
    <3>2. view' = Reduce(view, frame.action) /\ lastSeq' = frame.seq
      BY <1>1, <2>2, <3>1 DEF ClientReceives
    <3>3. QED
      BY <1>3, <1>6, <2>2, <3>2
  <2>3. QED
    BY <1>3, <2>1, <2>2
<1>8. log[frame.seq + 1] \in Sessions
  BY <1>3, ElementOfSeq DEF LogOK
<1>9. LogOK'
  BY <1>1, <1>2, <1>3, <1>7, <1>8 DEF LogOK
<1>10. lastSeq' = seq' - Len(downlink')
  BY <1>1, <1>2, <1>3, <1>7 DEF LogOK
<1>11. LinkOK'
  BY <1>2, <1>4, <1>7, <1>10 DEF LinkOK
<1>12. QED
  BY <1>2, <1>3, <1>5, <1>7, <1>9, <1>11

\* Every step keeps the log and what links the client to it.
LEMMA NextLink ==
  ASSUME HostCounts, EnginesOK, LogOK, LinkOK, [HostNext]_hostAllVars
  PROVE  LogOK' /\ LinkOK'
<1>1. ASSUME NEW action \in Events, Record(action), UNCHANGED <<joined, lastSeq, view>>
      PROVE  LogOK' /\ LinkOK'
  BY <1>1, RecordKeepsTheLink
<1>2. CASE UNCHANGED <<session, seq, log, clientVars>>
  BY <1>2 DEF clientVars, LogOK, LinkOK, Following
<1>3. CASE HostWelcomes
  <2> DEFINE frame == [t |-> "snapshot", seq |-> seq, state |-> session]
  <2>1. /\ joined' /\ downlink' = <<frame>>
        /\ UNCHANGED <<session, seq, log, lastSeq, view>>
    BY <1>3 DEF HostWelcomes, hostVars
  <2>2. /\ frame \in Frames /\ frame.t = "snapshot" /\ frame.seq = seq /\ frame.state = session
    BY DEF LogOK, Frames
  <2> HIDE DEF frame
  <2>3. /\ downlink' \in Seq(Frames) /\ Len(downlink') = 1 /\ downlink'[1] = frame
        /\ 1 \in DOMAIN downlink'
    BY <2>1, <2>2
  <2>4. ~Following'
    BY <2>2, <2>3 DEF Following
  <2>5. joined' \in BOOLEAN
    BY <1>3 DEF HostWelcomes
  <2>6. LogOK'
    BY <2>1, <2>3, <2>5 DEF LogOK
  <2>7. ASSUME NEW i \in 1..Len(downlink')
        PROVE  /\ downlink'[i].seq = seq' - Len(downlink') + i
               /\ downlink'[i].t = "snapshot" /\ i = 1
               /\ downlink'[i].state = log'[downlink'[i].seq + 1]
    <3>1. i = 1
      BY <2>3
    <3>2. QED
      BY <2>1, <2>2, <2>3, <3>1 DEF LogOK
  <2>8. LinkOK'
    BY <2>1, <2>4, <2>7 DEF LinkOK
  <2>9. QED
    BY <2>6, <2>8
<1>4. CASE ClientReceives
  BY <1>4, ReceivedInOrder
<1>5. CASE ClientLeaves
  <2>1. Action("disconnected") \in Events
    BY DEF Action, Events, Actions, ActionTypes
  <2>2. /\ joined' = FALSE /\ downlink' = <<>> /\ view' \in Sessions
        /\ UNCHANGED <<session, seq, log, lastSeq>>
    BY <1>5, <2>1, Reduced DEF ClientLeaves, hostVars, LogOK
  <2>3. downlink' \in Seq(Frames) /\ Len(downlink') = 0
    BY <2>2
  <2>4. LogOK'
    BY <2>2, <2>3 DEF LogOK
  <2>5. LinkOK'
    BY <2>2, <2>3 DEF LinkOK, Following
  <2>6. QED
    BY <2>4, <2>5
<1>6. QED
  BY <1>1, <1>2, <1>3, <1>4, <1>5, HostStepKinds

\* Every step of the host and its client is a step of the shared log, or none.
LEMMA HostStepsAreShared ==
  ASSUME HostCounts, EnginesOK, LogOK, LinkOK, [HostNext]_hostAllVars
  PROVE  [Shared!Next]_Shared!vars
<1> DEFINE place == IF Following THEN lastSeq + 1 ELSE 0
<1>1. ASSUME NEW action \in Events, Record(action), UNCHANGED <<joined, lastSeq, view>>
      PROVE  Shared!Next
  <2>1. /\ session' \in Sessions /\ log' = Append(log, session')
        /\ Following' <=> Following
    BY <1>1, RecordKeepsTheLink
  <2>2. place' = place /\ view' = view
    BY <1>1, <2>1
  <2>3. Shared!Add(session')
    BY <2>1, <2>2 DEF Shared!Add
  <2>4. QED
    BY <2>1, <2>3 DEF Shared!Next
<1>2. ASSUME UNCHANGED <<session, seq, log, clientVars>> PROVE UNCHANGED Shared!vars
  BY <1>2 DEF clientVars, Following, Shared!vars
<1>3. ASSUME HostWelcomes PROVE UNCHANGED Shared!vars
  <2> DEFINE frame == [t |-> "snapshot", seq |-> seq, state |-> session]
  <2>1. ~joined /\ downlink' = <<frame>> /\ UNCHANGED <<log, view>> /\ frame.t = "snapshot"
    BY <1>3 DEF HostWelcomes
  <2> HIDE DEF frame
  <2>2. 1 \in DOMAIN downlink' /\ downlink'[1].t = "snapshot"
    BY <2>1
  <2>3. ~Following /\ ~Following'
    BY <2>1, <2>2 DEF Following
  <2>4. QED
    BY <2>1, <2>3 DEF Shared!vars
<1>4. ASSUME ClientReceives PROVE Shared!Next
  <2>1. /\ Following' /\ UNCHANGED log /\ lastSeq' \in 0..seq /\ view' = log[lastSeq' + 1]
        /\ Following => lastSeq' = lastSeq + 1
    BY <1>4, ReceivedInOrder
  <2>2. seq \in Nat /\ Len(log) = seq + 1 /\ DOMAIN log = 1..(seq + 1)
    BY LenProperties DEF LogOK
  <2>3. place' = lastSeq' + 1 /\ lastSeq' + 1 \in DOMAIN log
    <3>1. place' = lastSeq' + 1
      BY <2>1
    <3>2. lastSeq' + 1 \in 1..(seq + 1)
      <4>1. seq \in Nat /\ \A p \in 0..seq : p + 1 \in 1..(seq + 1)
        BY DEF LogOK
      <4>2. QED
        BY <2>1, <4>1
    <3>3. QED
      BY <2>2, <3>1, <3>2
  <2>4. CASE Following
    <3>1. place = lastSeq + 1 /\ lastSeq \in 0..seq /\ lastSeq' + 1 = place + 1
      BY <2>1, <2>4, FollowsAtAPlace
    <3>2. place > 0 /\ place < Len(log)
      BY <2>1, <2>2, <3>1
    <3>3. Shared!Advance
      BY <2>1, <2>3, <3>1, <3>2 DEF Shared!Advance, Shared!Show
    <3>4. QED
      BY <3>3 DEF Shared!Next
  <2>5. CASE ~Following
    <3>1. Shared!Attach(lastSeq' + 1)
      BY <2>1, <2>3, <2>5 DEF Shared!Attach, Shared!Show
    <3>2. QED
      BY <2>3, <3>1 DEF Shared!Next
  <2>6. QED
    BY <2>4, <2>5
<1>5. ASSUME ClientLeaves PROVE Shared!Next
  <2>1. Action("disconnected") \in Events
    BY DEF Action, Events, Actions, ActionTypes
  <2>2. ~joined' /\ view' \in Sessions /\ UNCHANGED log
    BY <1>5, <2>1, Reduced DEF ClientLeaves, LogOK
  <2>3. Shared!Leave(view')
    BY <2>2 DEF Shared!Leave, Following
  <2>4. QED
    BY <2>2, <2>3 DEF Shared!Next
<1>6. QED
  BY <1>1, <1>2, <1>3, <1>4, <1>5, HostStepKinds

\* What a listened-to engine tells comes after what it told before.
LEMMA TellsMore ==
  ASSUME EnginesOK, NEW e \in Engines, e \in attached, NEW phase, NEW work, NEW asked, NEW pending,
         NEW events, Tells(e, phase, work, asked, pending, events)
  PROVE  /\ \A type : Comes(e, type)' <=>
              Comes(e, type) \/ \E j \in 1..Len(events) : events[j].type = type
         /\ Len(events) > 0 =>
              engines'[e].out # <<>> /\ engines'[e].out[Len(engines'[e].out)] = events[Len(events)]
<1> DEFINE old == engines[e].out
           new == engines'[e].out
<1>1. /\ old \in Seq(EngineEvents) /\ events \in Seq(EngineEvents) /\ new = old \o events
      /\ Len(old) \in Nat /\ Len(events) \in Nat
  BY LenProperties DEF EnginesOK, EngineRecords, Tells
<1> HIDE DEF old, new
<1>2. /\ Len(new) = Len(old) + Len(events) /\ new \in Seq(EngineEvents)
      /\ \A i \in 1..(Len(old) + Len(events)) :
           new[i] = IF i <= Len(old) THEN old[i] ELSE events[i - Len(old)]
  BY <1>1, ConcatProperties
<1>3. \A i \in 1..Len(old) : i \in 1..Len(new) /\ new[i] = old[i]
  BY <1>1, <1>2
<1>4. \A j \in 1..Len(events) : Len(old) + j \in 1..Len(new) /\ new[Len(old) + j] = events[j]
  BY <1>1, <1>2
<1>5. ASSUME NEW i \in 1..Len(new)
      PROVE  \/ i \in 1..Len(old) /\ new[i] = old[i]
             \/ \E j \in 1..Len(events) : new[i] = events[j]
  <2>1. CASE i <= Len(old)
    BY <1>1, <1>2, <2>1
  <2>2. CASE ~(i <= Len(old))
    <3>1. i - Len(old) \in 1..Len(events) /\ new[i] = events[i - Len(old)]
      BY <1>1, <1>2, <2>2
    <3>2. QED
      BY <3>1
  <2>3. QED
    BY <2>1, <2>2
<1>6. ASSUME NEW type
      PROVE  (\E i \in 1..Len(new) : new[i].type = type) <=>
               \/ \E i \in 1..Len(old) : old[i].type = type
               \/ \E j \in 1..Len(events) : events[j].type = type
  BY <1>3, <1>4, <1>5
<1>7. ASSUME Len(events) > 0 PROVE new # <<>> /\ new[Len(new)] = events[Len(events)]
  <2>1. Len(events) \in 1..Len(events) /\ Len(new) # 0
    BY <1>1, <1>2, <1>7
  <2>2. QED
    BY <1>2, <1>4, <2>1
<1>8. QED
  BY <1>6, <1>7 DEF Comes, old, new

\* Hearing an engine's first event leaves the others to come.
LEMMA HearsOne ==
  ASSUME EnginesOK, NEW e \in Engines, HostHears(e)
  PROVE  LET event == Head(engines[e].out)
             out == engines[e].out
         IN  /\ event \in EngineEvents /\ Record(event) /\ e \in attached /\ out # <<>>
             /\ Comes(e, event.type)
             /\ \A type : Comes(e, type) => event.type = type \/ Comes(e, type)'
             /\ \A type : Comes(e, type)' => Comes(e, type)
             /\ engines'[e].out # <<>> => engines'[e].out[Len(engines'[e].out)] = out[Len(out)]
             /\ engines'[e].out = <<>> => event = out[Len(out)]
             /\ engines'[e].phase = engines[e].phase /\ engines'[e].work = engines[e].work
             /\ \A d \in Engines : d # e => engines'[d] = engines[d]
             /\ UNCHANGED <<transport, attached, restarting, overlapped, restarts>>
<1> DEFINE old == engines[e].out
           new == Tail(old)
<1>1. old \in Seq(EngineEvents) /\ old # <<>> /\ e \in attached /\ Record(Head(old))
  BY DEF HostHears, EnginesOK, EngineRecords
<1>2. /\ engines' = [engines EXCEPT ![e].out = new]
      /\ UNCHANGED <<transport, attached, restarting, overlapped, restarts>>
  BY DEF HostHears, hostBounds
<1> HIDE DEF old
<1>3. /\ Head(old) \in EngineEvents /\ Head(old) = old[1] /\ 1 \in 1..Len(old)
      /\ new \in Seq(EngineEvents)
      /\ \A k \in 1..Len(new) : k + 1 \in 1..Len(old) /\ new[k] = old[k + 1]
  BY <1>1, FirstTaken
<1>4. Len(new) = Len(old) - 1 /\ Len(old) \in Nat \ {0} /\ Len(new) \in Nat
  BY <1>1, <1>3, HeadTailProperties, EmptySeq, LenProperties
<1>5. /\ engines'[e].out = new /\ engines'[e].phase = engines[e].phase
      /\ engines'[e].work = engines[e].work
      /\ \A d \in Engines : d # e => engines'[d] = engines[d]
  BY <1>2 DEF EnginesOK, EngineRecords
<1> HIDE DEF new
<1>6. ASSUME NEW i \in 1..Len(old), i # 1 PROVE i - 1 \in 1..Len(new) /\ new[i - 1] = old[i]
  <2>1. i - 1 \in 1..Len(new)
    BY <1>4, <1>6
  <2>2. new[i - 1] = old[(i - 1) + 1]
    BY <1>3, <2>1
  <2>3. QED
    BY <1>6, <2>1, <2>2
<1>7. ASSUME NEW type
      PROVE  /\ (\E i \in 1..Len(old) : old[i].type = type) =>
                  Head(old).type = type \/ \E i \in 1..Len(new) : new[i].type = type
             /\ (\E i \in 1..Len(new) : new[i].type = type) => \E i \in 1..Len(old) : old[i].type = type
  <2>1. ASSUME NEW i \in 1..Len(old), old[i].type = type
        PROVE  Head(old).type = type \/ \E k \in 1..Len(new) : new[k].type = type
    <3>1. CASE i = 1
      BY <1>3, <2>1, <3>1
    <3>2. CASE i # 1
      <4>1. i - 1 \in 1..Len(new) /\ new[i - 1] = old[i]
        BY <1>6, <3>2
      <4>2. QED
        BY <2>1, <4>1
    <3>3. QED
      BY <3>1, <3>2
  <2>2. ASSUME NEW k \in 1..Len(new), new[k].type = type
        PROVE  \E i \in 1..Len(old) : old[i].type = type
    <3>1. k + 1 \in 1..Len(old) /\ new[k] = old[k + 1]
      BY <1>3
    <3>2. QED
      BY <2>2, <3>1
  <2>3. QED
    BY <2>1, <2>2
<1>8. new # <<>> => new[Len(new)] = old[Len(old)]
  <2>1. ASSUME new # <<>> PROVE Len(new) \in 1..Len(new)
    BY <1>3, <1>4, <2>1, EmptySeq
  <2>2. QED
    BY <1>3, <1>4, <2>1
<1>9. new = <<>> => Head(old) = old[Len(old)]
  <2>1. ASSUME new = <<>> PROVE Len(old) = 1
    <3>1. Len(new) = 0
      BY <2>1
    <3>2. QED
      BY <1>4, <3>1
  <2>2. QED
    BY <1>3, <2>1
<1>10. /\ Comes(e, Head(old).type)
       /\ \A type : Comes(e, type) => Head(old).type = type \/ Comes(e, type)'
       /\ \A type : Comes(e, type)' => Comes(e, type)
  <2>1. /\ \A type : Comes(e, type) <=> \E i \in 1..Len(old) : old[i].type = type
        /\ \A type : Comes(e, type)' <=> \E i \in 1..Len(new) : new[i].type = type
    BY <1>5 DEF Comes, old
  <2>2. Comes(e, Head(old).type)
    BY <1>3, <2>1
  <2>3. QED
    BY <1>7, <2>1, <2>2
<1>11. QED
  BY <1>1, <1>2, <1>3, <1>5, <1>8, <1>9, <1>10 DEF old

\* What a recorded event makes of the connection and of what the session is busy with.
LEMMA ReducesTo ==
  ASSUME NEW action \in Events, Record(action)
  PROVE  /\ action.type = "connecting" => session'.connection = "connecting"
         /\ action.type = "ready" => session'.connection = "ready"
         /\ action.type = "disconnected" => session'.connection = "exited"
         /\ action.type \notin {"connecting", "ready", "disconnected"} =>
              session'.connection = session.connection
         /\ session'.busy => session.busy \/ action.type = "submitted"
         /\ session'.busy => action.type \notin {"finished", "disconnected"}
  BY DEF Record, Reduce, EndsTurn

\* Every step keeps what the host knows of its engine.
LEMMA NextKnows ==
  ASSUME HostCounts, EnginesOK, HostKnows, [HostNext]_hostAllVars
  PROVE  HostKnows'
<1>0. transport \in Engines
  BY EnginesAreThere
<1>a. ASSUME engines'[transport].phase = engines[transport].phase,
             engines'[transport].out = engines[transport].out,
             session'.connection = session.connection,
             UNCHANGED <<transport, attached, restarting, overlapped>>
      PROVE  HostKnows'
  BY <1>a DEF HostKnows, EngineIsKnown, Comes
<1>b. ASSUME NEW e \in Engines, UNCHANGED <<session, transport, attached, restarting, overlapped>>,
             \A d \in Engines : d # e => engines'[d] = engines[d],
             ~overlapped /\ restarting = {} /\ e = transport /\ e \in attached /\ EngineIsKnown =>
               EngineIsKnown'
      PROVE  HostKnows'
  <2>1. CASE e # transport
    BY <1>0, <1>a, <1>b, <2>1
  <2>2. CASE e = transport
    BY <1>b, <2>2 DEF HostKnows
  <2>3. QED
    BY <2>1, <2>2
<1>1. ASSUME NEW e \in Engines, EngineReady(e) PROVE HostKnows'
  <2>1. PICK events \in Seq(EngineEvents) :
          /\ Tells(e, "running", engines[e].work, engines[e].asked, engines[e].pending, events)
          /\ \E i \in 1..Len(events) : events[i].type = "ready"
          /\ \A i \in 1..Len(events) : events[i].type \in {"ready", "transcript"}
    BY <1>1, EnginesTell
  <2>2. /\ engines[e].phase = "starting"
        /\ UNCHANGED <<session, transport, attached, restarting, overlapped>>
    BY <1>1 DEF EngineReady, EngineUnchanged, hostVars
  <2>3. ASSUME e = transport, e \in attached, EngineIsKnown PROVE EngineIsKnown'
    <3>1. /\ Comes(e, "disconnected")' <=>
               Comes(e, "disconnected") \/ \E j \in 1..Len(events) : events[j].type = "disconnected"
          /\ Comes(e, "ready")' <=>
               Comes(e, "ready") \/ \E j \in 1..Len(events) : events[j].type = "ready"
      BY <2>1, <2>3, TellsMore
    <3>2. ~Comes(e, "disconnected")
      <4>1. engines[e].out = <<>>
        BY <2>2, <2>3 DEF EngineIsKnown
      <4>2. QED
        BY <4>1 DEF Comes
    <3>3. ~Comes(e, "disconnected")' /\ Comes(e, "ready")'
      BY <2>1, <3>1, <3>2
    <3>4. Comes(transport, "disconnected")' = Comes(e, "disconnected")'
          /\ Comes(transport, "ready")' = Comes(e, "ready")'
      BY <2>2, <2>3 DEF Comes
    <3>5. engines'[transport'].phase = "running"
      BY <2>1, <2>2, <2>3 DEF Tells
    <3>6. QED
      BY <3>3, <3>4, <3>5 DEF EngineIsKnown
  <2>4. \A d \in Engines : d # e => engines'[d] = engines[d]
    BY <2>1 DEF Tells
  <2>5. QED
    BY <1>b, <2>2, <2>3, <2>4
<1>2. ASSUME NEW e \in Engines, EngineAsks(e) \/ EngineFinishes(e) PROVE HostKnows'
  <2>1. PICK events \in Seq(EngineEvents), work \in Int, asked \in Int, pending \in Int :
          /\ Tells(e, engines[e].phase, work, asked, pending, events)
          /\ \A i \in 1..Len(events) : events[i].type \in {"requested", "finished"}
    <3>1. engines[e].work \in Int /\ engines[e].asked \in Int
      BY DEF EnginesOK, EngineRecords
    <3>2. CASE EngineAsks(e)
      <4>1. PICK events \in Seq(EngineEvents) :
              /\ Tells(e, "running", engines[e].work, engines[e].asked + 1, engines[e].asked + 1, events)
              /\ \A i \in 1..Len(events) : events[i].type = "requested"
        BY <3>2, EnginesTell
      <4>2. engines[e].phase = "running" /\ engines[e].asked + 1 \in Int
        BY <3>1, <3>2 DEF EngineAsks
      <4>3. QED
        BY <3>1, <4>1, <4>2
    <3>3. CASE EngineFinishes(e)
      <4>1. PICK events \in Seq(EngineEvents) :
              /\ Tells(e, engines[e].phase, engines[e].work - 1, engines[e].asked, 0, events)
              /\ Len(events) = 1 /\ events[1].type = "finished"
        BY <3>3, EnginesTell
      <4>2. engines[e].work - 1 \in Int /\ \A i \in 1..Len(events) : events[i].type = "finished"
        BY <3>1, <4>1
      <4>3. QED
        BY <3>1, <4>1, <4>2
    <3>4. QED
      BY <1>2, <3>2, <3>3
  <2>2. /\ engines[e].phase \in {"running", "closing"}
        /\ UNCHANGED <<session, transport, attached, restarting, overlapped>>
    BY <1>2 DEF EngineAsks, EngineFinishes, EngineUnchanged, hostVars
  <2>3. ASSUME e = transport, e \in attached, EngineIsKnown PROVE EngineIsKnown'
    <3>1. engines[e].phase = "running"
      BY <2>2, <2>3 DEF EngineIsKnown
    <3>2. ~Comes(e, "disconnected") /\ (session.connection = "ready" \/ Comes(e, "ready"))
      BY <2>3, <3>1 DEF EngineIsKnown
    <3>3. /\ Comes(e, "disconnected")' <=>
               Comes(e, "disconnected") \/ \E j \in 1..Len(events) : events[j].type = "disconnected"
          /\ Comes(e, "ready")' <=>
               Comes(e, "ready") \/ \E j \in 1..Len(events) : events[j].type = "ready"
      BY <2>1, <2>3, TellsMore
    <3>4. ~Comes(e, "disconnected")' /\ (session'.connection = "ready" \/ Comes(e, "ready")')
      BY <2>1, <2>2, <3>2, <3>3
    <3>5. Comes(transport, "disconnected")' = Comes(e, "disconnected")'
          /\ Comes(transport, "ready")' = Comes(e, "ready")'
      BY <2>2, <2>3 DEF Comes
    <3>6. engines'[transport'].phase = "running"
      BY <2>1, <2>2, <2>3, <3>1 DEF Tells
    <3>7. QED
      BY <3>4, <3>5, <3>6 DEF EngineIsKnown
  <2>4. \A d \in Engines : d # e => engines'[d] = engines[d]
    BY <2>1 DEF Tells
  <2>5. QED
    BY <1>b, <2>2, <2>3, <2>4
<1>3. ASSUME NEW e \in Engines, EngineExits(e) PROVE HostKnows'
  <2>1. PICK events \in Seq(EngineEvents) :
          /\ Tells(e, "exited", 0, engines[e].asked, 0, events)
          /\ Len(events) = 1 /\ events[1].type = "disconnected"
    BY <1>3, EnginesTell
  <2>2. UNCHANGED <<session, transport, attached, restarting, overlapped>>
    BY <1>3 DEF EngineExits, EngineUnchanged, hostVars
  <2>3. ASSUME e = transport, e \in attached, EngineIsKnown PROVE EngineIsKnown'
    <3>1. engines'[e].out # <<>> /\ engines'[e].out[Len(engines'[e].out)] = events[1]
      BY <2>1, <2>3, TellsMore
    <3>2. engines'[e].phase = "exited"
      BY <2>1 DEF Tells
    <3>3. QED
      BY <2>1, <2>2, <2>3, <3>1, <3>2 DEF EngineIsKnown
  <2>4. \A d \in Engines : d # e => engines'[d] = engines[d]
    BY <2>1 DEF Tells
  <2>5. QED
    BY <1>b, <2>2, <2>3, <2>4
<1>4. ASSUME NEW e \in Engines, HostHears(e) PROVE HostKnows'
  <2> DEFINE event == Head(engines[e].out)
             out == engines[e].out
  <2>1. /\ event \in EngineEvents /\ Record(event) /\ e \in attached /\ out # <<>>
        /\ Comes(e, event.type)
        /\ Comes(e, "ready") => event.type = "ready" \/ Comes(e, "ready")'
        /\ Comes(e, "disconnected")' => Comes(e, "disconnected")
        /\ engines'[e].out # <<>> => engines'[e].out[Len(engines'[e].out)] = out[Len(out)]
        /\ engines'[e].out = <<>> => event = out[Len(out)]
        /\ engines'[e].phase = engines[e].phase
        /\ UNCHANGED <<transport, attached, restarting, overlapped>>
    BY <1>4, HearsOne
  <2> HIDE DEF event
  <2>2. /\ event.type # "connecting"
        /\ event.type = "ready" => session'.connection = "ready"
        /\ event.type = "disconnected" => session'.connection = "exited"
        /\ event.type \notin {"ready", "disconnected"} => session'.connection = session.connection
    <3>1. event \in Events /\ event.type # "connecting"
      BY <2>1 DEF EngineEvents
    <3>2. QED
      BY <2>1, <3>1, ReducesTo
  <2>3. ASSUME ~overlapped, restarting = {} PROVE EngineIsKnown' /\ attached' = {transport'}
    <3>1. e = transport /\ attached = {transport} /\ EngineIsKnown
      BY <2>1, <2>3 DEF HostKnows
    <3>2. engines[e].phase \in {"running", "exited"}
      BY <2>1, <3>1 DEF EngineIsKnown
    <3>3. CASE engines[e].phase = "running"
      <4>1. ~Comes(e, "disconnected") /\ (session.connection = "ready" \/ Comes(e, "ready"))
        BY <3>1, <3>3 DEF EngineIsKnown
      <4>2. event.type # "disconnected"
        BY <2>1, <4>1
      <4>3. ~Comes(e, "disconnected")' /\ (session'.connection = "ready" \/ Comes(e, "ready")')
        BY <2>1, <2>2, <4>1, <4>2
      <4>4. Comes(transport, "disconnected")' = Comes(e, "disconnected")'
            /\ Comes(transport, "ready")' = Comes(e, "ready")'
        BY <2>1, <3>1 DEF Comes
      <4>5. engines'[transport'].phase = "running"
        BY <2>1, <3>1, <3>3
      <4>6. QED
        BY <2>1, <3>1, <4>3, <4>4, <4>5 DEF EngineIsKnown
    <3>4. CASE engines[e].phase = "exited"
      <4>1. out[Len(out)].type = "disconnected"
        BY <2>1, <3>1, <3>4 DEF EngineIsKnown
      <4>2. IF engines'[e].out = <<>> THEN session'.connection = "exited"
            ELSE engines'[e].out[Len(engines'[e].out)].type = "disconnected"
        BY <2>1, <2>2, <4>1
      <4>3. engines'[transport'].phase = "exited" /\ transport' = e
        BY <2>1, <3>1, <3>4
      <4>4. QED
        BY <2>1, <3>1, <4>2, <4>3 DEF EngineIsKnown
    <3>5. QED
      BY <3>2, <3>3, <3>4
  <2>4. QED
    BY <2>1, <2>3 DEF HostKnows
<1>5. CASE HostForwards
  <2>1. /\ engines'[transport].phase = engines[transport].phase
        /\ engines'[transport].out = engines[transport].out
        /\ UNCHANGED <<transport, attached, restarting, overlapped>>
    BY <1>0, <1>5 DEF HostForwards, EnginesOK, EngineRecords
  <2>2. session'.connection = session.connection
    <3>1. Action("submitted") \in Events /\ Action("submitted").type = "submitted"
      BY DEF Action, Events, Actions, ActionTypes
    <3>2. QED
      BY <1>5, <3>1, ReducesTo DEF HostForwards, NoRecord
  <2>3. QED
    BY <1>a, <2>1, <2>2
<1>6. ASSUME NEW card \in Engines \X HostRequestIds, HostForwardsAnswer(card) PROVE HostKnows'
  <2>1. /\ engines'[transport].phase = engines[transport].phase
        /\ engines'[transport].out = engines[transport].out
        /\ UNCHANGED <<transport, attached, restarting, overlapped>>
    BY <1>0, <1>6 DEF HostForwardsAnswer, EnginesOK, EngineRecords
  <2>2. session'.connection = session.connection
    <3>1. About("answered", card[2]) \in Events /\ About("answered", card[2]).type = "answered"
      BY DEF About, Events, Actions, ActionTypes
    <3>2. QED
      BY <1>6, <3>1, ReducesTo DEF HostForwardsAnswer, NoRecord
  <2>3. QED
    BY <1>a, <2>1, <2>2
<1>7. ASSUME NEW resumed \in BOOLEAN, HostRestart(resumed) PROVE HostKnows'
  <2>1. PICK restart : /\ restarting' = restarting \cup {restart} /\ attached' = {}
                       /\ overlapped' = (overlapped \/ restarting # {})
    BY <1>7 DEF HostRestart, StopListening
  <2>2. ASSUME ~overlapped' PROVE restarting' = {restart}
    BY <2>1, <2>2
  <2>3. QED
    BY <2>1, <2>2 DEF HostKnows
<1>8. CASE HostReplaces
  <2>1. PICK restart \in restarting :
          /\ restarting' = restarting \ {restart} /\ transport' = created + 1
          /\ attached' = attached \cup {created + 1}
          /\ engines' = [engines EXCEPT ![created + 1] = NewEngine(restart.resumed)]
          /\ Record(Action("connecting")) /\ UNCHANGED overlapped
    BY <1>8 DEF HostReplaces
  <2>2. created + 1 \in Engines
    BY <2>1, EnginesAreThere
  <2>3. engines'[created + 1].phase = "starting" /\ engines'[created + 1].out = <<>>
    BY <2>1, <2>2 DEF EnginesOK, NewEngine
  <2>4. session'.connection = "connecting"
    <3>1. Action("connecting") \in Events /\ Action("connecting").type = "connecting"
      BY DEF Action, Events, Actions, ActionTypes
    <3>2. QED
      BY <2>1, <3>1, ReducesTo
  <2>5. EngineIsKnown'
    BY <2>1, <2>3, <2>4 DEF EngineIsKnown
  <2>6. ASSUME ~overlapped PROVE restarting' = {} /\ attached' = {transport'}
    BY <2>1, <2>6 DEF HostKnows
  <2>7. QED
    BY <2>1, <2>5, <2>6 DEF HostKnows
<1>9. ASSUME HostWelcomes \/ ClientReceives \/ ClientLeaves \/ HostRests \/ UNCHANGED hostAllVars
      PROVE  HostKnows'
  <2>1. UNCHANGED <<engines, session, transport, attached, restarting, overlapped>>
    BY <1>9 DEF HostWelcomes, ClientReceives, ClientLeaves, HostRests, hostAllVars, hostVars
  <2>2. QED
    BY <1>a, <2>1
<1>10. QED
  BY <1>1, <1>2, <1>3, <1>4, <1>5, <1>6, <1>7, <1>8, <1>9 DEF HostNext

\* Until the first restart every step keeps whose work the session is busy with.
LEMMA NextWorks ==
  ASSUME HostCounts, EnginesOK, HostKnows, HostWorks, [HostNext]_hostAllVars
  PROVE  HostWorks'
<1> DEFINE Works(e) == engines[e].work > 0 \/ Comes(e, "finished") \/ Comes(e, "disconnected")
<1> SUFFICES ASSUME restarts' = 0, session'.busy
             PROVE  Works(transport)'
  BY DEF HostWorks
<1>1. restarts = 0
  <2>1. ASSUME NEW resumed \in BOOLEAN, HostRestart(resumed) PROVE FALSE
    <3>1. restarts' = restarts + 1 /\ restarts \in Nat
      BY <2>1 DEF HostRestart, HostCounts
    <3>2. QED
      BY <3>1
  <2>2. ASSUME NEW e \in Engines,
               EngineReady(e) \/ EngineAsks(e) \/ EngineFinishes(e) \/ EngineExits(e) \/ HostHears(e)
        PROVE  UNCHANGED restarts
    BY <2>2 DEF EngineReady, EngineAsks, EngineFinishes, EngineExits, HostHears, EngineUnchanged, hostBounds
  <2>3. ASSUME NEW card \in Engines \X HostRequestIds, HostForwardsAnswer(card)
        PROVE  UNCHANGED restarts
    BY <2>3 DEF HostForwardsAnswer
  <2>4. ASSUME \/ HostForwards \/ HostReplaces \/ HostWelcomes \/ ClientReceives \/ ClientLeaves
               \/ HostRests \/ UNCHANGED hostAllVars
        PROVE  UNCHANGED restarts
    BY <2>4 DEF HostForwards, HostReplaces, HostWelcomes, ClientReceives, ClientLeaves, HostRests,
                hostAllVars, hostBounds
  <2>5. QED
    BY <2>1, <2>2, <2>3, <2>4 DEF HostNext
<1>2. /\ restarting = {} /\ ~overlapped /\ transport \in Engines
      /\ attached = {transport} /\ EngineIsKnown
      /\ engines[transport].work \in Nat
  BY <1>1, EnginesAreThere DEF HostKnows, EnginesOK, EngineRecords
<1>3. session.busy => Works(transport)
  BY <1>1 DEF HostWorks
<1>a. ASSUME engines'[transport].work = engines[transport].work,
             engines'[transport].out = engines[transport].out,
             session'.busy => session.busy, UNCHANGED transport
      PROVE  Works(transport)'
  BY <1>3, <1>a DEF Comes
<1>4. ASSUME NEW e \in Engines,
             EngineReady(e) \/ EngineAsks(e) \/ EngineFinishes(e) \/ EngineExits(e)
      PROVE  Works(transport)'
  <2>1. UNCHANGED <<session, transport, attached>>
    BY <1>4 DEF EngineReady, EngineAsks, EngineFinishes, EngineExits, EngineUnchanged, hostVars
  <2>2. PICK phase \in Phases, work \in Nat, asked \in Int, pending \in Int,
             events \in Seq(EngineEvents) :
          /\ Tells(e, phase, work, asked, pending, events)
          /\ \/ work = engines[e].work
             \/ Len(events) = 1 /\ events[1].type \in {"finished", "disconnected"}
    <3>1. /\ engines[e].work \in Nat /\ engines[e].asked \in Int /\ engines[e].pending \in Int
          /\ engines[e].phase \in Phases
      BY DEF EnginesOK, EngineRecords
    <3>2. CASE EngineReady(e)
      BY <3>1, <3>2, EnginesTell DEF Phases
    <3>3. CASE EngineAsks(e)
      <4>1. engines[e].asked + 1 \in Int /\ "running" \in Phases
        BY <3>1 DEF Phases
      <4>2. QED
        BY <3>1, <3>3, <4>1, EnginesTell
    <3>4. CASE EngineFinishes(e)
      <4>1. engines[e].work - 1 \in Nat
        BY <3>1, <3>4 DEF EngineFinishes
      <4>2. QED
        BY <3>1, <3>4, <4>1, EnginesTell
    <3>5. CASE EngineExits(e)
      <4>1. PICK events \in Seq(EngineEvents) :
              /\ Tells(e, "exited", 0, engines[e].asked, 0, events)
              /\ Len(events) = 1 /\ events[1].type = "disconnected"
        BY <3>5, EnginesTell
      <4>2. 0 \in Nat /\ 0 \in Int /\ "exited" \in Phases
        BY DEF Phases
      <4>3. QED
        BY <3>1, <4>1, <4>2
    <3>6. QED
      BY <1>4, <3>2, <3>3, <3>4, <3>5
  <2>3. CASE e # transport
    BY <1>2, <1>a, <2>1, <2>2, <2>3 DEF Tells
  <2>4. CASE e = transport
    <3>1. e \in attached
      BY <1>2, <2>4
    <3>2. /\ Comes(e, "finished")' <=>
               Comes(e, "finished") \/ \E j \in 1..Len(events) : events[j].type = "finished"
          /\ Comes(e, "disconnected")' <=>
               Comes(e, "disconnected") \/ \E j \in 1..Len(events) : events[j].type = "disconnected"
      BY <2>2, <3>1, TellsMore
    <3>3. engines'[e].work = work /\ transport' = e
      BY <2>1, <2>2, <2>4 DEF Tells
    <3>4. session.busy
      BY <2>1
    <3>5. Works(e)'
      BY <1>3, <2>2, <2>4, <3>2, <3>3, <3>4
    <3>6. QED
      BY <3>3, <3>5 DEF Comes
  <2>5. QED
    BY <2>3, <2>4
<1>5. ASSUME NEW e \in Engines, HostHears(e) PROVE Works(transport)'
  <2> DEFINE event == Head(engines[e].out)
  <2>1. /\ event \in EngineEvents /\ Record(event) /\ e \in attached
        /\ Comes(e, "finished") => event.type = "finished" \/ Comes(e, "finished")'
        /\ Comes(e, "disconnected") => event.type = "disconnected" \/ Comes(e, "disconnected")'
        /\ engines'[e].work = engines[e].work
        /\ UNCHANGED <<transport, attached, restarting, overlapped, restarts>>
    BY <1>5, HearsOne
  <2> HIDE DEF event
  <2>2. event \in Events /\ event.type # "submitted"
    BY <2>1 DEF EngineEvents
  <2>3. session.busy /\ event.type \notin {"finished", "disconnected"}
    BY <2>1, <2>2, ReducesTo
  <2>4. e = transport /\ transport' = e
    BY <1>2, <2>1
  <2>5. Works(e)'
    BY <1>3, <2>1, <2>3, <2>4
  <2>6. QED
    BY <2>4, <2>5 DEF Comes
<1>6. ASSUME HostForwards PROVE Works(transport)'
  <2>1. UNCHANGED transport
    BY <1>6 DEF HostForwards
  <2>2. CASE NoRecord /\ UNCHANGED engines
    BY <1>a, <2>1, <2>2 DEF NoRecord
  <2>3. CASE /\ session.connection = "ready"
             /\ engines' = IF engines[transport].phase = "running"
                           THEN [engines EXCEPT ![transport].work = @ + 1] ELSE engines
    <3>1. engines[transport].phase \in {"running", "exited"}
      BY <1>2, <2>3 DEF EngineIsKnown
    <3>2. CASE engines[transport].phase = "running"
      <4>1. engines'[transport].work = engines[transport].work + 1
        BY <1>2, <2>3, <3>2 DEF EnginesOK, EngineRecords
      <4>2. QED
        BY <1>2, <2>1, <4>1
    <3>3. CASE engines[transport].phase = "exited"
      <4> DEFINE out == engines[transport].out
      <4>1. out # <<>> /\ out[Len(out)].type = "disconnected"
        BY <1>2, <2>3, <3>3 DEF EngineIsKnown
      <4>2. out \in Seq(EngineEvents)
        BY <1>2 DEF EnginesOK, EngineRecords
      <4>3. Len(out) \in 1..Len(out)
        BY <4>1, <4>2, EmptySeq
      <4>4. Comes(transport, "disconnected")
        BY <4>1, <4>3 DEF Comes
      <4>5. engines' = engines
        BY <2>3, <3>3
      <4>6. QED
        BY <2>1, <4>4, <4>5 DEF Comes
    <3>4. QED
      BY <3>1, <3>2, <3>3
  <2>4. QED
    BY <1>6, <2>2, <2>3 DEF HostForwards
<1>7. ASSUME NEW card \in Engines \X HostRequestIds, HostForwardsAnswer(card) PROVE Works(transport)'
  <2>1. /\ engines'[transport].work = engines[transport].work
        /\ engines'[transport].out = engines[transport].out
        /\ UNCHANGED transport
    BY <1>2, <1>7 DEF HostForwardsAnswer, EnginesOK, EngineRecords
  <2>2. session'.busy => session.busy
    <3>1. About("answered", card[2]) \in Events /\ About("answered", card[2]).type = "answered"
      BY DEF About, Events, Actions, ActionTypes
    <3>2. QED
      BY <1>7, <3>1, ReducesTo DEF HostForwardsAnswer, NoRecord
  <2>3. QED
    BY <1>a, <2>1, <2>2
<1>8. \A resumed \in BOOLEAN : ~HostRestart(resumed)
  BY <1>1 DEF HostRestart, HostCounts
<1>9. ~HostReplaces
  BY <1>2 DEF HostReplaces
<1>10. ASSUME HostWelcomes \/ ClientReceives \/ ClientLeaves \/ HostRests \/ UNCHANGED hostAllVars
       PROVE  Works(transport)'
  <2>1. UNCHANGED <<engines, session, transport>>
    BY <1>10 DEF HostWelcomes, ClientReceives, ClientLeaves, HostRests, hostAllVars, hostVars
  <2>2. QED
    BY <1>a, <2>1
<1>11. QED
  BY <1>4, <1>5, <1>6, <1>7, <1>8, <1>9, <1>10 DEF HostNext

\* The invariant holds in every reachable state.
THEOREM HostInvariance == HostSpec => []HostInv
<1>1. HostInit => HostInv
  <2> SUFFICES ASSUME HostInit PROVE HostInv
    OBVIOUS
  <2>1. 0 \in Engines /\ <<>> \in Seq(EngineEvents) /\ 0 \in 0..HostRequests
    BY HostBoundsAssumption DEF Engines
  <2>2. /\ NewEngine(FALSE) \in EngineRecords /\ NewEngine(FALSE).phase = "starting"
        /\ NewEngine(FALSE).work = 0 /\ NewEngine(FALSE).pending = 0
        /\ NewEngine(FALSE).asked = 0 /\ NewEngine(FALSE).out = <<>>
    BY <2>1 DEF NewEngine, EngineRecords, Phases
  <2>3. /\ NoEngine \in EngineRecords /\ NoEngine.phase = "absent"
        /\ NoEngine.work = 0 /\ NoEngine.pending = 0 /\ NoEngine.asked = 0
    BY <2>1 DEF NewEngine, NoEngine, EngineRecords, Phases
  <2>4. engines = [e \in Engines |-> IF e = 0 THEN NewEngine(FALSE) ELSE NoEngine]
    BY DEF HostInit
  <2>5. HostCounts
    <3>1. /\ restarting = {} /\ attached = {0} /\ transport = 0 /\ overlapped = FALSE
          /\ created = 0 /\ restarts = 0 /\ disruptions = 0 /\ submits = 0 /\ answers = 0
      BY DEF HostInit
    <3>2. IsFiniteSet({}) /\ Cardinality({}) = 0
      BY FS_EmptySet
    <3>3. 0 \in 0..HostDisruptions /\ 0 \in 0..HostSubmits /\ 0 \in 0..HostAnswers
      BY HostBoundsAssumption
    <3>4. /\ restarting \subseteq Restarts /\ IsFiniteSet(restarting)
          /\ Cardinality(restarting) = 0 /\ attached \subseteq 0..created
          /\ overlapped \in BOOLEAN /\ ~overlapped
          /\ \A restart \in restarting : restart.n < restarts
      <4>1. IsFiniteSet(restarting) /\ Cardinality(restarting) = 0
        BY <3>1, <3>2
      <4>2. attached \subseteq 0..created
        BY <3>1
      <4>3. restarting \subseteq Restarts /\ overlapped \in BOOLEAN /\ ~overlapped
        BY <3>1
      <4>4. \A restart \in restarting : restart.n < restarts
        BY <3>1
      <4>5. QED
        BY <4>1, <4>2, <4>3, <4>4
    <3>5. created + Cardinality(restarting) = restarts
      BY <3>1, <3>4
    <3>6. QED
      BY <3>1, <3>3, <3>4, <3>5 DEF HostCounts
  <2>6. EnginesOK
    <3>1. engines \in [Engines -> EngineRecords]
      BY <2>2, <2>3, <2>4
    <3>2. ASSUME NEW e \in Engines
          PROVE  /\ engines[e].work <= submits /\ engines[e].pending <= engines[e].asked
                 /\ engines[e].phase = "absent" <=> e > created
      <4>1. e \in Nat /\ submits = 0 /\ created = 0
        BY DEF Engines, HostInit
      <4>2. CASE e = 0
        <5>1. engines[e] = NewEngine(FALSE)
          BY <2>4, <4>2
        <5>2. engines[e].phase = "starting" /\ engines[e].work = 0
              /\ engines[e].pending = 0 /\ engines[e].asked = 0
          BY <2>2, <5>1
        <5>3. QED
          BY <4>1, <4>2, <5>2
      <4>3. CASE e # 0
        <5>1. engines[e] = NoEngine
          BY <2>4, <4>3
        <5>2. QED
          BY <2>3, <4>1, <4>3, <5>1
      <4>4. QED
        BY <4>2, <4>3
    <3>3. QED
      BY <3>1, <3>2 DEF EnginesOK
  <2>7. InitialSession \in Sessions
    BY DEF InitialSession, Sessions
  <2>8. LogOK
    <3>1. log = <<session>> /\ session \in Sessions /\ view \in Sessions /\ seq = 0
          /\ lastSeq = -1 /\ downlink = <<>> /\ joined = FALSE
      BY <2>7 DEF HostInit
    <3>2. /\ log \in Seq(Sessions) /\ Len(log) = 1 /\ log[1] = session
          /\ downlink \in Seq(Frames)
      BY <3>1
    <3>3. seq \in Nat /\ seq + 1 = 1 /\ lastSeq \in -1..seq
      <4>1. seq = 0 /\ lastSeq = -1
        BY <3>1
      <4>2. QED
        BY <4>1
    <3>4. QED
      <4>1. joined \in BOOLEAN /\ session \in Sessions /\ view \in Sessions
        BY <3>1
      <4>2. QED
        BY <3>2, <3>3, <4>1 DEF LogOK
  <2>9. LinkOK
    BY DEF HostInit, LinkOK, Following
  <2>10. HostKnows
    BY <2>1, <2>2, <2>4 DEF HostInit, HostKnows, EngineIsKnown, InitialSession
  <2>11. HostWorks
    BY DEF HostInit, HostWorks, InitialSession
  <2>12. QED
    BY <2>5, <2>6, <2>8, <2>9, <2>10, <2>11 DEF HostInv
<1>2. HostInv /\ [HostNext]_hostAllVars => HostInv'
  BY NextCounts, NextEngines, NextLink, NextKnows, NextWorks DEF HostInv
<1>3. QED
  BY <1>1, <1>2, PTL DEF HostSpec

\* The engines, the host and the client stay in their types.
THEOREM HostTypes == HostSpec => []HostTypeOK
<1>1. ASSUME HostInv PROVE HostTypeOK
  <2>1. HostCounts /\ EnginesOK /\ LogOK
    BY <1>1 DEF HostInv
  <2>2. ASSUME NEW e \in Engines
        PROVE  /\ engines[e].phase \in Phases /\ engines[e].resumed \in BOOLEAN
               /\ engines[e].work \in 0..HostSubmits
               /\ engines[e].asked \in 0..HostRequests
               /\ engines[e].pending \in 0..engines[e].asked
               /\ engines[e].out \in Seq(Actions)
               /\ (engines[e].phase = "absent") = (e > created)
    <3>1. /\ engines[e].phase \in Phases /\ engines[e].resumed \in BOOLEAN
          /\ engines[e].work \in Nat /\ engines[e].asked \in 0..HostRequests
          /\ engines[e].pending \in 0..HostRequests /\ engines[e].out \in Seq(EngineEvents)
          /\ engines[e].work <= submits /\ engines[e].pending <= engines[e].asked
          /\ engines[e].phase = "absent" <=> e > created
      BY <2>1 DEF EnginesOK, EngineRecords
    <3>2. submits \in 0..HostSubmits
      BY <2>1 DEF HostCounts
    <3>3. engines[e].out \in Seq(Actions)
      BY <3>1, SeqMonotonic DEF EngineEvents, Events
    <3>4. engines[e].work \in 0..HostSubmits
      BY <3>1, <3>2, HostBoundsAssumption
    <3>5. engines[e].pending \in 0..engines[e].asked
      BY <3>1, HostBoundsAssumption
    <3>6. QED
      BY <3>1, <3>3, <3>4, <3>5
  <2>3. created <= restarts
    <3>1. Cardinality(restarting) \in Nat
      BY <2>1, FS_CardinalityType DEF HostCounts
    <3>2. QED
      BY <2>1, <3>1 DEF HostCounts
  <2>4. seq = Len(log) - 1
    BY <2>1 DEF LogOK
  <2>5. DOMAIN engines = Engines
    BY <2>1 DEF EnginesOK
  <2>6. QED
    BY <2>1, <2>2, <2>3, <2>4, <2>5 DEF HostTypeOK, HostCounts, LogOK, Restarts
<1>2. QED
  BY <1>1, HostInvariance, PTL

\* A client that follows shows the session as it stood at one place of its history, and goes
\* through that history one step at a time: the host implements SharedLog.
THEOREM HostSharesItsLog == HostSpec => SharedLogSpec
<1>1. HostInit => Shared!Init
  <2> SUFFICES ASSUME HostInit PROVE Shared!Init
    OBVIOUS
  <2>1. InitialSession \in Sessions
    BY DEF InitialSession, Sessions
  <2>2. log \in [{1} -> Sessions]
    <3>1. log = <<InitialSession>>
      BY DEF HostInit
    <3> HIDE DEF InitialSession
    <3>2. QED
      BY <2>1, <3>1
  <2>3. ~Following
    BY DEF HostInit, Following
  <2>4. QED
    BY <2>1, <2>2, <2>3 DEF Shared!Init, HostInit
<1>2. HostInv /\ [HostNext]_hostAllVars => [Shared!Next]_Shared!vars
  BY HostStepsAreShared DEF HostInv
<1>3. QED
  BY <1>1, <1>2, HostInvariance, PTL DEF HostSpec, SharedLogSpec, Shared!Spec

\* The session is busy only while the engine has its turn, until a restart; and once a restart
\* is over the host listens to the engine it sends to, and shows what is true of it.
THEOREM HostIsTruthful == HostSpec => []HostTellsTheTruth
<1>1. ASSUME HostInv PROVE HostTellsTheTruth
  <2>1. HostCounts /\ EnginesOK /\ HostKnows /\ HostWorks
    BY <1>1 DEF HostInv
  <2>2. BusyUntilARestart
    <3> SUFFICES ASSUME restarts = 0, session.busy PROVE BusyHasATurn
      BY DEF BusyUntilARestart, BusyHasATurn
    <3>1. transport \in attached /\ transport \in Engines
      BY <2>1, EnginesAreThere DEF HostKnows
    <3>2. DOMAIN engines[transport].out = 1..Len(engines[transport].out)
      BY <2>1, <3>1, LenProperties DEF EnginesOK, EngineRecords
    <3>3. QED
      BY <2>1, <3>1, <3>2 DEF HostWorks, Comes, BusyHasATurn
  <2>3. HostKnowsItsEngine
    <3> SUFFICES ASSUME restarting = {}, ~overlapped PROVE HostKnowsItsEngine
      BY DEF HostKnowsItsEngine
    <3>1. attached = {transport} /\ EngineIsKnown
      BY <2>1 DEF HostKnows
    <3>2. ASSUME engines[transport].out = <<>>
          PROVE  session.connection = (CASE engines[transport].phase = "starting" -> "connecting"
                                        [] engines[transport].phase = "running" -> "ready"
                                        [] engines[transport].phase = "exited" -> "exited")
      <4>1. ~Comes(transport, "ready")
        BY <3>2 DEF Comes
      <4>2. QED
        BY <3>1, <3>2, <4>1 DEF EngineIsKnown
    <3>3. QED
      BY <3>1, <3>2 DEF HostKnowsItsEngine
  <2>4. QED
    BY <2>2, <2>3 DEF HostTellsTheTruth
<1>2. QED
  BY <1>1, HostInvariance, PTL

-----------------------------------------------------------------------------
(* The composed run *)

\* The steps the composed run makes of the lock are SessionLock's.
LEMMA LockIsAPart == SessionsSpec => LockSpec
<1>1. SessionsInit => LockInit
  BY DEF SessionsInit
<1>2. ASSUME [SessionsNext]_sessionsVars PROVE [LockNext]_lockVars
  <2>1. CASE UNCHANGED lockVars
    BY <2>1
  <2>2. CASE ~UNCHANGED lockVars
    <3>1. LockNext
      BY <1>2, <2>2 DEF SessionsNext, sessionsVars, OnlyStore, OnlyCheckpoints, OnlyHost, OnlyAccounts, LockNext
    <3>2. QED
      BY <3>1
  <2>3. QED
    BY <2>1, <2>2
<1>3. QED
  BY <1>1, <1>2, PTL DEF SessionsSpec, LockSpec

\* The steps it makes of the host are EngineHost's.
LEMMA HostIsAPart == SessionsSpec => HostSpec
<1>1. SessionsInit => HostInit
  BY DEF SessionsInit
<1>2. ASSUME [SessionsNext]_sessionsVars PROVE [HostNext]_hostAllVars
  <2>1. CASE UNCHANGED hostAllVars
    BY <2>1
  <2>2. CASE ~UNCHANGED hostAllVars
    <3>1. HostNext
      BY <1>2, <2>2 DEF SessionsNext, sessionsVars, OnlyStore, OnlyCheckpoints, OnlyLock, OnlyAccounts, HostNext
    <3>2. QED
      BY <3>1
  <2>3. QED
    BY <2>1, <2>2
<1>3. QED
  BY <1>1, <1>2, PTL DEF SessionsSpec, HostSpec

\* What SessionLock promises holds in the composed run.
THEOREM SessionsKeepTheirTurns == SessionsSpec => []NoTurnIsLost
  BY LockIsAPart, NoTurnsAreLost, PTL

\* What EngineHost promises holds in the composed run.
THEOREM SessionsAreShown == SessionsSpec => []HostTellsTheTruth /\ SharedLogSpec
  BY HostIsAPart, HostIsTruthful, HostSharesItsLog, PTL

\* The steps it makes of the stored login are Accounts'.
LEMMA AccountsIsAPart == SessionsSpec => AcSpec
<1>1. SessionsInit => AcInit
  BY DEF SessionsInit
<1>2. ASSUME [SessionsNext]_sessionsVars PROVE [AcNext]_acVars
  <2>1. CASE UNCHANGED acVars
    BY <2>1
  <2>2. CASE ~UNCHANGED acVars
    <3>1. AcNext
      BY <1>2, <2>2 DEF SessionsNext, sessionsVars, OnlyStore, OnlyCheckpoints, OnlyLock, OnlyHost, AcNext, AcStep
    <3>2. QED
      BY <3>1
  <2>3. QED
    BY <2>1, <2>2
<1>3. QED
  BY <1>1, <1>2, PTL DEF SessionsSpec, AcSpec

\* What Accounts promises holds in the composed run.
THEOREM SessionsFindTheLastLogin == SessionsSpec => []LoginFoundIsTheLast
  BY AccountsIsAPart, LoginsAreTheLast, PTL

\* The steps it makes of the session's file are SessionStore's.
LEMMA StoreIsAPart == SessionsSpec => Spec
<1>1. SessionsInit => Init
  BY DEF SessionsInit
<1>2. ASSUME [SessionsNext]_sessionsVars PROVE [Next]_vars
  <2>1. CASE UNCHANGED vars
    BY <2>1
  <2>2. CASE ~UNCHANGED vars
    <3>1. Next
      BY <1>2, <2>2 DEF SessionsNext, sessionsVars, OnlyCheckpoints, OnlyLock, OnlyHost, OnlyAccounts, Next
    <3>2. QED
      BY <3>1
  <2>3. QED
    BY <2>1, <2>2
<1>3. QED
  BY <1>1, <1>2, PTL DEF SessionsSpec, Spec

\* What SessionStore promises holds in the composed run.
THEOREM SessionsKeepTheirMessages ==
  SessionsSpec => [](NothingAcknowledgedIsLost /\ NothingComesBack) /\ ChangesAreWhole
  BY StoreIsAPart, NothingIsLost, NothingElseComesBack, FilesChangeByWholeSteps, PTL

\* The steps it makes of the checkpoints are Checkpoints'.
LEMMA CheckpointsAreAPart == SessionsSpec => CpSpec
<1>1. SessionsInit => CpInit
  BY DEF SessionsInit
<1>2. ASSUME [SessionsNext]_sessionsVars PROVE [CpNext]_cpVars
  <2>1. CASE UNCHANGED cpVars
    BY <2>1
  <2>2. CASE ~UNCHANGED cpVars
    <3>1. CpNext
      BY <1>2, <2>2 DEF SessionsNext, sessionsVars, OnlyStore, OnlyLock, OnlyHost, OnlyAccounts, CpNext
    <3>2. QED
      BY <3>1
  <2>3. QED
    BY <2>1, <2>2
<1>3. QED
  BY <1>1, <1>2, PTL DEF SessionsSpec, CpSpec

\* What Checkpoints promises holds in the composed run.
THEOREM SessionsGoBack ==
  SessionsSpec => [](CutsAtItsPrompt /\ CheckpointsFitTheChat /\ RestoresOrReportsTheRest)
  BY CheckpointsAreAPart, ChatGoesBackToItsPrompt, CheckpointsAreOfTheChat,
     FilesGoBackToTheirPrompt, PTL

\* Every variable of the five components has a value of its kind in the composed run.
THEOREM SessionsTypes == SessionsSpec => []SessionsTypesOK
<1>1. TypeOK /\ CpTypeOK /\ LockTypeOK /\ HostTypeOK /\ AcTypeOK => SessionsTypesOK
  BY DEF SessionsTypesOK
<1>2. QED
  BY <1>1, StoreIsAPart, CheckpointsAreAPart, LockIsAPart, HostIsAPart, AccountsIsAPart,
     StoreTypes, CheckpointTypes, LockTypes, HostTypes, AccountsTypes, PTL
==========================================================================
