--------------------------- MODULE SessionLock ---------------------------
(* Who may write a saved session (rusty-claude-cli/src/session_mgmt.rs): several *)
(* runs make, continue, clear, leave and delete one session, each under an OS     *)
(* lock on the session's lock file. The lock belongs to the file that was opened,  *)
(* not to its path, and lock files are removed, so two runs can hold a lock each.  *)
(* One session is modelled; the other sessions a run may be on are "away". A turn   *)
(* is its number; how a file is written is SessionStore's.                          *)
EXTENDS Integers, FiniteSets

CONSTANTS
  Runs,          \* neuron processes
  LockTurns      \* bound: turns pushed

ASSUME LockBoundsAssumption == IsFiniteSet(Runs) /\ LockTurns \in Nat

VARIABLES
  sessionFile,   \* whether the session file exists, and its turns
  lockPath,      \* the file at the session's lock path, 0 while there is none
  runs,          \* each run: where it is, why it wants the lock, the lock file it has
                 \* open, whether it holds its lock, and its runtime's messages
  born,          \* the session was made; its id is never used again
  turnsMade,     \* history: turns pushed
  removed,       \* history: the session was removed
  exposed        \* history: a run was left writing without its lock, or a placeholder
                 \* was removed under a run that had opened it

lockVars == <<sessionFile, lockPath, runs, born, turnsMade, removed, exposed>>

LockTurnIds == 1..LockTurns
LockFiles == 1..(Cardinality(Runs) + 1)
Away == [at |-> "away", purpose |-> "none", open |-> 0, holds |-> FALSE, memory |-> {}]
Absent == [exists |-> FALSE, turns |-> {}]
Saved(turns) == [exists |-> TRUE, turns |-> turns]

LockInit ==
  /\ sessionFile = Absent /\ lockPath = 0
  /\ runs = [r \in Runs |-> Away]
  /\ born = FALSE /\ turnsMade = 0 /\ removed = FALSE /\ exposed = FALSE

At(r, places) == runs[r].at \in places
Becomes(r, run) == runs' = [runs EXCEPT ![r] = run]
Goes(r, place) == Becomes(r, [runs[r] EXCEPT !.at = place])

\* Drop: the lock goes with its file's handle.
Released(run) == [run EXCEPT !.open = 0, !.holds = FALSE]

FilesUnchanged == UNCHANGED <<sessionFile, lockPath>>
LockHistoryUnchanged == UNCHANGED <<born, turnsMade, removed, exposed>>

-----------------------------------------------------------------------------
(* SessionLock::acquire *)

\* A new session's id is its own; a saved one must exist to be resolved or deleted.
Begin(r, purpose) ==
  /\ At(r, {"away"})
  /\ IF purpose = "create" THEN ~born ELSE sessionFile.exists
  /\ Becomes(r, [Away EXCEPT !.at = "open", !.purpose = purpose])
  /\ born' = TRUE
  /\ FilesUnchanged /\ UNCHANGED <<turnsMade, removed, exposed>>

\* The lock file is made when there is none; a file unlinked while runs have it open is
\* another file than the one made in its place.
OpenLockFile(r) ==
  /\ At(r, {"open"})
  /\ lockPath' = IF lockPath # 0 THEN lockPath
                 ELSE CHOOSE f \in LockFiles : \A s \in Runs : runs[s].open # f
  /\ Becomes(r, [runs[r] EXCEPT !.at = "lock", !.open = lockPath'])
  /\ UNCHANGED sessionFile /\ LockHistoryUnchanged

\* try_lock: another run's lock on the same file refuses this one.
CanLock_Always(r) == TRUE
CanLock(r) == \A s \in Runs : ~(runs[s].holds /\ runs[s].open = runs[r].open)

TryLock(r) ==
  /\ At(r, {"lock"})
  /\ \/ CanLock(r) /\ Becomes(r, [runs[r] EXCEPT !.at = runs[r].purpose, !.holds = TRUE])
     \/ ~CanLock(r) /\ Becomes(r, Away)
  /\ FilesUnchanged /\ LockHistoryUnchanged

-----------------------------------------------------------------------------
(* Making, continuing and writing a session *)

\* with_output saves the new session, empty, at once.
CreateFile(r) ==
  /\ At(r, {"create"})
  /\ sessionFile' = Saved({}) /\ Goes(r, "fresh")
  /\ UNCHANGED lockPath /\ LockHistoryUnchanged

\* open_session_reference, under the lock; a file that is gone is an error.
Load(r) ==
  /\ At(r, {"resume"})
  /\ \/ /\ sessionFile.exists
        /\ Becomes(r, [runs[r] EXCEPT !.at = "rebuild", !.memory = sessionFile.turns])
     \/ ~sessionFile.exists /\ Becomes(r, Away)
  /\ FilesUnchanged /\ LockHistoryUnchanged

\* The runtime is rebuilt before the lock is adopted: an error leaves the run where it was.
Rebuild(r) ==
  /\ At(r, {"rebuild"})
  /\ Goes(r, "own") \/ Becomes(r, Away)
  /\ FilesUnchanged /\ LockHistoryUnchanged

Writing == {"fresh", "own", "unlocked"}

\* push_message: a record more, or the whole session when there is no file.
PushTurn(r) ==
  /\ At(r, Writing) /\ turnsMade < LockTurns
  /\ LET turn == turnsMade + 1
         messages == runs[r].memory \cup {turn}
     IN
     /\ turnsMade' = turn
     /\ sessionFile' = Saved(IF sessionFile.exists THEN sessionFile.turns \cup {turn}
                             ELSE messages)
     /\ Becomes(r, [runs[r] EXCEPT !.memory = messages,
                                   !.at = IF @ = "fresh" THEN "own" ELSE @])
  /\ UNCHANGED <<lockPath, born, removed, exposed>>

\* persist_session writes the run's session to the path of the session it is on; a run
\* whose clear failed is on the new one.
SaveSession(r) ==
  /\ At(r, {"fresh", "own"})
  /\ sessionFile' = Saved(runs[r].memory)
  /\ UNCHANGED <<lockPath, runs>> /\ LockHistoryUnchanged

-----------------------------------------------------------------------------
(* Leaving it *)

\* load_session, switch_session and fork: the other session's runtime first, then its lock.
SwitchAway(r) ==
  /\ At(r, {"own", "unlocked"})
  /\ Becomes(r, Away)
  /\ FilesUnchanged /\ LockHistoryUnchanged

\* clear adopts the new session's lock, which drops this one's, before it rebuilds the
\* runtime; when that fails the old runtime, and its session, stay.
ClearBegins(r) ==
  /\ At(r, {"fresh", "own"})
  /\ Becomes(r, [Released(runs[r]) EXCEPT !.at = "clearing"])
  /\ FilesUnchanged /\ LockHistoryUnchanged

ClearEnds(r) ==
  /\ At(r, {"clearing"})
  /\ \/ Becomes(r, Away) /\ UNCHANGED exposed
     \/ Goes(r, "unlocked") /\ exposed' = TRUE
  /\ FilesUnchanged /\ UNCHANGED <<born, turnsMade, removed>>

\* The run ends, however it ends; its lock goes with it.
EndRun(r) ==
  /\ ~At(r, {"away"})
  /\ Becomes(r, Away)
  /\ FilesUnchanged /\ LockHistoryUnchanged

-----------------------------------------------------------------------------
(* Removing it *)

\* delete_managed_session (from "delete", holding the lock) and discard_unused_session:
\* the file goes under the lock, then the lock, then the lock file.
DiscardUnused(r) ==
  /\ At(r, {"fresh", "own"}) /\ runs[r].memory = {}
  /\ Goes(r, "delete")
  /\ FilesUnchanged /\ LockHistoryUnchanged

Deletes(r) ==
  /\ At(r, {"delete"})
  /\ sessionFile' = Absent /\ removed' = (removed \/ sessionFile.exists)
  /\ Goes(r, "drop")

DeleteFile(r) ==
  /\ Deletes(r)
  /\ UNCHANGED <<lockPath, born, turnsMade, exposed>>

DropLock(r) ==
  /\ At(r, {"drop"})
  /\ Becomes(r, [Released(runs[r]) EXCEPT !.at = "unlink"])
  /\ FilesUnchanged /\ LockHistoryUnchanged

\* remove_file of the lock path, whatever file is there by now.
UnlinkLock(r) ==
  /\ At(r, {"unlink"})
  /\ lockPath' = 0 /\ Becomes(r, Away)
  /\ UNCHANGED sessionFile /\ LockHistoryUnchanged

\* continue_saved_session: the empty session the engine started with is left, its lock
\* dropped, and then its two files removed without it.
LeavePlaceholder(r) ==
  /\ At(r, {"fresh"})
  /\ Becomes(r, [Released(runs[r]) EXCEPT !.at = "placeholder"])
  /\ FilesUnchanged /\ LockHistoryUnchanged

RemovePlaceholder(r) ==
  /\ At(r, {"placeholder"})
  /\ sessionFile' = Absent /\ removed' = (removed \/ sessionFile.exists)
  /\ exposed' = (exposed \/ \E s \in Runs : At(s, {"rebuild", "clearing"} \cup Writing))
  /\ Goes(r, "unlink")
  /\ UNCHANGED <<lockPath, born, turnsMade>>

\* The session is gone and nobody is after it.
SessionIsGone ==
  /\ born /\ ~sessionFile.exists /\ \A r \in Runs : At(r, {"away"})
  /\ UNCHANGED lockVars

LockNext ==
  \/ \E r \in Runs :
       \/ \E purpose \in {"create", "resume", "delete"} : Begin(r, purpose)
       \/ OpenLockFile(r) \/ TryLock(r)
       \/ CreateFile(r) \/ Load(r) \/ Rebuild(r) \/ PushTurn(r) \/ SaveSession(r)
       \/ SwitchAway(r) \/ ClearBegins(r) \/ ClearEnds(r) \/ EndRun(r)
       \/ DiscardUnused(r) \/ DeleteFile(r) \/ DropLock(r) \/ UnlinkLock(r)
       \/ LeavePlaceholder(r) \/ RemovePlaceholder(r)
  \/ SessionIsGone

LockSpec == LockInit /\ [][LockNext]_lockVars

-----------------------------------------------------------------------------
(* Properties *)

LockPlaces == {"away", "open", "lock", "create", "fresh", "resume", "rebuild", "own",
               "unlocked", "clearing", "delete", "drop", "unlink", "placeholder"}

LockTypeOK ==
  /\ sessionFile \in [exists : BOOLEAN, turns : SUBSET LockTurnIds]
  /\ lockPath \in {0} \cup LockFiles
  /\ runs \in [Runs -> [at : LockPlaces,
                        purpose : {"none", "create", "resume", "delete"},
                        open : {0} \cup LockFiles, holds : BOOLEAN,
                        memory : SUBSET LockTurnIds]]
  /\ born \in BOOLEAN /\ removed \in BOOLEAN /\ exposed \in BOOLEAN
  /\ turnsMade \in 0..LockTurns

\* "One run at a time can continue a session": never two whose runtimes write it.
OneWriter == Cardinality({r \in Runs : At(r, Writing)}) <= 1

\* A run writes what every run before it left and nobody else changes: as long as nothing
\* exposed the session, the file of a session that is being written has every turn any run
\* pushed, and so has the memory of its one writer, which the next save replaces it by;
\* whatever runs open, continue, leave, delete or discard it meanwhile, and although two
\* of them may hold a lock on the session. One that was deleted is not saved again by a
\* run that was about to open it.
NoTurnIsLost ==
  ~exposed =>
    /\ OneWriter
    /\ removed => ~sessionFile.exists
    /\ sessionFile.exists => sessionFile.turns = 1..turnsMade
    /\ \A r \in Runs : At(r, Writing) =>
         sessionFile.exists /\ runs[r].memory = sessionFile.turns
==========================================================================
