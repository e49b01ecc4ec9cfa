--------------------------- MODULE MCSessions ---------------------------
(* The parts that hold a session, checked in one run: each behaviour is one of *)
(* SessionStore, Checkpoints, SessionLock, EngineHost or Accounts; the *)
(* others stay as they start.                                                    *)
EXTENDS SessionStore, Checkpoints, SessionLock, EngineHost, Accounts, TLC

VARIABLE part      \* the component that runs

sessionsVars == <<part, vars, cpVars, lockVars, hostAllVars, acVars>>

SessionsInit ==
  /\ part \in {"store", "checkpoints", "lock", "host", "accounts"}
  /\ Init /\ CpInit /\ LockInit /\ HostInit /\ AcInit
  /\ part # "accounts" => owed = 0 /\ ~usesKeychain

OnlyStore == UNCHANGED <<part, cpVars, lockVars, hostAllVars, acVars>>
OnlyCheckpoints == UNCHANGED <<part, vars, lockVars, hostAllVars, acVars>>
OnlyLock == UNCHANGED <<part, vars, cpVars, hostAllVars, acVars>>
OnlyHost == UNCHANGED <<part, vars, cpVars, lockVars, acVars>>
OnlyAccounts == UNCHANGED <<part, vars, cpVars, lockVars, hostAllVars>>

SessionsNext ==
  \/ part = "store" /\ Push /\ OnlyStore
  \/ part = "store" /\ Snapshot /\ OnlyStore
  \/ part = "store" /\ Compact /\ OnlyStore
  \/ \E n \in 0..MaxMessages : part = "store" /\ Rewind(n) /\ OnlyStore
  \/ part = "store" /\ Rotate /\ OnlyStore
  \/ part = "store" /\ WriteSnapshot /\ OnlyStore
  \/ part = "store" /\ Cleanup /\ OnlyStore
  \/ part = "store" /\ OpenForAppend /\ OnlyStore
  \/ part = "store" /\ AppendRecord /\ OnlyStore
  \/ part = "store" /\ AppendNewline /\ OnlyStore
  \/ part = "store" /\ AppendFails /\ OnlyStore
  \/ part = "store" /\ Crash /\ OnlyStore
  \/ part = "checkpoints" /\ BeginTurn /\ OnlyCheckpoints
  \/ part = "checkpoints" /\ PushPrompt /\ OnlyCheckpoints
  \/ part = "checkpoints" /\ EndTurn /\ OnlyCheckpoints
  \/ part = "checkpoints" /\ SaveTurn /\ OnlyCheckpoints
  \/ part = "checkpoints" /\ CompactChat /\ OnlyCheckpoints
  \/ \E k \in CpFiles : \/ part = "checkpoints" /\ ChangeFile(k) /\ OnlyCheckpoints
                        \/ part = "checkpoints" /\ RunShell(k) /\ OnlyCheckpoints
                        \/ part = "checkpoints" /\ ApplyFile(k) /\ OnlyCheckpoints
  \/ \E id \in 1..(nextCp - 1), mode \in {"both", "chat", "code"} :
       part = "checkpoints" /\ BeginRewind(id, mode) /\ OnlyCheckpoints
  \/ part = "checkpoints" /\ CutChat /\ OnlyCheckpoints
  \/ part = "checkpoints" /\ ProtectFiles /\ OnlyCheckpoints
  \/ part = "checkpoints" /\ RemoveRecord /\ OnlyCheckpoints
  \/ part = "checkpoints" /\ ReportRewind /\ OnlyCheckpoints
  \/ part = "checkpoints" /\ CpCrash /\ OnlyCheckpoints
  \/ part = "checkpoints" /\ CpRests /\ OnlyCheckpoints
  \/ \E r \in Runs :
       \/ \E purpose \in {"create", "resume", "delete"} : part = "lock" /\ Begin(r, purpose) /\ OnlyLock
       \/ part = "lock" /\ OpenLockFile(r) /\ OnlyLock
       \/ part = "lock" /\ TryLock(r) /\ OnlyLock
       \/ part = "lock" /\ CreateFile(r) /\ OnlyLock
       \/ part = "lock" /\ Load(r) /\ OnlyLock
       \/ part = "lock" /\ Rebuild(r) /\ OnlyLock
       \/ part = "lock" /\ PushTurn(r) /\ OnlyLock
       \/ part = "lock" /\ SaveSession(r) /\ OnlyLock
       \/ part = "lock" /\ SwitchAway(r) /\ OnlyLock
       \/ part = "lock" /\ ClearBegins(r) /\ OnlyLock
       \/ part = "lock" /\ ClearEnds(r) /\ OnlyLock
       \/ part = "lock" /\ EndRun(r) /\ OnlyLock
       \/ part = "lock" /\ DiscardUnused(r) /\ OnlyLock
       \/ part = "lock" /\ DeleteFile(r) /\ OnlyLock
       \/ part = "lock" /\ DropLock(r) /\ OnlyLock
       \/ part = "lock" /\ UnlinkLock(r) /\ OnlyLock
       \/ part = "lock" /\ LeavePlaceholder(r) /\ OnlyLock
       \/ part = "lock" /\ RemovePlaceholder(r) /\ OnlyLock
  \/ part = "lock" /\ SessionIsGone /\ OnlyLock
  \/ \E e \in Engines :
       \/ part = "host" /\ EngineReady(e) /\ OnlyHost
       \/ part = "host" /\ EngineAsks(e) /\ OnlyHost
       \/ part = "host" /\ EngineFinishes(e) /\ OnlyHost
       \/ part = "host" /\ EngineExits(e) /\ OnlyHost
       \/ part = "host" /\ HostHears(e) /\ OnlyHost
  \/ part = "host" /\ HostForwards /\ OnlyHost
  \/ \E card \in Engines \X HostRequestIds : part = "host" /\ HostForwardsAnswer(card) /\ OnlyHost
  \/ \E resumed \in BOOLEAN : part = "host" /\ HostRestart(resumed) /\ OnlyHost
  \/ part = "host" /\ HostReplaces /\ OnlyHost
  \/ part = "host" /\ HostWelcomes /\ OnlyHost
  \/ part = "host" /\ ClientReceives /\ OnlyHost
  \/ part = "host" /\ ClientLeaves /\ OnlyHost
  \/ part = "host" /\ HostRests /\ OnlyHost
  \/ \E a \in AcActors :
       \/ part = "accounts" /\ BeginLogin(a) /\ OnlyAccounts
       \/ part = "accounts" /\ BeginLogout(a) /\ OnlyAccounts
       \/ part = "accounts" /\ LookInKeychain(a) /\ OnlyAccounts
       \/ part = "accounts" /\ LookBehind(a) /\ OnlyAccounts
       \/ part = "accounts" /\ Fetched(a) /\ OnlyAccounts
       \/ part = "accounts" /\ NothingFetched(a) /\ OnlyAccounts
       \/ part = "accounts" /\ NewLoginRejected(a) /\ OnlyAccounts
       \/ part = "accounts" /\ SaveToKeychain(a) /\ OnlyAccounts
       \/ part = "accounts" /\ KeychainRefuses(a) /\ OnlyAccounts
       \/ part = "accounts" /\ SaveToFile(a) /\ OnlyAccounts
       \/ part = "accounts" /\ DropFile(a) /\ OnlyAccounts
       \/ part = "accounts" /\ DropVault(a) /\ OnlyAccounts
       \/ part = "accounts" /\ ClearKeychain(a) /\ OnlyAccounts
       \/ part = "accounts" /\ ClearFile(a) /\ OnlyAccounts
       \/ part = "accounts" /\ ClearVault(a) /\ OnlyAccounts
  \/ part = "accounts" /\ BeginStatus /\ OnlyAccounts
  \/ part = "accounts" /\ BeginUse /\ OnlyAccounts
  \/ \E r \in Readers : part = "accounts" /\ BeginRead(r) /\ OnlyAccounts
  \/ \E threads \in {{"engine"} \cup Readers, {"command"}} :
       part = "accounts" /\ ProcessDies(threads) /\ OnlyAccounts

SessionsSpec == SessionsInit /\ [][SessionsNext]_sessionsVars

\* After one of the defects the properties name has happened they claim nothing.
Claimed == ~exposed /\ ~strays /\ AcClaimed

\* The files of the workspace are alike.
FilesAlike == Permutations(CpFiles)

\* Every variable of the five components has a value of its kind, and the rotated files stay
\* within their limit but for one that a crash or a failure kept.
SessionsTypesOK == TypeOK /\ CpTypeOK /\ LockTypeOK /\ HostTypeOK /\ AcTypeOK

\* The session says it is busy only while its engine has a turn (BusyUntilARestart), and
\* what it says of its engine is true (HostKnowsItsEngine).
HostTellsTheTruth == BusyUntilARestart /\ HostKnowsItsEngine
==========================================================================
