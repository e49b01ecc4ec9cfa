----------------------------- MODULE Accounts -----------------------------
(* The stored login of Zero-X (credentials.rs, auth.rs, engine_account.rs): the keychain,   *)
(* the credentials file and the retired vault, and who reads and writes them at the same    *)
(* time: the engine thread's /login and /logout, the threads that read the account in the   *)
(* background and store its profile, and a `neuron` command in another terminal. A place    *)
(* that cannot be read is left out.                                                         *)
EXTENDS Naturals

CONSTANTS
  Readers,      \* neuron-account threads (/usage reads as they do, on the engine thread)
  MaxLogins,    \* bound: sign-ins
  AcMishaps     \* bound: writes and deletions that fail, and processes that die

ASSUME AccountsAssumption ==
  /\ "engine" \notin Readers /\ "command" \notin Readers
  /\ {MaxLogins, AcMishaps} \subseteq Nat

\* A stored login: its token, and whose profile (plan, email, name) is stored with it.
NoLogin == [token |-> 0, profile |-> 0]
Logins == [token : 0..(MaxLogins + 1), profile : 0..(MaxLogins + 1)]

AcActors == {"engine", "command"} \cup Readers

VARIABLES
  usesKeychain,        \* the store has a keychain
  keychain, credFile, vault,
  job,                 \* per actor, what it does
  logins, mishaps,
  owed,                \* history: the token a lookup should find
  shadowed,            \* history: the keychain refused a login and kept the one before
  overtaken,           \* history: a login or logout made meanwhile was written over
  unremoved            \* history: a login that was to be cleared stayed, and nobody was told

acStore == <<usesKeychain, keychain, credFile, vault>>
acVars == <<acStore, job, logins, mishaps, owed, shadowed, overtaken, unremoved>>

\* A job: its kind and place, the token it found, the login it stores; and (history) whether
\* a login or logout changed the store since it looked, and whether it said that it left something.
NoJob == [kind |-> "none", place |-> "", held |-> 0, record |-> NoLogin,
          stale |-> FALSE, left |-> FALSE]
Clearing == {"clear", "clearFile", "clearVault"}
Storing == {"save", "saveFile", "dropFile", "dropVault"} \cup Clearing
Signs(j) == j.kind \in {"login", "logout"}
UserSigns == \E a \in AcActors : Signs(job[a])

\* CredentialStore::inspect: the keychain, then the file, then the vault.
BehindKeychain == IF credFile # NoLogin THEN credFile ELSE vault
Found == IF keychain # NoLogin THEN keychain ELSE BehindKeychain

AcInit ==
  /\ usesKeychain \in BOOLEAN
  /\ \E first \in {NoLogin, [token |-> 1, profile |-> 0]} :
       \/ usesKeychain /\ keychain = first /\ credFile = NoLogin /\ vault = NoLogin
       \/ keychain = NoLogin /\ credFile = first /\ vault = NoLogin
       \/ keychain = NoLogin /\ credFile = NoLogin /\ vault = first
  /\ job = [a \in AcActors |-> NoJob]
  /\ logins = 0 /\ mishaps = 0
  /\ owed = Found.token /\ shadowed = FALSE /\ overtaken = FALSE
  /\ unremoved = FALSE

-----------------------------------------------------------------------------
(* Jobs *)

\* Actor a goes on as j; a step of a login or logout on the store makes old what the
\* others looked up, and a step of theirs on it after that overtakes it.
Proceeds(a, j) ==
  LET changes == job[a].place \in Storing IN
  /\ job' = [b \in AcActors |->
               IF b = a THEN j
               ELSE IF changes /\ job[b].kind \in {"status", "use", "read"}
                       /\ (Signs(job[a]) \/ job[b].place \in {"lookFile", "againFile"})
               THEN [job[b] EXCEPT !.stale = TRUE] ELSE job[b]]
  /\ overtaken' = (overtaken \/ (changes /\ job[a].stale))
ProceedsTo(a, place) == Proceeds(a, [job[a] EXCEPT !.place = place])

\* The engine thread looks the login up before it starts a reader.
EngineFree ==
  /\ job["engine"] = NoJob
  /\ \A r \in Readers : job[r].place \notin {"look", "lookFile"}
\* AccountCache's lock, held while a profile is stored.
CacheFree == \A r \in Readers : job[r].place \notin {"again", "againFile"} \cup Storing

StartJob(a, kind, place) ==
  /\ job[a] = NoJob
  /\ a # "command" => EngineFree
  /\ job' = [job EXCEPT ![a] = [NoJob EXCEPT !.kind = kind, !.place = place]]
  /\ UNCHANGED <<acStore, logins, mishaps, owed, shadowed, overtaken, unremoved>>

\* /login and `neuron auth login`, approved: the token is new. The user signs in or out
\* in one place at a time.
BeginLogin(a) ==
  /\ a \notin Readers /\ job[a] = NoJob /\ (a = "engine" => EngineFree) /\ ~UserSigns
  /\ logins < MaxLogins /\ logins' = logins + 1
  /\ job' = [job EXCEPT ![a] = [NoJob EXCEPT !.kind = "login", !.place = "fetch",
                                             !.record.token = logins + 2]]
  /\ UNCHANGED <<acStore, mishaps, owed, shadowed, overtaken, unremoved>>
\* sign_out.
BeginLogout(a) == a \notin Readers /\ ~UserSigns /\ StartJob(a, "logout", "look")
\* status.
BeginStatus == StartJob("command", "status", "look")
\* stored_credential_for_use, when a session begins or before the status of a vault's login.
BeginUse == StartJob("command", "use", "look")
\* refresh_in_background.
BeginRead(r) == StartJob(r, "read", "look")

\* Only over the same login (remember_profile).
SameLogin_Unchecked(a, found) == TRUE
SameLogin(a, found) == found.token = job[a].held

\* A login or logout is changing the store.
StoreChanges == \E b \in AcActors : Signs(job[b]) /\ job[b].place \in Storing

\* The lookup found a login, or none.
Looked(a, found, fromVault) ==
  LET j == job[a]
      since == j.place \in {"lookFile", "againFile"} /\ j.stale
      seen == [j EXCEPT !.held = found.token, !.stale = since \/ StoreChanges]
      saves == [seen EXCEPT !.place = "save", !.record = found] IN
  CASE j.kind = "logout" -> Proceeds(a, [j EXCEPT !.place = "clear"])
    [] j.place \in {"again", "againFile"} ->
         IF found # NoLogin /\ SameLogin(a, found)
         THEN Proceeds(a, [saves EXCEPT !.record.profile = j.held])
         ELSE Proceeds(a, NoJob)
    [] found # NoLogin /\ (j.kind = "read" \/ (j.kind = "status" /\ ~fromVault)) ->
         Proceeds(a, [seen EXCEPT !.place = "fetch"])
    [] fromVault /\ found # NoLogin /\ j.kind = "use" -> Proceeds(a, saves)
    [] OTHER -> Proceeds(a, NoJob)

LookInKeychain(a) ==
  /\ job[a].place \in {"look", "again"}
  /\ IF keychain # NoLogin THEN Looked(a, keychain, FALSE)
     ELSE Proceeds(a, [job[a] EXCEPT !.place = IF @ = "look" THEN "lookFile" ELSE "againFile",
                                 !.stale = StoreChanges])
  /\ UNCHANGED <<acStore, logins, mishaps, owed, shadowed, unremoved>>

LookBehind(a) ==
  /\ job[a].place \in {"lookFile", "againFile"}
  /\ Looked(a, BehindKeychain, credFile = NoLogin)
  /\ UNCHANGED <<acStore, logins, mishaps, owed, shadowed, unremoved>>

\* The server's answer about the login: its profile, which may be new to the store.
Fetched(a) ==
  /\ job[a].place = "fetch"
  /\ LET j == job[a] IN
     \/ /\ j.kind = "login"
        /\ \E profile \in {0, j.record.token} :
             Proceeds(a, [j EXCEPT !.place = "save", !.record.profile = profile])
     \/ /\ j.kind = "status"
        /\ Proceeds(a, [j EXCEPT !.place = "save",
                             !.record = [token |-> j.held, profile |-> j.held]])
     \/ j.kind = "read" /\ CacheFree /\ ProceedsTo(a, "again")
  /\ UNCHANGED <<acStore, logins, mishaps, owed, shadowed, unremoved>>

\* No answer, or nothing new in it.
NothingFetched(a) ==
  /\ job[a].place = "fetch" /\ job[a].kind # "login"
  /\ Proceeds(a, NoJob)
  /\ UNCHANGED <<acStore, logins, mishaps, owed, shadowed, unremoved>>

\* finish_login: the server rejects the new token, which clears the store.
NewLoginRejected(a) ==
  /\ job[a].place = "fetch" /\ job[a].kind = "login"
  /\ ProceedsTo(a, "clear")
  /\ UNCHANGED <<acStore, logins, mishaps, owed, shadowed, unremoved>>

-----------------------------------------------------------------------------
(* CredentialStore::save and clear *)

Fails == mishaps < AcMishaps /\ mishaps' = mishaps + 1

SaveToKeychain(a) ==
  /\ job[a].place = "save" /\ usesKeychain
  /\ keychain' = job[a].record
  /\ shadowed' = (shadowed /\ job[a].kind # "login")
  /\ ProceedsTo(a, "dropFile")
  /\ UNCHANGED <<usesKeychain, credFile, vault, logins, mishaps, owed, unremoved>>

KeychainRefuses(a) ==
  /\ job[a].place = "save"
  /\ IF usesKeychain THEN Fails ELSE UNCHANGED mishaps
  /\ shadowed' = (shadowed \/ keychain.token \notin {0, job[a].record.token})
  /\ ProceedsTo(a, "saveFile")
  /\ UNCHANGED <<acStore, logins, owed, unremoved>>

\* The save is over; a status that moved the vault's login goes on with it.
SaveIsOver(a) ==
  \/ Proceeds(a, NoJob)
  \/ /\ job[a].kind = "use"
     /\ Proceeds(a, [job[a] EXCEPT !.kind = "status", !.place = "fetch"])

\* credentials.json is replaced by a rename.
SaveToFile(a) ==
  /\ job[a].place = "saveFile"
  /\ \/ credFile' = job[a].record /\ UNCHANGED mishaps /\ ProceedsTo(a, "dropVault")
     \/ Fails /\ UNCHANGED credFile /\ SaveIsOver(a)
  /\ UNCHANGED <<usesKeychain, keychain, vault, logins, owed, shadowed, unremoved>>

DropFile(a) ==
  /\ job[a].place = "dropFile"
  /\ \/ credFile' = NoLogin /\ UNCHANGED mishaps
     \/ Fails /\ UNCHANGED credFile
  /\ ProceedsTo(a, "dropVault")
  /\ UNCHANGED <<usesKeychain, keychain, vault, logins, owed, shadowed, unremoved>>

DropVault(a) ==
  /\ job[a].place = "dropVault"
  /\ \/ vault' = NoLogin /\ UNCHANGED mishaps
     \/ Fails /\ UNCHANGED vault
  /\ SaveIsOver(a)
  /\ owed' = IF job[a].kind = "login" THEN job[a].record.token ELSE owed
  /\ UNCHANGED <<usesKeychain, keychain, credFile, logins, shadowed, unremoved>>

\* One place of the store is cleared, or keeps its login. The warning clear returns of that
\* is shown after a logout; after a rejected login it is dropped.
Cleared(a, next) == UNCHANGED <<mishaps, unremoved>> /\ ProceedsTo(a, next)
Warned(a) == job[a].kind = "logout"
Kept(a, login, told, next) ==
  /\ Fails
  /\ unremoved' = (unremoved \/ (login # NoLogin /\ ~told))
  /\ Proceeds(a, [job[a] EXCEPT !.place = next, !.left = @ \/ told])

\* Of a keychain that is not available (that refuses, or whose store cannot be reached)
\* there is no warning at all.
ClearKeychain(a) ==
  /\ job[a].place = "clear"
  /\ \/ keychain' = NoLogin /\ Cleared(a, "clearFile")
     \/ /\ usesKeychain
        /\ \E told \in {FALSE, Warned(a)} : Kept(a, keychain, told, "clearFile")
        /\ UNCHANGED keychain
  /\ shadowed' = (shadowed /\ keychain' # NoLogin)
  /\ UNCHANGED <<usesKeychain, credFile, vault, logins, owed>>

ClearFile(a) ==
  /\ job[a].place = "clearFile"
  /\ \/ credFile' = NoLogin /\ Cleared(a, "clearVault")
     \/ Kept(a, credFile, Warned(a), "clearVault") /\ UNCHANGED credFile
  /\ UNCHANGED <<usesKeychain, keychain, vault, logins, owed, shadowed>>

\* The user is told that the login is gone, or what could not be removed.
ClearVault(a) ==
  /\ job[a].place = "clearVault"
  /\ Proceeds(a, NoJob)
  /\ UNCHANGED <<usesKeychain, keychain, credFile, logins, shadowed>>
  /\ \/ /\ vault' = NoLogin /\ UNCHANGED <<mishaps, unremoved>>
        /\ owed' = IF job[a].left THEN Found'.token ELSE 0
     \/ /\ Fails /\ UNCHANGED vault
        /\ unremoved' = (unremoved \/ (vault # NoLogin /\ ~Warned(a)))
        /\ owed' = IF job[a].left \/ Warned(a) THEN Found'.token ELSE 0

-----------------------------------------------------------------------------

\* The process dies with what its threads were doing: the user looks what login is left.
ProcessDies(threads) ==
  /\ Fails
  /\ \E a \in threads : job[a] # NoJob
  /\ job' = [a \in AcActors |-> IF a \in threads THEN NoJob ELSE job[a]]
  /\ owed' = IF \E a \in threads : Signs(job[a]) THEN Found.token ELSE owed
  /\ UNCHANGED <<acStore, logins, shadowed, overtaken, unremoved>>

AcStep(a) ==
  \/ BeginLogin(a) \/ BeginLogout(a) \/ LookInKeychain(a) \/ LookBehind(a)
  \/ Fetched(a) \/ NothingFetched(a) \/ NewLoginRejected(a)
  \/ SaveToKeychain(a) \/ KeychainRefuses(a) \/ SaveToFile(a) \/ DropFile(a) \/ DropVault(a)
  \/ ClearKeychain(a) \/ ClearFile(a) \/ ClearVault(a)

AcNext ==
  \/ \E a \in AcActors : AcStep(a)
  \/ BeginStatus \/ BeginUse
  \/ \E r \in Readers : BeginRead(r)
  \/ ProcessDies({"engine"} \cup Readers) \/ ProcessDies({"command"})

AcSpec == AcInit /\ [][AcNext]_acVars

-----------------------------------------------------------------------------
(* Properties *)

AcTypeOK ==
  /\ {keychain, credFile, vault} \subseteq Logins /\ usesKeychain \in BOOLEAN
  /\ job \in [AcActors ->
                [kind : {"none", "login", "logout", "status", "use", "read"},
                 place : {"", "look", "lookFile", "fetch", "again", "againFile"} \cup Storing,
                 held : 0..(MaxLogins + 1), record : Logins,
                 stale : BOOLEAN, left : BOOLEAN]]
  /\ logins \in 0..MaxLogins /\ owed \in 0..(MaxLogins + 1)

\* What is claimed is claimed of these states: a login the keychain refused leaves the one
\* before in the keychain, a login or logout made between another's lookup and its save is
\* written over, and a place that could not be cleared keeps its login though the user is
\* told of nothing (a keychain that is not available, or any place after a rejected login).
AcClaimed == ~shadowed /\ ~overtaken /\ ~unremoved

\* A lookup finds the last login, or none after a logout that cleared every place or a
\* rejected login (after a logout with a warning, what is left), whoever else stores a
\* profile, moves the vault or dies meanwhile; while a login is being stored, it or the one
\* before. A login's stored profile is its own.
LoginFoundIsTheLast ==
  AcClaimed =>
    /\ (\A a \in AcActors : job[a].place \notin Clearing) =>
         Found.token \in {owed} \cup {job[a].record.token : a \in {b \in AcActors : job[b].kind = "login"}}
    /\ \A login \in {keychain, credFile, vault} : login.profile \in {0, login.token}
===========================================================================
