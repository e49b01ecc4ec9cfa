--------------------------- MODULE Checkpoints ---------------------------
(* Going back to an earlier prompt (runtime/src/checkpoints.rs, called by the      *)
(* engine through workspace_changes.rs): a record per prompt, copies of the files   *)
(* the agent's tools are about to change, what shell commands changed by a scan      *)
(* before and after, and the rewind of the chat, the files or both, write by write.  *)
(* Writes of the store and of the session may fail and the process may die between   *)
(* two of them. A message that could not be appended leaves nothing in the session's *)
(* file (SessionStore has what it may leave). The copies themselves, scans cut short, *)
(* files too large, outside the workspace or edited by hand, expiry by age and other *)
(* sessions are left out. A file's content is the number of the change that wrote    *)
(* it, 0 when it is absent.                                                          *)
EXTENDS Integers, Sequences, FiniteSets

Sets == INSTANCE FiniteSetsExt
Lists == INSTANCE SequencesExt

CONSTANTS
  CpFiles,       \* files of the workspace
  CpLimit,       \* max_checkpoints
  CpTurns,       \* bound: prompts
  CpChanges,     \* bound: changes of files
  CpEdits,       \* bound: rewinds and compactions
  CpFaults       \* bound: failed writes and crashes, together

ASSUME CpBoundsAssumption ==
  /\ IsFiniteSet(CpFiles) /\ CpLimit \in Nat \ {0}
  /\ CpTurns \in Nat /\ CpChanges \in Nat /\ CpEdits \in Nat
  /\ CpFaults \in Nat

VARIABLES
  files,         \* the workspace
  records,       \* CheckpointStore::records, and in each (history) the files and the
                 \* chat as its prompt found them
  disk,          \* the records in the store's folder
  nextCp,        \* next_id; state.json has it too
  active,        \* the open checkpoint, 0 when there is none
  baseline, diskBaseline, \* the shell baseline in memory and in the folder
  turn,          \* the turn under way: none, opened (no prompt yet), running, failed (the
                 \* model is not asked again) or ended (not saved yet)
  chat, savedChat,        \* the session's messages and those of its file
  compactions, savedCompactions, \* compaction_count, and that of the file
  rewind,        \* the rewind under way
  gaps,          \* history: files with a change the store does not know: a failed write
                 \* kept it out, or a rewind of the chat dropped its checkpoint
  strays,        \* history: checkpoints of prompts that are gone may be left (a rewind was cut
                 \* short after the chat was cut, or a record was written and not added), or
                 \* one is missing in between: a removed record's file was left, and a later
                 \* record is gone; or checkpoints of a compaction that is gone: its save
                 \* failed, and the process died before another
  cpCounts       \* prompts, changes, edits and faults so far

storeVars == <<records, disk, nextCp, active, baseline, diskBaseline>>
chatVars == <<chat, savedChat, compactions, savedCompactions>>
cpVars == <<files, storeVars, turn, chatVars, rewind, gaps, strays, cpCounts>>

Contents == 0..CpChanges
NotSaved == -1
NoBaseline == [id |-> 0, scan |-> [k \in CpFiles |-> 0]]
NoRewind == [at |-> "none", id |-> 0, mode |-> "both", was |-> <<>>, plan |-> <<>>,
             kept |-> {}, report |-> {}, hidden |-> {}]

CpInit ==
  /\ files = [k \in CpFiles |-> 0]
  /\ records = <<>> /\ disk = <<>> /\ nextCp = 1 /\ active = 0
  /\ baseline = NoBaseline /\ diskBaseline = NoBaseline
  /\ turn = "none" /\ chat = <<>> /\ savedChat = <<>>
  /\ compactions = 0 /\ savedCompactions = 0
  /\ rewind = NoRewind /\ gaps = {} /\ strays = FALSE
  /\ cpCounts = [turns |-> 0, changes |-> 0, edits |-> 0, faults |-> 0]

Idle == turn = "none" /\ rewind.at = "none"
Counted(what) == [cpCounts EXCEPT ![what] = @ + 1]
CanFail == cpCounts.faults < CpFaults
Failed == CanFail /\ cpCounts' = Counted("faults")
NoneFailed == UNCHANGED cpCounts

\* Functions over record ids, changed at one place or cut down.
Put(table, id, record) ==
  [i \in DOMAIN table \cup {id} |-> IF i = id THEN record ELSE table[i]]
Without(table, ids) == [i \in DOMAIN table \ ids |-> table[i]]

NewRecord(saved) ==
  [cut |-> Len(chat), compactions |-> compactions, saved |-> saved, after |-> {},
   shell |-> {}, files |-> files, chat |-> chat]
NothingSaved == [k \in CpFiles |-> NotSaved]

\* save_to_path: the file is replaced by the messages and their count of compactions. An
\* error may come before that or, of the rotated files, after it.
Persists == savedChat' = chat' /\ savedCompactions' = compactions'
KeepsSaved == UNCHANGED <<savedChat, savedCompactions>>
PersistFails == Failed /\ (Persists \/ KeepsSaved)

-----------------------------------------------------------------------------
(* finish_turn *)

ChangedSince(base) == {k \in CpFiles : base.scan[k] # files[k]}

\* Its baseline is taken whatever happens; the record is written, then the file goes.
Recorded(table, base) ==
  IF base # NoBaseline /\ base.id \in DOMAIN table
  THEN [table EXCEPT ![base.id].shell = @ \cup ChangedSince(base)] ELSE table

FinishDone ==
  /\ records' = Recorded(records, baseline)
  /\ disk' = IF baseline = NoBaseline THEN disk
             ELSE Put(disk, baseline.id, records'[baseline.id])
  /\ diskBaseline' = IF baseline = NoBaseline THEN diskBaseline ELSE NoBaseline
  /\ baseline' = NoBaseline
  /\ UNCHANGED gaps

FinishFailed ==
  /\ baseline # NoBaseline
  /\ records' = Recorded(records, baseline)
  /\ baseline' = NoBaseline
  /\ disk' \in {disk, Put(disk, baseline.id, records'[baseline.id])}
  /\ gaps' = gaps \cup ChangedSince(baseline)
  /\ UNCHANGED diskBaseline

-----------------------------------------------------------------------------
(* A turn *)

\* prune_over_limit.
Oldest(table) ==
  LET excess == Cardinality(DOMAIN table) - CpLimit IN
  {i \in DOMAIN table : Cardinality({j \in DOMAIN table : j < i}) < excess}

\* History: the files of records that are removed and could not be deleted.
Left == DOMAIN disk \ DOMAIN records

\* begin_turn, before the prompt is pushed; without a checkpoint the turn runs all the
\* same. The record's write, the store's or the removal of the oldest one may fail.
BeginTurn ==
  /\ Idle /\ cpCounts.turns < CpTurns
  /\ LET record == NewRecord(NothingSaved)
         pruned == Oldest(Put(records, nextCp, record))
     IN
     \/ /\ records' = Without(Put(records, nextCp, record), pruned)
        /\ disk' = Without(Put(disk, nextCp, record), pruned)
        /\ nextCp' = nextCp + 1 /\ active' = nextCp
        /\ cpCounts' = Counted("turns")
     \/ /\ CanFail
        /\ disk' \in {disk, Put(disk, nextCp, record)}
        /\ nextCp' = nextCp + 1 /\ active' = 0
        /\ cpCounts' = [Counted("turns") EXCEPT !.faults = @ + 1]
        /\ UNCHANGED records
     \/ /\ CanFail /\ pruned # {}
        /\ records' = Without(Put(records, nextCp, record), {Sets!Min(pruned)})
        /\ disk' = Put(disk, nextCp, record)
        /\ nextCp' = nextCp + 1 /\ active' = nextCp
        /\ cpCounts' = [Counted("turns") EXCEPT !.faults = @ + 1]
  /\ strays' = (\/ strays
                \/ active' = 0 /\ disk' # disk
                \/ Left # {} /\ DOMAIN disk \ DOMAIN disk' # {})
  /\ turn' = "opened"
  /\ UNCHANGED <<files, baseline, diskBaseline, chatVars, rewind, gaps>>

\* push_user_text, which only appends to the file; a prompt is the number of its turn, the
\* answer to it that number negated. A prompt that could not be appended is taken back,
\* and the turn is over.
PushPrompt ==
  /\ turn = "opened"
  /\ \/ /\ chat' = Append(chat, cpCounts.turns)
        /\ savedChat' = Append(savedChat, cpCounts.turns)
        /\ turn' = "running" /\ UNCHANGED active /\ NoneFailed
     \/ /\ Failed
        /\ turn' = "ended" /\ active' = 0 /\ UNCHANGED <<chat, savedChat>>
  /\ UNCHANGED <<files, records, disk, nextCp, baseline, diskBaseline, compactions,
                 savedCompactions, rewind, gaps, strays>>

NewContent == cpCounts.changes + 1
Changing(k, contents) ==
  /\ turn = "running" /\ cpCounts.changes < CpChanges
  /\ \E content \in contents \ {files[k]} : files' = [files EXCEPT ![k] = content]
  /\ UNCHANGED <<nextCp, active, turn, chatVars, rewind, strays>>

\* changed_since_baseline.
AfterShell(k) == baseline # NoBaseline /\ baseline.scan[k] # files[k]

Saving(k) ==
  [records EXCEPT ![active].saved[k] = files[k],
                  ![active].after = IF AfterShell(k) THEN @ \cup {k} ELSE @]

\* before_file_change, then the tool's own write; no file tool removes a file.
ChangeFile(k) ==
  /\ Changing(k, {NewContent})
  /\ \/ /\ active # 0 /\ records[active].saved[k] = NotSaved
        /\ \/ /\ records' = Saving(k)
              /\ disk' = Put(disk, active, records'[active])
              /\ cpCounts' = Counted("changes") /\ UNCHANGED gaps
           \/ /\ CanFail /\ cpCounts' = [Counted("changes") EXCEPT !.faults = @ + 1]
              /\ records' \in {records, Saving(k)}
              /\ gaps' = gaps \cup {k} /\ UNCHANGED disk
     \/ /\ active # 0 /\ records[active].saved[k] # NotSaved
        /\ cpCounts' = Counted("changes") /\ UNCHANGED <<records, disk, gaps>>
     \/ /\ active = 0 /\ gaps' = gaps \cup {k}
        /\ cpCounts' = Counted("changes") /\ UNCHANGED <<records, disk>>
  /\ UNCHANGED <<baseline, diskBaseline>>

\* before_shell_command, then the command: the first of a turn scans the workspace.
RunShell(k) ==
  /\ Changing(k, {0, NewContent})
  /\ \/ /\ active # 0
        /\ baseline' = IF baseline = NoBaseline THEN [id |-> active, scan |-> files]
                       ELSE baseline
        /\ diskBaseline' = baseline'
        /\ cpCounts' = Counted("changes") /\ UNCHANGED gaps
     \/ /\ active # 0 /\ baseline = NoBaseline /\ CanFail
        /\ cpCounts' = [Counted("changes") EXCEPT !.faults = @ + 1]
        /\ gaps' = gaps \cup {k} /\ UNCHANGED <<baseline, diskBaseline>>
     \/ /\ active = 0 /\ gaps' = gaps \cup {k}
        /\ cpCounts' = Counted("changes") /\ UNCHANGED <<baseline, diskBaseline>>
  /\ UNCHANGED <<records, disk>>

\* The turn ends, with or without an answer, and finish_turn with it.
EndTurn ==
  /\ turn \in {"running", "failed"}
  /\ turn' = "ended" /\ active' = 0
  /\ \E answer \in {<<>>, <<-cpCounts.turns>>} :
       chat' = chat \o answer /\ savedChat' = savedChat \o answer
  /\ \/ FinishDone /\ NoneFailed
     \/ FinishFailed /\ Failed
  /\ UNCHANGED <<files, nextCp, compactions, savedCompactions, rewind, strays>>

\* Engine::run_turn saves the session however the turn ended; a failure is a notice.
SaveTurn ==
  /\ turn = "ended" /\ turn' = "none"
  /\ UNCHANGED <<files, storeVars, chat, compactions, rewind, gaps, strays>>
  /\ \/ Persists /\ NoneFailed
     \/ PersistFails

\* compact_at: a summary takes the place of the older messages, of the summary before too.
Summary == 0
SummaryLen == IF chat # <<>> /\ chat[1] = Summary THEN 1 ELSE 0
Compacted ==
  {<<Summary>> \o SubSeq(chat, b + 1, Len(chat)) : b \in (SummaryLen + 1)..(Len(chat) - 1)}

\* /compact, prepare_context or recover_from_context_overflow: the session is compacted and
\* counts it, and then is saved; when that fails it stays so, and the turn fails.
CompactChat ==
  /\ Idle \/ turn = "running"
  /\ cpCounts.edits < CpEdits
  /\ chat' \in Compacted /\ compactions' = compactions + 1
  /\ \/ Persists /\ cpCounts' = Counted("edits") /\ UNCHANGED turn
     \/ /\ CanFail /\ cpCounts' = [Counted("edits") EXCEPT !.faults = @ + 1]
        /\ Persists \/ KeepsSaved
        /\ turn' = IF turn = "running" THEN "failed" ELSE turn
  /\ UNCHANGED <<files, storeVars, rewind, gaps, strays>>

-----------------------------------------------------------------------------
(* rewind *)

RestoresChat(mode) == mode \in {"both", "chat"}
RestoresCode(mode) == mode \in {"both", "code"}

\* check_conversation.
ChatAllows_AnyCompaction(record) ==
  /\ record.cut <= Len(chat)
  /\ record.cut < Len(chat) => chat[record.cut + 1] > 0
ChatAllows(record) ==
  /\ record.compactions = compactions
  /\ record.cut <= Len(chat)
  /\ record.cut < Len(chat) => chat[record.cut + 1] > 0

\* plan: each file's earliest copy saved at or after the checkpoint, and what shell
\* commands did that it does not undo.
From(id) == {i \in DOMAIN records : i >= id}
SavedIn(k, id) == {i \in From(id) : records[i].saved[k] # NotSaved}
ShellIn(k, id) == {i \in From(id) : k \in records[i].shell}
Governing_Latest(k, id) == Sets!Max(SavedIn(k, id))
Governing(k, id) == Sets!Min(SavedIn(k, id))

Planned(id) == {k \in CpFiles : SavedIn(k, id) # {}}
ShellKept(k, id) ==
  /\ ShellIn(k, id) # {}
  /\ \/ Sets!Min(ShellIn(k, id)) < Governing(k, id)
     \/ Sets!Min(ShellIn(k, id)) = Governing(k, id) /\ k \in records[Governing(k, id)].after

NotRestored(id) == {k \in CpFiles : ShellIn(k, id) # {} /\ SavedIn(k, id) = {}}

\* History: shell commands that change a file before its copy is taken and put it back
\* afterwards leave no difference between the scans.
Hidden(id) == UNION {records[i].after \ records[i].shell : i \in From(id)}

\* Between turns nothing is left for finish_turn to do, unless it failed (then its
\* baseline is gone too).
BeginRewind(id, mode) ==
  /\ Idle /\ cpCounts.edits < CpEdits
  /\ id \in DOMAIN records
  /\ RestoresChat(mode) => ChatAllows(records[id])
  /\ rewind' = [at |-> IF RestoresChat(mode) THEN "cut" ELSE "protect",
                id |-> id, mode |-> mode, was |-> records[id],
                plan |-> IF RestoresCode(mode)
                  THEN [k \in Planned(id) |-> records[Governing(k, id)].saved[k]] ELSE <<>>,
                kept |-> IF RestoresCode(mode)
                  THEN {k \in Planned(id) : ShellKept(k, id)} ELSE {},
                report |-> IF RestoresCode(mode) THEN NotRestored(id) ELSE {},
                hidden |-> Hidden(id)]
  /\ cpCounts' = Counted("edits")
  /\ UNCHANGED <<files, storeVars, turn, chatVars, gaps, strays>>

\* truncate_conversation, which saves what it cut: when the save reports an error the
\* messages are put back, although the snapshot may have replaced the file.
CutChat ==
  LET kept == SubSeq(chat, 1, rewind.was.cut) IN
  /\ rewind.at = "cut"
  /\ UNCHANGED <<files, storeVars, turn, compactions, gaps>>
  /\ \/ /\ chat' = kept
        /\ IF kept = chat THEN KeepsSaved ELSE Persists
        /\ rewind' = [rewind EXCEPT !.at = "apply"]
        /\ UNCHANGED strays /\ NoneFailed
     \/ /\ kept # chat /\ Failed
        /\ \/ KeepsSaved /\ UNCHANGED strays
           \/ savedChat' = kept /\ savedCompactions' = compactions /\ strays' = TRUE
        /\ rewind' = NoRewind /\ UNCHANGED chat

\* save_before_rewind: a code-only rewind first saves the files it is about to change.
WillChange == {k \in DOMAIN rewind.plan : files[k] # rewind.plan[k]}
ProtectFiles ==
  LET record == NewRecord([k \in CpFiles |->
                              IF k \in WillChange THEN files[k] ELSE NotSaved])
  IN
  /\ rewind.at = "protect"
  /\ \/ /\ WillChange # {}
        /\ records' = Put(records, nextCp, record) /\ disk' = Put(disk, nextCp, record)
        /\ nextCp' = nextCp + 1
        /\ rewind' = [rewind EXCEPT !.at = "apply"] /\ NoneFailed
     \/ /\ WillChange = {}
        /\ rewind' = [rewind EXCEPT !.at = "apply"]
        /\ UNCHANGED <<records, disk, nextCp>> /\ NoneFailed
     \/ /\ WillChange # {} /\ Failed
        /\ nextCp' = nextCp + 1 /\ disk' \in {disk, Put(disk, nextCp, record)}
        /\ rewind' = NoRewind /\ UNCHANGED records
  /\ strays' = (strays \/ (records' = records /\ disk' # disk))
  /\ UNCHANGED <<files, active, baseline, diskBaseline, turn, chatVars, gaps>>

\* apply_file: what cannot be put back is in the report.
ApplyFile(k) ==
  /\ rewind.at = "apply" /\ k \in DOMAIN rewind.plan
  /\ \/ /\ files' = [files EXCEPT ![k] = rewind.plan[k]]
        /\ rewind' = [rewind EXCEPT
             !.plan = Without(@, {k}),
             !.report = IF k \in rewind.kept THEN @ \cup {k} ELSE @]
        /\ NoneFailed
     \/ /\ files[k] # rewind.plan[k] /\ Failed
        /\ rewind' = [rewind EXCEPT !.plan = Without(@, {k}), !.report = @ \cup {k}]
        /\ UNCHANGED files
  /\ UNCHANGED <<storeVars, turn, chatVars, gaps, strays>>

\* discard_from, lowest first, after a rewind of the chat; else prune_over_limit.
ToRemove_OnlyTheChosen == {rewind.id} \cap DOMAIN records
ToRemove == IF RestoresChat(rewind.mode) THEN From(rewind.id) ELSE Oldest(records)

ChangedAfter(record) == {k \in CpFiles : files[k] # record.files[k]}

RemoveRecord ==
  /\ rewind.at = "apply" /\ DOMAIN rewind.plan = {}
  /\ ToRemove # {}
  /\ LET id == Sets!Min(ToRemove) IN
     /\ records' = Without(records, {id})
     /\ gaps' = IF RestoresChat(rewind.mode) THEN gaps \cup ChangedAfter(records[id])
                ELSE gaps
     /\ \/ /\ disk' = Without(disk, {id}) /\ UNCHANGED rewind /\ NoneFailed
           /\ strays' = (strays \/ (~RestoresChat(rewind.mode) /\ Left # {}))
        \/ /\ Failed
           /\ rewind' = NoRewind
           /\ strays' = (strays \/ RestoresChat(rewind.mode)) /\ UNCHANGED disk
  /\ UNCHANGED <<files, nextCp, active, baseline, diskBaseline, turn, chatVars>>

\* The report is shown and the engine saves the session; a failure is a notice.
RewindDone == rewind.at = "apply" /\ DOMAIN rewind.plan = {} /\ ToRemove = {}
ReportRewind ==
  /\ RewindDone
  /\ rewind' = NoRewind
  /\ UNCHANGED <<files, storeVars, turn, chat, compactions, gaps, strays>>
  /\ \/ Persists /\ NoneFailed
     \/ PersistFails

-----------------------------------------------------------------------------
\* load_from_path: the messages and the count of compactions are those of the file.
Reloads == chat' = savedChat /\ compactions' = savedCompactions

\* The process dies; the next run reads the session and opens the store, which records
\* what the shell commands of the interrupted turn changed.
CpCrash ==
  /\ Failed
  /\ LET known == diskBaseline # NoBaseline /\ diskBaseline.id \in DOMAIN disk
         base == IF known THEN diskBaseline ELSE NoBaseline
     IN
     /\ records' = Recorded(disk, base) /\ disk' = records'
     /\ diskBaseline' = IF known THEN NoBaseline ELSE diskBaseline
  /\ baseline' = NoBaseline /\ active' = 0
  /\ Reloads
  /\ strays' = (\/ strays
                \/ rewind.at = "apply" /\ RestoresChat(rewind.mode)
                \/ \E id \in DOMAIN disk : disk[id].compactions > savedCompactions)
  /\ turn' = "none" /\ rewind' = NoRewind
  /\ UNCHANGED <<files, nextCp, savedChat, savedCompactions, gaps>>

CpRests == Idle /\ UNCHANGED cpVars

CpNext ==
  \/ BeginTurn \/ PushPrompt \/ EndTurn \/ SaveTurn \/ CompactChat
  \/ \E k \in CpFiles : ChangeFile(k) \/ RunShell(k) \/ ApplyFile(k)
  \/ \E id \in 1..(nextCp - 1), mode \in {"both", "chat", "code"} : BeginRewind(id, mode)
  \/ CutChat \/ ProtectFiles \/ RemoveRecord \/ ReportRewind
  \/ CpCrash \/ CpRests

CpSpec == CpInit /\ [][CpNext]_cpVars

-----------------------------------------------------------------------------
(* Properties *)

CpTypeOK ==
  /\ files \in [CpFiles -> Contents]
  /\ DOMAIN records \subseteq 1..(nextCp - 1) /\ DOMAIN disk \subseteq 1..(nextCp - 1)
  /\ \A id \in DOMAIN records :
       /\ records[id].saved \in [CpFiles -> Contents \cup {NotSaved}]
       /\ records[id].cut = Len(records[id].chat)
       /\ records[id].after \subseteq CpFiles /\ records[id].shell \subseteq CpFiles
  /\ active \in {0} \cup DOMAIN records
  /\ baseline.id \in {0} \cup DOMAIN records
  /\ turn \in {"none", "opened", "running", "failed", "ended"}
  /\ rewind.at \in {"none", "cut", "protect", "apply"}
  /\ gaps \subseteq CpFiles /\ strays \in BOOLEAN

Unrestored ==
  {k \in CpFiles : files[k] # rewind.was.files[k]} \ (rewind.report \cup gaps)

\* A rewind of the files that reaches its end leaves each of them as the prompt found it,
\* or says in its report that it could not; whatever turns, tools, shell commands,
\* compactions, crashes and other rewinds came between. checkpoints.rs: every saved file
\* "goes back to its state at the chosen prompt, byte for byte". This claims nothing of a
\* file a failed write or an earlier rewind of only the chat kept from the store, nor once
\* checkpoints of prompts that are gone may be left to be chosen.
RestoresOrReports ==
  RewindDone /\ RestoresCode(rewind.mode) /\ ~strays => Unrestored = {}

\* The same but for the files a shell command changed before they were saved and put back
\* after.
RestoresOrReportsTheRest ==
  RewindDone /\ RestoresCode(rewind.mode) /\ ~strays =>
    Unrestored \subseteq rewind.hidden

\* A rewind of the chat leaves exactly the conversation its prompt was added to. A
\* rewind cut short after the chat was cut leaves checkpoints of prompts that are gone,
\* which later prompts make look right again; and a process that dies before a compaction
\* was saved leaves those made after it, which the next compaction makes look right again.
CutsAtItsPrompt ==
  rewind.at = "apply" /\ RestoresChat(rewind.mode) /\ ~strays =>
    chat = rewind.was.chat

\* No checkpoint of a removed prompt is offered: each one that the chat still allows is of
\* a prompt whose chat is the beginning of this one, after a restart too, also when the
\* file then has another compaction count than the session had (but for strays).
CheckpointsFitTheChat ==
  Idle /\ ~strays =>
    \A id \in DOMAIN records :
      ChatAllows(records[id]) => Lists!IsPrefix(records[id].chat, chat)
==========================================================================
