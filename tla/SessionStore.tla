-------------------------- MODULE SessionStore --------------------------
(* The file a session is kept in (runtime/src/session.rs): messages are        *)
(* appended as they are pushed, snapshots replace the file (at a turn's end,    *)
(* after a compaction, a rewind or a repair), a big file is rotated away first. *)
(* Any write may fail and the process may die between any two of them; what the *)
(* operating system took is kept. One run writes a session (SessionLock).       *)
(* A message is its number; the file's meta line, compaction record and prompt   *)
(* history are left out, and so is the repair of a transcript (TurnLoop.tla).    *)
EXTENDS Integers, Sequences, FiniteSets

CONSTANTS
  RotateAfter,   \* the size from which a file is rotated (ROTATE_AFTER_BYTES), in lines
  MaxRotated,    \* MAX_ROTATED_FILES
  MaxMessages,   \* bound: messages pushed
  MaxEdits,      \* bound: compactions and rewinds
  MaxFailures,   \* bound: failed writes
  MaxCrashes     \* bound: crashes

ASSUME BoundsAssumption ==
  /\ RotateAfter \in Nat \ {0} /\ MaxRotated \in Nat
  /\ MaxMessages \in Nat /\ MaxEdits \in Nat /\ MaxFailures \in Nat /\ MaxCrashes \in Nat

Messages == 1..MaxMessages
Torn == 0                   \* a line that is no record
Lines == Messages \cup {Torn}

VARIABLES
  memory,        \* Session::messages
  rewrite,       \* rewrite_before_append
  main,          \* the session file: whether it exists, its lines, and whether the last
                 \* one has its newline
  rotated,       \* the lines of the rotated files, oldest first
  op,            \* the operation under way
  original,      \* a rewind's copy of the messages it removes from
  pc,            \* its next write
  halfUndone,    \* history: a rewind failed after its snapshot replaced the file
  pushed, edits, failures, crashes

fileVars == <<main, rotated>>
boundVars == <<pushed, edits, failures, crashes>>
vars == <<memory, rewrite, fileVars, op, original, pc, halfUndone, boundVars>>

NoFile == [exists |-> FALSE, lines |-> <<>>, ended |-> TRUE]
File(lines) == [exists |-> TRUE, lines |-> lines, ended |-> TRUE]
Last(s) == s[Len(s)]
Front(s) == SubSeq(s, 1, Len(s) - 1)
SetOf(s) == {s[i] : i \in DOMAIN s}

\* load_from_path skips lines that are no record.
IsRecord(line) == line # Torn
Loaded(lines) ==
  LET read[n \in 0..Len(lines)] ==
        IF n = 0 THEN <<>>
        ELSE IF IsRecord(lines[n]) THEN Append(read[n - 1], lines[n]) ELSE read[n - 1]
  IN  read[Len(lines)]

\* The file a restart continues: the session's own or, when a rotation was cut off
\* before the new file was written, the newest rotated one ("latest" lists it too).
Newest == IF main.exists THEN main
          ELSE IF rotated # <<>> THEN File(Last(rotated)) ELSE NoFile
Reload == Loaded(Newest.lines)

Init ==
  /\ memory = <<>> /\ rewrite = FALSE
  /\ main = NoFile /\ rotated = <<>>
  /\ op = "none" /\ original = <<>> /\ pc = "idle" /\ halfUndone = FALSE
  /\ pushed = 0 /\ edits = 0 /\ failures = 0 /\ crashes = 0

-----------------------------------------------------------------------------
(* How an operation ends *)

Succeed == op' = "none" /\ pc' = "idle" /\ UNCHANGED <<memory, rewrite, halfUndone>>

\* push_message takes its message back, and keeps a rewrite it owed; a rewind puts the
\* messages back; a snapshot reports its error.
Fail ==
  /\ failures < MaxFailures /\ failures' = failures + 1
  /\ memory' = IF op \in {"push", "rewrite"} THEN Front(memory)
               ELSE IF op = "rewind" THEN original ELSE memory
  /\ rewrite' = (rewrite \/ op = "rewrite")
  /\ halfUndone' = (halfUndone \/ (op = "rewind" /\ pc = "cleanup"))
  /\ op' = "none" /\ pc' = "idle"

Go(next) == pc' = next /\ UNCHANGED <<memory, rewrite, op, halfUndone>>

-----------------------------------------------------------------------------
(* The operations *)

\* push_message: after a repair the whole file is rewritten, else the record is
\* appended; append_persisted_message saves the whole session when there is no file.
Push ==
  /\ pc = "idle" /\ pushed < MaxMessages
  /\ pushed' = pushed + 1
  /\ memory' = Append(memory, pushed + 1)
  /\ rewrite' = FALSE
  /\ op' = IF rewrite THEN "rewrite" ELSE "push"
  /\ pc' = IF rewrite \/ ~main.exists THEN "rotate" ELSE "open"
  /\ UNCHANGED <<fileVars, original, halfUndone, edits, failures, crashes>>

\* persist_session at the end of a turn.
Snapshot ==
  /\ pc = "idle"
  /\ op' = "snapshot" /\ pc' = "rotate"
  /\ UNCHANGED <<memory, rewrite, fileVars, original, halfUndone, boundVars>>

\* A compaction replaces the older messages, in memory first.
Compact ==
  /\ pc = "idle" /\ memory # <<>> /\ edits < MaxEdits
  /\ edits' = edits + 1
  /\ memory' = Tail(memory)
  /\ op' = "snapshot" /\ pc' = "rotate"
  /\ UNCHANGED <<rewrite, fileVars, original, halfUndone, pushed, failures, crashes>>

\* truncate_conversation to the first n messages.
Rewind(n) ==
  /\ pc = "idle" /\ n < Len(memory) /\ edits < MaxEdits
  /\ edits' = edits + 1
  /\ original' = memory /\ memory' = SubSeq(memory, 1, n)
  /\ op' = "rewind" /\ pc' = "rotate"
  /\ UNCHANGED <<rewrite, fileVars, halfUndone, pushed, failures, crashes>>

-----------------------------------------------------------------------------
(* save_to_path *)

\* rotate_session_file_if_needed.
Rotate ==
  /\ pc = "rotate"
  /\ \/ /\ main.exists /\ Len(main.lines) >= RotateAfter
        /\ main' = NoFile /\ rotated' = Append(rotated, main.lines)
     \/ /\ ~(main.exists /\ Len(main.lines) >= RotateAfter)
        /\ UNCHANGED fileVars
  /\ Go("write")
  /\ UNCHANGED <<original, boundVars>>

\* write_atomic: a temporary file takes the file's place once it is complete.
Written_InPlace(whole) ==
  main' = IF whole THEN File(memory) ELSE File(SubSeq(memory, 1, Len(memory) \div 2))
Written_Appended(whole) ==
  main' = IF whole THEN File(main.lines \o memory) ELSE main
Written(whole) ==
  main' = IF whole THEN File(memory) ELSE main

WriteSnapshot ==
  /\ pc = "write"
  /\ \/ Written(TRUE) /\ Go("cleanup") /\ UNCHANGED failures
     \/ Written(FALSE) /\ Fail
  /\ UNCHANGED <<rotated, original, pushed, edits, crashes>>

\* cleanup_rotated_logs; a directory or a file that cannot be read or removed is an
\* error of the save.
Excess_Never == 0
Excess == IF Len(rotated) > MaxRotated THEN Len(rotated) - MaxRotated ELSE 0
Cleanup ==
  /\ pc = "cleanup"
  /\ \/ rotated' = SubSeq(rotated, Excess + 1, Len(rotated)) /\ Succeed
        /\ UNCHANGED failures
     \/ UNCHANGED rotated /\ Fail
  /\ UNCHANGED <<main, original, pushed, edits, crashes>>

-----------------------------------------------------------------------------
(* append_persisted_message *)

\* open_for_record_append: a last line without its newline gets one.
Opened_AsItIs == UNCHANGED main
Opened == main' = [main EXCEPT !.ended = TRUE]

OpenForAppend ==
  /\ pc = "open" /\ Opened /\ Go("record")
  /\ UNCHANGED <<rotated, original, boundVars>>

\* What a write of record adds to the file's lines: it goes on with an open line.
With(record) ==
  [main EXCEPT !.ended = FALSE,
               !.lines = IF main.ended THEN Append(@, record)
                         ELSE [@ EXCEPT ![Len(@)] = Torn]]

\* writeln!: the record, then its newline.
AppendRecord ==
  /\ pc = "record" /\ main' = With(Last(memory)) /\ Go("newline")
  /\ UNCHANGED <<rotated, original, boundVars>>

AppendNewline ==
  /\ pc = "newline" /\ main' = [main EXCEPT !.ended = TRUE] /\ Succeed
  /\ UNCHANGED <<rotated, original, boundVars>>

\* A write fails; a part of the record may be in the file.
AppendFails ==
  /\ pc \in {"open", "record", "newline"}
  /\ main' \in {main} \cup (IF pc = "record" THEN {With(Torn)} ELSE {})
  /\ Fail
  /\ UNCHANGED <<rotated, original, pushed, edits, crashes>>

-----------------------------------------------------------------------------
\* The process dies, maybe within the write of a record, and the session is loaded
\* again; a repair on load is written back before the next append.
Crash ==
  /\ crashes < MaxCrashes /\ crashes' = crashes + 1
  /\ \E left \in {Newest} \cup (IF pc = "record" THEN {With(Torn)} ELSE {}) :
       /\ main' = left
       /\ memory' = Loaded(left.lines)
       /\ rewrite' = (Torn \in SetOf(left.lines))
  /\ rotated' = IF main.exists THEN rotated ELSE <<>>
  /\ op' = "none" /\ pc' = "idle" /\ halfUndone' = FALSE
  /\ UNCHANGED <<original, pushed, edits, failures>>

Next ==
  \/ Push \/ Snapshot \/ Compact \/ \E n \in 0..MaxMessages : Rewind(n)
  \/ Rotate \/ WriteSnapshot \/ Cleanup
  \/ OpenForAppend \/ AppendRecord \/ AppendNewline \/ AppendFails
  \/ Crash

Spec == Init /\ [][Next]_vars

-----------------------------------------------------------------------------
(* Properties *)

TypeOK ==
  /\ memory \in Seq(Messages) /\ rewrite \in BOOLEAN
  /\ main \in [exists : BOOLEAN, lines : Seq(Lines), ended : BOOLEAN]
  /\ rotated \in Seq(Seq(Lines)) /\ Len(rotated) <= MaxRotated + 1 + failures + crashes
  /\ op \in {"none", "push", "rewrite", "snapshot", "rewind"}
  /\ original \in Seq(Messages)
  /\ pc \in {"idle", "rotate", "write", "cleanup", "open", "record", "newline"}
  /\ halfUndone \in BOOLEAN
  /\ pushed \in 0..MaxMessages /\ edits \in 0..MaxEdits
  /\ failures \in 0..MaxFailures /\ crashes \in 0..MaxCrashes

\* The messages whose push returned and that no compaction or rewind removed.
Acknowledged == IF op \in {"push", "rewrite"} THEN Front(memory) ELSE memory

Increasing(s) == \A i \in 1..(Len(s) - 1) : s[i] < s[i + 1]

\* A restart at any moment finds every acknowledged message, once and in order, whatever
\* failed or was cut off before: in a rotation, a snapshot, a torn append or after one.
\* The exception is a rewind whose snapshot was written before the save failed: the
\* messages it put back are only in memory until the next snapshot.
NothingAcknowledgedIsLost ==
  /\ ~halfUndone => SetOf(Acknowledged) \subseteq SetOf(Reload)
  /\ Increasing(Reload)

\* Until a write fails, a restart finds nothing else either, once an operation is over.
NothingComesBack == failures = 0 /\ op = "none" => Reload = memory

\* What a restart would find changes by whole steps: a message more, or the messages in
\* memory; a rotation changes nothing.
ChangesAreWhole ==
  [][Reload' = Reload \/ Reload' = memory \/ Reload' = Append(Reload, Last(memory))]_vars
=============================================================================
