------------------------- MODULE CheckpointsProofs -------------------------
(* Going back to an earlier prompt, for any files, turns, changes, rewinds and faults: *)
(* the store's records agree with its folder, with the session's chat and with the     *)
(* files, so that a rewind cuts at its prompt and restores what it does not report.     *)
EXTENDS Checkpoints, ChannelLemmas

-----------------------------------------------------------------------------
(* Types *)

CpRecords ==
  [cut : Nat, compactions : Nat, saved : [CpFiles -> Contents \cup {NotSaved}],
   after : SUBSET CpFiles, shell : SUBSET CpFiles, files : [CpFiles -> Contents], chat : Seq(Int)]
TableOK(table) ==
  /\ DOMAIN table \subseteq 1..(nextCp - 1)
  /\ \A i \in DOMAIN table : table[i] \in CpRecords /\ table[i].cut = Len(table[i].chat)
Baselines == [id : Nat, scan : [CpFiles -> Contents]]
Plans == UNION {[K -> Contents] : K \in SUBSET CpFiles}
Rewinds ==
  [at : {"none", "cut", "protect", "apply"}, id : Nat, mode : {"both", "chat", "code"},
   was : CpRecords \cup {<<>>}, plan : Plans,
   kept : SUBSET CpFiles, report : SUBSET CpFiles, hidden : SUBSET CpFiles]

CpTypes ==
  /\ files \in [CpFiles -> Contents]
  /\ nextCp \in Nat \ {0} /\ TableOK(records) /\ TableOK(disk)
  /\ active \in 0..(nextCp - 1) /\ baseline \in Baselines /\ diskBaseline \in Baselines
  /\ turn \in {"none", "opened", "running", "failed", "ended"}
  /\ {chat, savedChat} \subseteq Seq(Int) /\ {compactions, savedCompactions} \subseteq Nat
  /\ rewind \in Rewinds /\ (rewind.at # "none" => rewind.was \in CpRecords)
  /\ gaps \subseteq CpFiles /\ strays \in BOOLEAN
  /\ cpCounts \in [turns : Nat, changes : 0..CpChanges, edits : Nat, faults : Nat]

\* The lowest of a set of numbers, as the code takes it.
LEMMA LowestIs ==
  ASSUME NEW S \in SUBSET Nat, S # {}
  PROVE  Sets!Min(S) \in S /\ \A n \in S : Sets!Min(S) <= n
<1>1. \E n \in S : \A m \in S : n <= m
  BY FirstOfNumbers
<1>2. Sets!Min(S) = CHOOSE n \in S : \A m \in S : n <= m
  BY Zenon DEF Sets!Min
<1>3. QED
  BY <1>1, <1>2, Zenon

\* A record that is made has the fields of its kind.
LEMMA NewRecordIs ==
  ASSUME CpTypes, NEW saved \in [CpFiles -> Contents \cup {NotSaved}]
  PROVE  /\ NewRecord(saved) \in CpRecords
         /\ NewRecord(saved).cut = Len(chat) /\ NewRecord(saved).compactions = compactions
         /\ NewRecord(saved).saved = saved /\ NewRecord(saved).after = {}
         /\ NewRecord(saved).shell = {} /\ NewRecord(saved).files = files
         /\ NewRecord(saved).chat = chat
<1>1. Len(chat) \in Nat
  BY LenProperties DEF CpTypes
<1>2. QED
  BY <1>1 DEF NewRecord, CpRecords, CpTypes

\* What begin_turn and a rewind of the files alone save.
LEMMA SavedAtFirst ==
  ASSUME CpTypes
  PROVE  /\ NothingSaved \in [CpFiles -> Contents \cup {NotSaved}]
         /\ [k \in CpFiles |-> IF k \in WillChange THEN files[k] ELSE NotSaved]
              \in [CpFiles -> Contents \cup {NotSaved}]
BY DEF CpTypes, NothingSaved

\* Removing records from a table.
LEMMA WithoutIs ==
  ASSUME NEW table, NEW ids
  PROVE  /\ DOMAIN Without(table, ids) = DOMAIN table \ ids
         /\ \A i \in DOMAIN table \ ids : Without(table, ids)[i] = table[i]
BY DEF Without

\* A record that differs only in what shell commands changed.
SameButShell(new, old) ==
  /\ new \in CpRecords
  /\ new.cut = old.cut /\ new.compactions = old.compactions
  /\ new.saved = old.saved /\ new.after = old.after
  /\ new.files = old.files /\ new.chat = old.chat

\* finish_turn adds to what the shell commands of one record's turn changed, nothing else.
LEMMA RecordedIs ==
  ASSUME NEW table, \A i \in DOMAIN table : table[i] \in CpRecords,
         NEW base
  PROVE  /\ DOMAIN Recorded(table, base) = DOMAIN table
         /\ \A i \in DOMAIN table :
              /\ SameButShell(Recorded(table, base)[i], table[i])
              /\ Recorded(table, base)[i].shell =
                   IF base # NoBaseline /\ i = base.id
                   THEN table[i].shell \cup ChangedSince(base) ELSE table[i].shell
<1>1. CASE base # NoBaseline /\ base.id \in DOMAIN table
  <2> DEFINE old == table[base.id]
             new == [old EXCEPT !.shell = @ \cup ChangedSince(base)]
  <2>1. old \in CpRecords /\ ChangedSince(base) \subseteq CpFiles
    BY <1>1 DEF ChangedSince
  <2>2. /\ new \in CpRecords /\ new.cut = old.cut /\ new.compactions = old.compactions
        /\ new.saved = old.saved /\ new.after = old.after
        /\ new.files = old.files /\ new.chat = old.chat
        /\ new.shell = old.shell \cup ChangedSince(base)
    BY <2>1 DEF CpRecords
  <2>3. Recorded(table, base) = [table EXCEPT ![base.id] = new]
    BY <1>1, Zenon DEF Recorded
  <2> HIDE DEF new
  <2>4. /\ DOMAIN Recorded(table, base) = DOMAIN table
        /\ Recorded(table, base)[base.id] = new
        /\ \A i \in DOMAIN table : i # base.id => Recorded(table, base)[i] = table[i]
    BY <1>1, <2>3
  <2>5. QED
    BY <1>1, <2>2, <2>4 DEF SameButShell
<1>2. CASE ~(base # NoBaseline /\ base.id \in DOMAIN table)
  <2>1. Recorded(table, base) = table
    BY <1>2, Zenon DEF Recorded
  <2>2. QED
    BY <1>2, <2>1 DEF SameButShell
<1>3. QED
  BY <1>1, <1>2

\* before_file_change adds a copy to the open record, and says whether a shell command came
\* before it.
LEMMA SavingIs ==
  ASSUME NEW k \in CpFiles, CpTypes, active \in DOMAIN records
  PROVE  LET new == Saving(k)[active]
             old == records[active]
         IN
         /\ DOMAIN Saving(k) = DOMAIN records
         /\ \A i \in DOMAIN records : i # active => Saving(k)[i] = records[i]
         /\ new \in CpRecords
         /\ new.cut = old.cut /\ new.compactions = old.compactions
         /\ new.saved = [old.saved EXCEPT ![k] = files[k]]
         /\ new.after = IF AfterShell(k) THEN old.after \cup {k} ELSE old.after
         /\ new.shell = old.shell /\ new.files = old.files /\ new.chat = old.chat
<1> DEFINE old == records[active]
           saved == [old.saved EXCEPT ![k] = files[k]]
           one == [old EXCEPT !.saved = saved]
           after == IF AfterShell(k) THEN one.after \cup {k} ELSE one.after
           new == [one EXCEPT !.after = after]
           between == [records EXCEPT ![active] = one]
<1>1. old \in CpRecords /\ files[k] \in Contents
  BY DEF CpTypes, TableOK
<1>2. old.saved \in [CpFiles -> Contents \cup {NotSaved}] /\ old.after \subseteq CpFiles
  BY <1>1 DEF CpRecords
<1>3. saved \in [CpFiles -> Contents \cup {NotSaved}]
  BY <1>1, <1>2
<1> HIDE DEF saved
<1>4. /\ one \in CpRecords /\ one.cut = old.cut /\ one.compactions = old.compactions
      /\ one.saved = saved /\ one.after = old.after /\ one.shell = old.shell
      /\ one.files = old.files /\ one.chat = old.chat
  BY <1>1, <1>3 DEF CpRecords
<1>5. Saving(k) = [between EXCEPT ![active].after = IF AfterShell(k) THEN @ \cup {k} ELSE @]
  BY Zenon DEF Saving, saved
<1> HIDE DEF one
<1>6. /\ DOMAIN between = DOMAIN records /\ between[active] = one
      /\ \A i \in DOMAIN records : i # active => between[i] = records[i]
  OBVIOUS
<1>7. Saving(k) = [between EXCEPT ![active] = new]
  BY <1>5, <1>6
<1>8. /\ new \in CpRecords /\ new.cut = one.cut /\ new.compactions = one.compactions
      /\ new.saved = one.saved /\ new.after = after /\ new.shell = one.shell
      /\ new.files = one.files /\ new.chat = one.chat
  BY <1>2, <1>4 DEF CpRecords
<1> HIDE DEF between, new
<1>9. /\ DOMAIN Saving(k) = DOMAIN records /\ Saving(k)[active] = new
      /\ \A i \in DOMAIN records : i # active => Saving(k)[i] = records[i]
  BY <1>6, <1>7
<1>10. QED
  BY <1>4, <1>8, <1>9 DEF saved

\* At the start every variable has a value of its kind.
LEMMA TypesInit ==
  ASSUME CpBoundsAssumption, CpInit
  PROVE  CpTypes
<1>1. /\ 0 \in Contents /\ <<>> \in [{} -> Contents] /\ {} \in SUBSET CpFiles
  BY DEF CpBoundsAssumption, Contents
<1>2. NoRewind \in Rewinds
  <2>1. <<>> \in Plans
    BY <1>1 DEF Plans
  <2>2. QED
    BY <1>1, <2>1 DEF NoRewind, Rewinds
<1>3. NoBaseline \in Baselines
  BY <1>1 DEF NoBaseline, Baselines
<1>4. NoRewind.at = "none"
  BY DEF NoRewind
<1>5. TableOK(<<>>)
  BY DEF TableOK
<1>6. chat \in Seq(Int) /\ savedChat \in Seq(Int)
  BY EmptySeq DEF CpInit
<1>7. cpCounts \in [turns : Nat, changes : 0..CpChanges, edits : Nat, faults : Nat]
  BY DEF CpInit, CpBoundsAssumption
<1>8. files \in [CpFiles -> Contents]
  BY <1>1 DEF CpInit
<1>9. /\ nextCp \in Nat \ {0} /\ TableOK(records) /\ TableOK(disk) /\ active \in 0..(nextCp - 1)
      /\ baseline \in Baselines /\ diskBaseline \in Baselines
  BY <1>3, <1>5 DEF CpInit
<1>10. /\ turn \in {"none", "opened", "running", "failed", "ended"}
       /\ {compactions, savedCompactions} \subseteq Nat
       /\ rewind \in Rewinds /\ (rewind.at # "none" => rewind.was \in CpRecords)
  BY <1>2, <1>4 DEF CpInit
<1>11. gaps \subseteq CpFiles /\ strays \in BOOLEAN
  BY DEF CpInit
<1>12. QED
  BY <1>6, <1>7, <1>8, <1>9, <1>10, <1>11 DEF CpTypes

\* Numbers of the counts.
LEMMA CountsAre ==
  ASSUME CpTypes, NEW what \in {"turns", "edits", "faults"}
  PROVE  /\ Counted(what) \in [turns : Nat, changes : 0..CpChanges, edits : Nat, faults : Nat]
         /\ cpCounts.changes < CpChanges =>
              /\ Counted("changes") \in
                   [turns : Nat, changes : 0..CpChanges, edits : Nat, faults : Nat]
              /\ [Counted("changes") EXCEPT !.faults = @ + 1] \in
                   [turns : Nat, changes : 0..CpChanges, edits : Nat, faults : Nat]
         /\ [Counted("turns") EXCEPT !.faults = @ + 1] \in
              [turns : Nat, changes : 0..CpChanges, edits : Nat, faults : Nat]
<1> DEFINE T == [turns : Nat, changes : 0..CpChanges, edits : Nat, faults : Nat]
<1>1. cpCounts \in T
  BY DEF CpTypes
<1>2. /\ cpCounts.turns \in Nat /\ cpCounts.edits \in Nat /\ cpCounts.faults \in Nat
      /\ cpCounts.changes \in 0..CpChanges
  BY <1>1
<1>3. Counted(what) \in T /\ Counted("turns") \in T
  BY <1>1, <1>2 DEF Counted
<1>4. cpCounts.changes < CpChanges => cpCounts.changes + 1 \in 0..CpChanges
  BY <1>2, CpBoundsAssumption DEF CpBoundsAssumption
<1>5. cpCounts.changes < CpChanges => Counted("changes") \in T
  BY <1>1, <1>4 DEF Counted
<1>6. ASSUME NEW counts \in T PROVE [counts EXCEPT !.faults = @ + 1] \in T
  OBVIOUS
<1>7. QED
  BY <1>3, <1>5, <1>6

\* A step that fails, or does not, keeps the counts.
LEMMA CountsStay ==
  ASSUME CpTypes, NoneFailed \/ Failed
  PROVE  cpCounts' \in [turns : Nat, changes : 0..CpChanges, edits : Nat, faults : Nat]
BY CountsAre DEF Failed, NoneFailed, CpTypes

\* A save, whole or not, leaves the file with what it had or what the session has.
LEMMA SavedStays ==
  ASSUME CpTypes, chat' \in Seq(Int), compactions' \in Nat, Persists \/ KeepsSaved
  PROVE  {chat', savedChat'} \subseteq Seq(Int) /\ {compactions', savedCompactions'} \subseteq Nat
BY DEF CpTypes, Persists, KeepsSaved

\* The part of the types that the store's tables and its counter have.
StoreOK == /\ nextCp \in Nat \ {0} /\ TableOK(records) /\ TableOK(disk)
           /\ active \in 0..(nextCp - 1)
           /\ baseline \in Baselines /\ diskBaseline \in Baselines

\* What leaves the store alone keeps its part of the types.
LEMMA StoreStays ==
  ASSUME CpTypes, UNCHANGED storeVars
  PROVE  StoreOK'
BY DEF CpTypes, StoreOK, storeVars, TableOK

\* A table that gains a record made now, and loses some.
LEMMA TableGains ==
  ASSUME CpTypes, NEW table, TableOK(table), NEW saved \in [CpFiles -> Contents \cup {NotSaved}],
         NEW ids, nextCp' = nextCp + 1
  PROVE  LET new == Without(Put(table, nextCp, NewRecord(saved)), ids) IN
         /\ DOMAIN new \subseteq 1..(nextCp' - 1)
         /\ \A i \in DOMAIN new : new[i] \in CpRecords /\ new[i].cut = Len(new[i].chat)
<1> DEFINE record == NewRecord(saved)
           put == Put(table, nextCp, record)
           new == Without(put, ids)
<1>1. record \in CpRecords /\ record.cut = Len(record.chat)
  BY NewRecordIs
<1> HIDE DEF record
<1>2. /\ DOMAIN put = DOMAIN table \cup {nextCp} /\ put[nextCp] = record
      /\ \A i \in DOMAIN table : i # nextCp => put[i] = table[i]
  BY DEF Put
<1> HIDE DEF put
<1>3. DOMAIN new = DOMAIN put \ ids /\ \A i \in DOMAIN put \ ids : new[i] = put[i]
  BY WithoutIs
<1> HIDE DEF new
<1>4. \A i \in DOMAIN put : put[i] \in CpRecords /\ put[i].cut = Len(put[i].chat)
  BY <1>1, <1>2 DEF TableOK
<1>5. DOMAIN put \subseteq 1..nextCp
  BY <1>2 DEF TableOK, CpTypes
<1>6. \A i \in DOMAIN new : new[i] \in CpRecords /\ new[i].cut = Len(new[i].chat)
  BY <1>3, <1>4
<1>7. DOMAIN new \subseteq 1..(nextCp' - 1)
  BY <1>3, <1>5 DEF CpTypes
<1>8. QED
  BY <1>6, <1>7 DEF new, put, record

\* Nothing is removed: the table is the one with the record put in.
LEMMA WithoutNone ==
  ASSUME NEW table, NEW id, NEW record
  PROVE  Without(Put(table, id, record), {}) = Put(table, id, record)
<1> DEFINE put == Put(table, id, record)
<1>1. put = [i \in DOMAIN put |-> put[i]]
  BY DEF Put
<1> HIDE DEF put
<1>2. Without(put, {}) = [i \in DOMAIN put |-> put[i]]
  BY DEF Without
<1>3. QED
  BY <1>1, <1>2 DEF put

\* A new checkpoint is a record like the others, and what is pruned goes.
LEMMA StoreAfterBeginTurn ==
  ASSUME CpTypes, BeginTurn
  PROVE  StoreOK'
<1> DEFINE record == NewRecord(NothingSaved)
           pruned == Oldest(Put(records, nextCp, record))
<1>1. nextCp \in Nat \ {0} /\ TableOK(records) /\ TableOK(disk)
  BY DEF CpTypes
<1>2. nextCp' = nextCp + 1 /\ active' \in {0, nextCp}
  BY DEF BeginTurn
<1>3. NothingSaved \in [CpFiles -> Contents \cup {NotSaved}]
  BY SavedAtFirst
<1>4. \E ids : records' = Without(Put(records, nextCp, record), ids) \/ records' = records
  BY DEF BeginTurn
<1>5. \/ \E ids : disk' = Without(Put(disk, nextCp, record), ids)
      \/ disk' = disk
  <2>1. disk' = Put(disk, nextCp, record) => disk' = Without(Put(disk, nextCp, record), {})
    BY WithoutNone, Zenon
  <2>2. QED
    BY <2>1, Zenon DEF BeginTurn
<1>6. TableOK(records)'
  <2>1. CASE records' = records
    BY <1>1, <1>2, <2>1 DEF TableOK
  <2>2. CASE \E ids : records' = Without(Put(records, nextCp, record), ids)
    BY <1>1, <1>2, <1>3, <2>2, TableGains DEF TableOK
  <2>3. QED
    BY <1>4, <2>1, <2>2
<1>7. TableOK(disk)'
  <2>1. CASE disk' = disk
    BY <1>1, <1>2, <2>1 DEF TableOK
  <2>2. CASE \E ids : disk' = Without(Put(disk, nextCp, record), ids)
    BY <1>1, <1>2, <1>3, <2>2, TableGains DEF TableOK
  <2>3. QED
    BY <1>5, <2>1, <2>2
<1>8. baseline' \in Baselines /\ diskBaseline' \in Baselines
  BY DEF BeginTurn, CpTypes
<1>9. active' \in 0..(nextCp' - 1)
  BY <1>1, <1>2
<1>10. QED
  BY <1>1, <1>2, <1>6, <1>7, <1>8, <1>9 DEF StoreOK

\* A table in which the open record's turn or a shell command's changes are noted.
LEMMA TableNotes ==
  ASSUME CpTypes, NEW table, TableOK(table), NEW new, DOMAIN new = DOMAIN table,
         \A i \in DOMAIN table :
           new[i] \in CpRecords /\ new[i].cut = table[i].cut /\ new[i].chat = table[i].chat
  PROVE  TableOK(new)
BY DEF TableOK

\* A record of one table written to the other.
LEMMA TableWritten ==
  ASSUME CpTypes, NEW table, TableOK(table), NEW from, TableOK(from), NEW id \in DOMAIN from
  PROVE  TableOK(Put(table, id, from[id]))
<1>1. /\ DOMAIN Put(table, id, from[id]) = DOMAIN table \cup {id}
      /\ Put(table, id, from[id])[id] = from[id]
      /\ \A i \in DOMAIN table : i # id => Put(table, id, from[id])[i] = table[i]
  BY DEF Put
<1>2. QED
  BY <1>1 DEF TableOK

\* No scan is taken for an empty one.
LEMMA NoBaselineIs == NoBaseline \in Baselines
BY CpBoundsAssumption DEF NoBaseline, Baselines, Contents, CpBoundsAssumption

\* finish_turn adds to a record that is there.
LEMMA StoreAfterEndTurn ==
  ASSUME CpTypes, EndTurn, baseline # NoBaseline => baseline.id \in DOMAIN records
  PROVE  StoreOK'
<1> DEFINE new == Recorded(records, baseline)
<1>1. /\ nextCp \in Nat \ {0} /\ TableOK(records) /\ TableOK(disk)
      /\ baseline \in Baselines /\ diskBaseline \in Baselines
  BY DEF CpTypes
<1>2. NoBaseline \in Baselines
  BY NoBaselineIs
<1>3. /\ records' = new /\ baseline' = NoBaseline /\ nextCp' = nextCp /\ active' = 0
      /\ diskBaseline' \in {diskBaseline, NoBaseline}
      /\ disk' \in {disk, Put(disk, baseline.id, new[baseline.id])}
      /\ baseline = NoBaseline => disk' = disk
  BY DEF EndTurn, FinishDone, FinishFailed
<1>4. /\ DOMAIN new = DOMAIN records
      /\ \A i \in DOMAIN records :
           /\ new[i] \in CpRecords
           /\ new[i].cut = records[i].cut /\ new[i].chat = records[i].chat
  <2>1. \A i \in DOMAIN records : records[i] \in CpRecords
    BY <1>1 DEF TableOK
  <2>2. DOMAIN new = DOMAIN records /\ \A i \in DOMAIN records : SameButShell(new[i], records[i])
    BY <2>1, RecordedIs
  <2> HIDE DEF new
  <2>3. QED
    BY <2>2 DEF SameButShell
<1> HIDE DEF new
<1>5. TableOK(new)
  BY <1>1, <1>4, TableNotes
<1>6. baseline # NoBaseline => TableOK(Put(disk, baseline.id, new[baseline.id]))
  BY <1>1, <1>4, <1>5, TableWritten
<1>7. TableOK(records)'
  BY <1>3, <1>5 DEF TableOK
<1>8. TableOK(disk)'
  <2>1. TableOK(disk')
    BY <1>1, <1>3, <1>6
  <2>2. QED
    BY <1>3, <2>1 DEF TableOK
<1>9. QED
  BY <1>1, <1>2, <1>3, <1>7, <1>8 DEF StoreOK

\* before_file_change adds to the open record.
LEMMA StoreAfterChangeFile ==
  ASSUME CpTypes, NEW k \in CpFiles, ChangeFile(k), active # 0 => active \in DOMAIN records
  PROVE  StoreOK'
<1> DEFINE new == Saving(k)
<1>1. /\ nextCp \in Nat \ {0} /\ TableOK(records) /\ TableOK(disk)
      /\ baseline \in Baselines /\ diskBaseline \in Baselines /\ active \in 0..(nextCp - 1)
  BY DEF CpTypes
<1>2. /\ nextCp' = nextCp /\ active' = active
      /\ baseline' = baseline /\ diskBaseline' = diskBaseline
  BY DEF ChangeFile, Changing
<1>3. \/ records' = records /\ disk' = disk
      \/ active # 0 /\ records' = new /\ disk' \in {disk, Put(disk, active, new[active])}
  BY DEF ChangeFile
<1>4. CASE records' = records /\ disk' = disk
  BY <1>1, <1>2, <1>4 DEF StoreOK, TableOK
<1>5. CASE active # 0 /\ records' = new /\ disk' \in {disk, Put(disk, active, new[active])}
  <2>1. active \in DOMAIN records
    BY <1>5
  <2>2. /\ DOMAIN new = DOMAIN records
        /\ \A i \in DOMAIN records : i # active => new[i] = records[i]
        /\ new[active] \in CpRecords /\ new[active].cut = records[active].cut
        /\ new[active].chat = records[active].chat
    BY <2>1, SavingIs
  <2> HIDE DEF new
  <2>3. \A i \in DOMAIN records :
           /\ new[i] \in CpRecords
           /\ new[i].cut = records[i].cut /\ new[i].chat = records[i].chat
    BY <1>1, <2>2 DEF TableOK
  <2>4. TableOK(new)
    BY <1>1, <2>2, <2>3, TableNotes
  <2>5. TableOK(Put(disk, active, new[active]))
    BY <1>1, <2>1, <2>2, <2>4, TableWritten
  <2>6. TableOK(records)'
    BY <1>2, <1>5, <2>4 DEF TableOK
  <2>7. TableOK(disk)'
    <3>1. TableOK(disk')
      BY <1>1, <1>5, <2>5
    <3>2. QED
      BY <1>2, <3>1 DEF TableOK
  <2>8. QED
    BY <1>1, <1>2, <2>6, <2>7 DEF StoreOK
<1>6. QED
  BY <1>3, <1>4, <1>5

\* before_shell_command keeps a scan of the files as they are.
LEMMA StoreAfterRunShell ==
  ASSUME CpTypes, NEW k \in CpFiles, RunShell(k)
  PROVE  StoreOK'
<1>1. /\ nextCp' = nextCp /\ active' = active /\ records' = records /\ disk' = disk
      /\ baseline' \in {baseline, [id |-> active, scan |-> files]}
      /\ diskBaseline' \in {diskBaseline, baseline'}
  BY DEF RunShell, Changing
<1>2. [id |-> active, scan |-> files] \in Baselines
  BY DEF CpTypes, Baselines
<1>3. QED
  BY <1>1, <1>2 DEF CpTypes, StoreOK, TableOK

\* save_before_rewind adds one record.
LEMMA StoreAfterProtectFiles ==
  ASSUME CpTypes, ProtectFiles
  PROVE  StoreOK'
<1> DEFINE saved == [k \in CpFiles |-> IF k \in WillChange THEN files[k] ELSE NotSaved]
           record == NewRecord(saved)
<1>1. /\ nextCp \in Nat \ {0} /\ TableOK(records) /\ TableOK(disk)
      /\ baseline \in Baselines /\ diskBaseline \in Baselines /\ active \in 0..(nextCp - 1)
  BY DEF CpTypes
<1>2. active' = active /\ baseline' = baseline /\ diskBaseline' = diskBaseline
  BY DEF ProtectFiles
<1>3. \/ nextCp' = nextCp /\ records' = records /\ disk' = disk
      \/ /\ nextCp' = nextCp + 1
         /\ records' \in {records, Put(records, nextCp, record)}
         /\ disk' \in {disk, Put(disk, nextCp, record)}
  BY DEF ProtectFiles
<1>4. CASE nextCp' = nextCp /\ records' = records /\ disk' = disk
  BY <1>1, <1>2, <1>4 DEF StoreOK, TableOK
<1>5. ASSUME NEW table, TableOK(table), nextCp' = nextCp + 1
      PROVE  /\ DOMAIN Put(table, nextCp, record) \subseteq 1..(nextCp' - 1)
             /\ \A i \in DOMAIN Put(table, nextCp, record) :
                  LET new == Put(table, nextCp, record)[i] IN
                  new \in CpRecords /\ new.cut = Len(new.chat)
  <2>1. saved \in [CpFiles -> Contents \cup {NotSaved}]
    BY SavedAtFirst
  <2> HIDE DEF saved
  <2>2. Without(Put(table, nextCp, record), {}) = Put(table, nextCp, record)
    BY WithoutNone, Zenon
  <2>3. LET new == Without(Put(table, nextCp, NewRecord(saved)), {}) IN
         /\ DOMAIN new \subseteq 1..(nextCp' - 1)
         /\ \A i \in DOMAIN new : new[i] \in CpRecords /\ new[i].cut = Len(new[i].chat)
    BY <1>5, <2>1, TableGains
  <2>4. QED
    BY <2>2, <2>3
<1>6. CASE /\ nextCp' = nextCp + 1
           /\ records' \in {records, Put(records, nextCp, record)}
           /\ disk' \in {disk, Put(disk, nextCp, record)}
  <2> HIDE DEF record
  <2>1. \A table : TableOK(table) =>
          /\ DOMAIN table \subseteq 1..(nextCp' - 1)
          /\ \A i \in DOMAIN table : table[i] \in CpRecords /\ table[i].cut = Len(table[i].chat)
    BY <1>1, <1>6 DEF TableOK
  <2>2. TableOK(records)'
    <3>1. CASE records' = records
      BY <1>1, <2>1, <3>1 DEF TableOK
    <3>2. CASE records' = Put(records, nextCp, record)
      BY <1>1, <1>5, <1>6, <3>2 DEF TableOK
    <3>3. QED
      BY <1>6, <3>1, <3>2
  <2>3. TableOK(disk)'
    <3>1. CASE disk' = disk
      BY <1>1, <2>1, <3>1 DEF TableOK
    <3>2. CASE disk' = Put(disk, nextCp, record)
      BY <1>1, <1>5, <1>6, <3>2 DEF TableOK
    <3>3. QED
      BY <1>6, <3>1, <3>2
  <2>4. QED
    BY <1>1, <1>2, <1>6, <2>2, <2>3 DEF StoreOK
<1>7. QED
  BY <1>3, <1>4, <1>6

\* Removing a record adds none.
LEMMA StoreAfterRemoveRecord ==
  ASSUME CpTypes, RemoveRecord
  PROVE  StoreOK'
<1> DEFINE id == Sets!Min(ToRemove)
<1>1. /\ nextCp' = nextCp /\ active' = active /\ baseline' = baseline
      /\ diskBaseline' = diskBaseline
      /\ records' = Without(records, {id}) /\ disk' \in {disk, Without(disk, {id})}
  BY DEF RemoveRecord
<1> HIDE DEF id
<1>2. ASSUME NEW table, TableOK(table) PROVE TableOK(Without(table, {id}))
  BY <1>2 DEF TableOK, Without
<1>3. TableOK(records') /\ TableOK(disk')
  BY <1>1, <1>2 DEF CpTypes
<1>4. QED
  BY <1>1, <1>3 DEF CpTypes, StoreOK, TableOK

\* What a restart reads is what was written.
LEMMA StoreAfterCrash ==
  ASSUME CpTypes, CpCrash
  PROVE  StoreOK'
<1> DEFINE base == IF diskBaseline # NoBaseline /\ diskBaseline.id \in DOMAIN disk
                   THEN diskBaseline ELSE NoBaseline
           new == Recorded(disk, base)
<1>1. /\ nextCp' = nextCp /\ active' = 0 /\ baseline' = NoBaseline
      /\ diskBaseline' \in {diskBaseline, NoBaseline}
      /\ records' = new /\ disk' = new
  BY DEF CpCrash
<1>2. NoBaseline \in Baselines
  BY NoBaselineIs
<1>3. /\ DOMAIN new = DOMAIN disk
      /\ \A i \in DOMAIN disk :
           new[i] \in CpRecords /\ new[i].cut = disk[i].cut /\ new[i].chat = disk[i].chat
  <2>1. \A i \in DOMAIN disk : disk[i] \in CpRecords
    BY DEF TableOK, CpTypes
  <2> HIDE DEF base
  <2>2. DOMAIN new = DOMAIN disk /\ \A i \in DOMAIN disk : SameButShell(new[i], disk[i])
    BY <2>1, RecordedIs
  <2> HIDE DEF new
  <2>3. QED
    BY <2>2 DEF SameButShell
<1> HIDE DEF new
<1>4. TableOK(new)
  BY <1>3, TableNotes DEF CpTypes
<1>5. QED
  BY <1>1, <1>2, <1>4 DEF CpTypes, StoreOK, TableOK

\* What the agent and the store are at. The newest record is never removed by the limit.
TurnFits ==
  /\ turn # "none" => rewind.at = "none"
  /\ active # 0 => /\ turn \notin {"none", "ended"} /\ active \in DOMAIN records /\ active = nextCp - 1
                   /\ records[active].shell = {}
  /\ baseline # NoBaseline =>
       turn \in {"running", "failed"} /\ baseline.id = active /\ active # 0 /\ diskBaseline = baseline
  /\ rewind.at = "cut" => RestoresChat(rewind.mode) /\ ChatAllows(rewind.was)
  /\ rewind.at = "protect" => rewind.mode = "code"

\* The part of the types that is not the store's.
RestOK ==
  /\ files \in [CpFiles -> Contents]
  /\ turn \in {"none", "opened", "running", "failed", "ended"}
  /\ {chat, savedChat} \subseteq Seq(Int) /\ {compactions, savedCompactions} \subseteq Nat
  /\ rewind \in Rewinds /\ (rewind.at # "none" => rewind.was \in CpRecords)
  /\ gaps \subseteq CpFiles /\ strays \in BOOLEAN
  /\ cpCounts \in [turns : Nat, changes : 0..CpChanges, edits : Nat, faults : Nat]

\* The types are the store's and the rest's.
LEMMA TypesAre == CpTypes <=> StoreOK /\ RestOK
BY DEF CpTypes, StoreOK, RestOK

\* No rewind is a rewind that writes nothing.
LEMMA NoRewindIs == NoRewind \in Rewinds /\ NoRewind.at = "none" /\ NoRewind.plan = <<>>
<1>1. <<>> \in [{} -> Contents] /\ {} \in SUBSET CpFiles
  OBVIOUS
<1>2. <<>> \in Plans
  BY <1>1 DEF Plans
<1>3. QED
  BY <1>1, <1>2 DEF NoRewind, Rewinds

\* The copy a plan has of a file is one that was taken.
LEMMA GoverningIs ==
  ASSUME CpTypes, NEW id \in Nat, NEW k \in Planned(id)
  PROVE  /\ Governing(k, id) \in SavedIn(k, id)
         /\ \A i \in SavedIn(k, id) : Governing(k, id) <= i
         /\ Governing(k, id) \in DOMAIN records /\ Governing(k, id) >= id
         /\ records[Governing(k, id)].saved[k] \in Contents
         /\ records[Governing(k, id)].saved[k] # NotSaved
<1>1. SavedIn(k, id) \subseteq DOMAIN records /\ DOMAIN records \subseteq Nat
  BY DEF SavedIn, From, CpTypes, TableOK
<1>2. SavedIn(k, id) \in SUBSET Nat /\ SavedIn(k, id) # {}
  BY <1>1 DEF Planned
<1>3. Governing(k, id) \in SavedIn(k, id) /\ \A i \in SavedIn(k, id) : Governing(k, id) <= i
  BY <1>2, LowestIs DEF Governing
<1>4. /\ Governing(k, id) \in DOMAIN records /\ Governing(k, id) >= id
      /\ records[Governing(k, id)].saved[k] # NotSaved
  BY <1>3 DEF SavedIn, From
<1>5. records[Governing(k, id)].saved \in [CpFiles -> Contents \cup {NotSaved}]
  BY <1>4 DEF CpTypes, TableOK, CpRecords
<1>6. records[Governing(k, id)].saved[k] \in Contents \cup {NotSaved}
  BY <1>5 DEF Planned
<1>7. QED
  BY <1>3, <1>4, <1>6

\* What a rewind of id in this mode starts with.
LEMMA RewindBegins ==
  ASSUME CpTypes, NEW id \in 1..(nextCp - 1), NEW mode \in {"both", "chat", "code"},
         BeginRewind(id, mode)
  PROVE  /\ rewind' \in Rewinds /\ rewind'.was \in CpRecords /\ rewind'.was = records[id]
         /\ rewind'.at = IF RestoresChat(mode) THEN "cut" ELSE "protect"
         /\ rewind'.id = id /\ rewind'.mode = mode
         /\ RestoresCode(mode) =>
              /\ DOMAIN rewind'.plan = Planned(id)
              /\ \A k \in Planned(id) : rewind'.plan[k] = records[Governing(k, id)].saved[k]
              /\ rewind'.kept = {k \in Planned(id) : ShellKept(k, id)}
              /\ rewind'.report = NotRestored(id)
         /\ ~RestoresCode(mode) => DOMAIN rewind'.plan = {}
         /\ rewind'.hidden = Hidden(id)
<1> DEFINE plan == IF RestoresCode(mode)
                   THEN [k \in Planned(id) |-> records[Governing(k, id)].saved[k]] ELSE <<>>
           kept == IF RestoresCode(mode) THEN {k \in Planned(id) : ShellKept(k, id)} ELSE {}
           report == IF RestoresCode(mode) THEN NotRestored(id) ELSE {}
           at == IF RestoresChat(mode) THEN "cut" ELSE "protect"
<1>1. id \in Nat /\ Planned(id) \subseteq CpFiles
  BY DEF Planned, CpTypes
<1>2. plan \in Plans
  <2>1. CASE RestoresCode(mode)
    <3>1. plan = [k \in Planned(id) |-> records[Governing(k, id)].saved[k]]
      BY <2>1
    <3>2. \A k \in Planned(id) : records[Governing(k, id)].saved[k] \in Contents
      BY <1>1, GoverningIs
    <3>3. plan \in [Planned(id) -> Contents]
      BY <3>1, <3>2
    <3>4. QED
      BY <1>1, <3>3 DEF Plans
  <2>2. CASE ~RestoresCode(mode)
    <3>1. plan = NoRewind.plan
      BY <2>2, NoRewindIs
    <3>2. QED
      BY <3>1, NoRewindIs DEF Rewinds
  <2>3. QED
    BY <2>1, <2>2
<1>3. RestoresCode(mode) => /\ DOMAIN plan = Planned(id)
                            /\ \A k \in Planned(id) : plan[k] = records[Governing(k, id)].saved[k]
  OBVIOUS
<1>4. ~RestoresCode(mode) => DOMAIN plan = {}
  OBVIOUS
<1>5. kept \subseteq CpFiles /\ report \subseteq CpFiles
  BY <1>1 DEF NotRestored
<1>6. Hidden(id) \subseteq CpFiles
  <2>1. \A i \in From(id) : records[i].after \subseteq CpFiles
    BY DEF From, CpTypes, TableOK, CpRecords
  <2>2. QED
    BY <2>1 DEF Hidden
<1>7. records[id] \in CpRecords
  BY DEF BeginRewind, CpTypes, TableOK
<1>8. rewind' = [at |-> at, id |-> id, mode |-> mode, was |-> records[id], plan |-> plan,
                 kept |-> kept, report |-> report, hidden |-> Hidden(id)]
  BY DEF BeginRewind
<1>9. /\ RestoresCode(mode) => kept = {k \in Planned(id) : ShellKept(k, id)}
      /\ RestoresCode(mode) => report = NotRestored(id)
  OBVIOUS
<1>10. at \in {"none", "cut", "protect", "apply"}
  OBVIOUS
<1> HIDE DEF plan, kept, report, at
<1>11. /\ rewind'.at = at /\ rewind'.id = id /\ rewind'.mode = mode /\ rewind'.was = records[id]
       /\ rewind'.plan = plan /\ rewind'.kept = kept /\ rewind'.report = report
       /\ rewind'.hidden = Hidden(id)
  BY <1>8
<1>12. rewind' \in Rewinds
  BY <1>1, <1>2, <1>5, <1>6, <1>7, <1>8, <1>10 DEF Rewinds
<1>13. rewind'.at = IF RestoresChat(mode) THEN "cut" ELSE "protect"
  BY <1>11 DEF at
<1>14. RestoresCode(mode) =>
         /\ DOMAIN rewind'.plan = Planned(id)
         /\ \A k \in Planned(id) : rewind'.plan[k] = records[Governing(k, id)].saved[k]
  BY <1>3, <1>11
<1>15. QED
  BY <1>4, <1>7, <1>9, <1>11, <1>12, <1>13, <1>14

\* A rewind that has gone on.
SameRewind(new, old) ==
  /\ new.id = old.id /\ new.mode = old.mode /\ new.was = old.was
  /\ new.kept = old.kept /\ new.hidden = old.hidden

\* The rewind goes on to write the files.
LEMMA RewindGoesOn ==
  ASSUME CpTypes, rewind' = [rewind EXCEPT !.at = "apply"]
  PROVE  /\ rewind' \in Rewinds /\ SameRewind(rewind', rewind)
         /\ rewind'.at = "apply" /\ rewind'.plan = rewind.plan /\ rewind'.report = rewind.report
BY DEF CpTypes, Rewinds, SameRewind

\* Writing one file back takes it from the plan.
LEMMA ApplyFileIs ==
  ASSUME CpTypes, NEW k \in CpFiles, ApplyFile(k)
  PROVE  /\ rewind' \in Rewinds /\ SameRewind(rewind', rewind)
         /\ rewind.at = "apply" /\ rewind'.at = "apply" /\ k \in DOMAIN rewind.plan
         /\ DOMAIN rewind'.plan = DOMAIN rewind.plan \ {k}
         /\ \A j \in DOMAIN rewind'.plan : rewind'.plan[j] = rewind.plan[j]
         /\ \/ /\ files' = [files EXCEPT ![k] = rewind.plan[k]]
               /\ rewind'.report = IF k \in rewind.kept THEN rewind.report \cup {k}
                                   ELSE rewind.report
            \/ files' = files /\ rewind'.report = rewind.report \cup {k}
         /\ rewind.plan[k] \in Contents
<1> DEFINE plan == Without(rewind.plan, {k})
           report == IF k \in rewind.kept THEN rewind.report \cup {k} ELSE rewind.report
<1>1. rewind \in Rewinds /\ rewind.at = "apply" /\ k \in DOMAIN rewind.plan
  BY DEF CpTypes, ApplyFile
<1>2. PICK K \in SUBSET CpFiles : rewind.plan \in [K -> Contents]
  BY <1>1 DEF Rewinds, Plans
<1>3. /\ DOMAIN plan = DOMAIN rewind.plan \ {k}
      /\ \A j \in DOMAIN plan : plan[j] = rewind.plan[j]
  BY DEF Without
<1>4. plan \in Plans
  <2>1. plan \in [K \ {k} -> Contents]
    BY <1>2 DEF Without
  <2>2. QED
    BY <1>2, <2>1 DEF Plans
<1> HIDE DEF plan
<1>5. \/ /\ files' = [files EXCEPT ![k] = rewind.plan[k]]
         /\ rewind' = [rewind EXCEPT !.plan = plan, !.report = report]
      \/ /\ files' = files
         /\ rewind' = [rewind EXCEPT !.plan = plan, !.report = rewind.report \cup {k}]
  BY DEF ApplyFile, plan
<1>6. ASSUME NEW new \in SUBSET CpFiles,
             rewind' = [rewind EXCEPT !.plan = plan, !.report = new]
      PROVE  /\ rewind' \in Rewinds /\ SameRewind(rewind', rewind)
             /\ rewind'.at = "apply" /\ rewind'.plan = plan /\ rewind'.report = new
  BY <1>1, <1>4, <1>6 DEF Rewinds, SameRewind
<1>7. report \in SUBSET CpFiles /\ rewind.report \cup {k} \in SUBSET CpFiles
  BY <1>1 DEF Rewinds
<1> HIDE DEF report
<1>8. /\ rewind' \in Rewinds /\ SameRewind(rewind', rewind)
      /\ rewind'.at = "apply" /\ rewind'.plan = plan
      /\ \/ files' = [files EXCEPT ![k] = rewind.plan[k]] /\ rewind'.report = report
         \/ files' = files /\ rewind'.report = rewind.report \cup {k}
  BY <1>5, <1>6, <1>7
<1>9. QED
  BY <1>1, <1>2, <1>3, <1>8 DEF report

\* The end of a turn adds the answer, if there is one, to the chat and to its file.
LEMMA EndTurnChats ==
  ASSUME CpTypes, EndTurn
  PROVE  /\ {chat', savedChat'} \subseteq Seq(Int)
         /\ \E x \in Int : \/ chat' = chat /\ savedChat' = savedChat
                           \/ chat' = Append(chat, x) /\ savedChat' = Append(savedChat, x)
<1>1. cpCounts.turns \in Nat
  BY DEF CpTypes
<1> DEFINE answer == -cpCounts.turns
<1>2. answer \in Int
  BY <1>1
<1>3. chat \in Seq(Int) /\ savedChat \in Seq(Int)
  BY DEF CpTypes
<1>4. PICK said \in {<<>>, <<answer>>} : chat' = chat \o said /\ savedChat' = savedChat \o said
  BY DEF EndTurn
<1> HIDE DEF answer
<1>5. \A s \in Seq(Int) : s \o <<>> = s /\ s \o <<answer>> = Append(s, answer)
  BY <1>2, ConcatEmptySeq, AppendIsConcat
<1>6. Append(chat, answer) \in Seq(Int) /\ Append(savedChat, answer) \in Seq(Int)
  BY <1>2, <1>3, LastAdded
<1>7. CASE said = <<>>
  <2>1. chat' = chat /\ savedChat' = savedChat
    BY <1>3, <1>4, <1>5, <1>7
  <2>2. 0 \in Int
    OBVIOUS
  <2>3. QED
    BY <1>3, <2>1, <2>2, Zenon
<1>8. CASE said = <<answer>>
  BY <1>2, <1>3, <1>4, <1>5, <1>6, <1>8
<1>9. QED
  BY <1>4, <1>7, <1>8

\* A compaction makes a chat.
LEMMA CompactedIs ==
  ASSUME CpTypes
  PROVE  \A new \in Compacted : new \in Seq(Int)
<1> SUFFICES ASSUME NEW new \in Compacted PROVE new \in Seq(Int)
  OBVIOUS
<1>1. chat \in Seq(Int) /\ Len(chat) \in Nat
  BY LenProperties DEF CpTypes
<1>2. SummaryLen \in Nat
  BY DEF SummaryLen
<1>3. PICK b \in (SummaryLen + 1)..(Len(chat) - 1) :
        new = <<Summary>> \o SubSeq(chat, b + 1, Len(chat))
  BY DEF Compacted
<1> DEFINE rest == SubSeq(chat, b + 1, Len(chat))
<1>4. /\ b + 1 \in Int /\ Len(chat) \in Int
      /\ \A i \in (b + 1)..Len(chat) : chat[i] \in Int
  <2>1. b \in Nat
    BY <1>1, <1>2
  <2>2. \A i \in (b + 1)..Len(chat) : i \in 1..Len(chat)
    BY <1>1, <2>1
  <2>3. QED
    BY <1>1, <2>1, <2>2, ElementOfSeq
<1>5. rest \in Seq(Int)
  BY <1>4, SubSeqProperties
<1>6. <<Summary>> \in Seq(Int)
  BY DEF Summary
<1> HIDE DEF rest
<1>7. <<Summary>> \o rest \in Seq(Int)
  BY <1>5, <1>6, ConcatProperties
<1>8. QED
  BY <1>3, <1>7 DEF rest

\* Every step keeps the types.
LEMMA TypesStep ==
  ASSUME CpTypes, TurnFits, CpNext \/ UNCHANGED cpVars
  PROVE  CpTypes'
<1> DEFINE Counts == [turns : Nat, changes : 0..CpChanges, edits : Nat, faults : Nat]
<1>1. StoreOK /\ RestOK
  BY TypesAre
<1>2. active # 0 => active \in DOMAIN records
  BY DEF TurnFits
<1>3. baseline # NoBaseline => baseline.id \in DOMAIN records
  BY DEF TurnFits
<1>4. cpCounts' = cpCounts => cpCounts' \in Counts
  BY <1>1 DEF RestOK
<1>5. CASE BeginTurn
  <2>1. cpCounts' \in Counts
    BY <1>5, CountsAre DEF BeginTurn
  <2>2. strays' \in BOOLEAN
    BY <1>5 DEF BeginTurn
  <2>3. RestOK'
    BY <1>1, <1>5, <2>1, <2>2 DEF RestOK, BeginTurn, chatVars
  <2>4. QED
    BY <1>5, <2>3, StoreAfterBeginTurn, TypesAre, PTL
<1>6. CASE PushPrompt
  <2>1. {chat', savedChat'} \subseteq Seq(Int)
    <3>1. Append(chat, cpCounts.turns) \in Seq(Int) /\ Append(savedChat, cpCounts.turns) \in Seq(Int)
      BY <1>1, LastAdded DEF RestOK
    <3>2. QED
      BY <1>1, <1>6, <3>1 DEF PushPrompt, RestOK
  <2>2. /\ records' = records /\ disk' = disk /\ nextCp' = nextCp /\ active' \in {active, 0}
        /\ baseline' = baseline /\ diskBaseline' = diskBaseline
    BY <1>6 DEF PushPrompt
  <2>3. StoreOK'
    BY <1>1, <2>2 DEF StoreOK, TableOK
  <2>4. cpCounts' \in Counts
    BY <1>6, CountsStay DEF PushPrompt
  <2>5. turn' \in {"running", "ended"}
    BY <1>6 DEF PushPrompt
  <2>6. RestOK'
    BY <1>1, <1>6, <2>1, <2>4, <2>5 DEF RestOK, PushPrompt
  <2>7. QED
    BY <2>3, <2>6, TypesAre, PTL
<1>7. CASE EndTurn
  <2>1. {chat', savedChat'} \subseteq Seq(Int)
    BY <1>7, EndTurnChats
  <2>2. cpCounts' \in Counts
    BY <1>7, CountsStay DEF EndTurn
  <2>3. gaps' \subseteq CpFiles
    BY <1>1, <1>7 DEF EndTurn, FinishDone, FinishFailed, ChangedSince, RestOK
  <2>4. RestOK'
    BY <1>1, <1>7, <2>1, <2>2, <2>3 DEF RestOK, EndTurn
  <2>5. QED
    BY <1>3, <1>7, <2>4, StoreAfterEndTurn, TypesAre, PTL
<1>21. CASE SaveTurn
  <2>1. Persists \/ KeepsSaved
    BY <1>21 DEF SaveTurn, PersistFails
  <2>2. {chat', savedChat'} \subseteq Seq(Int) /\ {compactions', savedCompactions'} \subseteq Nat
    <3>1. chat' \in Seq(Int) /\ compactions' \in Nat
      BY <1>1, <1>21 DEF SaveTurn, RestOK
    <3>2. QED
      BY <2>1, <3>1, SavedStays
  <2>3. cpCounts' \in Counts
    <3>1. NoneFailed \/ Failed
      BY <1>21 DEF SaveTurn, PersistFails
    <3>2. QED
      BY <3>1, CountsStay
  <2>4. StoreOK'
    BY <1>21, StoreStays DEF SaveTurn
  <2>5. RestOK'
    BY <1>1, <1>21, <2>2, <2>3 DEF RestOK, SaveTurn
  <2>6. QED
    BY <2>4, <2>5, TypesAre, PTL
<1>8. CASE CompactChat
  <2>1. chat' \in Seq(Int) /\ compactions' \in Nat
    <3>1. chat' \in Seq(Int)
      BY <1>8, CompactedIs DEF CompactChat
    <3>2. QED
      BY <1>1, <1>8, <3>1 DEF CompactChat, RestOK
  <2>2. Persists \/ KeepsSaved
    BY <1>8 DEF CompactChat
  <2>3. {chat', savedChat'} \subseteq Seq(Int) /\ {compactions', savedCompactions'} \subseteq Nat
    BY <2>1, <2>2, SavedStays
  <2>4. cpCounts' \in Counts
    BY <1>8, CountsAre DEF CompactChat
  <2>5. turn' \in {turn, "failed"}
    BY <1>8 DEF CompactChat
  <2>6. StoreOK'
    BY <1>8, StoreStays DEF CompactChat
  <2>7. RestOK'
    BY <1>1, <1>8, <2>3, <2>4, <2>5 DEF RestOK, CompactChat
  <2>8. QED
    BY <2>6, <2>7, TypesAre, PTL
<1>9. ASSUME NEW k \in CpFiles, Changing(k, {0, NewContent}) \/ Changing(k, {NewContent})
      PROVE  files' \in [CpFiles -> Contents]
  <2>1. NewContent \in Contents /\ 0 \in Contents
    BY <1>1, <1>9, CpBoundsAssumption DEF CpBoundsAssumption, RestOK, Changing, NewContent, Contents
  <2>2. QED
    BY <1>1, <1>9, <2>1 DEF Changing, RestOK
<1>10. ASSUME NEW k \in CpFiles, ChangeFile(k) PROVE CpTypes'
  <2>1. cpCounts' \in Counts
    <3>1. cpCounts.changes < CpChanges
      BY <1>10 DEF ChangeFile, Changing
    <3>2. \/ cpCounts' = Counted("changes")
          \/ cpCounts' = [Counted("changes") EXCEPT !.faults = @ + 1]
      BY <1>10 DEF ChangeFile
    <3>3. QED
      BY <3>1, <3>2, CountsAre
  <2>2. gaps' \subseteq CpFiles
    BY <1>1, <1>10 DEF ChangeFile, RestOK
  <2>3. files' \in [CpFiles -> Contents]
    BY <1>9, <1>10 DEF ChangeFile
  <2>4. RestOK'
    BY <1>1, <1>10, <2>1, <2>2, <2>3 DEF RestOK, ChangeFile, Changing, chatVars
  <2>5. QED
    BY <1>2, <1>10, <2>4, StoreAfterChangeFile, TypesAre, PTL
<1>11. ASSUME NEW k \in CpFiles, RunShell(k) PROVE CpTypes'
  <2>1. cpCounts' \in Counts
    <3>1. cpCounts.changes < CpChanges
      BY <1>11 DEF RunShell, Changing
    <3>2. \/ cpCounts' = Counted("changes")
          \/ cpCounts' = [Counted("changes") EXCEPT !.faults = @ + 1]
      BY <1>11 DEF RunShell
    <3>3. QED
      BY <3>1, <3>2, CountsAre
  <2>2. gaps' \subseteq CpFiles
    BY <1>1, <1>11 DEF RunShell, RestOK
  <2>3. files' \in [CpFiles -> Contents]
    BY <1>9, <1>11 DEF RunShell
  <2>4. RestOK'
    BY <1>1, <1>11, <2>1, <2>2, <2>3 DEF RestOK, RunShell, Changing, chatVars
  <2>5. QED
    BY <1>11, <2>4, StoreAfterRunShell, TypesAre, PTL
<1>12. ASSUME NEW k \in CpFiles, ApplyFile(k) PROVE CpTypes'
  <2>1. /\ rewind' \in Rewinds /\ rewind'.was = rewind.was
        /\ rewind.at = "apply" /\ rewind.plan[k] \in Contents
        /\ files' = [files EXCEPT ![k] = rewind.plan[k]] \/ files' = files
    BY <1>12, ApplyFileIs DEF SameRewind
  <2>2. cpCounts' \in Counts
    BY <1>12, CountsStay DEF ApplyFile
  <2>3. StoreOK'
    BY <1>12, StoreStays DEF ApplyFile
  <2>4. rewind'.was \in CpRecords
    BY <1>1, <2>1 DEF RestOK
  <2>5. files' \in [CpFiles -> Contents]
    BY <1>1, <2>1 DEF RestOK
  <2>6. RestOK'
    BY <1>1, <1>12, <2>1, <2>2, <2>4, <2>5 DEF RestOK, ApplyFile, chatVars
  <2>7. QED
    BY <2>3, <2>6, TypesAre, PTL
<1>13. ASSUME NEW id \in 1..(nextCp - 1), NEW mode \in {"both", "chat", "code"},
              BeginRewind(id, mode)
       PROVE  CpTypes'
  <2>1. rewind' \in Rewinds /\ rewind'.was \in CpRecords
    BY <1>13, RewindBegins
  <2>2. cpCounts' \in Counts
    BY <1>13, CountsAre DEF BeginRewind
  <2>3. StoreOK'
    BY <1>13, StoreStays DEF BeginRewind
  <2>4. RestOK'
    BY <1>1, <1>13, <2>1, <2>2 DEF RestOK, BeginRewind, chatVars
  <2>5. QED
    BY <2>3, <2>4, TypesAre, PTL
<1>14. CASE CutChat
  <2> DEFINE kept == SubSeq(chat, 1, rewind.was.cut)
  <2>1. kept \in Seq(Int)
    <3>1. rewind.was.cut \in Nat
      BY <1>1, <1>14 DEF RestOK, CutChat, CpRecords
    <3>2. rewind.was.cut <= Len(chat) /\ Len(chat) \in Nat /\ chat \in Seq(Int)
      BY <1>1, <1>14, LenProperties DEF RestOK, CutChat, TurnFits, ChatAllows
    <3>3. 1 \in 1..(Len(chat) + 1) /\ rewind.was.cut \in 0..Len(chat)
      BY <3>1, <3>2
    <3> HIDE DEF kept
    <3>4. kept \in Seq(Int)
      BY <3>2, <3>3, SubSeqProperties DEF kept
    <3>5. QED
      BY <3>4
  <2>2. /\ chat' \in {chat, kept} /\ savedChat' \in {savedChat, chat', kept}
        /\ savedCompactions' \in {savedCompactions, compactions} /\ compactions' = compactions
        /\ rewind' \in {[rewind EXCEPT !.at = "apply"], NoRewind}
        /\ strays' \in BOOLEAN
    BY <1>1, <1>14 DEF CutChat, RestOK, Persists, KeepsSaved
  <2>3. rewind' \in Rewinds /\ (rewind'.at # "none" => rewind'.was \in CpRecords)
    <3>1. CASE rewind' = NoRewind
      BY <3>1, NoRewindIs
    <3>2. CASE rewind' = [rewind EXCEPT !.at = "apply"]
      BY <1>1, <1>14, <3>2, RewindGoesOn DEF RestOK, SameRewind, CutChat
    <3>3. QED
      BY <2>2, <3>1, <3>2
  <2>4. cpCounts' \in Counts
    BY <1>14, CountsStay DEF CutChat
  <2>5. StoreOK'
    BY <1>14, StoreStays DEF CutChat
  <2> HIDE DEF kept
  <2>6. RestOK'
    BY <1>1, <1>14, <2>1, <2>2, <2>3, <2>4 DEF RestOK, CutChat
  <2>7. QED
    BY <2>5, <2>6, TypesAre, PTL
<1>15. CASE ProtectFiles
  <2>1. rewind' \in {[rewind EXCEPT !.at = "apply"], NoRewind} /\ strays' \in BOOLEAN
    BY <1>1, <1>15 DEF ProtectFiles, RestOK
  <2>2. rewind' \in Rewinds /\ (rewind'.at # "none" => rewind'.was \in CpRecords)
    <3>1. CASE rewind' = NoRewind
      BY <3>1, NoRewindIs
    <3>2. CASE rewind' = [rewind EXCEPT !.at = "apply"]
      BY <1>1, <1>15, <3>2, RewindGoesOn DEF RestOK, SameRewind, ProtectFiles
    <3>3. QED
      BY <2>1, <3>1, <3>2
  <2>3. cpCounts' \in Counts
    BY <1>15, CountsStay DEF ProtectFiles
  <2>4. RestOK'
    BY <1>1, <1>15, <2>1, <2>2, <2>3 DEF RestOK, ProtectFiles, chatVars
  <2>5. QED
    BY <1>15, <2>4, StoreAfterProtectFiles, TypesAre, PTL
<1>16. CASE RemoveRecord
  <2>1. rewind' \in {rewind, NoRewind} /\ strays' \in BOOLEAN
    BY <1>1, <1>16 DEF RemoveRecord, RestOK
  <2>2. rewind' \in Rewinds /\ (rewind'.at # "none" => rewind'.was \in CpRecords)
    BY <1>1, <2>1, NoRewindIs DEF RestOK
  <2>3. cpCounts' \in Counts
    BY <1>16, CountsStay DEF RemoveRecord
  <2>4. gaps' \subseteq CpFiles
    BY <1>1, <1>16 DEF RemoveRecord, RestOK, ChangedAfter
  <2>5. RestOK'
    BY <1>1, <1>16, <2>1, <2>2, <2>3, <2>4 DEF RestOK, RemoveRecord, chatVars
  <2>6. QED
    BY <1>16, <2>5, StoreAfterRemoveRecord, TypesAre, PTL
<1>17. CASE ReportRewind
  <2>1. StoreOK'
    BY <1>17, StoreStays DEF ReportRewind
  <2>2. {chat', savedChat'} \subseteq Seq(Int) /\ {compactions', savedCompactions'} \subseteq Nat
    <3>1. /\ Persists \/ KeepsSaved
          /\ chat' \in Seq(Int) /\ compactions' \in Nat
      BY <1>1, <1>17 DEF ReportRewind, PersistFails, RestOK
    <3>2. QED
      BY <3>1, SavedStays
  <2>3. cpCounts' \in Counts
    <3>1. NoneFailed \/ Failed
      BY <1>17 DEF ReportRewind, PersistFails
    <3>2. QED
      BY <3>1, CountsStay
  <2>4. RestOK'
    BY <1>1, <1>17, <2>2, <2>3, NoRewindIs DEF RestOK, ReportRewind
  <2>5. QED
    BY <2>1, <2>4, TypesAre, PTL
<1>18. CASE CpCrash
  <2>1. cpCounts' \in Counts
    BY <1>18, CountsStay DEF CpCrash
  <2>2. RestOK'
    BY <1>1, <1>18, <2>1, NoRewindIs DEF RestOK, CpCrash, Reloads
  <2>3. QED
    BY <1>18, <2>2, StoreAfterCrash, TypesAre, PTL
<1>19. CASE CpRests \/ UNCHANGED cpVars
  <2>1. UNCHANGED cpVars
    BY <1>19 DEF CpRests
  <2>2. StoreOK'
    BY <2>1, StoreStays DEF cpVars
  <2>3. RestOK'
    BY <1>1, <2>1 DEF RestOK, cpVars, chatVars
  <2>4. QED
    BY <2>2, <2>3, TypesAre, PTL
<1>20. QED
  BY <1>5, <1>6, <1>7, <1>8, <1>10, <1>11, <1>12, <1>13, <1>14, <1>15, <1>16, <1>17, <1>18,
     <1>19, <1>21 DEF CpNext

-----------------------------------------------------------------------------
(* The limit on the records, and the turn *)

\* The limit takes the oldest records: with one all those before it, and never the newest.
LEMMA OldestAre ==
  ASSUME NEW table, IsFiniteSet(DOMAIN table), DOMAIN table \subseteq Nat
  PROVE  /\ Oldest(table) \subseteq DOMAIN table
         /\ \A i \in Oldest(table), j \in DOMAIN table : j < i => j \in Oldest(table)
         /\ \A m \in DOMAIN table : (\A j \in DOMAIN table : j <= m) => m \notin Oldest(table)
<1> DEFINE D == DOMAIN table
           Before(i) == {j \in D : j < i}
           excess == Cardinality(D) - CpLimit
<1>1. Oldest(table) = {i \in D : Cardinality(Before(i)) < excess}
  BY DEF Oldest
<1>2. Cardinality(D) \in Nat /\ CpLimit \in Nat /\ CpLimit >= 1
  BY FS_CardinalityType, CpBoundsAssumption DEF CpBoundsAssumption
<1>3. \A i \in D : IsFiniteSet(Before(i)) /\ Cardinality(Before(i)) \in Nat
  <2> SUFFICES ASSUME NEW i \in D
      PROVE  IsFiniteSet(Before(i)) /\ Cardinality(Before(i)) \in Nat
    OBVIOUS
  <2>1. Before(i) \subseteq D
    OBVIOUS
  <2> HIDE DEF Before
  <2>2. QED
    BY <2>1, FS_Subset, FS_CardinalityType
<1>4. ASSUME NEW i \in Oldest(table), NEW j \in D, j < i
      PROVE  j \in Oldest(table)
  <2>1. Before(j) \subseteq Before(i)
    BY <1>4, <1>1
  <2>2. i \in D /\ Cardinality(Before(i)) < excess
    BY <1>1
  <2> HIDE DEF Before
  <2>3. Cardinality(Before(j)) <= Cardinality(Before(i))
    BY <1>3, <2>1, <2>2, FS_Subset
  <2>4. Cardinality(Before(j)) < excess
    BY <1>2, <1>3, <2>2, <2>3
  <2>5. QED
    BY <1>1, <2>4 DEF Before
<1>5. ASSUME NEW m \in D, \A j \in D : j <= m, m \in Oldest(table)
      PROVE  FALSE
  <2>1. Before(m) = D \ {m}
    <3>1. \A j \in D : j \in Nat /\ (j < m <=> j # m)
      BY <1>5
    <3>2. QED
      BY <3>1
  <2>2. Cardinality(Before(m)) < excess
    BY <1>1, <1>5
  <2> HIDE DEF Before
  <2>3. Cardinality(D \ {m}) = Cardinality(D) - 1
    BY FS_RemoveElement
  <2>4. QED
    BY <1>2, <2>1, <2>2, <2>3
<1>6. Oldest(table) \subseteq D
  BY <1>1
<1>7. QED
  BY <1>4, <1>5, <1>6

\* There are finitely many records, each with a number.
LEMMA FewRecords ==
  ASSUME CpTypes
  PROVE  /\ IsFiniteSet(DOMAIN records) /\ DOMAIN records \subseteq Nat
         /\ \A i \in DOMAIN records : i < nextCp
<1>1. DOMAIN records \subseteq 1..(nextCp - 1) /\ nextCp \in Nat
  BY DEF CpTypes, TableOK
<1>2. IsFiniteSet(1..(nextCp - 1))
  BY <1>1, FS_Interval
<1>3. QED
  BY <1>1, <1>2, FS_Subset

\* What begin_turn does to the records: the new one is put in, unless a write failed, and the
\* oldest are removed, from the folder too unless that failed.
LEMMA BeginTurnIs ==
  ASSUME CpTypes, BeginTurn
  PROVE  LET record == NewRecord(NothingSaved) IN
         \/ /\ records' = records /\ disk' \in {disk, Put(disk, nextCp, record)} /\ active' = 0
            /\ disk' # disk => strays'
         \/ \E ids \in SUBSET DOMAIN records :
              /\ \A i \in ids, j \in DOMAIN records : j < i => j \in ids
              /\ records' = Without(Put(records, nextCp, record), ids)
              /\ disk' \in {Without(Put(disk, nextCp, record), ids), Put(disk, nextCp, record)}
              /\ active' = nextCp
<1> DEFINE record == NewRecord(NothingSaved)
           put == Put(records, nextCp, record)
           pruned == Oldest(put)
<1>1. /\ IsFiniteSet(DOMAIN records) /\ DOMAIN records \subseteq Nat /\ nextCp \in Nat
      /\ \A i \in DOMAIN records : i < nextCp
  BY FewRecords DEF CpTypes
<1>2. DOMAIN put = DOMAIN records \cup {nextCp}
  BY DEF Put
<1>3. IsFiniteSet(DOMAIN put) /\ DOMAIN put \subseteq Nat
  BY <1>1, <1>2, FS_AddElement
<1> HIDE DEF put
<1>4. /\ pruned \subseteq DOMAIN put
      /\ \A i \in pruned, j \in DOMAIN put : j < i => j \in pruned
      /\ \A m \in DOMAIN put : (\A j \in DOMAIN put : j <= m) => m \notin pruned
  BY <1>3, OldestAre
<1> HIDE DEF pruned
<1>5. pruned \subseteq DOMAIN records
  BY <1>1, <1>2, <1>4
<1>6. \A i \in pruned, j \in DOMAIN records : j < i => j \in pruned
  BY <1>2, <1>4
<1>7. CASE records' = Without(put, pruned) /\ disk' = Without(Put(disk, nextCp, record), pruned)
           /\ active' = nextCp
  BY <1>5, <1>6, <1>7 DEF put
<1>8. CASE records' = records /\ active' = 0
  <2>1. nextCp # 0
    BY DEF CpTypes
  <2>2. disk' \in {disk, Put(disk, nextCp, record)}
    BY <1>8, <2>1 DEF BeginTurn
  <2>3. disk' # disk => strays'
    BY <1>8, Zenon DEF BeginTurn
  <2>4. QED
    BY <1>8, <2>2, <2>3
<1>9. CASE /\ pruned # {} /\ records' = Without(put, {Sets!Min(pruned)})
           /\ disk' = Put(disk, nextCp, record) /\ active' = nextCp
  <2> DEFINE first == Sets!Min(pruned)
  <2>1. first \in pruned /\ \A n \in pruned : first <= n
    <3>1. pruned \in SUBSET Nat
      BY <1>1, <1>5
    <3>2. QED
      BY <1>9, <3>1, LowestIs
  <2> HIDE DEF first
  <2>2. \A i \in {first}, j \in DOMAIN records : j < i => j \in {first}
    <3>1. ASSUME NEW j \in DOMAIN records, j < first PROVE FALSE
      <4>1. j \in pruned
        BY <1>6, <2>1, <3>1
      <4>2. QED
        BY <1>1, <1>5, <2>1, <3>1, <4>1
    <3>2. QED
      BY <3>1
  <2>3. QED
    BY <1>5, <1>9, <2>1, <2>2 DEF first, put
<1>10. QED
  BY <1>7, <1>8, <1>9 DEF BeginTurn, put, pruned

\* Every step keeps the turn, the open checkpoint, the scan and the rewind in agreement.
LEMMA TurnFitsStep ==
  ASSUME CpTypes, TurnFits, CpNext \/ UNCHANGED cpVars
  PROVE  TurnFits'
<1>1. /\ turn \in {"none", "ended"} => active = 0
      /\ turn \notin {"running", "failed"} => baseline = NoBaseline
      /\ rewind.at # "none" => turn = "none"
  BY DEF TurnFits
<1>2. NoRewind.at = "none"
  BY NoRewindIs
<1>3. nextCp \in Nat \ {0} /\ \A i \in DOMAIN records : i < nextCp /\ i # 0
  BY FewRecords DEF CpTypes, TableOK
<1>4. CASE BeginTurn
  <2> DEFINE record == NewRecord(NothingSaved)
  <2>1. /\ turn' = "opened" /\ rewind' = rewind /\ rewind.at = "none" /\ nextCp' = nextCp + 1
        /\ baseline' = baseline /\ baseline = NoBaseline
    BY <1>1, <1>4 DEF BeginTurn, Idle
  <2>2. record.shell = {}
    BY SavedAtFirst, NewRecordIs
  <2> HIDE DEF record
  <2>3. \/ active' = 0
        \/ \E ids \in SUBSET DOMAIN records :
             records' = Without(Put(records, nextCp, record), ids) /\ active' = nextCp
    BY <1>4, BeginTurnIs DEF record
  <2>4. active' # 0 => /\ active' \in DOMAIN records' /\ active' = nextCp' - 1
                       /\ records'[active'].shell = {}
    <3>1. CASE active' = 0
      BY <3>1
    <3>2. ASSUME NEW ids \in SUBSET DOMAIN records,
                 records' = Without(Put(records, nextCp, record), ids), active' = nextCp
          PROVE  /\ active' \in DOMAIN records' /\ active' = nextCp' - 1
                 /\ records'[active'].shell = {}
      <4>1. nextCp \notin ids
        BY <1>3
      <4>2. nextCp \in DOMAIN records' /\ records'[nextCp] = record
        BY <3>2, <4>1 DEF Put, Without
      <4>3. QED
        BY <1>3, <2>1, <2>2, <3>2, <4>2
    <3>3. QED
      BY <2>3, <3>1, <3>2
  <2>5. QED
    BY <2>1, <2>4 DEF TurnFits
<1>5. CASE PushPrompt
  <2>1. /\ rewind' = rewind /\ rewind.at = "none" /\ records' = records /\ nextCp' = nextCp
        /\ baseline' = baseline /\ baseline = NoBaseline
        /\ \/ turn' = "running" /\ active' = active
           \/ active' = 0
    BY <1>1, <1>5 DEF PushPrompt, TurnFits
  <2>2. QED
    BY <2>1 DEF TurnFits
<1>20. CASE SaveTurn
  <2>1. /\ rewind' = rewind /\ rewind.at = "none" /\ active' = 0 /\ baseline' = NoBaseline
    BY <1>1, <1>20 DEF SaveTurn, storeVars
  <2>2. QED
    BY <2>1 DEF TurnFits
<1>6. CASE EndTurn
  <2>1. /\ active' = 0 /\ baseline' = NoBaseline /\ rewind' = rewind /\ rewind.at = "none"
    BY <1>6 DEF EndTurn, FinishDone, FinishFailed, TurnFits
  <2>2. QED
    BY <2>1 DEF TurnFits
<1>7. CASE CompactChat
  <2>1. UNCHANGED storeVars /\ rewind' = rewind /\ rewind.at = "none"
    BY <1>1, <1>7 DEF CompactChat, Idle
  <2>2. turn' = turn \/ (turn = "running" /\ turn' = "failed")
    BY <1>7 DEF CompactChat
  <2>3. QED
    BY <2>1, <2>2 DEF TurnFits, storeVars
<1>8. ASSUME NEW k \in CpFiles, ChangeFile(k) PROVE TurnFits'
  <2>1. /\ turn = "running" /\ turn' = turn /\ rewind' = rewind /\ rewind.at = "none"
        /\ active' = active /\ nextCp' = nextCp
        /\ baseline' = baseline /\ diskBaseline' = diskBaseline
    BY <1>8 DEF ChangeFile, Changing, TurnFits
  <2>2. active # 0 => records' \in {records, Saving(k)}
    BY <1>8 DEF ChangeFile
  <2>3. active # 0 => /\ active \in DOMAIN records' /\ records'[active].shell = {}
    <3>1. CASE active # 0 /\ records' = Saving(k)
      BY <3>1, SavingIs DEF TurnFits
    <3>2. CASE records' = records
      BY <3>2 DEF TurnFits
    <3>3. QED
      BY <2>2, <3>1, <3>2
  <2>4. QED
    BY <2>1, <2>3 DEF TurnFits
<1>9. ASSUME NEW k \in CpFiles, RunShell(k) PROVE TurnFits'
  <2>1. /\ turn = "running" /\ turn' = turn /\ rewind' = rewind /\ rewind.at = "none"
        /\ active' = active /\ nextCp' = nextCp /\ records' = records
    BY <1>9 DEF RunShell, Changing, TurnFits
  <2>2. baseline' # NoBaseline => baseline'.id = active /\ active # 0 /\ diskBaseline' = baseline'
    <3>1. CASE active # 0 /\ diskBaseline' = baseline'
               /\ baseline' = IF baseline = NoBaseline THEN [id |-> active, scan |-> files]
                              ELSE baseline
      <4>1. baseline # NoBaseline => baseline.id = active
        BY DEF TurnFits
      <4>2. baseline'.id = active
        BY <3>1, <4>1
      <4>3. QED
        BY <3>1, <4>2
    <3>2. CASE baseline' = baseline /\ diskBaseline' = diskBaseline
      BY <3>2 DEF TurnFits
    <3>3. QED
      BY <1>9, <3>1, <3>2 DEF RunShell
  <2>3. QED
    BY <2>1, <2>2 DEF TurnFits
<1>10. ASSUME UNCHANGED storeVars, UNCHANGED turn, rewind.at # "none", rewind'.at \in {"none", "apply"}
       PROVE  TurnFits'
  BY <1>1, <1>10 DEF TurnFits, storeVars
<1>11. ASSUME NEW k \in CpFiles, ApplyFile(k) PROVE TurnFits'
  <2>1. rewind.at = "apply" /\ rewind'.at = "apply"
    BY <1>11, ApplyFileIs
  <2>2. QED
    BY <1>10, <1>11, <2>1 DEF ApplyFile
<1>12. ASSUME NEW id \in 1..(nextCp - 1), NEW mode \in {"both", "chat", "code"},
              BeginRewind(id, mode)
       PROVE  TurnFits'
  <2>1. /\ rewind'.was = records[id] /\ rewind'.mode = mode
        /\ rewind'.at = IF RestoresChat(mode) THEN "cut" ELSE "protect"
    BY <1>12, RewindBegins
  <2>2. /\ turn' = turn /\ turn = "none" /\ UNCHANGED storeVars /\ UNCHANGED chatVars
        /\ RestoresChat(mode) => ChatAllows(records[id])
    BY <1>12 DEF BeginRewind, Idle
  <2>3. ChatAllows(rewind.was)' <=> ChatAllows(records[id])
    BY <2>1, <2>2 DEF ChatAllows, chatVars
  <2>4. ~RestoresChat(mode) => mode = "code"
    BY DEF RestoresChat
  <2>5. QED
    BY <1>1, <2>1, <2>2, <2>3, <2>4 DEF TurnFits, storeVars
<1>13. CASE CutChat
  <2>1. rewind'.at \in {"none", "apply"}
    BY <1>2, <1>13, RewindGoesOn DEF CutChat
  <2>2. QED
    BY <1>10, <1>13, <2>1 DEF CutChat
<1>14. CASE ProtectFiles
  <2>1. rewind'.at \in {"none", "apply"}
    BY <1>2, <1>14, RewindGoesOn DEF ProtectFiles
  <2>2. turn' = "none" /\ active' = 0 /\ baseline' = NoBaseline
    BY <1>1, <1>14 DEF ProtectFiles
  <2>3. QED
    BY <2>1, <2>2 DEF TurnFits
<1>15. CASE RemoveRecord
  <2>1. rewind'.at \in {"none", "apply"}
    BY <1>2, <1>15 DEF RemoveRecord
  <2>2. turn' = "none" /\ active' = 0 /\ baseline' = NoBaseline
    BY <1>1, <1>15 DEF RemoveRecord
  <2>3. QED
    BY <2>1, <2>2 DEF TurnFits
<1>16. CASE ReportRewind
  BY <1>2, <1>10, <1>16 DEF ReportRewind, RewindDone
<1>17. CASE CpCrash
  BY <1>2, <1>17 DEF CpCrash, TurnFits
<1>18. CASE CpRests \/ UNCHANGED cpVars
  BY <1>18 DEF CpRests, cpVars, storeVars, chatVars, TurnFits, ChatAllows
<1>19. QED
  BY <1>4, <1>5, <1>6, <1>7, <1>8, <1>9, <1>11, <1>12, <1>13, <1>14, <1>15, <1>16, <1>17,
     <1>18, <1>20 DEF CpNext

CpInvTypes == CpTypes /\ TurnFits

\* The types and what they rest on hold at the start.
LEMMA CpTypesInit ==
  ASSUME CpInit
  PROVE  CpInvTypes
<1>1. CpTypes
  BY TypesInit, CpBoundsAssumption
<1>2. TurnFits
  BY NoRewindIs DEF CpInit, TurnFits
<1>3. QED
  BY <1>1, <1>2 DEF CpInvTypes

\* Every step keeps them.
LEMMA CpTypesStep ==
  ASSUME CpInvTypes, CpNext \/ UNCHANGED cpVars
  PROVE  CpInvTypes'
BY TypesStep, TurnFitsStep DEF CpInvTypes

\* They imply the types the run checks.
LEMMA CpTypesOK ==
  ASSUME CpInvTypes
  PROVE  CpTypeOK
<1>1. CpTypes /\ TurnFits
  BY DEF CpInvTypes
<1>2. files \in [CpFiles -> Contents] /\ gaps \subseteq CpFiles /\ strays \in BOOLEAN
  BY <1>1 DEF CpTypes
<1>3. DOMAIN records \subseteq 1..(nextCp - 1) /\ DOMAIN disk \subseteq 1..(nextCp - 1)
  BY <1>1 DEF CpTypes, TableOK
<1>4. \A id \in DOMAIN records :
        /\ records[id].saved \in [CpFiles -> Contents \cup {NotSaved}]
        /\ records[id].cut = Len(records[id].chat)
        /\ records[id].after \subseteq CpFiles /\ records[id].shell \subseteq CpFiles
  BY <1>1 DEF CpTypes, TableOK, CpRecords
<1>5. active \in {0} \cup DOMAIN records
  BY <1>1 DEF TurnFits
<1>6. baseline.id \in {0} \cup DOMAIN records
  <2>1. NoBaseline.id = 0
    BY DEF NoBaseline
  <2>2. QED
    BY <1>1, <1>5, <2>1 DEF TurnFits
<1>7. turn \in {"none", "opened", "running", "failed", "ended"}
  BY <1>1 DEF CpTypes
<1>8. rewind.at \in {"none", "cut", "protect", "apply"}
  BY <1>1 DEF CpTypes, Rewinds
<1>9. QED
  BY <1>2, <1>3, <1>4, <1>5, <1>6, <1>7, <1>8 DEF CpTypeOK

\* The store, the turn and the rewind always have values of their kind: the open checkpoint
\* and the one a shell baseline is of are records of the store.
THEOREM CheckpointTypes == CpSpec => []CpTypeOK
<1>1. CpInit => CpInvTypes
  BY CpTypesInit
<1>2. CpInvTypes /\ [CpNext]_cpVars => CpInvTypes'
  BY CpTypesStep
<1>3. CpInvTypes => CpTypeOK
  BY CpTypesOK
<1>4. QED
  BY <1>1, <1>2, <1>3, PTL DEF CpSpec

-----------------------------------------------------------------------------
(* The records, their files and the chat *)

\* What a record has of its prompt never changes.
SamePrompt(new, old) ==
  /\ new.cut = old.cut /\ new.compactions = old.compactions
  /\ new.files = old.files /\ new.chat = old.chat

\* The records of the list are in the folder. Those the folder alone has are older: the limit
\* removed them, and their files could not be.
DiskFits ==
  /\ DOMAIN records \subseteq DOMAIN disk
  /\ \A i \in DOMAIN records : SamePrompt(disk[i], records[i])
  /\ ~strays => \A l \in Left : /\ \A i \in DOMAIN records : l < i
                                /\ rewind.at # "none" => l < rewind.id

\* The records a rewind of the chat has made out of date.
Discarding(i) == rewind.at = "apply" /\ RestoresChat(rewind.mode) /\ i >= rewind.id

\* One list of messages begins with the other.
Starts(s, t) == Len(s) <= Len(t) /\ \A i \in 1..Len(s) : s[i] = t[i]

\* The session's file has its messages, or those it had before a compaction that was not
\* saved, and what was added since.
FileFits ==
  /\ savedCompactions <= compactions
  /\ savedCompactions = compactions => savedChat = chat
  /\ savedCompactions # compactions =>
       \A i \in DOMAIN disk : disk[i].compactions = savedCompactions => Starts(disk[i].chat, savedChat)

\* Since the last compaction the chat has only grown from one prompt to the next, but for what
\* a rewind took off and discards the checkpoints of.
ChatFits ==
  ~strays =>
    /\ FileFits
    /\ \A i \in DOMAIN disk : disk[i].compactions <= compactions
    /\ \A i, j \in DOMAIN disk :
         i < j /\ disk[i].compactions = disk[j].compactions => Starts(disk[i].chat, disk[j].chat)
    /\ \A i \in DOMAIN disk :
         disk[i].compactions = compactions /\ ~Discarding(i) => Starts(disk[i].chat, chat)

RewindFits ==
  /\ rewind.at \in {"cut", "protect"} => rewind.id \in DOMAIN records /\ rewind.was = records[rewind.id]
  /\ rewind.at = "apply" /\ RestoresChat(rewind.mode) /\ ~strays => chat = rewind.was.chat
  /\ rewind.at = "apply" /\ RestoresChat(rewind.mode) /\ DOMAIN rewind.plan # {} =>
       rewind.id \in DOMAIN records

\* The steps that only note what a turn changed.
OnlyNotes ==
  /\ DOMAIN records' = DOMAIN records /\ DOMAIN disk' = DOMAIN disk
  /\ \A i \in DOMAIN records : SamePrompt(records'[i], records[i])
  /\ \A i \in DOMAIN disk : SamePrompt(disk'[i], disk[i])

\* The end of a turn adds no record and changes no prompt.
LEMMA EndTurnNotes ==
  ASSUME CpTypes, TurnFits, DiskFits, EndTurn
  PROVE  OnlyNotes
<1> DEFINE new == Recorded(records, baseline)
<1>1. \A i \in DOMAIN records : records[i] \in CpRecords
  BY DEF CpTypes, TableOK
<1>2. DOMAIN new = DOMAIN records /\ \A i \in DOMAIN records : SameButShell(new[i], records[i])
  BY <1>1, RecordedIs
<1>3. /\ records' = new
      /\ \/ disk' = disk
         \/ baseline # NoBaseline /\ disk' = Put(disk, baseline.id, new[baseline.id])
  BY DEF EndTurn, FinishDone, FinishFailed
<1> HIDE DEF new
<1>4. \A i \in DOMAIN records : SamePrompt(new[i], records[i])
  BY <1>2 DEF SameButShell, SamePrompt
<1>5. /\ DOMAIN records \subseteq DOMAIN disk
      /\ \A i \in DOMAIN records : SamePrompt(disk[i], records[i])
      /\ baseline # NoBaseline => baseline.id \in DOMAIN records
  BY DEF DiskFits, TurnFits
<1>6. CASE disk' = disk
  BY <1>2, <1>3, <1>4, <1>6 DEF OnlyNotes, SamePrompt
<1>7. CASE baseline # NoBaseline /\ disk' = Put(disk, baseline.id, new[baseline.id])
  <2>1. DOMAIN disk' = DOMAIN disk
    BY <1>5, <1>7 DEF Put
  <2>2. ASSUME NEW i \in DOMAIN disk PROVE SamePrompt(disk'[i], disk[i])
    <3>1. CASE i = baseline.id
      <4>1. disk'[i] = new[i] /\ i \in DOMAIN records
        BY <1>5, <1>7, <3>1 DEF Put
      <4>2. QED
        BY <1>4, <1>5, <4>1 DEF SamePrompt
    <3>2. CASE i # baseline.id
      <4>1. disk'[i] = disk[i]
        BY <1>7, <3>2 DEF Put
      <4>2. QED
        BY <4>1 DEF SamePrompt
    <3>3. QED
      BY <3>1, <3>2
  <2>3. QED
    BY <1>2, <1>3, <1>4, <2>1, <2>2 DEF OnlyNotes
<1>8. QED
  BY <1>3, <1>6, <1>7

\* Nor does a file tool's change.
LEMMA ChangeFileNotes ==
  ASSUME CpTypes, TurnFits, DiskFits, NEW k \in CpFiles, ChangeFile(k)
  PROVE  OnlyNotes
<1> DEFINE new == Saving(k)
<1>1. \/ records' = records /\ disk' = disk
      \/ active # 0 /\ records' = new /\ disk' \in {disk, Put(disk, active, new[active])}
  BY DEF ChangeFile
<1>2. CASE records' = records /\ disk' = disk
  BY <1>2 DEF OnlyNotes, SamePrompt
<1>3. CASE active # 0 /\ records' = new /\ disk' \in {disk, Put(disk, active, new[active])}
  <2>1. active \in DOMAIN records
    BY <1>3 DEF TurnFits
  <2>2. /\ DOMAIN new = DOMAIN records
        /\ \A i \in DOMAIN records : i # active => new[i] = records[i]
        /\ SamePrompt(new[active], records[active])
    BY <2>1, SavingIs DEF SamePrompt
  <2> HIDE DEF new
  <2>3. /\ DOMAIN records \subseteq DOMAIN disk
        /\ \A i \in DOMAIN records : SamePrompt(disk[i], records[i])
    BY DEF DiskFits
  <2>4. \A i \in DOMAIN records : SamePrompt(new[i], records[i])
    BY <2>2 DEF SamePrompt
  <2>5. DOMAIN disk' = DOMAIN disk
    BY <1>3, <2>1, <2>3 DEF Put
  <2>6. ASSUME NEW i \in DOMAIN disk PROVE SamePrompt(disk'[i], disk[i])
    <3>1. CASE disk'[i] = disk[i]
      BY <3>1 DEF SamePrompt
    <3>2. CASE i = active /\ disk'[i] = new[active]
      BY <2>1, <2>2, <2>3, <3>2 DEF SamePrompt
    <3>3. QED
      BY <1>3, <3>1, <3>2 DEF Put
  <2>7. QED
    BY <1>3, <2>2, <2>4, <2>5, <2>6 DEF OnlyNotes
<1>4. QED
  BY <1>1, <1>2, <1>3

\* The next run has the records of the folder.
LEMMA CrashNotes ==
  ASSUME CpTypes, CpCrash
  PROVE  /\ DOMAIN disk' = DOMAIN disk /\ records' = disk'
         /\ \A i \in DOMAIN disk : SamePrompt(disk'[i], disk[i])
<1> DEFINE base == IF diskBaseline # NoBaseline /\ diskBaseline.id \in DOMAIN disk
                   THEN diskBaseline ELSE NoBaseline
<1>1. records' = Recorded(disk, base) /\ disk' = records'
  BY DEF CpCrash
<1>2. \A i \in DOMAIN disk : disk[i] \in CpRecords
  BY DEF TableOK, CpTypes
<1> HIDE DEF base
<1>3. DOMAIN disk' = DOMAIN disk /\ \A i \in DOMAIN disk : SameButShell(disk'[i], disk[i])
  <2>1. /\ DOMAIN Recorded(disk, base) = DOMAIN disk
        /\ \A i \in DOMAIN disk : SameButShell(Recorded(disk, base)[i], disk[i])
    BY <1>2, RecordedIs
  <2>2. QED
    BY <1>1, <2>1
<1>4. QED
  BY <1>1, <1>3 DEF SameButShell, SamePrompt

\* Removing the lowest of the records to go: after a rewind of the chat one of those from the
\* chosen prompt on, else the oldest.
LEMMA RemoveRecordIs ==
  ASSUME CpTypes, RemoveRecord
  PROVE  \E id \in DOMAIN records :
           /\ id \in ToRemove /\ \A i \in ToRemove : id <= i
           /\ RestoresChat(rewind.mode) => id >= rewind.id
           /\ ~RestoresChat(rewind.mode) => \A i \in DOMAIN records : id <= i
           /\ records' = Without(records, {id})
           /\ gaps' = IF RestoresChat(rewind.mode) THEN gaps \cup ChangedAfter(records[id])
                      ELSE gaps
           /\ \/ /\ disk' = Without(disk, {id}) /\ rewind' = rewind
                 /\ strays' = (strays \/ (~RestoresChat(rewind.mode) /\ Left # {}))
              \/ /\ disk' = disk /\ rewind' = NoRewind
                 /\ strays' = (strays \/ RestoresChat(rewind.mode))
<1> DEFINE id == Sets!Min(ToRemove)
<1>1. IsFiniteSet(DOMAIN records) /\ DOMAIN records \subseteq Nat
  BY FewRecords
<1>2. ToRemove \subseteq DOMAIN records
  BY <1>1, OldestAre DEF ToRemove, From
<1>3. ToRemove # {} /\ ToRemove \in SUBSET Nat
  BY <1>1, <1>2 DEF RemoveRecord
<1>4. id \in ToRemove /\ \A i \in ToRemove : id <= i
  BY <1>3, LowestIs
<1>5. RestoresChat(rewind.mode) => id >= rewind.id
  BY <1>4 DEF ToRemove, From
<1>6. ASSUME ~RestoresChat(rewind.mode), NEW i \in DOMAIN records PROVE id <= i
  <2>1. ToRemove = Oldest(records)
    BY <1>6 DEF ToRemove
  <2>2. \A m \in Oldest(records), j \in DOMAIN records : j < m => j \in Oldest(records)
    BY <1>1, OldestAre
  <2>3. i < id => i \in ToRemove
    BY <1>4, <2>1, <2>2
  <2>4. id \in Nat /\ i \in Nat
    BY <1>1, <1>2, <1>4
  <2>5. ~(i < id)
    <3> HIDE DEF id
    <3> SUFFICES ASSUME i < id PROVE FALSE
      OBVIOUS
    <3>1. i \in ToRemove
      BY <2>3
    <3>2. id <= i
      BY <1>4, <3>1
    <3>3. QED
      BY <2>4, <3>2
  <2> HIDE DEF id
  <2>6. QED
    BY <2>4, <2>5
<1>7. /\ records' = Without(records, {id})
      /\ gaps' = IF RestoresChat(rewind.mode) THEN gaps \cup ChangedAfter(records[id]) ELSE gaps
      /\ \/ /\ disk' = Without(disk, {id}) /\ rewind' = rewind
            /\ strays' = (strays \/ (~RestoresChat(rewind.mode) /\ Left # {}))
         \/ /\ disk' = disk /\ rewind' = NoRewind
            /\ strays' = (strays \/ RestoresChat(rewind.mode))
  BY DEF RemoveRecord
<1> HIDE DEF id
<1>8. QED
  BY <1>2, <1>4, <1>5, <1>6, <1>7

\* The records that the folder alone has are still older when nothing was removed or added.
LEMMA DiskFitsStays ==
  ASSUME DiskFits, DOMAIN records' = DOMAIN records, DOMAIN disk' = DOMAIN disk,
         \A i \in DOMAIN records : SamePrompt(records'[i], records[i]),
         \A i \in DOMAIN disk : SamePrompt(disk'[i], disk[i]),
         strays => strays', rewind'.at = "none" \/ (rewind.at # "none" /\ rewind'.id = rewind.id)
  PROVE  DiskFits'
<1>1. /\ DOMAIN records \subseteq DOMAIN disk
      /\ \A i \in DOMAIN records : SamePrompt(disk[i], records[i])
  BY DEF DiskFits
<1>2. \A i \in DOMAIN records' : SamePrompt(disk'[i], records'[i])
  BY <1>1 DEF SamePrompt
<1>3. ~strays' => \A l \in Left : /\ \A i \in DOMAIN records : l < i
                                  /\ rewind.at # "none" => l < rewind.id
  BY DEF DiskFits
<1>4. Left' = Left
  BY DEF Left
<1>5. ~strays' => \A l \in Left' : /\ \A i \in DOMAIN records' : l < i
                                   /\ rewind'.at # "none" => l < rewind'.id
  BY <1>3, <1>4
<1>6. QED
  BY <1>1, <1>2, <1>5 DEF DiskFits

\* A new checkpoint is in the list and in the folder, and newer than what was left.
LEMMA DiskFitsAfterBeginTurn ==
  ASSUME CpTypes, TurnFits, DiskFits, BeginTurn
  PROVE  DiskFits'
<1> DEFINE record == NewRecord(NothingSaved)
<1>1. /\ rewind' = rewind /\ rewind.at = "none"
      /\ DOMAIN records \subseteq DOMAIN disk
      /\ \A i \in DOMAIN records : SamePrompt(disk[i], records[i])
      /\ \A i \in DOMAIN disk : i < nextCp /\ i \in Nat
      /\ nextCp \in Nat
  BY DEF BeginTurn, Idle, DiskFits, CpTypes, TableOK
<1>2. SamePrompt(record, record)
  BY DEF SamePrompt
<1>3. strays => strays'
  BY Zenon DEF BeginTurn
<1>4. ~strays => \A l \in Left, i \in DOMAIN records : l < i
  BY DEF DiskFits
<1> HIDE DEF record
<1>5. CASE records' = records /\ disk' \in {disk, Put(disk, nextCp, record)} /\ (disk' # disk => strays')
  <2>1. CASE disk' = disk
    <3>1. Left' = Left
      BY <1>5, <2>1 DEF Left
    <3>2. QED
      BY <1>1, <1>3, <1>4, <1>5, <2>1, <3>1 DEF DiskFits
  <2>2. CASE disk' = Put(disk, nextCp, record) /\ strays'
    <3>1. DOMAIN records' \subseteq DOMAIN disk'
      BY <1>1, <1>5, <2>2 DEF Put
    <3>2. \A i \in DOMAIN records : disk'[i] = disk[i]
      BY <1>1, <2>2 DEF Put
    <3>3. QED
      BY <1>1, <1>5, <2>2, <3>1, <3>2 DEF DiskFits
  <2>3. QED
    BY <1>5, <2>1, <2>2
<1>6. ASSUME NEW ids \in SUBSET DOMAIN records,
             \A i \in ids, j \in DOMAIN records : j < i => j \in ids,
             records' = Without(Put(records, nextCp, record), ids),
             disk' \in {Without(Put(disk, nextCp, record), ids), Put(disk, nextCp, record)}
      PROVE  DiskFits'
  <2>1. nextCp \notin ids /\ nextCp \notin DOMAIN records
    BY <1>1
  <2>2. /\ DOMAIN records' = (DOMAIN records \ ids) \cup {nextCp}
        /\ records'[nextCp] = record
        /\ \A i \in DOMAIN records \ ids : records'[i] = records[i]
    BY <1>6, <2>1 DEF Put, Without
  <2>3. /\ DOMAIN disk' \in {(DOMAIN disk \ ids) \cup {nextCp}, DOMAIN disk \cup {nextCp}}
        /\ disk'[nextCp] = record
        /\ \A i \in DOMAIN disk \ ids : i # nextCp => disk'[i] = disk[i]
    BY <1>6, <2>1 DEF Put, Without
  <2>4. DOMAIN records' \subseteq DOMAIN disk'
    BY <1>1, <2>2, <2>3
  <2>5. \A i \in DOMAIN records' : SamePrompt(disk'[i], records'[i])
    <3> SUFFICES ASSUME NEW i \in DOMAIN records' PROVE SamePrompt(disk'[i], records'[i])
      OBVIOUS
    <3>1. CASE i = nextCp
      BY <1>2, <2>2, <2>3, <3>1
    <3>2. CASE i # nextCp
      <4>1. i \in DOMAIN records \ ids
        BY <2>2, <3>2
      <4>2. i \in DOMAIN disk \ ids
        BY <1>1, <4>1
      <4>3. records'[i] = records[i] /\ disk'[i] = disk[i]
        BY <2>2, <2>3, <3>2, <4>1, <4>2
      <4>4. QED
        BY <1>1, <4>1, <4>3
    <3>3. QED
      BY <3>1, <3>2
  <2>6. ASSUME ~strays', NEW l \in Left', NEW i \in DOMAIN records'
        PROVE  l < i
    <3>1. l \in DOMAIN disk' /\ l \notin DOMAIN records'
      BY DEF Left
    <3>2. l \in DOMAIN disk /\ (l \in Left \/ l \in ids)
      BY <2>2, <2>3, <3>1 DEF Left
    <3>3. l < nextCp /\ l \in Nat
      BY <1>1, <3>2
    <3>4. CASE i \in DOMAIN records \ ids
      <4>1. CASE l \in Left
        BY <1>3, <1>4, <2>6, <3>4, <4>1
      <4>2. CASE l \in ids
        <5>1. ~(i < l) /\ i # l
          BY <1>6, <3>4, <4>2
        <5>2. i \in Nat
          BY <1>1, <3>4
        <5>3. QED
          BY <3>3, <5>1, <5>2
      <4>3. QED
        BY <3>2, <4>1, <4>2
    <3>5. QED
      BY <2>2, <3>3, <3>4
  <2>7. QED
    BY <1>1, <2>4, <2>5, <2>6 DEF DiskFits
<1>7. QED
  BY <1>5, <1>6, BeginTurnIs DEF record

\* So is the one a rewind of the files alone makes.
LEMMA DiskFitsAfterProtectFiles ==
  ASSUME CpTypes, TurnFits, DiskFits, ProtectFiles
  PROVE  DiskFits'
<1> DEFINE record == NewRecord([k \in CpFiles |-> IF k \in WillChange THEN files[k] ELSE NotSaved])
<1>1. /\ rewind.at = "protect"
      /\ DOMAIN records \subseteq DOMAIN disk
      /\ \A i \in DOMAIN records : SamePrompt(disk[i], records[i])
      /\ \A i \in DOMAIN disk : i < nextCp /\ i \in Nat
      /\ nextCp \in Nat
  BY DEF ProtectFiles, DiskFits, CpTypes, TableOK
<1>2. SamePrompt(record, record)
  BY DEF SamePrompt
<1>3. strays => strays'
  BY Zenon DEF ProtectFiles
<1>4. ~strays => \A l \in Left : (\A i \in DOMAIN records : l < i) /\ l < rewind.id
  BY <1>1 DEF DiskFits
<1>5. rewind'.at = "none" \/ rewind'.id = rewind.id
  <2>1. rewind' \in {[rewind EXCEPT !.at = "apply"], NoRewind}
    BY DEF ProtectFiles
  <2>2. QED
    BY <2>1, NoRewindIs, RewindGoesOn DEF SameRewind
<1>6. \/ records' = records /\ disk' = disk
      \/ records' = Put(records, nextCp, record) /\ disk' = Put(disk, nextCp, record)
      \/ records' = records /\ disk' = Put(disk, nextCp, record)
  BY DEF ProtectFiles
<1>7. records' = records /\ disk' # disk => strays'
  BY Zenon DEF ProtectFiles
<1> HIDE DEF record
<1>8. CASE records' = records /\ disk' = disk
  <2>1. Left' = Left
    BY <1>8 DEF Left
  <2>2. QED
    BY <1>1, <1>3, <1>4, <1>5, <1>8, <2>1 DEF DiskFits
<1>9. CASE records' = Put(records, nextCp, record) /\ disk' = Put(disk, nextCp, record)
  <2>1. /\ DOMAIN records' = DOMAIN records \cup {nextCp} /\ DOMAIN disk' = DOMAIN disk \cup {nextCp}
        /\ records'[nextCp] = record /\ disk'[nextCp] = record
        /\ \A i \in DOMAIN records : i # nextCp => records'[i] = records[i]
        /\ \A i \in DOMAIN disk : i # nextCp => disk'[i] = disk[i]
    BY <1>9 DEF Put
  <2>2. \A i \in DOMAIN records' : SamePrompt(disk'[i], records'[i])
    BY <1>1, <1>2, <2>1
  <2>3. Left' = Left
    BY <1>1, <2>1 DEF Left
  <2>4. ~strays' => \A l \in Left' : /\ \A i \in DOMAIN records' : l < i
                                     /\ rewind'.at # "none" => l < rewind'.id
    BY <1>1, <1>3, <1>4, <1>5, <2>1, <2>3 DEF Left
  <2>5. QED
    BY <1>1, <2>1, <2>2, <2>4 DEF DiskFits
<1>10. CASE records' = records /\ disk' = Put(disk, nextCp, record) /\ strays'
  <2>1. DOMAIN disk' = DOMAIN disk \cup {nextCp} /\ \A i \in DOMAIN disk : i # nextCp => disk'[i] = disk[i]
    BY <1>10 DEF Put
  <2>2. QED
    BY <1>1, <1>10, <2>1 DEF DiskFits
<1>11. QED
  BY <1>6, <1>7, <1>8, <1>9, <1>10

\* A record that is removed goes from both, or its file is left and older than the rest.
LEMMA DiskFitsAfterRemoveRecord ==
  ASSUME CpTypes, TurnFits, DiskFits, RemoveRecord
  PROVE  DiskFits'
<1>1. PICK id \in DOMAIN records :
           /\ ~RestoresChat(rewind.mode) => \A i \in DOMAIN records : id <= i
           /\ records' = Without(records, {id})
           /\ \/ /\ disk' = Without(disk, {id}) /\ rewind' = rewind
                 /\ strays' = (strays \/ (~RestoresChat(rewind.mode) /\ Left # {}))
              \/ /\ disk' = disk /\ rewind' = NoRewind
                 /\ strays' = (strays \/ RestoresChat(rewind.mode))
  BY RemoveRecordIs
<1>2. /\ DOMAIN records \subseteq DOMAIN disk
      /\ \A i \in DOMAIN records : SamePrompt(disk[i], records[i])
      /\ \A i \in DOMAIN disk : i \in Nat
  BY DEF DiskFits, CpTypes, TableOK
<1>3. /\ DOMAIN records' = DOMAIN records \ {id}
      /\ \A i \in DOMAIN records \ {id} : records'[i] = records[i]
  BY <1>1 DEF Without
<1>4. strays => strays'
  BY <1>1
<1>5. ~strays => \A l \in Left : /\ \A i \in DOMAIN records : l < i
                                 /\ rewind.at # "none" => l < rewind.id
  BY DEF DiskFits
<1>6. CASE disk' = Without(disk, {id}) /\ rewind' = rewind
  <2>1. /\ DOMAIN disk' = DOMAIN disk \ {id}
        /\ \A i \in DOMAIN disk \ {id} : disk'[i] = disk[i]
    BY <1>6 DEF Without
  <2>2. Left' = Left
    BY <1>3, <2>1 DEF Left
  <2>3. DOMAIN records' \subseteq DOMAIN disk' /\ \A i \in DOMAIN records' : SamePrompt(disk'[i], records'[i])
    BY <1>2, <1>3, <2>1
  <2>4. QED
    BY <1>3, <1>4, <1>5, <1>6, <2>2, <2>3 DEF DiskFits
<1>7. CASE disk' = disk /\ rewind' = NoRewind /\ strays' = (strays \/ RestoresChat(rewind.mode))
  <2>1. DOMAIN records' \subseteq DOMAIN disk' /\ \A i \in DOMAIN records' : SamePrompt(disk'[i], records'[i])
    BY <1>2, <1>3, <1>7
  <2>2. ASSUME ~strays', NEW l \in Left', NEW i \in DOMAIN records' PROVE l < i
    <3>1. ~RestoresChat(rewind.mode) /\ ~strays
      BY <1>7, <2>2
    <3>2. l \in Left \/ l = id
      BY <1>3, <1>7 DEF Left
    <3>3. i \in DOMAIN records /\ i # id /\ i \in Nat /\ id \in Nat
      BY <1>2, <1>3
    <3>4. CASE l \in Left
      BY <1>5, <3>1, <3>3, <3>4
    <3>5. CASE l = id
      BY <1>1, <3>1, <3>3, <3>5
    <3>6. QED
      BY <3>2, <3>4, <3>5
  <2>3. rewind'.at = "none"
    BY <1>7, NoRewindIs
  <2>4. QED
    BY <2>1, <2>2, <2>3 DEF DiskFits
<1>8. QED
  BY <1>1, <1>6, <1>7

\* Every step keeps the list and the folder in agreement.
LEMMA DiskFitsStep ==
  ASSUME CpTypes, TurnFits, DiskFits, CpNext \/ UNCHANGED cpVars
  PROVE  DiskFits'
<1>1. turn # "none" => rewind.at = "none"
  BY DEF TurnFits
<1>2. NoRewind.at = "none"
  BY NoRewindIs
<1>3. ASSUME UNCHANGED storeVars, strays => strays',
             rewind'.at = "none" \/ (rewind.at # "none" /\ rewind'.id = rewind.id)
      PROVE  DiskFits'
  <2>1. \A r : SamePrompt(r, r)
    BY DEF SamePrompt
  <2>2. QED
    BY <1>3, <2>1, DiskFitsStays DEF storeVars
<1>4. ASSUME OnlyNotes, strays' = strays, turn # "none", rewind' = rewind
      PROVE  DiskFits'
  BY <1>1, <1>4, DiskFitsStays DEF OnlyNotes
<1>5. CASE BeginTurn
  BY <1>5, DiskFitsAfterBeginTurn
<1>6. CASE PushPrompt
  <2>1. OnlyNotes
    BY <1>6 DEF PushPrompt, OnlyNotes, SamePrompt
  <2>2. QED
    BY <1>4, <1>6, <2>1 DEF PushPrompt
<1>7. CASE EndTurn
  BY <1>4, <1>7, EndTurnNotes DEF EndTurn
<1>20. CASE SaveTurn
  BY <1>1, <1>3, <1>20 DEF SaveTurn
<1>8. CASE CompactChat
  BY <1>1, <1>3, <1>8 DEF CompactChat, Idle
<1>9. ASSUME NEW k \in CpFiles, ChangeFile(k) PROVE DiskFits'
  BY <1>4, <1>9, ChangeFileNotes DEF ChangeFile, Changing
<1>10. ASSUME NEW k \in CpFiles, RunShell(k) PROVE DiskFits'
  <2>1. OnlyNotes
    BY <1>10 DEF RunShell, OnlyNotes, SamePrompt
  <2>2. QED
    BY <1>4, <1>10, <2>1 DEF RunShell, Changing
<1>11. ASSUME NEW k \in CpFiles, ApplyFile(k) PROVE DiskFits'
  <2>1. rewind.at = "apply" /\ rewind'.id = rewind.id
    BY <1>11, ApplyFileIs DEF SameRewind
  <2>2. QED
    BY <1>3, <1>11, <2>1 DEF ApplyFile
<1>12. ASSUME NEW id \in 1..(nextCp - 1), NEW mode \in {"both", "chat", "code"},
              BeginRewind(id, mode)
       PROVE  DiskFits'
  <2>1. rewind'.id = id /\ id \in DOMAIN records /\ UNCHANGED <<records, disk, strays>>
    BY <1>12, RewindBegins DEF BeginRewind, storeVars
  <2>2. Left' = Left
    BY <2>1 DEF Left
  <2>3. QED
    BY <2>1, <2>2 DEF DiskFits
<1>13. CASE CutChat
  <2>1. rewind.at = "cut" /\ rewind' \in {[rewind EXCEPT !.at = "apply"], NoRewind}
    BY <1>13 DEF CutChat
  <2>2. rewind'.at = "none" \/ rewind'.id = rewind.id
    BY <1>2, <2>1, RewindGoesOn DEF SameRewind
  <2>3. strays => strays'
    BY <1>13, Zenon DEF CutChat
  <2>4. QED
    BY <1>3, <1>13, <2>1, <2>2, <2>3 DEF CutChat
<1>14. CASE ProtectFiles
  BY <1>14, DiskFitsAfterProtectFiles
<1>15. CASE RemoveRecord
  BY <1>15, DiskFitsAfterRemoveRecord
<1>16. CASE ReportRewind
  BY <1>2, <1>3, <1>16 DEF ReportRewind
<1>17. CASE CpCrash
  <2>1. DOMAIN disk' = DOMAIN disk /\ records' = disk'
    BY <1>17, CrashNotes
  <2>2. Left' = {}
    BY <2>1 DEF Left
  <2>3. QED
    BY <2>1, <2>2 DEF DiskFits, SamePrompt
<1>18. CASE CpRests \/ UNCHANGED cpVars
  <2>1. UNCHANGED cpVars
    BY <1>18 DEF CpRests
  <2>2. Left' = Left /\ UNCHANGED <<records, disk, strays, rewind>>
    BY <2>1 DEF Left, cpVars, storeVars
  <2>3. QED
    BY <2>2 DEF DiskFits
<1>19. QED
  BY <1>5, <1>6, <1>7, <1>8, <1>9, <1>10, <1>11, <1>12, <1>13, <1>14, <1>15, <1>16, <1>17,
     <1>18, <1>20 DEF CpNext

\* Beginning with a list of messages: of itself, of what begins with it, of one message more.
LEMMA StartsOn ==
  ASSUME NEW s \in Seq(Int), NEW t \in Seq(Int), Starts(s, t)
  PROVE  /\ Starts(t, t)
         /\ \A u \in Seq(Int) : Starts(t, u) => Starts(s, u)
         /\ \A x \in Int : Starts(s, Append(t, x))
<1>1. Len(s) \in Nat /\ Len(t) \in Nat
  BY LenProperties
<1>2. Starts(t, t)
  BY <1>1 DEF Starts
<1>3. ASSUME NEW u \in Seq(Int), Starts(t, u) PROVE Starts(s, u)
  <2>1. Len(u) \in Nat
    BY LenProperties
  <2>2. Len(s) <= Len(t) /\ Len(t) <= Len(u)
    BY <1>3 DEF Starts
  <2>3. \A i \in 1..Len(s) : i \in 1..Len(t)
    BY <1>1, <2>2
  <2>4. \A i \in 1..Len(s) : s[i] = u[i]
    BY <1>3, <2>3 DEF Starts
  <2>5. Len(s) <= Len(u)
    BY <1>1, <2>1, <2>2
  <2>6. QED
    BY <2>4, <2>5 DEF Starts
<1>4. ASSUME NEW x \in Int PROVE Starts(s, Append(t, x))
  <2> DEFINE u == Append(t, x)
  <2>1. Len(u) = Len(t) + 1 /\ \A i \in 1..Len(t) : u[i] = t[i]
    BY AppendProperties
  <2>2. u \in Seq(Int)
    BY LastAdded
  <2> HIDE DEF u
  <2>3. Starts(t, u)
    BY <1>1, <2>1 DEF Starts
  <2>4. QED
    BY <1>3, <2>2, <2>3 DEF u
<1>5. QED
  BY <1>2, <1>3, <1>4

\* Cutting a chat where a record was taken gives the chat of that record.
LEMMA CutWhereItStarts ==
  ASSUME NEW s \in Seq(Int), NEW t \in Seq(Int), Starts(s, t)
  PROVE  SubSeq(t, 1, Len(s)) = s
<1> DEFINE n == Len(s)
           kept == SubSeq(t, 1, n)
<1>1. n \in Nat /\ Len(t) \in Nat /\ n <= Len(t)
  BY LenProperties DEF Starts
<1>2. \A i \in 1..n : t[i] \in Int
  <2>1. \A i \in 1..Len(t) : t[i] \in Int
    BY ElementOfSeq
  <2>2. QED
    BY <1>1, <2>1
<1> HIDE DEF n
<1>3. /\ kept \in Seq(Int)
      /\ Len(kept) = IF 1 <= n THEN n - 1 + 1 ELSE 0
      /\ \A i \in 1..(n - 1 + 1) : kept[i] = t[1 + i - 1]
  BY <1>1, <1>2, SubSeqProperties
<1> HIDE DEF kept
<1>4. Len(kept) = n
  BY <1>1, <1>3
<1>5. \A i \in 1..n : kept[i] = s[i]
  <2> SUFFICES ASSUME NEW i \in 1..n PROVE kept[i] = s[i]
    OBVIOUS
  <2>1. i \in 1..(n - 1 + 1) /\ 1 + i - 1 = i
    BY <1>1
  <2>2. kept[i] = t[i]
    BY <1>3, <2>1
  <2>3. QED
    BY <2>2 DEF Starts, n
<1>6. kept = s
  BY <1>3, <1>4, <1>5, SeqEqual DEF n
<1>7. QED
  BY <1>6 DEF kept, n

\* A file that has just been saved fits.
LEMMA FileFitsSaved ==
  ASSUME CpTypes, Persists, compactions' \in Nat
  PROVE  FileFits'
BY DEF FileFits, Persists

\* The file still fits when neither it nor the chat is changed.
LEMMA FileFitsStays ==
  ASSUME FileFits, DOMAIN disk' \subseteq DOMAIN disk,
         \A i \in DOMAIN disk' : SamePrompt(disk'[i], disk[i]), UNCHANGED chatVars
  PROVE  FileFits'
BY DEF FileFits, SamePrompt, chatVars

\* The chat's records still fit when none is added.
LEMMA ChatFitsStays ==
  ASSUME ChatFits, DOMAIN disk' \subseteq DOMAIN disk,
         \A i \in DOMAIN disk' : SamePrompt(disk'[i], disk[i]),
         strays => strays', compactions' = compactions,
         ~strays' => FileFits',
         ~strays' => \A i \in DOMAIN disk' :
           disk[i].compactions = compactions /\ ~Discarding(i)' => Starts(disk[i].chat, chat')
  PROVE  ChatFits'
<1> SUFFICES ASSUME ~strays'
    PROVE  /\ FileFits'
           /\ \A i \in DOMAIN disk' : disk'[i].compactions <= compactions'
           /\ \A i, j \in DOMAIN disk' :
                i < j /\ disk'[i].compactions = disk'[j].compactions =>
                  Starts(disk'[i].chat, disk'[j].chat)
           /\ \A i \in DOMAIN disk' :
                disk'[i].compactions = compactions' /\ ~Discarding(i)' => Starts(disk'[i].chat, chat')
  BY DEF ChatFits
<1>1. /\ \A i \in DOMAIN disk : disk[i].compactions <= compactions
      /\ \A i, j \in DOMAIN disk :
           i < j /\ disk[i].compactions = disk[j].compactions => Starts(disk[i].chat, disk[j].chat)
  BY DEF ChatFits
<1>2. \A i \in DOMAIN disk' :
        i \in DOMAIN disk /\ disk'[i].compactions = disk[i].compactions /\ disk'[i].chat = disk[i].chat
  BY DEF SamePrompt
<1>3. \A i \in DOMAIN disk' : disk'[i].compactions <= compactions'
  BY <1>1, <1>2
<1>4. \A i, j \in DOMAIN disk' :
        i < j /\ disk'[i].compactions = disk'[j].compactions => Starts(disk'[i].chat, disk'[j].chat)
  BY <1>1, <1>2
<1>5. QED
  BY <1>2, <1>3, <1>4

\* A record that is put in has the chat as it is.
LEMMA ChatFitsMore ==
  ASSUME CpTypes, ChatFits, DOMAIN disk' \subseteq DOMAIN disk \cup {nextCp},
         \A i \in DOMAIN disk' : i # nextCp => disk'[i] = disk[i],
         nextCp \in DOMAIN disk' => disk'[nextCp].chat = chat /\ disk'[nextCp].compactions = compactions,
         strays => strays', UNCHANGED chatVars, \A i \in DOMAIN disk : ~Discarding(i)
  PROVE  ChatFits'
<1> SUFFICES ASSUME ~strays'
    PROVE  /\ FileFits'
           /\ \A i \in DOMAIN disk' : disk'[i].compactions <= compactions'
           /\ \A i, j \in DOMAIN disk' :
                i < j /\ disk'[i].compactions = disk'[j].compactions =>
                  Starts(disk'[i].chat, disk'[j].chat)
           /\ \A i \in DOMAIN disk' :
                disk'[i].compactions = compactions' /\ ~Discarding(i)' => Starts(disk'[i].chat, chat')
  BY DEF ChatFits
<1>1. /\ FileFits
      /\ \A i \in DOMAIN disk : disk[i].compactions <= compactions
      /\ \A i, j \in DOMAIN disk :
           i < j /\ disk[i].compactions = disk[j].compactions => Starts(disk[i].chat, disk[j].chat)
      /\ \A i \in DOMAIN disk : disk[i].compactions = compactions => Starts(disk[i].chat, chat)
  BY DEF ChatFits
<1>2. /\ chat \in Seq(Int) /\ compactions \in Nat
      /\ \A i \in DOMAIN disk : i < nextCp /\ i \in Nat
      /\ nextCp \in Nat
  BY DEF CpTypes, TableOK
<1>3. Starts(chat, chat)
  <2>1. Len(chat) \in Nat
    BY <1>2, LenProperties
  <2>2. QED
    BY <2>1 DEF Starts
<1>4. chat' = chat /\ compactions' = compactions
  BY DEF chatVars
<1>5. \A i \in DOMAIN disk' : i = nextCp \/ (i \in DOMAIN disk /\ disk'[i] = disk[i] /\ i < nextCp)
  BY <1>2
<1>6. ASSUME NEW i \in DOMAIN disk' PROVE disk'[i].compactions <= compactions'
  <2>1. CASE i = nextCp
    BY <1>2, <1>4, <2>1
  <2>2. CASE i \in DOMAIN disk /\ disk'[i] = disk[i]
    BY <1>1, <1>4, <2>2
  <2>3. QED
    BY <1>5, <2>1, <2>2
<1>7. ASSUME NEW i \in DOMAIN disk', disk'[i].compactions = compactions' PROVE Starts(disk'[i].chat, chat')
  <2>1. CASE i = nextCp
    BY <1>3, <1>4, <2>1
  <2>2. CASE i \in DOMAIN disk /\ disk'[i] = disk[i]
    BY <1>1, <1>4, <1>7, <2>2
  <2>3. QED
    BY <1>5, <2>1, <2>2
<1>8. ASSUME NEW i \in DOMAIN disk', NEW j \in DOMAIN disk', i < j,
             disk'[i].compactions = disk'[j].compactions
      PROVE  Starts(disk'[i].chat, disk'[j].chat)
  <2>1. CASE j = nextCp
    BY <1>4, <1>7, <1>8, <2>1
  <2>2. CASE j \in DOMAIN disk /\ disk'[j] = disk[j] /\ j < nextCp
    <3>1. i # nextCp
      BY <1>2, <1>8, <2>2
    <3>2. i \in DOMAIN disk /\ disk'[i] = disk[i]
      BY <1>5, <3>1
    <3>3. QED
      BY <1>1, <1>8, <2>2, <3>2
  <2>3. QED
    BY <1>5, <2>1, <2>2
<1>9. FileFits'
  <2>1. UNCHANGED <<chat, savedChat, compactions, savedCompactions>>
    BY DEF chatVars
  <2>2. ASSUME savedCompactions # compactions, NEW i \in DOMAIN disk',
               disk'[i].compactions = savedCompactions
        PROVE  Starts(disk'[i].chat, savedChat)
    <3>1. i # nextCp
      BY <2>2
    <3>2. i \in DOMAIN disk /\ disk'[i] = disk[i]
      BY <1>5, <3>1
    <3>3. QED
      BY <1>1, <2>2, <3>2 DEF FileFits
  <2>3. QED
    BY <1>1, <2>1, <2>2 DEF FileFits
<1>10. QED
  BY <1>4, <1>6, <1>7, <1>8, <1>9

\* A rewind of the chat cuts it where the chosen prompt was added.
LEMMA CutIs ==
  ASSUME CpTypes, TurnFits, DiskFits, ChatFits, RewindFits, CutChat, ~strays
  PROVE  /\ rewind.id \in DOMAIN disk /\ disk[rewind.id].chat = rewind.was.chat
         /\ disk[rewind.id].compactions = compactions
         /\ SubSeq(chat, 1, rewind.was.cut) = rewind.was.chat
<1>1. /\ rewind.at = "cut" /\ ChatAllows(rewind.was)
      /\ rewind.id \in DOMAIN records /\ rewind.was = records[rewind.id]
  BY DEF CutChat, TurnFits, RewindFits
<1>2. rewind.was.compactions = compactions
  BY <1>1 DEF ChatAllows
<1>3. /\ rewind.id \in DOMAIN disk /\ disk[rewind.id].chat = rewind.was.chat
      /\ disk[rewind.id].compactions = rewind.was.compactions
  BY <1>1 DEF DiskFits, SamePrompt
<1>4. Starts(rewind.was.chat, chat)
  BY <1>1, <1>2, <1>3 DEF ChatFits, Discarding
<1>5. rewind.was.cut = Len(rewind.was.chat) /\ rewind.was.chat \in Seq(Int) /\ chat \in Seq(Int)
  BY <1>1 DEF CpTypes, TableOK, CpRecords
<1>6. QED
  BY <1>2, <1>3, <1>4, <1>5, CutWhereItStarts

\* The chat is cut to what the chosen record and those before it begin with.
LEMMA ChatFitsAfterCutChat ==
  ASSUME CpTypes, TurnFits, DiskFits, ChatFits, RewindFits, CutChat
  PROVE  ChatFits'
<1> DEFINE kept == SubSeq(chat, 1, rewind.was.cut)
<1>1. /\ rewind.at = "cut" /\ disk' = disk /\ compactions' = compactions
      /\ RestoresChat(rewind.mode)
  BY DEF CutChat, storeVars, TurnFits
<1>2. strays => strays'
  BY Zenon DEF CutChat
<1>3. \A r : SamePrompt(r, r)
  BY DEF SamePrompt
<1>4. ~strays => /\ rewind.id \in DOMAIN disk /\ disk[rewind.id].chat = kept
                 /\ disk[rewind.id].compactions = compactions
  BY CutIs
<1>5. \A i \in DOMAIN disk : i \in Nat
  BY DEF CpTypes, TableOK
<1>6. ~strays =>
        /\ FileFits
        /\ \A i, j \in DOMAIN disk :
             i < j /\ disk[i].compactions = disk[j].compactions => Starts(disk[i].chat, disk[j].chat)
        /\ \A i \in DOMAIN disk :
             disk[i].compactions = compactions => Starts(disk[i].chat, chat)
  BY <1>1 DEF ChatFits, Discarding
<1> HIDE DEF kept
<1>10. \A i \in DOMAIN disk' : SamePrompt(disk'[i], disk[i])
  BY <1>1, <1>3
<1>11. UNCHANGED chatVars => (FileFits => FileFits')
  BY <1>1, <1>10, FileFitsStays
<1>7. CASE /\ chat' = kept /\ (IF kept = chat THEN KeepsSaved ELSE Persists)
           /\ rewind' = [rewind EXCEPT !.at = "apply"]
  <2>1. rewind'.at = "apply" /\ rewind'.id = rewind.id /\ rewind'.mode = rewind.mode
    BY <1>7, RewindGoesOn DEF SameRewind
  <2>2. ~strays' => FileFits'
    <3>1. CASE Persists
      BY <1>1, <3>1, FileFitsSaved DEF CpTypes
    <3>2. CASE kept = chat /\ KeepsSaved
      BY <1>1, <1>2, <1>6, <1>7, <1>11, <3>2 DEF KeepsSaved, chatVars
    <3>3. QED
      BY <1>7, <3>1, <3>2
  <2>3. ASSUME ~strays', NEW i \in DOMAIN disk, disk[i].compactions = compactions, ~Discarding(i)'
        PROVE  Starts(disk[i].chat, chat')
    <3>1. ~(i >= rewind.id)
      BY <1>1, <2>1, <2>3 DEF Discarding
    <3>2. i < rewind.id
      BY <1>2, <1>4, <1>5, <2>3, <3>1
    <3>3. QED
      BY <1>2, <1>4, <1>6, <1>7, <2>3, <3>2
  <2>4. QED
    BY <1>1, <1>2, <1>3, <2>2, <2>3, ChatFitsStays
<1>8. CASE chat' = chat /\ rewind' = NoRewind /\ ((KeepsSaved /\ strays' = strays) \/ strays')
  <2>1. ~strays' => FileFits'
    BY <1>1, <1>2, <1>6, <1>8, <1>11 DEF KeepsSaved, chatVars
  <2>2. ASSUME ~strays', NEW i \in DOMAIN disk, disk[i].compactions = compactions, ~Discarding(i)'
        PROVE  Starts(disk[i].chat, chat')
    BY <1>2, <1>6, <1>8, <2>2
  <2>3. QED
    BY <1>1, <1>2, <1>3, <2>1, <2>2, ChatFitsStays
<1>9. QED
  BY <1>7, <1>8 DEF CutChat, kept

\* Every step keeps the records and the chat in agreement.
LEMMA ChatFitsStep ==
  ASSUME CpTypes, TurnFits, DiskFits, ChatFits, RewindFits, CpNext \/ UNCHANGED cpVars
  PROVE  ChatFits'
<1>1. turn # "none" => rewind.at = "none"
  BY DEF TurnFits
<1>2. NoRewind.at = "none"
  BY NoRewindIs
<1>3. \A r : SamePrompt(r, r)
  BY DEF SamePrompt
<1>4. ~strays =>
        /\ FileFits
        /\ \A i \in DOMAIN disk :
             disk[i].compactions = compactions /\ ~Discarding(i) => Starts(disk[i].chat, chat)
  BY DEF ChatFits
<1>5. rewind.at # "apply" => \A i : ~Discarding(i)
  BY DEF Discarding
<1>6. \A i \in DOMAIN disk : disk[i].chat \in Seq(Int)
  BY DEF CpTypes, TableOK, CpRecords
<1>7. ASSUME DOMAIN disk' = DOMAIN disk, \A i \in DOMAIN disk : SamePrompt(disk'[i], disk[i]),
             rewind.at = "none", UNCHANGED <<compactions, savedCompactions, strays>>,
             NEW x \in Int,
             \/ chat' = chat /\ savedChat' = savedChat
             \/ chat' = Append(chat, x) /\ savedChat' = Append(savedChat, x)
      PROVE  ChatFits'
  <2>1. ASSUME ~strays', NEW i \in DOMAIN disk, disk[i].compactions = compactions
        PROVE  Starts(disk[i].chat, chat')
    <3>1. Starts(disk[i].chat, chat)
      BY <1>4, <1>5, <1>7, <2>1
    <3>2. disk[i].chat \in Seq(Int) /\ chat \in Seq(Int)
      BY <1>6 DEF CpTypes
    <3>3. Starts(disk[i].chat, Append(chat, x))
      BY <3>1, <3>2, StartsOn
    <3>4. QED
      BY <1>7, <3>1, <3>3
  <2>2. ASSUME ~strays', savedCompactions # compactions, NEW i \in DOMAIN disk,
               disk[i].compactions = savedCompactions
        PROVE  Starts(disk[i].chat, savedChat')
    <3>1. Starts(disk[i].chat, savedChat)
      BY <1>4, <1>7, <2>2 DEF FileFits
    <3>2. disk[i].chat \in Seq(Int) /\ savedChat \in Seq(Int)
      BY <1>6 DEF CpTypes
    <3>3. Starts(disk[i].chat, Append(savedChat, x))
      BY <3>1, <3>2, StartsOn
    <3>4. QED
      BY <1>7, <3>1, <3>3
  <2>3. ~strays' => FileFits'
    <3>1. ~strays' => /\ savedCompactions <= compactions
                      /\ savedCompactions = compactions => savedChat' = chat'
      BY <1>4, <1>7 DEF FileFits
    <3>2. \A i \in DOMAIN disk : disk'[i].compactions = disk[i].compactions /\ disk'[i].chat = disk[i].chat
      BY <1>7 DEF SamePrompt
    <3>3. QED
      BY <1>7, <2>2, <3>1, <3>2 DEF FileFits
  <2>4. QED
    BY <1>7, <2>1, <2>3, ChatFitsStays
<1>25. ASSUME DOMAIN disk' = DOMAIN disk, \A i \in DOMAIN disk : SamePrompt(disk'[i], disk[i]),
             UNCHANGED <<chat, compactions, strays>>, Persists \/ KeepsSaved,
             ~strays => \A i \in DOMAIN disk : ~Discarding(i)' => ~Discarding(i)
      PROVE  ChatFits'
  <2>1. ~strays' => FileFits'
    <3>1. CASE Persists
      BY <1>25, <3>1, FileFitsSaved DEF CpTypes
    <3>2. CASE KeepsSaved
      BY <1>4, <1>25, <3>2, FileFitsStays DEF KeepsSaved, chatVars
    <3>3. QED
      BY <1>25, <3>1, <3>2
  <2>2. QED
    BY <1>4, <1>25, <2>1, ChatFitsStays
<1>8. ASSUME DOMAIN disk' = DOMAIN disk, \A i \in DOMAIN disk : SamePrompt(disk'[i], disk[i]),
             UNCHANGED <<chatVars, strays>>, \A i : Discarding(i)' <=> Discarding(i)
      PROVE  ChatFits'
  BY <1>8, <1>25 DEF chatVars, KeepsSaved
<1>9. ASSUME NEW saved \in [CpFiles -> Contents \cup {NotSaved}], rewind.at # "apply",
             UNCHANGED chatVars, strays => strays',
             \E ids : disk' \in {disk, Put(disk, nextCp, NewRecord(saved)),
                                 Without(Put(disk, nextCp, NewRecord(saved)), ids)}
      PROVE  ChatFits'
  <2> DEFINE record == NewRecord(saved)
  <2>1. record.chat = chat /\ record.compactions = compactions
    BY <1>9, NewRecordIs
  <2> HIDE DEF record
  <2>2. PICK ids : disk' \in {disk, Put(disk, nextCp, record), Without(Put(disk, nextCp, record), ids)}
    BY <1>9 DEF record
  <2>3. nextCp \notin DOMAIN disk
    BY DEF CpTypes, TableOK
  <2>4. /\ DOMAIN disk' \subseteq DOMAIN disk \cup {nextCp}
        /\ \A i \in DOMAIN disk' : i # nextCp => disk'[i] = disk[i]
        /\ nextCp \in DOMAIN disk' => disk'[nextCp] = record
    <3>1. CASE disk' = disk
      BY <2>3, <3>1
    <3>2. CASE disk' = Put(disk, nextCp, record)
      BY <3>2 DEF Put
    <3>3. CASE disk' = Without(Put(disk, nextCp, record), ids)
      BY <3>3 DEF Put, Without
    <3>4. QED
      BY <2>2, <3>1, <3>2, <3>3
  <2>5. QED
    BY <1>5, <1>9, <2>1, <2>4, ChatFitsMore
<1>10. CASE BeginTurn
  <2>1. \E ids : disk' \in {disk, Put(disk, nextCp, NewRecord(NothingSaved)),
                            Without(Put(disk, nextCp, NewRecord(NothingSaved)), ids)}
    BY <1>10, BeginTurnIs
  <2>2. strays => strays'
    BY <1>10, Zenon DEF BeginTurn
  <2>3. rewind.at = "none" /\ UNCHANGED chatVars
    BY <1>10 DEF BeginTurn, Idle
  <2>4. QED
    BY <1>9, <2>1, <2>2, <2>3, SavedAtFirst
<1>11. CASE PushPrompt
  <2>1. cpCounts.turns \in Int
    BY DEF CpTypes
  <2>2. /\ disk' = disk /\ rewind.at = "none" /\ UNCHANGED <<compactions, savedCompactions, strays>>
        /\ \/ chat' = chat /\ savedChat' = savedChat
           \/ chat' = Append(chat, cpCounts.turns) /\ savedChat' = Append(savedChat, cpCounts.turns)
    BY <1>1, <1>11 DEF PushPrompt
  <2>3. QED
    BY <1>3, <1>7, <2>1, <2>2
<1>12. CASE EndTurn
  <2>1. /\ rewind.at = "none" /\ UNCHANGED <<compactions, savedCompactions, strays>>
    BY <1>1, <1>12 DEF EndTurn
  <2>2. PICK x \in Int : \/ chat' = chat /\ savedChat' = savedChat
                         \/ chat' = Append(chat, x) /\ savedChat' = Append(savedChat, x)
    BY <1>12, EndTurnChats
  <2>3. OnlyNotes
    BY <1>12, EndTurnNotes
  <2>4. QED
    BY <1>7, <2>1, <2>2, <2>3 DEF OnlyNotes
<1>26. CASE SaveTurn
  <2>1. UNCHANGED <<disk, chat, compactions, strays, rewind>> /\ (Persists \/ KeepsSaved)
    BY <1>26 DEF SaveTurn, PersistFails, storeVars
  <2>2. \A i : Discarding(i)' <=> Discarding(i)
    BY <2>1 DEF Discarding
  <2>3. QED
    BY <1>3, <1>25, <2>1, <2>2
<1>13. CASE CompactChat
  <2>1. /\ disk' = disk /\ compactions' = compactions + 1 /\ strays' = strays
        /\ compactions \in Nat /\ savedCompactions \in Nat /\ rewind.at = "none"
        /\ Persists \/ KeepsSaved
    BY <1>1, <1>13 DEF CompactChat, Idle, storeVars, CpTypes
  <2>2. \A i \in DOMAIN disk : disk[i].compactions \in Nat
    BY DEF CpTypes, TableOK, CpRecords
  <2>3. ~strays => /\ \A i \in DOMAIN disk : disk[i].compactions <= compactions
                   /\ \A i, j \in DOMAIN disk :
                        i < j /\ disk[i].compactions = disk[j].compactions =>
                          Starts(disk[i].chat, disk[j].chat)
    BY DEF ChatFits
  <2>4. ~strays => \A i \in DOMAIN disk : disk[i].compactions < compactions'
    BY <2>1, <2>2, <2>3
  <2>5. ~strays => \A i \in DOMAIN disk :
                     disk[i].compactions <= compactions' /\ disk[i].compactions # compactions'
    BY <2>1, <2>2, <2>4
  <2>6. ~strays => FileFits'
    <3>1. CASE Persists
      BY <2>1, <3>1, FileFitsSaved
    <3>2. CASE KeepsSaved
      <4>1. ASSUME ~strays, NEW i \in DOMAIN disk, disk[i].compactions = savedCompactions
            PROVE  Starts(disk[i].chat, savedChat)
        <5>1. CASE savedCompactions = compactions
          BY <1>4, <1>5, <2>1, <4>1, <5>1 DEF FileFits
        <5>2. CASE savedCompactions # compactions
          BY <1>4, <4>1, <5>2 DEF FileFits
        <5>3. QED
          BY <5>1, <5>2
      <4>2. ~strays => savedCompactions <= compactions
        BY <1>4 DEF FileFits
      <4>3. ~strays => savedCompactions <= compactions + 1 /\ savedCompactions # compactions + 1
        BY <2>1, <4>2
      <4>4. QED
        BY <2>1, <3>2, <4>1, <4>3 DEF FileFits, KeepsSaved
    <3>3. QED
      BY <2>1, <3>1, <3>2
  <2>7. QED
    BY <2>1, <2>3, <2>5, <2>6 DEF ChatFits
<1>14. ASSUME NEW k \in CpFiles, ChangeFile(k) PROVE ChatFits'
  <2>1. OnlyNotes
    BY <1>14, ChangeFileNotes
  <2>2. UNCHANGED <<chatVars, strays, rewind>>
    BY <1>14 DEF ChangeFile, Changing
  <2>3. \A i : Discarding(i)' <=> Discarding(i)
    BY <2>2 DEF Discarding
  <2>4. QED
    BY <1>8, <2>1, <2>2, <2>3 DEF OnlyNotes
<1>15. ASSUME NEW k \in CpFiles, RunShell(k) PROVE ChatFits'
  <2>1. UNCHANGED <<chatVars, strays, rewind, disk>>
    BY <1>15 DEF RunShell, Changing
  <2>2. \A i : Discarding(i)' <=> Discarding(i)
    BY <2>1 DEF Discarding
  <2>3. QED
    BY <1>3, <1>8, <2>1, <2>2
<1>16. ASSUME NEW k \in CpFiles, ApplyFile(k) PROVE ChatFits'
  <2>1. UNCHANGED <<chatVars, strays, disk>>
    BY <1>16 DEF ApplyFile, storeVars
  <2>2. rewind.at = "apply" /\ rewind'.at = "apply" /\ rewind'.id = rewind.id /\ rewind'.mode = rewind.mode
    BY <1>16, ApplyFileIs DEF SameRewind
  <2>3. \A i : Discarding(i)' <=> Discarding(i)
    BY <2>2 DEF Discarding
  <2>4. QED
    BY <1>3, <1>8, <2>1, <2>3
<1>17. ASSUME NEW id \in 1..(nextCp - 1), NEW mode \in {"both", "chat", "code"},
              BeginRewind(id, mode)
       PROVE  ChatFits'
  <2>1. UNCHANGED <<chatVars, strays, disk>> /\ rewind.at = "none"
    BY <1>17 DEF BeginRewind, Idle, storeVars
  <2>2. rewind'.at # "apply"
    BY <1>17, RewindBegins
  <2>3. \A i : Discarding(i)' <=> Discarding(i)
    BY <2>1, <2>2 DEF Discarding
  <2>4. QED
    BY <1>3, <1>8, <2>1, <2>3
<1>18. CASE CutChat
  BY <1>18, ChatFitsAfterCutChat
<1>19. CASE ProtectFiles
  <2>1. disk' \in {disk, Put(disk, nextCp, NewRecord([k \in CpFiles |->
                                    IF k \in WillChange THEN files[k] ELSE NotSaved]))}
    BY <1>19 DEF ProtectFiles
  <2>2. strays => strays'
    BY <1>19, Zenon DEF ProtectFiles
  <2>3. rewind.at # "apply" /\ UNCHANGED chatVars
    BY <1>19 DEF ProtectFiles
  <2> DEFINE saved == [k \in CpFiles |-> IF k \in WillChange THEN files[k] ELSE NotSaved]
  <2>4. saved \in [CpFiles -> Contents \cup {NotSaved}]
    BY SavedAtFirst
  <2>5. disk' \in {disk, Put(disk, nextCp, NewRecord(saved))}
    BY <2>1
  <2> HIDE DEF saved
  <2>6. QED
    BY <1>9, <2>2, <2>3, <2>4, <2>5
<1>20. CASE RemoveRecord
  <2>1. PICK id \in DOMAIN records :
           \/ /\ disk' = Without(disk, {id}) /\ rewind' = rewind
              /\ strays' = (strays \/ (~RestoresChat(rewind.mode) /\ Left # {}))
           \/ /\ disk' = disk /\ rewind' = NoRewind
              /\ strays' = (strays \/ RestoresChat(rewind.mode))
    BY <1>20, RemoveRecordIs
  <2>2. DOMAIN disk' \subseteq DOMAIN disk /\ \A i \in DOMAIN disk' : disk'[i] = disk[i]
    BY <2>1 DEF Without
  <2>3. UNCHANGED chatVars
    BY <1>20 DEF RemoveRecord
  <2>4. strays => strays'
    BY <2>1, Zenon
  <2>5. ~strays' => \A i : ~Discarding(i)' => ~Discarding(i)
    <3>1. CASE rewind' = rewind
      BY <3>1 DEF Discarding
    <3>2. CASE strays' = (strays \/ RestoresChat(rewind.mode))
      <4>1. ~strays' => ~RestoresChat(rewind.mode)
        BY <3>2
      <4>2. QED
        BY <4>1 DEF Discarding
    <3>3. QED
      BY <2>1, <3>1, <3>2
  <2>6. QED
    <3>1. DOMAIN disk' \subseteq DOMAIN disk /\ \A i \in DOMAIN disk' : SamePrompt(disk'[i], disk[i])
      BY <1>3, <2>2
    <3>2. ~strays' => FileFits'
      BY <1>4, <2>3, <2>4, <3>1, FileFitsStays
    <3>3. QED
      BY <1>4, <2>3, <2>4, <2>5, <3>1, <3>2, ChatFitsStays DEF chatVars
<1>21. CASE ReportRewind
  <2>1. /\ disk' = disk /\ UNCHANGED <<chat, compactions, strays>> /\ (Persists \/ KeepsSaved)
        /\ rewind.at = "apply" /\ ToRemove = {}
    BY <1>21 DEF ReportRewind, RewindDone, PersistFails, storeVars
  <2>2. ~strays => \A i \in DOMAIN disk : ~Discarding(i)
    <3> SUFFICES ASSUME ~strays, NEW i \in DOMAIN disk, Discarding(i) PROVE FALSE
      OBVIOUS
    <3>1. i >= rewind.id /\ RestoresChat(rewind.mode)
      BY DEF Discarding
    <3>2. From(rewind.id) = {}
      BY <2>1, <3>1 DEF ToRemove
    <3>3. i \in Left
      BY <3>1, <3>2 DEF From, Left
    <3>4. i < rewind.id
      BY <2>1, <3>3 DEF DiskFits
    <3>5. i \in Nat /\ rewind.id \in Nat
      BY DEF CpTypes, TableOK, Rewinds
    <3>6. QED
      BY <3>1, <3>4, <3>5
  <2>3. QED
    BY <1>3, <1>25, <2>1, <2>2
<1>22. CASE CpCrash
  <2>1. DOMAIN disk' = DOMAIN disk /\ \A i \in DOMAIN disk : SamePrompt(disk'[i], disk[i])
    BY <1>22, CrashNotes
  <2>2. /\ chat' = savedChat /\ savedChat' = savedChat
        /\ compactions' = savedCompactions /\ savedCompactions' = savedCompactions
        /\ strays' = (\/ strays
                      \/ rewind.at = "apply" /\ RestoresChat(rewind.mode)
                      \/ \E id \in DOMAIN disk : disk[id].compactions > savedCompactions)
    BY <1>22 DEF CpCrash, Reloads
  <2>3. \A i \in DOMAIN disk : disk'[i].compactions = disk[i].compactions /\ disk'[i].chat = disk[i].chat
    BY <2>1 DEF SamePrompt
  <2>4. savedCompactions \in Nat /\ \A i \in DOMAIN disk : disk[i].compactions \in Nat
    BY DEF CpTypes, TableOK, CpRecords
  <2>5. ~strays' => ~strays /\ \A i : ~Discarding(i)
    BY <2>2 DEF Discarding
  <2>6. ~strays' => \A i \in DOMAIN disk : disk[i].compactions <= savedCompactions
    BY <2>2, <2>4
  <2>7. ASSUME ~strays', NEW i \in DOMAIN disk, disk[i].compactions = savedCompactions
        PROVE  Starts(disk[i].chat, savedChat)
    <3>1. CASE savedCompactions = compactions
      BY <1>4, <2>5, <2>7, <3>1 DEF FileFits
    <3>2. CASE savedCompactions # compactions
      BY <1>4, <2>5, <2>7, <3>2 DEF FileFits
    <3>3. QED
      BY <3>1, <3>2
  <2>8. ~strays' => \A i, j \in DOMAIN disk :
          i < j /\ disk[i].compactions = disk[j].compactions => Starts(disk[i].chat, disk[j].chat)
    BY <2>5 DEF ChatFits
  <2>9. FileFits'
    BY <2>2, <2>4 DEF FileFits
  <2>10. QED
    BY <2>1, <2>2, <2>3, <2>6, <2>7, <2>8, <2>9 DEF ChatFits
<1>23. CASE CpRests \/ UNCHANGED cpVars
  <2>1. UNCHANGED <<chatVars, strays, rewind, disk>>
    BY <1>23 DEF CpRests, cpVars, storeVars
  <2>2. \A i : Discarding(i)' <=> Discarding(i)
    BY <2>1 DEF Discarding
  <2>3. QED
    BY <1>3, <1>8, <2>1, <2>2
<1>24. QED
  BY <1>10, <1>11, <1>12, <1>13, <1>14, <1>15, <1>16, <1>17, <1>18, <1>19, <1>20, <1>21, <1>22,
     <1>23, <1>26 DEF CpNext

\* Every step keeps the rewind to its record, and the chat to the one it chose.
LEMMA RewindFitsStep ==
  ASSUME CpTypes, TurnFits, DiskFits, ChatFits, RewindFits, CpNext \/ UNCHANGED cpVars
  PROVE  RewindFits'
<1>1. turn # "none" => rewind.at = "none"
  BY DEF TurnFits
<1>2. NoRewind.at = "none"
  BY NoRewindIs
<1>3. ASSUME rewind'.at = "none" PROVE RewindFits'
  BY <1>3 DEF RewindFits
<1>4. CASE BeginTurn
  BY <1>3, <1>4 DEF BeginTurn, Idle
<1>5. CASE PushPrompt
  BY <1>1, <1>3, <1>5 DEF PushPrompt
<1>6. CASE EndTurn
  BY <1>1, <1>3, <1>6 DEF EndTurn
<1>19. CASE SaveTurn
  BY <1>1, <1>3, <1>19 DEF SaveTurn
<1>7. CASE CompactChat
  BY <1>1, <1>3, <1>7 DEF CompactChat, Idle
<1>8. ASSUME NEW k \in CpFiles, ChangeFile(k) PROVE RewindFits'
  BY <1>1, <1>3, <1>8 DEF ChangeFile, Changing
<1>9. ASSUME NEW k \in CpFiles, RunShell(k) PROVE RewindFits'
  BY <1>1, <1>3, <1>9 DEF RunShell, Changing
<1>10. ASSUME NEW k \in CpFiles, ApplyFile(k) PROVE RewindFits'
  <2>1. /\ rewind.at = "apply" /\ rewind'.at = "apply" /\ SameRewind(rewind', rewind)
        /\ k \in DOMAIN rewind.plan
    BY <1>10, ApplyFileIs
  <2>2. UNCHANGED <<records, chat, strays>>
    BY <1>10 DEF ApplyFile, storeVars, chatVars
  <2>3. QED
    BY <2>1, <2>2 DEF RewindFits, SameRewind
<1>11. ASSUME NEW id \in 1..(nextCp - 1), NEW mode \in {"both", "chat", "code"},
              BeginRewind(id, mode)
       PROVE  RewindFits'
  <2>1. rewind'.at # "apply" /\ rewind'.id = id /\ rewind'.was = records[id]
    BY <1>11, RewindBegins
  <2>2. records' = records /\ id \in DOMAIN records
    BY <1>11 DEF BeginRewind, storeVars
  <2>3. QED
    BY <2>1, <2>2 DEF RewindFits
<1>12. CASE CutChat
  <2> DEFINE kept == SubSeq(chat, 1, rewind.was.cut)
  <2>1. \/ rewind' = NoRewind
        \/ chat' = kept /\ rewind' = [rewind EXCEPT !.at = "apply"] /\ strays' = strays
    BY <1>12 DEF CutChat
  <2>2. ~strays => kept = rewind.was.chat
    BY <1>12, CutIs
  <2> HIDE DEF kept
  <2>3. CASE chat' = kept /\ rewind' = [rewind EXCEPT !.at = "apply"] /\ strays' = strays
    <3>1. rewind'.at = "apply" /\ SameRewind(rewind', rewind)
      BY <2>3, RewindGoesOn
    <3>2. records' = records /\ rewind.at = "cut"
      BY <1>12 DEF CutChat, storeVars
    <3>3. QED
      BY <2>2, <2>3, <3>1, <3>2 DEF RewindFits, SameRewind
  <2>4. QED
    BY <1>2, <1>3, <2>1, <2>3
<1>13. CASE ProtectFiles
  <2>1. rewind.mode = "code" /\ rewind' \in {[rewind EXCEPT !.at = "apply"], NoRewind}
    BY <1>13 DEF ProtectFiles, TurnFits
  <2>2. CASE rewind' = [rewind EXCEPT !.at = "apply"]
    <3>1. rewind'.at = "apply" /\ rewind'.mode = "code"
      BY <2>1, <2>2, RewindGoesOn DEF SameRewind
    <3>2. ~RestoresChat(rewind'.mode)
      BY <3>1 DEF RestoresChat
    <3>3. QED
      BY <3>1, <3>2 DEF RewindFits
  <2>3. QED
    BY <1>2, <1>3, <2>1, <2>2
<1>14. CASE RemoveRecord
  <2>1. /\ rewind.at = "apply" /\ DOMAIN rewind.plan = {} /\ rewind' \in {rewind, NoRewind}
        /\ chat' = chat
    BY <1>14 DEF RemoveRecord, chatVars
  <2>2. CASE rewind' = rewind
    <3>1. ~strays' => ~strays
      <4>1. PICK id \in DOMAIN records :
               \/ strays' = (strays \/ (~RestoresChat(rewind.mode) /\ Left # {}))
               \/ strays' = (strays \/ RestoresChat(rewind.mode))
        BY <1>14, RemoveRecordIs
      <4>2. QED
        BY <4>1, Zenon
    <3>2. rewind'.at = "apply" /\ DOMAIN rewind'.plan = {}
      BY <2>1, <2>2
    <3>3. RestoresChat(rewind'.mode) /\ ~strays' => chat' = rewind'.was.chat
      BY <2>1, <2>2, <3>1 DEF RewindFits
    <3>4. QED
      BY <3>2, <3>3 DEF RewindFits
  <2>3. QED
    BY <1>2, <1>3, <2>1, <2>2
<1>15. CASE ReportRewind
  BY <1>2, <1>3, <1>15 DEF ReportRewind
<1>16. CASE CpCrash
  BY <1>2, <1>3, <1>16 DEF CpCrash
<1>17. CASE CpRests \/ UNCHANGED cpVars
  <2>1. UNCHANGED <<records, chat, strays, rewind>>
    BY <1>17 DEF CpRests, cpVars, storeVars, chatVars
  <2>2. QED
    BY <2>1 DEF RewindFits
<1>18. QED
  BY <1>4, <1>5, <1>6, <1>7, <1>8, <1>9, <1>10, <1>11, <1>12, <1>13, <1>14, <1>15, <1>16, <1>17,
     <1>19 DEF CpNext

CpInvChat == CpInvTypes /\ DiskFits /\ ChatFits /\ RewindFits

\* What the records say of the chat holds at the start.
LEMMA CpChatInit ==
  ASSUME CpInit
  PROVE  CpInvChat
<1>1. CpInvTypes
  BY CpTypesInit
<1>2. /\ records = <<>> /\ disk = <<>> /\ rewind = NoRewind /\ savedChat = chat
      /\ savedCompactions = 0 /\ compactions = 0
  BY DEF CpInit
<1>3. DiskFits
  BY <1>2 DEF DiskFits, Left
<1>4. ChatFits
  BY <1>2 DEF ChatFits, FileFits
<1>5. RewindFits
  BY <1>2, NoRewindIs DEF RewindFits
<1>6. QED
  BY <1>1, <1>3, <1>4, <1>5 DEF CpInvChat

\* Every step keeps it.
LEMMA CpChatStep ==
  ASSUME CpInvChat, CpNext \/ UNCHANGED cpVars
  PROVE  CpInvChat'
<1>1. CpTypes /\ TurnFits /\ DiskFits /\ ChatFits /\ RewindFits
  BY DEF CpInvChat, CpInvTypes
<1>2. CpInvTypes'
  BY CpTypesStep DEF CpInvChat
<1>3. DiskFits' /\ ChatFits' /\ RewindFits'
  BY <1>1, DiskFitsStep, ChatFitsStep, RewindFitsStep
<1>4. QED
  BY <1>2, <1>3 DEF CpInvChat

\* It implies that a rewind cuts at its prompt.
LEMMA CutsWhereThePromptWas ==
  ASSUME CpInvChat
  PROVE  CutsAtItsPrompt
BY DEF CpInvChat, RewindFits, CutsAtItsPrompt

\* It implies that the checkpoints that are offered are of this chat.
LEMMA RecordsFitTheChat ==
  ASSUME CpInvChat
  PROVE  CheckpointsFitTheChat
<1> SUFFICES ASSUME Idle, ~strays, NEW id \in DOMAIN records, ChatAllows(records[id])
    PROVE  Lists!IsPrefix(records[id].chat, chat)
  BY DEF CheckpointsFitTheChat
<1> DEFINE prompt == records[id].chat
<1>1. id \in DOMAIN disk /\ disk[id].chat = prompt /\ disk[id].compactions = records[id].compactions
  BY DEF CpInvChat, DiskFits, SamePrompt
<1>2. records[id].compactions = compactions /\ ~Discarding(id)
  BY DEF ChatAllows, Idle, Discarding
<1>3. Starts(prompt, chat)
  BY <1>1, <1>2 DEF CpInvChat, ChatFits
<1>4. prompt \in Seq(Int) /\ chat \in Seq(Int)
  BY DEF CpInvChat, CpInvTypes, CpTypes, TableOK, CpRecords
<1> HIDE DEF prompt
<1>5. SubSeq(chat, 1, Len(prompt)) = prompt
  BY <1>3, <1>4, CutWhereItStarts
<1>6. SubSeq(prompt, 1, Len(prompt)) = prompt
  BY <1>4, SubSeqFull
<1>7. Len(prompt) <= Len(chat)
  BY <1>3 DEF Starts
<1>8. Lists!IsPrefix(prompt, chat)
  BY <1>5, <1>6, <1>7 DEF Lists!IsPrefix
<1>9. QED
  BY <1>8 DEF prompt

\* The records' invariant holds in every reachable state: a record is of a beginning of the
\* chat if its compaction count is the chat's, of a beginning of the file's chat if it is the
\* file's, and never of a count later than the session's.
THEOREM ChatInvariance == CpSpec => []CpInvChat
<1>1. CpInit => CpInvChat
  BY CpChatInit
<1>2. CpInvChat /\ [CpNext]_cpVars => CpInvChat'
  BY CpChatStep
<1>3. QED
  BY <1>1, <1>2, PTL DEF CpSpec

\* A rewind of the chat leaves exactly the conversation its prompt was added to, whatever
\* turns, compactions, failed saves, crashes and other rewinds came between; but not once a
\* rewind was cut short after it cut the chat, or the process died before a compaction was
\* saved after which checkpoints were made.
THEOREM ChatGoesBackToItsPrompt == CpSpec => []CutsAtItsPrompt
<1>1. CpInvChat => CutsAtItsPrompt
  BY CutsWhereThePromptWas
<1>2. QED
  BY <1>1, ChatInvariance, PTL

\* The checkpoints that are offered are of prompts of this conversation, whatever came
\* between, but for the same two cases (strays).
THEOREM CheckpointsAreOfTheChat == CpSpec => []CheckpointsFitTheChat
<1>1. CpInvChat => CheckpointsFitTheChat
  BY RecordsFitTheChat
<1>2. QED
  BY <1>1, ChatInvariance, PTL

-----------------------------------------------------------------------------
(* The records, the copies and the files *)

CopiedAlike(a, b, k) ==
  /\ a.saved[k] = b.saved[k]
  /\ (k \in a.after) <=> (k \in b.after)
  /\ (k \in a.shell) <=> (k \in b.shell)

\* The folder has the copies of the list, but for the files a failed write left out.
CopiesFit ==
  \A i \in DOMAIN records, k \in CpFiles \ gaps : CopiedAlike(disk[i], records[i], k)

\* A rewind of the chat removes the chosen record first, then those after it.
Gone(j) == Discarding(j) /\ rewind.id \notin DOMAIN records

\* A record knows of a change of the file after its prompt.
Explained(i, k) == disk[i].saved[k] # NotSaved \/ k \in disk[i].shell
Quiet(k, i, j) == \A m \in DOMAIN disk : i <= m /\ m < j => ~Explained(m, k)
QuietSince(k, i) == \A m \in DOMAIN disk : i <= m /\ ~Gone(m) => ~Explained(m, k)

\* The file as it was before the shell commands of the turn under way.
BeforeShell(k) == IF baseline = NoBaseline THEN files[k] ELSE baseline.scan[k]

\* What no record knows of has not changed: from one record to another, and from a record to
\* now.
Links(k) ==
  \A i, j \in DOMAIN disk :
    i <= j /\ ~Gone(j) /\ Quiet(k, i, j) => disk[i].files[k] = disk[j].files[k]
Reaches(k) ==
  \A i \in DOMAIN disk :
    ~Discarding(i) /\ QuietSince(k, i) => disk[i].files[k] = BeforeShell(k)

\* A copy is of the file as its prompt found it, unless a shell command came first.
OldCopies(k) ==
  \A i \in DOMAIN disk :
    disk[i].saved[k] \in {NotSaved, disk[i].files[k]} \/ k \in disk[i].after

Explains == ~strays => \A k \in CpFiles \ gaps : Links(k) /\ Reaches(k) /\ OldCopies(k)

\* What is still to be written back is known to a record, of the ones a rewind of the chat will
\* remove or the one a rewind of the files alone has just made.
PlanIsExplained ==
  rewind.at \in {"cut", "apply"} /\ ~strays => \A k \in DOMAIN rewind.plan \ gaps :
    \/ files[k] = rewind.plan[k]
    \/ \E g \in DOMAIN disk :
         /\ disk[g].saved[k] # NotSaved
         /\ IF RestoresChat(rewind.mode) THEN g >= rewind.id ELSE g = nextCp - 1

\* Each file is or will be as the prompt found it, or is in the report, or was hidden.
PlanRestores ==
  rewind.at # "none" /\ RestoresCode(rewind.mode) /\ ~strays =>
    \A k \in CpFiles \ gaps :
      IF k \in DOMAIN rewind.plan
      THEN rewind.plan[k] = rewind.was.files[k] \/ k \in rewind.kept \/ k \in rewind.hidden
      ELSE files[k] = rewind.was.files[k] \/ k \in rewind.report \/ k \in rewind.hidden

\* What is known of a file stays true when no record is added and those removed are older than
\* the rest or gone, unless the file changes and none of the newer records knows.
LEMMA LinksStay ==
  ASSUME CpTypes, NEW k \in CpFiles, Links(k), Reaches(k),
         DOMAIN disk' \subseteq DOMAIN disk,
         \A i \in DOMAIN disk' : /\ disk'[i].files[k] = disk[i].files[k]
                                 /\ Explained(i, k) => Explained(i, k)'
                                 /\ Gone(i)' <=> Gone(i)
                                 /\ Discarding(i) => Discarding(i)',
         \A m \in DOMAIN disk \ DOMAIN disk' : Gone(m) \/ \A i \in DOMAIN disk' : m < i,
         \A i \in DOMAIN disk' :
           QuietSince(k, i)' /\ ~Discarding(i)' => BeforeShell(k)' = BeforeShell(k)
  PROVE  Links(k)' /\ Reaches(k)'
<1>1. \A i \in DOMAIN disk : i \in Nat
  BY DEF CpTypes, TableOK
<1>2. rewind.id \in Nat
  BY DEF CpTypes, Rewinds
<1>3. Links(k)'
  <2> SUFFICES ASSUME NEW i \in DOMAIN disk', NEW j \in DOMAIN disk', i <= j, ~Gone(j)',
                      Quiet(k, i, j)'
      PROVE  disk'[i].files[k] = disk'[j].files[k]
    BY DEF Links
  <2>1. i \in DOMAIN disk /\ j \in DOMAIN disk /\ ~Gone(j)
    OBVIOUS
  <2>2. ASSUME NEW m \in DOMAIN disk, i <= m, m < j PROVE ~Explained(m, k)
    <3>1. CASE m \in DOMAIN disk'
      BY <2>2, <3>1 DEF Quiet
    <3>2. CASE m \notin DOMAIN disk'
      <4>1. ~(m < i)
        BY <1>1, <2>1, <2>2
      <4>2. Gone(m)
        BY <3>2, <4>1
      <4>3. Gone(j)
        BY <1>1, <1>2, <2>1, <2>2, <4>2 DEF Gone, Discarding
      <4>4. QED
        BY <2>1, <4>3
    <3>3. QED
      BY <3>1, <3>2
  <2>3. Quiet(k, i, j)
    BY <2>2 DEF Quiet
  <2>4. QED
    BY <2>1, <2>3 DEF Links
<1>4. Reaches(k)'
  <2> SUFFICES ASSUME NEW i \in DOMAIN disk', ~Discarding(i)', QuietSince(k, i)'
      PROVE  disk'[i].files[k] = BeforeShell(k)'
    BY DEF Reaches
  <2>1. i \in DOMAIN disk /\ ~Discarding(i)
    OBVIOUS
  <2>2. ASSUME NEW m \in DOMAIN disk, i <= m, ~Gone(m) PROVE ~Explained(m, k)
    <3>1. CASE m \in DOMAIN disk'
      BY <2>2, <3>1 DEF QuietSince
    <3>2. CASE m \notin DOMAIN disk'
      <4>1. ~(m < i)
        BY <1>1, <2>1, <2>2
      <4>2. QED
        BY <2>2, <3>2, <4>1
    <3>3. QED
      BY <3>1, <3>2
  <2>3. QuietSince(k, i)
    BY <2>2 DEF QuietSince
  <2>4. QED
    BY <2>1, <2>3 DEF Reaches
<1>5. QED
  BY <1>3, <1>4

\* The same when a record of the files as they are is put in as the newest.
LEMMA LinksGrow ==
  ASSUME CpTypes, NEW k \in CpFiles, Links(k), Reaches(k),
         DOMAIN disk' \subseteq DOMAIN disk \cup {nextCp}, nextCp \in DOMAIN disk',
         \A i \in DOMAIN disk' : i # nextCp => disk'[i] = disk[i],
         disk'[nextCp].files = files,
         \A m \in DOMAIN disk \ DOMAIN disk' : \A i \in DOMAIN disk' : m < i,
         \A i \in Nat : ~Discarding(i) /\ ~Gone(i) /\ ~Discarding(i)' /\ ~Gone(i)',
         files' = files, baseline = NoBaseline, baseline' = NoBaseline
  PROVE  Links(k)' /\ Reaches(k)'
<1>0. PICK n \in Nat : n = nextCp
  BY DEF CpTypes
<1>1. nextCp \in Nat /\ \A i \in DOMAIN disk : i \in Nat /\ i < nextCp
  BY DEF CpTypes, TableOK
<1>2. \A i \in DOMAIN disk' : i # nextCp => i \in DOMAIN disk /\ disk'[i] = disk[i] /\ i < nextCp
  BY <1>1
<1>3. \A i \in DOMAIN disk' : i \in Nat /\ i <= nextCp
  BY <1>1, <1>2
<1>4. BeforeShell(k) = files[k] /\ BeforeShell(k)' = files[k]
  BY DEF BeforeShell
<1>5. ASSUME NEW i \in DOMAIN disk', i # nextCp, NEW j \in Nat, Quiet(k, i, j)'
      PROVE  Quiet(k, i, j)
  <2> SUFFICES ASSUME NEW m \in DOMAIN disk, i <= m, m < j PROVE ~Explained(m, k)
    BY DEF Quiet
  <2>1. i \in Nat /\ m \in Nat /\ m # nextCp
    BY <1>1, <1>3
  <2>2. ~(m < i)
    BY <2>1
  <2>3. m \in DOMAIN disk'
    BY <2>2
  <2>4. ~Explained(m, k)'
    BY <1>5, <2>3 DEF Quiet
  <2>5. disk'[m] = disk[m]
    BY <1>2, <2>1, <2>3
  <2>6. QED
    BY <2>4, <2>5 DEF Explained
<1>6. ASSUME NEW i \in DOMAIN disk', i # nextCp, Quiet(k, i, n)'
      PROVE  disk'[i].files[k] = files[k]
  <2>1. Quiet(k, i, n) /\ i \in DOMAIN disk /\ disk'[i] = disk[i]
    BY <1>0, <1>1, <1>2, <1>5, <1>6
  <2>2. QuietSince(k, i)
    BY <1>0, <1>1, <2>1 DEF Quiet, QuietSince
  <2>3. ~Discarding(i)
    BY <1>1, <2>1
  <2>4. disk[i].files[k] = BeforeShell(k)
    BY <2>1, <2>2, <2>3 DEF Reaches
  <2>5. QED
    BY <1>4, <2>1, <2>4
<1>7. Links(k)'
  <2> SUFFICES ASSUME NEW i \in DOMAIN disk', NEW j \in DOMAIN disk', i <= j, Quiet(k, i, j)'
      PROVE  disk'[i].files[k] = disk'[j].files[k]
    BY DEF Links
  <2>1. CASE i = nextCp
    <3>1. j = i
      BY <1>3, <2>1
    <3>2. QED
      BY <3>1
  <2>2. CASE i # nextCp /\ j = nextCp
    BY <1>0, <1>6, <2>2
  <2>3. CASE i # nextCp /\ j # nextCp
    <3>1. Quiet(k, i, j)
      BY <1>3, <1>5, <2>3
    <3>2. /\ i \in DOMAIN disk /\ disk'[i] = disk[i]
          /\ j \in DOMAIN disk /\ disk'[j] = disk[j] /\ j \in Nat
      BY <1>2, <1>3, <2>3
    <3>3. QED
      BY <3>1, <3>2 DEF Links
  <2>4. QED
    BY <2>1, <2>2, <2>3
<1>8. Reaches(k)'
  <2> SUFFICES ASSUME NEW i \in DOMAIN disk', QuietSince(k, i)'
      PROVE  disk'[i].files[k] = files[k]
    BY <1>4 DEF Reaches
  <2>1. CASE i = nextCp
    BY <2>1
  <2>2. CASE i # nextCp
    <3>1. Quiet(k, i, n)'
      BY <1>3 DEF Quiet, QuietSince
    <3>2. QED
      BY <1>6, <2>2, <3>1
  <2>3. QED
    BY <2>1, <2>2
<1>9. QED
  BY <1>7, <1>8

\* What the store does not know it never learns.
LEMMA GapsGrow ==
  ASSUME CpTypes, CpNext \/ UNCHANGED cpVars
  PROVE  gaps \subseteq gaps'
<1>1. BeginTurn \/ PushPrompt \/ CompactChat \/ CutChat \/ ProtectFiles \/ CpCrash
        => gaps \subseteq gaps'
  BY DEF BeginTurn, PushPrompt, CompactChat, CutChat, ProtectFiles, CpCrash
<1>8. SaveTurn \/ ReportRewind => gaps \subseteq gaps'
  BY DEF SaveTurn, ReportRewind
<1>2. EndTurn => gaps \subseteq gaps'
  BY DEF EndTurn, FinishDone, FinishFailed
<1>3. ASSUME NEW k \in CpFiles PROVE ChangeFile(k) \/ RunShell(k) \/ ApplyFile(k) => gaps \subseteq gaps'
  BY DEF ChangeFile, RunShell, ApplyFile
<1>4. ASSUME NEW id \in 1..(nextCp - 1), NEW mode \in {"both", "chat", "code"}
      PROVE  BeginRewind(id, mode) => gaps \subseteq gaps'
  BY DEF BeginRewind
<1>5. RemoveRecord => gaps \subseteq gaps'
  BY DEF RemoveRecord
<1>6. CpRests \/ UNCHANGED cpVars => gaps \subseteq gaps'
  BY DEF CpRests, cpVars
<1>7. QED
  BY <1>1, <1>2, <1>3, <1>4, <1>5, <1>6, <1>8 DEF CpNext

\* The end of a turn, for a file the store knows: the shell's change is in the open record.
LEMMA EndTurnKnows ==
  ASSUME CpTypes, TurnFits, DiskFits, CopiesFit, EndTurn, NEW k \in CpFiles \ gaps'
  PROVE  /\ \A i \in DOMAIN records : CopiedAlike(disk'[i], records'[i], k)
         /\ \A i \in DOMAIN disk : /\ disk'[i].saved[k] = disk[i].saved[k]
                                   /\ (k \in disk'[i].after) <=> (k \in disk[i].after)
                                   /\ k \in disk[i].shell => k \in disk'[i].shell
         /\ baseline # NoBaseline /\ baseline.scan[k] # files[k] => k \in disk'[active].shell
<1> DEFINE new == Recorded(records, baseline)
           b == baseline.id
<1>1. \A i \in DOMAIN records : records[i] \in CpRecords
  BY DEF CpTypes, TableOK
<1>2. /\ DOMAIN new = DOMAIN records /\ \A i \in DOMAIN records : SameButShell(new[i], records[i])
      /\ \A i \in DOMAIN records :
           new[i].shell = IF baseline # NoBaseline /\ i = baseline.id
                          THEN records[i].shell \cup ChangedSince(baseline) ELSE records[i].shell
  BY <1>1, RecordedIs
<1>3. /\ records' = new
      /\ \/ baseline = NoBaseline /\ disk' = disk
         \/ baseline # NoBaseline /\ disk' = Put(disk, b, new[b])
         \/ /\ baseline # NoBaseline /\ disk' = disk
            /\ gaps' = gaps \cup ChangedSince(baseline)
  BY DEF EndTurn, FinishDone, FinishFailed
<1>4. k \in CpFiles /\ k \notin gaps
  BY DEF EndTurn, FinishDone, FinishFailed
<1> HIDE DEF new
<1>5. /\ DOMAIN records \subseteq DOMAIN disk
      /\ \A i \in DOMAIN records : CopiedAlike(disk[i], records[i], k)
      /\ baseline # NoBaseline => b \in DOMAIN records /\ b = active
  BY <1>4 DEF DiskFits, TurnFits, CopiesFit
<1>6. \A i \in DOMAIN records :
        /\ new[i].saved[k] = records[i].saved[k]
        /\ (k \in new[i].after) <=> (k \in records[i].after)
        /\ (k \in new[i].shell) <=>
             (k \in records[i].shell \/
              (baseline # NoBaseline /\ i = b /\ k \in ChangedSince(baseline)))
  BY <1>2 DEF SameButShell
<1>7. baseline.scan[k] # files[k] <=> k \in ChangedSince(baseline)
  BY <1>4 DEF ChangedSince
<1> HIDE DEF b
<1>8. CASE baseline = NoBaseline /\ disk' = disk
  BY <1>3, <1>5, <1>6, <1>8 DEF CopiedAlike
<1>9. CASE baseline # NoBaseline /\ disk' = Put(disk, b, new[b])
  <2>1. /\ DOMAIN disk' = DOMAIN disk /\ disk'[b] = new[b]
        /\ \A i \in DOMAIN disk : i # b => disk'[i] = disk[i]
    BY <1>5, <1>9 DEF Put
  <2>2. \A i \in DOMAIN records : CopiedAlike(disk'[i], new[i], k)
    <3> SUFFICES ASSUME NEW i \in DOMAIN records PROVE CopiedAlike(disk'[i], new[i], k)
      OBVIOUS
    <3>1. CASE i = b
      BY <2>1, <3>1 DEF CopiedAlike
    <3>2. CASE i # b
      BY <1>5, <1>6, <2>1, <3>2 DEF CopiedAlike
    <3>3. QED
      BY <3>1, <3>2
  <2>3. ASSUME NEW i \in DOMAIN disk
        PROVE  /\ disk'[i].saved[k] = disk[i].saved[k]
               /\ (k \in disk'[i].after) <=> (k \in disk[i].after)
               /\ k \in disk[i].shell => k \in disk'[i].shell
    <3>1. CASE i = b
      BY <1>5, <1>6, <1>9, <2>1, <3>1 DEF CopiedAlike
    <3>2. CASE i # b
      BY <2>1, <3>2
    <3>3. QED
      BY <3>1, <3>2
  <2>4. k \in ChangedSince(baseline) => k \in disk'[b].shell
    BY <1>5, <1>6, <1>9, <2>1
  <2>5. QED
    BY <1>3, <1>5, <1>7, <1>9, <2>2, <2>3, <2>4
<1>10. CASE baseline # NoBaseline /\ disk' = disk /\ gaps' = gaps \cup ChangedSince(baseline)
  <2>1. k \notin ChangedSince(baseline)
    BY <1>10
  <2>2. QED
    BY <1>3, <1>5, <1>6, <1>7, <1>10, <2>1 DEF CopiedAlike
<1>11. QED
  BY <1>3, <1>8, <1>9, <1>10

\* A file tool's change of f, for a file the store knows: the copy of f is of the file before
\* it, unless an earlier one is there.
LEMMA ChangeFileKnows ==
  ASSUME CpTypes, TurnFits, DiskFits, CopiesFit, NEW f \in CpFiles, ChangeFile(f),
         NEW k \in CpFiles \ gaps'
  PROVE  /\ k \notin gaps
         /\ \A i \in DOMAIN records : CopiedAlike(disk'[i], records'[i], k)
         /\ \A i \in DOMAIN disk :
              /\ (k \in disk'[i].shell) <=> (k \in disk[i].shell)
              /\ k \in disk[i].after => k \in disk'[i].after
              /\ \/ disk'[i].saved[k] = disk[i].saved[k]
                 \/ /\ k = f /\ i = active /\ disk[i].saved[k] = NotSaved
                    /\ disk'[i].saved[k] = files[k] /\ (AfterShell(k) => k \in disk'[i].after)
         /\ k = f => active \in DOMAIN disk /\ disk'[active].saved[k] # NotSaved
<1> DEFINE new == Saving(f)
<1>1. k \in CpFiles /\ k \notin gaps
  BY DEF ChangeFile
<1>2. /\ DOMAIN records \subseteq DOMAIN disk
      /\ \A i \in DOMAIN records : CopiedAlike(disk[i], records[i], k)
      /\ active # 0 => active \in DOMAIN records
  BY <1>1 DEF DiskFits, TurnFits, CopiesFit
<1>3. active # 0 =>
        /\ DOMAIN new = DOMAIN records
        /\ \A i \in DOMAIN records : i # active => new[i] = records[i]
        /\ new[active].saved = [records[active].saved EXCEPT ![f] = files[f]]
        /\ new[active].after = IF AfterShell(f) THEN records[active].after \cup {f}
                               ELSE records[active].after
        /\ new[active].shell = records[active].shell
        /\ records[active].saved \in [CpFiles -> Contents \cup {NotSaved}]
  <2> SUFFICES ASSUME active # 0 PROVE
        /\ DOMAIN new = DOMAIN records
        /\ \A i \in DOMAIN records : i # active => new[i] = records[i]
        /\ new[active].saved = [records[active].saved EXCEPT ![f] = files[f]]
        /\ new[active].after = IF AfterShell(f) THEN records[active].after \cup {f}
                               ELSE records[active].after
        /\ new[active].shell = records[active].shell
        /\ records[active].saved \in [CpFiles -> Contents \cup {NotSaved}]
    OBVIOUS
  <2>1. active \in DOMAIN records
    BY <1>2
  <2>2. records[active].saved \in [CpFiles -> Contents \cup {NotSaved}]
    BY <2>1 DEF CpTypes, TableOK, CpRecords
  <2>3. QED
    BY <2>1, <2>2, SavingIs
<1> HIDE DEF new
<1>4. files[f] # NotSaved
  BY DEF CpTypes, Contents, NotSaved, CpBoundsAssumption
<1>5. \/ /\ active # 0 /\ records[active].saved[f] = NotSaved
         /\ records' = new /\ disk' = Put(disk, active, new[active])
      \/ /\ active # 0 /\ records' \in {records, new} /\ disk' = disk /\ f \in gaps'
      \/ /\ active # 0 /\ records[active].saved[f] # NotSaved
         /\ records' = records /\ disk' = disk
      \/ records' = records /\ disk' = disk /\ f \in gaps'
  BY DEF ChangeFile, new
<1>6. CASE /\ active # 0 /\ records[active].saved[f] = NotSaved
           /\ records' = new /\ disk' = Put(disk, active, new[active])
  <2>1. /\ DOMAIN disk' = DOMAIN disk /\ disk'[active] = new[active]
        /\ \A i \in DOMAIN disk : i # active => disk'[i] = disk[i]
        /\ active \in DOMAIN disk /\ active \in DOMAIN records
    BY <1>2, <1>6 DEF Put
  <2>2. \A i \in DOMAIN records : CopiedAlike(disk'[i], records'[i], k)
    <3> SUFFICES ASSUME NEW i \in DOMAIN records PROVE CopiedAlike(disk'[i], new[i], k)
      BY <1>6
    <3>1. CASE i = active
      BY <2>1, <3>1 DEF CopiedAlike
    <3>2. CASE i # active
      BY <1>2, <1>3, <1>6, <2>1, <3>2 DEF CopiedAlike
    <3>3. QED
      BY <3>1, <3>2
  <2>3. /\ new[active].saved[k] = IF k = f THEN files[k] ELSE records[active].saved[k]
        /\ (k \in new[active].after) <=> (k \in records[active].after \/ (k = f /\ AfterShell(f)))
        /\ (k \in new[active].shell) <=> (k \in records[active].shell)
    BY <1>1, <1>3, <1>6
  <2>4. ASSUME NEW i \in DOMAIN disk
        PROVE  /\ (k \in disk'[i].shell) <=> (k \in disk[i].shell)
               /\ k \in disk[i].after => k \in disk'[i].after
               /\ \/ disk'[i].saved[k] = disk[i].saved[k]
                  \/ /\ k = f /\ i = active /\ disk[i].saved[k] = NotSaved
                     /\ disk'[i].saved[k] = files[k] /\ (AfterShell(k) => k \in disk'[i].after)
    <3>1. CASE i = active
      BY <1>2, <1>6, <2>1, <2>3, <3>1 DEF CopiedAlike
    <3>2. CASE i # active
      BY <2>1, <3>2
    <3>3. QED
      BY <3>1, <3>2
  <2>5. k = f => disk'[active].saved[k] # NotSaved
    BY <1>4, <2>1, <2>3
  <2>6. QED
    BY <1>1, <2>1, <2>2, <2>4, <2>5
<1>7. CASE active # 0 /\ records' \in {records, new} /\ disk' = disk /\ f \in gaps'
  <2>1. k # f
    BY <1>7
  <2>2. \A i \in DOMAIN records : CopiedAlike(disk'[i], records'[i], k)
    <3>1. CASE records' = records
      BY <1>2, <1>7, <3>1
    <3>2. CASE records' = new
      <4> SUFFICES ASSUME NEW i \in DOMAIN records PROVE CopiedAlike(disk[i], new[i], k)
        BY <1>7, <3>2
      <4>1. CASE i = active
        <5>1. /\ new[active].saved[k] = records[active].saved[k]
              /\ (k \in new[active].after) <=> (k \in records[active].after)
              /\ (k \in new[active].shell) <=> (k \in records[active].shell)
          BY <1>1, <1>3, <1>7, <2>1
        <5>2. QED
          BY <1>2, <4>1, <5>1 DEF CopiedAlike
      <4>2. CASE i # active
        BY <1>2, <1>3, <1>7, <4>2 DEF CopiedAlike
      <4>3. QED
        BY <4>1, <4>2
    <3>3. QED
      BY <1>7, <3>1, <3>2
  <2>3. QED
    BY <1>1, <1>7, <2>1, <2>2
<1>8. CASE /\ active # 0 /\ records[active].saved[f] # NotSaved
           /\ records' = records /\ disk' = disk
  BY <1>1, <1>2, <1>8 DEF CopiedAlike
<1>9. CASE records' = records /\ disk' = disk /\ f \in gaps'
  BY <1>1, <1>2, <1>9
<1>10. QED
  BY <1>5, <1>6, <1>7, <1>8, <1>9

\* A restart: what the shell commands of the turn that was interrupted changed is in its
\* record.
LEMMA CrashKnows ==
  ASSUME CpTypes, TurnFits, DiskFits, CpCrash, NEW k \in CpFiles
  PROVE  /\ \A i \in DOMAIN disk : /\ disk'[i].saved[k] = disk[i].saved[k]
                                   /\ (k \in disk'[i].after) <=> (k \in disk[i].after)
                                   /\ k \in disk[i].shell => k \in disk'[i].shell
         /\ baseline # NoBaseline /\ baseline.scan[k] # files[k] => k \in disk'[active].shell
<1> DEFINE base == IF diskBaseline # NoBaseline /\ diskBaseline.id \in DOMAIN disk
                   THEN diskBaseline ELSE NoBaseline
           new == Recorded(disk, base)
<1>1. \A i \in DOMAIN disk : disk[i] \in CpRecords
  BY DEF CpTypes, TableOK
<1>2. baseline # NoBaseline => base = baseline /\ baseline.id = active /\ active \in DOMAIN disk
  BY DEF TurnFits, DiskFits
<1>3. disk' = Recorded(disk, base)
  BY DEF CpCrash
<1> HIDE DEF base
<1>4. /\ \A i \in DOMAIN disk : SameButShell(new[i], disk[i])
      /\ \A i \in DOMAIN disk :
           new[i].shell = IF base # NoBaseline /\ i = base.id
                          THEN disk[i].shell \cup ChangedSince(base) ELSE disk[i].shell
  BY <1>1, RecordedIs
<1> HIDE DEF new
<1>5. \A i \in DOMAIN disk : /\ new[i].saved[k] = disk[i].saved[k]
                             /\ (k \in new[i].after) <=> (k \in disk[i].after)
                             /\ k \in disk[i].shell => k \in new[i].shell
  BY <1>4 DEF SameButShell
<1>6. baseline # NoBaseline /\ baseline.scan[k] # files[k] => k \in new[active].shell
  BY <1>2, <1>4 DEF ChangedSince
<1>7. QED
  BY <1>3, <1>5, <1>6 DEF new

\* A new record is the newest in the list and in the folder, and what is removed is older
\* than all that stay.
Gains(record) ==
  /\ DOMAIN disk' \subseteq DOMAIN disk \cup {nextCp} /\ nextCp \in DOMAIN disk'
  /\ disk'[nextCp] = record
  /\ \A i \in DOMAIN disk' : i # nextCp => disk'[i] = disk[i]
  /\ \A m \in DOMAIN disk \ DOMAIN disk' : \A i \in DOMAIN disk' : m < i
SameOrNew(record) ==
  \A i \in DOMAIN records' :
    \/ i \in DOMAIN records /\ records'[i] = records[i] /\ disk'[i] = disk[i]
    \/ i = nextCp /\ records'[i] = record /\ disk'[i] = record

\* What begin_turn does to the list and the folder, unless it leaves stray checkpoints.
LEMMA BeginTurnTables ==
  ASSUME CpTypes, DiskFits, BeginTurn
  PROVE  LET record == NewRecord(NothingSaved) IN
         /\ strays => strays'
         /\ SameOrNew(record)
         /\ ~strays' => disk' = disk \/ Gains(record)
<1> DEFINE record == NewRecord(NothingSaved)
<1>1. /\ DOMAIN records \subseteq DOMAIN disk /\ nextCp \in Nat
      /\ \A i \in DOMAIN disk : i < nextCp /\ i \in Nat
  BY DEF DiskFits, CpTypes, TableOK
<1>2. /\ strays => strays'
      /\ ~strays' => ~(Left # {} /\ DOMAIN disk \ DOMAIN disk' # {})
  BY Zenon DEF BeginTurn
<1> HIDE DEF record
<1>3. CASE records' = records /\ disk' \in {disk, Put(disk, nextCp, record)} /\ (disk' # disk => strays')
  <2>1. \A i \in DOMAIN disk : disk'[i] = disk[i]
    BY <1>1, <1>3 DEF Put
  <2>2. SameOrNew(record)
    BY <1>1, <1>3, <2>1 DEF SameOrNew
  <2>3. QED
    BY <1>2, <1>3, <2>2 DEF record
<1>4. ASSUME NEW ids \in SUBSET DOMAIN records,
             \A i \in ids, j \in DOMAIN records : j < i => j \in ids,
             records' = Without(Put(records, nextCp, record), ids),
             disk' \in {Without(Put(disk, nextCp, record), ids), Put(disk, nextCp, record)}
      PROVE  SameOrNew(record) /\ (~strays' => Gains(record))
  <2>1. nextCp \notin ids
    BY <1>1
  <2>2. /\ DOMAIN records' = (DOMAIN records \ ids) \cup {nextCp}
        /\ records'[nextCp] = record
        /\ \A i \in DOMAIN records \ ids : i # nextCp => records'[i] = records[i]
    BY <1>4, <2>1 DEF Put, Without
  <2>3. /\ DOMAIN disk' \in {(DOMAIN disk \ ids) \cup {nextCp}, DOMAIN disk \cup {nextCp}}
        /\ disk'[nextCp] = record
        /\ \A i \in DOMAIN disk \ ids : i # nextCp => disk'[i] = disk[i]
        /\ \A i \in DOMAIN disk' : i # nextCp => disk'[i] = disk[i]
    BY <1>4, <2>1 DEF Put, Without
  <2>4. SameOrNew(record)
    BY <1>1, <2>2, <2>3 DEF SameOrNew
  <2>5. ASSUME ~strays', NEW m \in DOMAIN disk \ DOMAIN disk', NEW i \in DOMAIN disk' PROVE m < i
    <3>1. m \in ids /\ m < nextCp /\ m \in Nat
      BY <1>1, <2>3
    <3>2. CASE i = nextCp
      BY <3>1, <3>2
    <3>3. CASE i # nextCp
      <4>1. Left = {}
        BY <1>2, <2>5
      <4>2. i \in DOMAIN records /\ i \notin ids
        BY <2>3, <2>5, <3>3, <4>1 DEF Left
      <4>3. ~(i < m) /\ i # m
        BY <1>4, <3>1, <4>2
      <4>4. i \in Nat
        BY <1>1, <4>2
      <4>5. QED
        BY <3>1, <4>3, <4>4
    <3>4. QED
      BY <3>2, <3>3
  <2>6. QED
    BY <2>3, <2>4, <2>5 DEF Gains
<1>5. QED
  BY <1>2, <1>3, <1>4, BeginTurnIs DEF record

\* What save_before_rewind does to them.
LEMMA ProtectFilesTables ==
  ASSUME CpTypes, DiskFits, ProtectFiles
  PROVE  LET record == NewRecord([k \in CpFiles |-> IF k \in WillChange THEN files[k] ELSE NotSaved])
         IN
         /\ strays => strays'
         /\ SameOrNew(record)
         /\ ~strays' => \/ disk' = disk /\ nextCp' = nextCp /\ WillChange = {}
                        \/ disk' = disk /\ rewind' = NoRewind
                        \/ Gains(record) /\ nextCp' = nextCp + 1
<1> DEFINE record == NewRecord([k \in CpFiles |-> IF k \in WillChange THEN files[k] ELSE NotSaved])
<1>1. /\ DOMAIN records \subseteq DOMAIN disk /\ nextCp \in Nat
      /\ \A i \in DOMAIN disk : i < nextCp /\ i \in Nat
  BY DEF DiskFits, CpTypes, TableOK
<1>2. /\ strays => strays'
      /\ records' = records /\ disk' # disk => strays'
  BY Zenon DEF ProtectFiles
<1>3. \/ /\ records' = Put(records, nextCp, record) /\ disk' = Put(disk, nextCp, record)
         /\ nextCp' = nextCp + 1
      \/ records' = records /\ disk' = disk /\ nextCp' = nextCp /\ WillChange = {}
      \/ /\ records' = records /\ disk' \in {disk, Put(disk, nextCp, record)}
         /\ rewind' = NoRewind
  BY DEF ProtectFiles
<1> HIDE DEF record
<1>4. CASE records' = Put(records, nextCp, record) /\ disk' = Put(disk, nextCp, record)
  <2>1. SameOrNew(record)
    BY <1>1, <1>4 DEF SameOrNew, Put
  <2>2. Gains(record)
    BY <1>4 DEF Gains, Put
  <2>3. QED
    BY <1>2, <1>3, <1>4, <2>1, <2>2 DEF record
<1>5. CASE records' = records /\ disk' = disk
  <2>1. SameOrNew(record)
    BY <1>5 DEF SameOrNew
  <2>2. records' # Put(records, nextCp, record)
    BY <1>1, <1>5 DEF Put
  <2>3. \/ disk' = disk /\ nextCp' = nextCp /\ WillChange = {}
        \/ disk' = disk /\ rewind' = NoRewind
    BY <1>3, <1>5, <2>2
  <2>4. QED
    BY <1>2, <2>1, <2>3 DEF record
<1>6. CASE records' = records /\ disk' = Put(disk, nextCp, record) /\ disk' # disk
  <2>1. \A i \in DOMAIN disk : disk'[i] = disk[i]
    BY <1>1, <1>6 DEF Put
  <2>2. SameOrNew(record)
    BY <1>1, <1>6, <2>1 DEF SameOrNew
  <2>3. QED
    BY <1>2, <1>6, <2>2 DEF record
<1>7. QED
  BY <1>3, <1>4, <1>5, <1>6

\* Every step keeps the copies of the folder those of the list.
LEMMA CopiesFitStep ==
  ASSUME CpTypes, TurnFits, DiskFits, CopiesFit, CpNext \/ UNCHANGED cpVars
  PROVE  CopiesFit'
<1>1. gaps \subseteq gaps'
  BY GapsGrow
<1>2. ASSUME UNCHANGED storeVars PROVE CopiesFit'
  BY <1>1, <1>2 DEF CopiesFit, storeVars
<1>3. \A a, k : CopiedAlike(a, a, k)
  BY DEF CopiedAlike
<1>4. ASSUME NEW record, SameOrNew(record) PROVE CopiesFit'
  BY <1>1, <1>3, <1>4 DEF CopiesFit, SameOrNew
<1>5. CASE BeginTurn
  BY <1>4, <1>5, BeginTurnTables
<1>6. CASE CompactChat \/ CutChat \/ SaveTurn \/ ReportRewind
  BY <1>2, <1>6 DEF CompactChat, CutChat, SaveTurn, ReportRewind
<1>17. CASE PushPrompt
  BY <1>1, <1>17 DEF PushPrompt, CopiesFit
<1>7. CASE EndTurn
  <2>1. DOMAIN records' = DOMAIN records
    BY <1>7, EndTurnNotes DEF OnlyNotes
  <2>2. \A k \in CpFiles \ gaps', i \in DOMAIN records : CopiedAlike(disk'[i], records'[i], k)
    BY <1>7, EndTurnKnows
  <2>3. QED
    BY <2>1, <2>2 DEF CopiesFit
<1>8. ASSUME NEW f \in CpFiles, ChangeFile(f) PROVE CopiesFit'
  <2>1. DOMAIN records' = DOMAIN records
    BY <1>8, ChangeFileNotes DEF OnlyNotes
  <2>2. \A k \in CpFiles \ gaps', i \in DOMAIN records : CopiedAlike(disk'[i], records'[i], k)
    BY <1>8, ChangeFileKnows
  <2>3. QED
    BY <2>1, <2>2 DEF CopiesFit
<1>9. ASSUME NEW f \in CpFiles, RunShell(f) PROVE CopiesFit'
  BY <1>1, <1>9 DEF RunShell, CopiesFit
<1>10. ASSUME NEW f \in CpFiles, ApplyFile(f) PROVE CopiesFit'
  BY <1>2, <1>10 DEF ApplyFile
<1>11. ASSUME NEW id \in 1..(nextCp - 1), NEW mode \in {"both", "chat", "code"},
              BeginRewind(id, mode)
       PROVE  CopiesFit'
  BY <1>2, <1>11 DEF BeginRewind
<1>12. CASE ProtectFiles
  BY <1>4, <1>12, ProtectFilesTables
<1>13. CASE RemoveRecord
  <2>1. PICK id \in DOMAIN records :
           /\ records' = Without(records, {id})
           /\ disk' = Without(disk, {id}) \/ disk' = disk
    BY <1>13, RemoveRecordIs
  <2>2. \A i \in DOMAIN records' : /\ i \in DOMAIN records /\ records'[i] = records[i]
                                   /\ disk'[i] = disk[i]
    BY <2>1 DEF Without, DiskFits
  <2>3. QED
    BY <1>1, <2>2 DEF CopiesFit
<1>14. CASE CpCrash
  <2>1. records' = disk'
    BY <1>14 DEF CpCrash
  <2>2. QED
    BY <1>3, <2>1 DEF CopiesFit
<1>15. CASE CpRests \/ UNCHANGED cpVars
  BY <1>2, <1>15 DEF CpRests, cpVars
<1>16. QED
  BY <1>5, <1>6, <1>7, <1>8, <1>9, <1>10, <1>11, <1>12, <1>13, <1>14, <1>15,
     <1>17 DEF CpNext

\* A copy that is of the file as its prompt found it stays so.
LEMMA OldCopiesStay ==
  ASSUME NEW k, OldCopies(k), DOMAIN disk' \subseteq DOMAIN disk,
         \A i \in DOMAIN disk' : /\ disk'[i].files[k] = disk[i].files[k]
                                 /\ disk'[i].saved[k] = disk[i].saved[k]
                                 /\ k \in disk[i].after => k \in disk'[i].after
  PROVE  OldCopies(k)'
BY DEF OldCopies

\* What the records know of one file.
Knows(k) == Links(k) /\ Reaches(k) /\ OldCopies(k)

\* It stays true when the records of the folder stay and only gain notes of the file.
LEMMA KnowsStays ==
  ASSUME CpTypes, NEW k \in CpFiles, Knows(k),
         DOMAIN disk' = DOMAIN disk, \A i \in DOMAIN disk : SamePrompt(disk'[i], disk[i]),
         \A i \in DOMAIN disk : /\ disk'[i].saved[k] = disk[i].saved[k]
                                /\ k \in disk[i].after => k \in disk'[i].after
                                /\ k \in disk[i].shell => k \in disk'[i].shell,
         \A i \in DOMAIN disk : /\ Gone(i)' <=> Gone(i)
                                /\ Discarding(i) => Discarding(i)',
         \A i \in DOMAIN disk :
           QuietSince(k, i)' /\ ~Discarding(i)' => BeforeShell(k)' = BeforeShell(k)
  PROVE  Knows(k)'
<1>1. \A i \in DOMAIN disk' : disk'[i].files[k] = disk[i].files[k]
  BY DEF SamePrompt
<1>2. \A i \in DOMAIN disk' : Explained(i, k) => Explained(i, k)'
  BY DEF Explained
<1>3. Links(k)' /\ Reaches(k)'
  BY <1>1, <1>2, LinksStay DEF Knows
<1>4. OldCopies(k)'
  BY <1>1, OldCopiesStay DEF Knows
<1>5. QED
  BY <1>3, <1>4 DEF Knows

\* The end of a turn: what its shell commands changed is noted before the scan goes.
LEMMA KnowsAfterEndTurn ==
  ASSUME CpTypes, TurnFits, DiskFits, CopiesFit, EndTurn, NEW k \in CpFiles \ gaps', Knows(k)
  PROVE  Knows(k)'
<1>1. /\ rewind.at = "none" /\ rewind' = rewind /\ files' = files
      /\ baseline' = NoBaseline
  BY DEF EndTurn, TurnFits, FinishDone, FinishFailed
<1>2. /\ DOMAIN disk' = DOMAIN disk /\ \A i \in DOMAIN disk : SamePrompt(disk'[i], disk[i])
  BY EndTurnNotes DEF OnlyNotes
<1>3. /\ \A i \in DOMAIN disk : /\ disk'[i].saved[k] = disk[i].saved[k]
                                /\ k \in disk[i].after => k \in disk'[i].after
                                /\ k \in disk[i].shell => k \in disk'[i].shell
      /\ baseline # NoBaseline /\ baseline.scan[k] # files[k] => k \in disk'[active].shell
  BY EndTurnKnows
<1>4. \A i : ~Gone(i)' /\ ~Gone(i) /\ ~Discarding(i)
  BY <1>1 DEF Gone, Discarding
<1>5. ASSUME NEW i \in DOMAIN disk, QuietSince(k, i)' PROVE BeforeShell(k)' = BeforeShell(k)
  <2>1. CASE baseline = NoBaseline \/ baseline.scan[k] = files[k]
    BY <1>1, <2>1 DEF BeforeShell
  <2>2. CASE baseline # NoBaseline /\ baseline.scan[k] # files[k]
    <3>1. active \in DOMAIN disk /\ active = nextCp - 1 /\ k \in disk'[active].shell
      BY <1>3, <2>2 DEF TurnFits, DiskFits
    <3>2. i \in 1..(nextCp - 1) /\ nextCp \in Nat
      BY DEF CpTypes, TableOK
    <3>3. i <= active
      BY <3>1, <3>2
    <3>4. PICK n : n = active
      OBVIOUS
    <3>5. Explained(n, k)' /\ n \in DOMAIN disk' /\ i <= n /\ ~Gone(n)'
      BY <1>2, <1>4, <3>1, <3>3, <3>4 DEF Explained
    <3>6. QED
      BY <1>5, <3>5 DEF QuietSince
  <2>3. QED
    BY <2>1, <2>2
<1>6. QED
  BY <1>2, <1>3, <1>4, <1>5, KnowsStays

\* A file tool's change: the copy taken before it is of the file as the prompt found it, or after
\* a shell command.
LEMMA KnowsAfterChangeFile ==
  ASSUME CpTypes, TurnFits, DiskFits, CopiesFit, NEW f \in CpFiles, ChangeFile(f),
         NEW k \in CpFiles \ gaps', Knows(k)
  PROVE  Knows(k)'
<1>1. /\ turn = "running" /\ rewind.at = "none" /\ rewind' = rewind /\ active' = active
      /\ baseline' = baseline /\ \E content : files' = [files EXCEPT ![f] = content]
  BY DEF ChangeFile, Changing, TurnFits
<1>2. /\ DOMAIN disk' = DOMAIN disk /\ \A i \in DOMAIN disk : SamePrompt(disk'[i], disk[i])
  BY ChangeFileNotes DEF OnlyNotes
<1>3. /\ k \notin gaps
      /\ \A i \in DOMAIN disk :
           /\ (k \in disk'[i].shell) <=> (k \in disk[i].shell)
           /\ k \in disk[i].after => k \in disk'[i].after
           /\ \/ disk'[i].saved[k] = disk[i].saved[k]
              \/ /\ k = f /\ i = active /\ disk[i].saved[k] = NotSaved
                 /\ disk'[i].saved[k] = files[k] /\ (AfterShell(k) => k \in disk'[i].after)
      /\ k = f => active \in DOMAIN disk /\ disk'[active].saved[k] # NotSaved
  BY ChangeFileKnows
<1>4. \A i : ~Gone(i)' /\ ~Gone(i) /\ ~Discarding(i)' /\ ~Discarding(i)
  BY <1>1 DEF Gone, Discarding
<1>5. k # f => BeforeShell(k)' = BeforeShell(k)
  <2>1. k # f => files'[k] = files[k]
    BY <1>1
  <2>2. QED
    BY <1>1, <2>1 DEF BeforeShell
<1>6. CASE k # f
  <2>1. \A i \in DOMAIN disk : disk'[i].saved[k] = disk[i].saved[k]
    BY <1>3, <1>6
  <2>2. QED
    BY <1>2, <1>3, <1>4, <1>5, <1>6, <2>1, KnowsStays
<1>7. CASE k = f
  <2>1. active \in DOMAIN disk /\ disk'[active].saved[k] # NotSaved /\ active \in 1..(nextCp - 1)
        /\ nextCp \in Nat
    BY <1>3, <1>7 DEF CpTypes, TableOK
  <2>2. active # 0 /\ active = nextCp - 1 /\ active \in DOMAIN records /\ records[active].shell = {}
    BY <2>1 DEF TurnFits
  <2>3. ASSUME NEW i \in DOMAIN disk PROVE ~QuietSince(k, i)'
    <3>1. i <= active
      BY <2>1, <2>2 DEF CpTypes, TableOK
    <3>2. PICK n : n = active
      OBVIOUS
    <3>3. Explained(n, k)' /\ n \in DOMAIN disk' /\ i <= n /\ ~Gone(n)'
      BY <1>2, <1>4, <2>1, <3>1, <3>2 DEF Explained
    <3>4. QED
      BY <3>3 DEF QuietSince
  <2>4. \A i \in DOMAIN disk' : Explained(i, k) => Explained(i, k)'
    <3> SUFFICES ASSUME NEW i \in DOMAIN disk, Explained(i, k) PROVE Explained(i, k)'
      BY <1>2
    <3>1. CASE disk'[i].saved[k] = disk[i].saved[k]
      BY <1>3, <3>1 DEF Explained
    <3>2. CASE i = active
      BY <2>1, <3>2 DEF Explained
    <3>3. QED
      BY <1>3, <3>1, <3>2
  <2>5. \A i \in DOMAIN disk' : disk'[i].files[k] = disk[i].files[k]
    BY <1>2 DEF SamePrompt
  <2>6. Links(k)' /\ Reaches(k)'
    BY <1>2, <1>4, <2>3, <2>4, <2>5, LinksStay DEF Knows
  <2>7. ASSUME NEW i \in DOMAIN disk', i = active, disk[i].saved[k] = NotSaved, ~AfterShell(k)
        PROVE  disk[i].files[k] = files[k]
    <3>1. BeforeShell(k) = files[k]
      BY <2>7 DEF AfterShell, BeforeShell
    <3>2. k \notin disk[i].shell
      BY <1>3, <2>2, <2>7 DEF CopiesFit, CopiedAlike
    <3>3. \A m \in DOMAIN disk : i <= m => m = i
      BY <2>1, <2>2, <2>7 DEF CpTypes, TableOK
    <3>4. QuietSince(k, i)
      BY <2>7, <3>2, <3>3 DEF QuietSince, Explained
    <3>5. QED
      BY <1>2, <1>4, <2>7, <3>1, <3>4 DEF Knows, Reaches
  <2>8. OldCopies(k)'
    <3> SUFFICES ASSUME NEW i \in DOMAIN disk'
        PROVE disk'[i].saved[k] \in {NotSaved, disk'[i].files[k]} \/ k \in disk'[i].after
      BY DEF OldCopies
    <3>1. CASE disk'[i].saved[k] = disk[i].saved[k]
      BY <1>2, <1>3, <2>5, <3>1 DEF Knows, OldCopies
    <3>2. CASE /\ i = active /\ disk[i].saved[k] = NotSaved
               /\ disk'[i].saved[k] = files[k] /\ (AfterShell(k) => k \in disk'[i].after)
      BY <2>5, <2>7, <3>2
    <3>3. QED
      BY <1>2, <1>3, <3>1, <3>2
  <2>9. QED
    BY <2>6, <2>8 DEF Knows
<1>8. QED
  BY <1>6, <1>7

\* A restart: what the shell commands of the turn changed is noted from the scan in the folder.
LEMMA KnowsAfterCrash ==
  ASSUME CpTypes, TurnFits, DiskFits, CpCrash, ~strays', NEW k \in CpFiles, Knows(k)
  PROVE  Knows(k)'
<1>1. /\ files' = files /\ baseline' = NoBaseline /\ rewind'.at = "none"
      /\ ~(rewind.at = "apply" /\ RestoresChat(rewind.mode))
  BY NoRewindIs DEF CpCrash
<1>2. DOMAIN disk' = DOMAIN disk /\ \A i \in DOMAIN disk : SamePrompt(disk'[i], disk[i])
  BY CrashNotes
<1>3. /\ \A i \in DOMAIN disk : /\ disk'[i].saved[k] = disk[i].saved[k]
                                /\ k \in disk[i].after => k \in disk'[i].after
                                /\ k \in disk[i].shell => k \in disk'[i].shell
      /\ baseline # NoBaseline /\ baseline.scan[k] # files[k] => k \in disk'[active].shell
  BY CrashKnows
<1>4. \A i : ~Gone(i)' /\ ~Gone(i) /\ ~Discarding(i)
  BY <1>1 DEF Gone, Discarding
<1>5. ASSUME NEW i \in DOMAIN disk, QuietSince(k, i)' PROVE BeforeShell(k)' = BeforeShell(k)
  <2>1. CASE baseline = NoBaseline \/ baseline.scan[k] = files[k]
    BY <1>1, <2>1 DEF BeforeShell
  <2>2. CASE baseline # NoBaseline /\ baseline.scan[k] # files[k]
    <3>1. active \in DOMAIN disk /\ active = nextCp - 1 /\ k \in disk'[active].shell
      BY <1>3, <2>2 DEF TurnFits, DiskFits
    <3>2. i \in 1..(nextCp - 1) /\ nextCp \in Nat
      BY DEF CpTypes, TableOK
    <3>3. i <= active
      BY <3>1, <3>2
    <3>4. PICK n : n = active
      OBVIOUS
    <3>5. Explained(n, k)' /\ n \in DOMAIN disk' /\ i <= n /\ ~Gone(n)'
      BY <1>2, <1>4, <3>1, <3>3, <3>4 DEF Explained
    <3>6. QED
      BY <1>5, <3>5 DEF QuietSince
  <2>3. QED
    BY <2>1, <2>2
<1>6. QED
  BY <1>2, <1>3, <1>4, <1>5, KnowsStays

\* The chosen record goes: those before it know of the file what they knew of it in that
\* record, which is what the file is, or the store will not know of it.
LEMMA KnowsAfterFirstDiscard ==
  ASSUME CpTypes, DiskFits, NEW k \in CpFiles, Knows(k), rewind.id \in DOMAIN records,
         rewind.at = "apply", RestoresChat(rewind.mode), rewind' = rewind,
         records' = Without(records, {rewind.id}), disk' = Without(disk, {rewind.id}),
         k \notin ChangedAfter(records[rewind.id]),
         files' = files, baseline = NoBaseline, baseline' = NoBaseline
  PROVE  Knows(k)'
<1>1. PICK n : n = rewind.id
  OBVIOUS
<1>2. /\ \A i \in DOMAIN disk : i \in Nat
      /\ n \in DOMAIN disk /\ n \in Nat
      /\ disk[n].files = records[n].files
  BY <1>1 DEF CpTypes, TableOK, DiskFits, SamePrompt
<1>3. disk[n].files[k] = files[k]
  BY <1>1, <1>2 DEF ChangedAfter
<1>4. /\ DOMAIN disk' = DOMAIN disk \ {n}
      /\ \A i \in DOMAIN disk' : i \in DOMAIN disk /\ i \in Nat /\ disk'[i] = disk[i]
  BY <1>1, <1>2 DEF Without
<1>5. /\ \A i \in Nat : Discarding(i) <=> i >= n
      /\ \A i \in Nat : Discarding(i)' <=> i >= n
  BY <1>1 DEF Discarding
<1>6. /\ \A i : ~Gone(i)
      /\ \A i \in Nat : Gone(i)' <=> i >= n
  <2>1. rewind'.id \notin DOMAIN records'
    BY DEF Without
  <2>2. QED
    BY <1>5, <2>1 DEF Gone
<1>7. \A i \in DOMAIN disk' : Explained(i, k)' <=> Explained(i, k)
  BY <1>4 DEF Explained
<1>8. ASSUME NEW i \in DOMAIN disk', NEW j \in DOMAIN disk, j <= n, Quiet(k, i, j)' PROVE Quiet(k, i, j)
  <2> SUFFICES ASSUME NEW m \in DOMAIN disk, i <= m, m < j PROVE ~Explained(m, k)
    BY DEF Quiet
  <2>1. m # n
    BY <1>2, <1>8
  <2>2. m \in DOMAIN disk'
    BY <1>4, <2>1
  <2>3. QED
    BY <1>7, <1>8, <2>2 DEF Quiet
<1>9. Links(k)'
  <2> SUFFICES ASSUME NEW i \in DOMAIN disk', NEW j \in DOMAIN disk', i <= j, ~Gone(j)',
                      Quiet(k, i, j)'
      PROVE  disk'[i].files[k] = disk'[j].files[k]
    BY DEF Links
  <2>1. j \in DOMAIN disk /\ j <= n /\ i \in DOMAIN disk
    BY <1>2, <1>4, <1>6
  <2>2. Quiet(k, i, j)
    BY <1>8, <2>1
  <2>3. disk[i].files[k] = disk[j].files[k]
    BY <1>6, <2>1, <2>2 DEF Knows, Links
  <2>4. QED
    BY <1>4, <2>3
<1>10. Reaches(k)'
  <2> SUFFICES ASSUME NEW i \in DOMAIN disk', ~Discarding(i)', QuietSince(k, i)'
      PROVE  disk'[i].files[k] = BeforeShell(k)'
    BY DEF Reaches
  <2>1. i \in DOMAIN disk /\ i <= n
    BY <1>2, <1>4, <1>5
  <2>2. Quiet(k, i, n)'
    <3> SUFFICES ASSUME NEW m \in DOMAIN disk', i <= m, m < n PROVE ~Explained(m, k)'
      BY DEF Quiet
    <3>1. ~Gone(m)'
      BY <1>2, <1>4, <1>6
    <3>2. QED
      BY <3>1 DEF QuietSince
  <2>3. Quiet(k, i, n)
    BY <1>2, <1>8, <2>2
  <2>4. disk[i].files[k] = disk[n].files[k]
    BY <1>2, <1>6, <2>1, <2>3 DEF Knows, Links
  <2>5. BeforeShell(k)' = files[k]
    BY DEF BeforeShell
  <2>6. QED
    BY <1>3, <1>4, <2>4, <2>5
<1>11. OldCopies(k)'
  BY <1>4, OldCopiesStay DEF Knows
<1>12. QED
  BY <1>9, <1>10, <1>11 DEF Knows

\* A record is removed: the oldest, or one a rewind of the chat made out of date.
LEMMA KnowsAfterRemoveRecord ==
  ASSUME CpTypes, TurnFits, DiskFits, RemoveRecord, ~strays', NEW k \in CpFiles \ gaps', Knows(k)
  PROVE  Knows(k)'
<1>1. /\ rewind.at = "apply" /\ files' = files /\ baseline' = baseline /\ baseline = NoBaseline
  BY DEF RemoveRecord, TurnFits
<1>2. PICK id \in DOMAIN records :
           /\ id \in ToRemove /\ \A i \in ToRemove : id <= i
           /\ RestoresChat(rewind.mode) => id >= rewind.id
           /\ ~RestoresChat(rewind.mode) => \A i \in DOMAIN records : id <= i
           /\ records' = Without(records, {id})
           /\ gaps' = IF RestoresChat(rewind.mode) THEN gaps \cup ChangedAfter(records[id])
                      ELSE gaps
           /\ \/ /\ disk' = Without(disk, {id}) /\ rewind' = rewind
                 /\ strays' = (strays \/ (~RestoresChat(rewind.mode) /\ Left # {}))
              \/ /\ disk' = disk /\ rewind' = NoRewind
                 /\ strays' = (strays \/ RestoresChat(rewind.mode))
  BY RemoveRecordIs
<1>3. /\ \A i \in DOMAIN disk : i \in Nat
      /\ id \in Nat /\ rewind.id \in Nat
      /\ DOMAIN records \subseteq DOMAIN disk
  BY DEF CpTypes, TableOK, Rewinds, DiskFits
<1>4. \/ disk' = Without(disk, {id}) /\ rewind' = rewind /\ (RestoresChat(rewind.mode) \/ Left = {})
      \/ disk' = disk /\ rewind' = NoRewind /\ ~RestoresChat(rewind.mode)
  BY <1>2
<1>5. DOMAIN disk' \subseteq DOMAIN disk /\ \A i \in DOMAIN disk' : disk'[i] = disk[i]
  BY <1>2 DEF Without
<1>6. OldCopies(k)'
  BY <1>5, OldCopiesStay DEF Knows
<1>7. BeforeShell(k)' = BeforeShell(k)
  BY <1>1 DEF BeforeShell
<1>8. \A i \in DOMAIN disk' : Explained(i, k) => Explained(i, k)'
  BY <1>5 DEF Explained
<1>9. CASE RestoresChat(rewind.mode) /\ rewind.id \in DOMAIN records
  <2>1. rewind.id \in ToRemove
    BY <1>3, <1>9 DEF ToRemove, From
  <2>2. id <= rewind.id /\ id >= rewind.id
    BY <1>2, <1>9, <2>1
  <2>3. id = rewind.id
    BY <1>3, <2>2
  <2>4. k \notin ChangedAfter(records[rewind.id])
    BY <1>2, <1>9, <2>3
  <2>5. records' = Without(records, {rewind.id}) /\ disk' = Without(disk, {rewind.id}) /\ rewind' = rewind
    BY <1>2, <1>4, <1>9, <2>3
  <2>6. QED
    BY <1>1, <1>9, <2>4, <2>5, KnowsAfterFirstDiscard
<1>10. CASE RestoresChat(rewind.mode) /\ rewind.id \notin DOMAIN records
  <2>1. disk' = Without(disk, {id}) /\ rewind' = rewind /\ rewind.id \notin DOMAIN records'
    BY <1>2, <1>4, <1>10 DEF Without
  <2>2. \A i : (Gone(i)' <=> Gone(i)) /\ (Discarding(i)' <=> Discarding(i))
    BY <1>10, <2>1 DEF Gone, Discarding
  <2>3. Gone(id) /\ DOMAIN disk \ DOMAIN disk' \subseteq {id}
    BY <1>1, <1>2, <1>10, <2>1 DEF Gone, Discarding, Without
  <2>4. Links(k)' /\ Reaches(k)'
    BY <1>5, <1>7, <1>8, <2>2, <2>3, LinksStay DEF Knows
  <2>5. QED
    BY <1>6, <2>4 DEF Knows
<1>11. CASE ~RestoresChat(rewind.mode)
  <2>1. \A i : ~Gone(i)' /\ ~Gone(i) /\ ~Discarding(i)
    BY <1>4, <1>11, NoRewindIs DEF Gone, Discarding
  <2>2. ASSUME NEW m \in DOMAIN disk \ DOMAIN disk', NEW i \in DOMAIN disk' PROVE m < i
    <3>1. disk' = Without(disk, {id}) /\ Left = {}
      BY <1>4, <1>11, <2>2
    <3>2. m = id /\ i # id /\ i \in DOMAIN records
      BY <3>1 DEF Without, Left
    <3>3. id <= i /\ i \in Nat
      BY <1>2, <1>3, <1>11, <3>2
    <3>4. QED
      BY <1>3, <3>2, <3>3
  <2>3. Links(k)' /\ Reaches(k)'
    BY <1>5, <1>7, <1>8, <2>1, <2>2, LinksStay DEF Knows
  <2>4. QED
    BY <1>6, <2>3 DEF Knows
<1>12. QED
  BY <1>9, <1>10, <1>11

\* A new record of the files as they are, with copies of some of them.
LEMMA KnowsAfterGain ==
  ASSUME CpTypes, NEW k \in CpFiles, Knows(k), NEW saved \in [CpFiles -> Contents \cup {NotSaved}],
         saved[k] \in {NotSaved, files[k]}, Gains(NewRecord(saved)),
         \A i \in Nat : ~Discarding(i) /\ ~Gone(i) /\ ~Discarding(i)' /\ ~Gone(i)',
         files' = files, baseline = NoBaseline, baseline' = NoBaseline
  PROVE  Knows(k)'
<1> DEFINE record == NewRecord(saved)
<1>1. record.files = files /\ record.saved = saved
  BY NewRecordIs
<1> HIDE DEF record
<1>2. /\ DOMAIN disk' \subseteq DOMAIN disk \cup {nextCp} /\ nextCp \in DOMAIN disk'
      /\ disk'[nextCp] = record
      /\ \A i \in DOMAIN disk' : i # nextCp => disk'[i] = disk[i]
      /\ \A m \in DOMAIN disk \ DOMAIN disk' : \A i \in DOMAIN disk' : m < i
  BY DEF Gains, record
<1>3. Links(k)' /\ Reaches(k)'
  BY <1>1, <1>2, LinksGrow DEF Knows
<1>4. OldCopies(k)'
  <2> SUFFICES ASSUME NEW i \in DOMAIN disk'
      PROVE disk'[i].saved[k] \in {NotSaved, disk'[i].files[k]} \/ k \in disk'[i].after
    BY DEF OldCopies
  <2>1. CASE i = nextCp
    BY <1>1, <1>2, <2>1
  <2>2. CASE i # nextCp
    BY <1>2, <2>2 DEF Knows, OldCopies
  <2>3. QED
    BY <2>1, <2>2
<1>5. QED
  BY <1>3, <1>4 DEF Knows

\* Nothing of the file changes, and no record becomes or stops being out of date.
LEMMA KnowsQuietly ==
  ASSUME CpTypes, NEW k \in CpFiles, Knows(k), disk' = disk,
         \A i \in DOMAIN disk : (Gone(i)' <=> Gone(i)) /\ (Discarding(i) => Discarding(i)'),
         \A i \in DOMAIN disk :
           QuietSince(k, i)' /\ ~Discarding(i)' => BeforeShell(k)' = BeforeShell(k)
  PROVE  Knows(k)'
<1>1. \A i \in DOMAIN disk : SamePrompt(disk'[i], disk[i])
  BY DEF SamePrompt
<1>2. QED
  BY <1>1, KnowsStays

\* A shell command: the scan before the first one of the turn has the file as it was, or the
\* store will not know of it.
LEMMA KnowsAfterRunShell ==
  ASSUME CpTypes, TurnFits, NEW f \in CpFiles, RunShell(f), NEW k \in CpFiles \ gaps', Knows(k)
  PROVE  Knows(k)'
<1>1. /\ turn = "running" /\ rewind.at = "none" /\ rewind' = rewind /\ disk' = disk
      /\ \E content : files' = [files EXCEPT ![f] = content]
  BY DEF RunShell, Changing, TurnFits
<1>2. \A i : ~Gone(i)' /\ ~Gone(i) /\ ~Discarding(i)
  BY <1>1 DEF Gone, Discarding
<1>3. files \in [CpFiles -> Contents] /\ NoBaseline.id = 0 /\ (k # f => files'[k] = files[k])
  BY <1>1 DEF CpTypes, NoBaseline
<1>4. BeforeShell(k)' = BeforeShell(k)
  <2>1. CASE active # 0 /\ baseline = NoBaseline /\ baseline' = [id |-> active, scan |-> files]
    <3>1. baseline'.id # NoBaseline.id /\ baseline'.scan = files
      BY <1>3, <2>1
    <3>2. QED
      BY <2>1, <3>1 DEF BeforeShell
  <2>2. CASE baseline # NoBaseline /\ baseline' = baseline
    BY <2>2 DEF BeforeShell
  <2>3. CASE f \in gaps' /\ baseline' = baseline
    BY <1>3, <2>3 DEF BeforeShell
  <2>4. QED
    BY <2>1, <2>2, <2>3 DEF RunShell
<1>5. QED
  BY <1>1, <1>2, <1>4, KnowsQuietly

\* Between turns there is no scan.
LEMMA NoTurnNoScan ==
  ASSUME TurnFits, turn = "none" \/ rewind.at # "none"
  PROVE  baseline = NoBaseline
BY DEF TurnFits

\* A file is written back: a record that will go, or the one just made, has a copy of it.
LEMMA KnowsAfterApplyFile ==
  ASSUME CpTypes, TurnFits, DiskFits, RewindFits, PlanIsExplained, NEW f \in CpFiles,
         ApplyFile(f), ~strays, NEW k \in CpFiles \ gaps, Knows(k)
  PROVE  Knows(k)'
<1>1. /\ rewind.at = "apply" /\ rewind'.at = "apply" /\ SameRewind(rewind', rewind)
      /\ f \in DOMAIN rewind.plan
      /\ files' \in {files, [files EXCEPT ![f] = rewind.plan[f]]}
  BY ApplyFileIs
<1>2. UNCHANGED <<records, disk, nextCp, baseline>> /\ baseline = NoBaseline
  BY <1>1, NoTurnNoScan DEF ApplyFile, storeVars
<1>3. \A i : (Gone(i)' <=> Gone(i)) /\ (Discarding(i)' <=> Discarding(i))
  BY <1>1, <1>2 DEF Gone, Discarding, SameRewind
<1>4. /\ \A i \in DOMAIN disk : i \in Nat /\ i <= nextCp - 1
      /\ rewind.id \in Nat /\ nextCp \in Nat
  BY DEF CpTypes, TableOK, Rewinds
<1>5. ASSUME NEW i \in DOMAIN disk, QuietSince(k, i)', ~Discarding(i)'
      PROVE  files'[k] = files[k]
  <2>1. CASE k # f \/ files' = files
    BY <1>1, <2>1 DEF CpTypes
  <2>2. CASE k = f /\ files' = [files EXCEPT ![f] = rewind.plan[f]]
    <3>1. CASE files[k] = rewind.plan[k]
      BY <2>2, <3>1 DEF CpTypes
    <3>2. CASE files[k] # rewind.plan[k]
      <4>1. PICK g \in DOMAIN disk :
              /\ disk[g].saved[k] # NotSaved
              /\ IF RestoresChat(rewind.mode) THEN g >= rewind.id ELSE g = nextCp - 1
        BY <1>1, <2>2, <3>2 DEF PlanIsExplained
      <4>2. ~Gone(g)'
        BY <1>1, <1>3 DEF Gone, Discarding, RewindFits
      <4>3. i <= g
        <5>1. CASE RestoresChat(rewind.mode)
          BY <1>1, <1>3, <1>4, <1>5, <4>1, <5>1 DEF Discarding
        <5>2. CASE ~RestoresChat(rewind.mode)
          BY <1>4, <4>1, <5>2
        <5>3. QED
          BY <5>1, <5>2
      <4>4. Explained(g, k)' /\ g \in DOMAIN disk'
        BY <1>2, <4>1 DEF Explained
      <4>5. QED
        BY <1>5, <4>2, <4>3, <4>4 DEF QuietSince
    <3>3. QED
      BY <3>1, <3>2
  <2>3. QED
    BY <1>1, <2>1, <2>2
<1>6. ASSUME NEW i \in DOMAIN disk, QuietSince(k, i)', ~Discarding(i)'
      PROVE  BeforeShell(k)' = BeforeShell(k)
  BY <1>2, <1>5, <1>6 DEF BeforeShell
<1>7. QED
  BY <1>2, <1>3, <1>6, KnowsQuietly

\* The chat is cut: the records from the chosen one on are out of date from here.
LEMMA KnowsAfterCutChat ==
  ASSUME CpTypes, TurnFits, RewindFits, CutChat, NEW k \in CpFiles, Knows(k)
  PROVE  Knows(k)'
<1>1. /\ rewind.at = "cut" /\ UNCHANGED <<files, records, disk, baseline>>
      /\ rewind' \in {[rewind EXCEPT !.at = "apply"], NoRewind}
  BY DEF CutChat, storeVars
<1>2. rewind'.at = "none" \/ (rewind'.at = "apply" /\ SameRewind(rewind', rewind))
  BY <1>1, RewindGoesOn, NoRewindIs
<1>3. rewind.id \in DOMAIN records
  BY <1>1 DEF RewindFits
<1>4. \A i : ~Gone(i)' /\ ~Gone(i) /\ ~Discarding(i)
  BY <1>1, <1>2, <1>3 DEF Gone, Discarding, SameRewind
<1>5. BeforeShell(k)' = BeforeShell(k)
  BY <1>1 DEF BeforeShell
<1>6. QED
  BY <1>1, <1>4, <1>5, KnowsQuietly

\* A rewind of the files alone saves what it is about to write.
LEMMA KnowsAfterProtectFiles ==
  ASSUME CpTypes, TurnFits, DiskFits, ProtectFiles, ~strays', NEW k \in CpFiles, Knows(k)
  PROVE  Knows(k)'
<1> DEFINE saved == [j \in CpFiles |-> IF j \in WillChange THEN files[j] ELSE NotSaved]
<1>1. /\ rewind.at = "protect" /\ UNCHANGED <<files, baseline>>
      /\ rewind' \in {[rewind EXCEPT !.at = "apply"], NoRewind}
  BY DEF ProtectFiles
<1>2. rewind'.at = "none" \/ (rewind'.at = "apply" /\ SameRewind(rewind', rewind))
  BY <1>1, RewindGoesOn, NoRewindIs
<1>3. ~RestoresChat(rewind.mode) /\ baseline = NoBaseline
  BY <1>1, NoTurnNoScan DEF TurnFits, RestoresChat
<1>4. \A i : ~Gone(i)' /\ ~Gone(i) /\ ~Discarding(i) /\ ~Discarding(i)'
  BY <1>1, <1>2, <1>3 DEF Gone, Discarding, SameRewind
<1>5. disk' = disk \/ Gains(NewRecord(saved))
  BY ProtectFilesTables
<1>6. saved \in [CpFiles -> Contents \cup {NotSaved}] /\ saved[k] \in {NotSaved, files[k]}
  BY SavedAtFirst
<1> HIDE DEF saved
<1>7. CASE disk' = disk
  BY <1>1, <1>4, <1>7, KnowsQuietly DEF BeforeShell
<1>8. CASE Gains(NewRecord(saved))
  BY <1>1, <1>3, <1>4, <1>6, <1>8, KnowsAfterGain
<1>9. QED
  BY <1>5, <1>7, <1>8

\* A prompt's record is of the files as they are.
LEMMA KnowsAfterBeginTurn ==
  ASSUME CpTypes, TurnFits, DiskFits, BeginTurn, ~strays', NEW k \in CpFiles, Knows(k)
  PROVE  Knows(k)'
<1>1. rewind.at = "none" /\ turn = "none" /\ UNCHANGED <<files, baseline, rewind>>
  BY DEF BeginTurn, Idle
<1>2. \A i : ~Gone(i)' /\ ~Gone(i) /\ ~Discarding(i) /\ ~Discarding(i)'
  BY <1>1 DEF Gone, Discarding
<1>3. disk' = disk \/ Gains(NewRecord(NothingSaved))
  BY BeginTurnTables
<1>4. NothingSaved \in [CpFiles -> Contents \cup {NotSaved}] /\ NothingSaved[k] = NotSaved
  BY SavedAtFirst DEF NothingSaved
<1>5. baseline = NoBaseline
  BY <1>1, NoTurnNoScan
<1>6. CASE disk' = disk
  BY <1>1, <1>2, <1>6, KnowsQuietly DEF BeforeShell
<1>7. CASE Gains(NewRecord(NothingSaved))
  BY <1>1, <1>2, <1>4, <1>5, <1>7, KnowsAfterGain
<1>8. QED
  BY <1>3, <1>6, <1>7

\* The rewind is over: no record is out of date any more.
LEMMA KnowsAfterReport ==
  ASSUME CpTypes, DiskFits, ReportRewind, ~strays, NEW k \in CpFiles, Knows(k)
  PROVE  Knows(k)'
<1>1. /\ RewindDone /\ rewind' = NoRewind /\ UNCHANGED <<files, disk, baseline>>
  BY DEF ReportRewind, storeVars
<1>2. \A i \in DOMAIN disk : i \in Nat
  BY DEF CpTypes, TableOK
<1>3. ASSUME NEW i \in DOMAIN disk PROVE ~Discarding(i)
  <2> SUFFICES ASSUME RestoresChat(rewind.mode) PROVE ~(i >= rewind.id)
    BY DEF Discarding
  <2>1. From(rewind.id) = {} /\ rewind.at # "none" /\ rewind.id \in Nat
    BY <1>1 DEF RewindDone, ToRemove, CpTypes, Rewinds
  <2>2. CASE i \in DOMAIN records
    BY <2>1, <2>2 DEF From
  <2>3. CASE i \notin DOMAIN records
    <3>1. i < rewind.id
      BY <2>1, <2>3 DEF DiskFits, Left
    <3>2. QED
      BY <1>2, <2>1, <3>1
  <2>4. QED
    BY <2>2, <2>3
<1>4. \A i : ~Gone(i)'
  BY <1>1, NoRewindIs DEF Gone, Discarding
<1>5. \A i \in DOMAIN disk : ~Gone(i)
  BY <1>3 DEF Gone
<1>6. BeforeShell(k)' = BeforeShell(k)
  BY <1>1 DEF BeforeShell
<1>7. QED
  BY <1>1, <1>3, <1>4, <1>5, <1>6, KnowsQuietly

\* Checkpoints that may be out of date stay so.
LEMMA StraysStay ==
  ASSUME CpTypes, DiskFits, CpNext \/ UNCHANGED cpVars
  PROVE  strays => strays'
<1>1. \/ PushPrompt \/ EndTurn \/ SaveTurn \/ CompactChat \/ ReportRewind
      \/ CpRests \/ UNCHANGED cpVars
      => strays' = strays
  BY DEF PushPrompt, EndTurn, SaveTurn, CompactChat, ReportRewind, CpRests, cpVars
<1>2. ASSUME NEW k \in CpFiles PROVE ChangeFile(k) \/ RunShell(k) \/ ApplyFile(k) => strays' = strays
  BY DEF ChangeFile, RunShell, Changing, ApplyFile
<1>3. ASSUME NEW id \in 1..(nextCp - 1), NEW mode \in {"both", "chat", "code"}
      PROVE  BeginRewind(id, mode) => strays' = strays
  BY DEF BeginRewind
<1>4. CutChat => (strays => strays')
  BY Zenon DEF CutChat
<1>5. RemoveRecord => (strays => strays')
  BY Zenon DEF RemoveRecord
<1>6. CpCrash => (strays => strays')
  BY Zenon DEF CpCrash
<1>7. BeginTurn \/ ProtectFiles => (strays => strays')
  BY BeginTurnTables, ProtectFilesTables
<1>8. QED
  BY <1>1, <1>2, <1>3, <1>4, <1>5, <1>6, <1>7 DEF CpNext

\* What the records know of the files stays true.
LEMMA ExplainsStep ==
  ASSUME CpTypes, TurnFits, DiskFits, RewindFits, CopiesFit, Explains, PlanIsExplained,
         CpNext \/ UNCHANGED cpVars
  PROVE  Explains'
<1> SUFFICES ASSUME ~strays', NEW k \in CpFiles \ gaps' PROVE Knows(k)'
  BY DEF Explains, Knows
<1>1. ~strays /\ k \in CpFiles \ gaps
  BY StraysStay, GapsGrow
<1>2. Knows(k)
  BY <1>1 DEF Explains, Knows
<1>3. turn # "none" => rewind.at = "none"
  BY DEF TurnFits
<1>4. ASSUME UNCHANGED <<files, disk, baseline>>, rewind.at = "none", rewind'.at \in {"none", "cut", "protect"}
      PROVE  Knows(k)'
  <2>1. \A i : ~Gone(i)' /\ ~Gone(i) /\ ~Discarding(i)
    BY <1>4 DEF Gone, Discarding
  <2>2. BeforeShell(k)' = BeforeShell(k)
    BY <1>4 DEF BeforeShell
  <2>3. QED
    BY <1>2, <1>4, <2>1, <2>2, KnowsQuietly
<1>5. CASE BeginTurn
  BY <1>2, <1>5, KnowsAfterBeginTurn
<1>6. CASE PushPrompt
  BY <1>3, <1>4, <1>6 DEF PushPrompt, storeVars
<1>7. CASE EndTurn
  BY <1>2, <1>7, KnowsAfterEndTurn
<1>8. CASE CompactChat
  BY <1>3, <1>4, <1>8 DEF CompactChat, Idle, storeVars
<1>20. CASE SaveTurn
  BY <1>3, <1>4, <1>20 DEF SaveTurn, storeVars
<1>9. ASSUME NEW f \in CpFiles, ChangeFile(f) PROVE Knows(k)'
  BY <1>2, <1>9, KnowsAfterChangeFile
<1>10. ASSUME NEW f \in CpFiles, RunShell(f) PROVE Knows(k)'
  BY <1>2, <1>10, KnowsAfterRunShell
<1>11. ASSUME NEW f \in CpFiles, ApplyFile(f) PROVE Knows(k)'
  BY <1>1, <1>2, <1>11, KnowsAfterApplyFile
<1>12. ASSUME NEW id \in 1..(nextCp - 1), NEW mode \in {"both", "chat", "code"},
              BeginRewind(id, mode)
       PROVE  Knows(k)'
  <2>1. rewind'.at \in {"cut", "protect"}
    BY <1>12, RewindBegins
  <2>2. QED
    BY <1>4, <1>12, <2>1 DEF BeginRewind, Idle, storeVars
<1>13. CASE CutChat
  BY <1>2, <1>13, KnowsAfterCutChat
<1>14. CASE ProtectFiles
  BY <1>2, <1>14, KnowsAfterProtectFiles
<1>15. CASE RemoveRecord
  BY <1>2, <1>15, KnowsAfterRemoveRecord
<1>16. CASE ReportRewind
  BY <1>1, <1>2, <1>16, KnowsAfterReport
<1>17. CASE CpCrash
  BY <1>2, <1>17, KnowsAfterCrash
<1>18. CASE CpRests \/ UNCHANGED cpVars
  <2>1. UNCHANGED <<files, disk, baseline, rewind, records>>
    BY <1>18 DEF CpRests, cpVars, storeVars
  <2>2. \A i : (Gone(i)' <=> Gone(i)) /\ (Discarding(i) <=> Discarding(i)')
    BY <2>1 DEF Gone, Discarding
  <2>3. QED
    BY <1>2, <2>1, <2>2, KnowsQuietly DEF BeforeShell
<1>19. QED
  BY <1>5, <1>6, <1>7, <1>8, <1>9, <1>10, <1>11, <1>12, <1>13, <1>14, <1>15, <1>16, <1>17,
     <1>18, <1>20 DEF CpNext

\* The steps of a rewind that is under way afterwards.
LEMMA RewindSteps ==
  ASSUME CpTypes, TurnFits, CpNext \/ UNCHANGED cpVars, rewind'.at # "none"
  PROVE  \/ \E id \in 1..(nextCp - 1), mode \in {"both", "chat", "code"} : BeginRewind(id, mode)
         \/ CutChat /\ rewind' = [rewind EXCEPT !.at = "apply"]
         \/ ProtectFiles /\ rewind' = [rewind EXCEPT !.at = "apply"]
         \/ \E f \in CpFiles : ApplyFile(f)
         \/ RemoveRecord /\ rewind' = rewind
         \/ UNCHANGED cpVars
<1>1. turn # "none" => rewind.at = "none"
  BY DEF TurnFits
<1>2. NoRewind.at = "none"
  BY NoRewindIs
<1>3. ~(BeginTurn \/ PushPrompt \/ EndTurn \/ SaveTurn \/ CompactChat)
  BY <1>1 DEF BeginTurn, PushPrompt, EndTurn, SaveTurn, CompactChat, Idle
<1>4. \A f \in CpFiles : ~(ChangeFile(f) \/ RunShell(f))
  BY <1>1 DEF ChangeFile, RunShell, Changing
<1>5. ~(ReportRewind \/ CpCrash)
  BY <1>2 DEF ReportRewind, CpCrash
<1>6. CutChat => rewind' = [rewind EXCEPT !.at = "apply"]
  BY <1>2 DEF CutChat
<1>7. ProtectFiles => rewind' = [rewind EXCEPT !.at = "apply"]
  BY <1>2 DEF ProtectFiles
<1>8. RemoveRecord => rewind' = rewind
  BY <1>2 DEF RemoveRecord
<1>9. CpRests => UNCHANGED cpVars
  BY DEF CpRests
<1>10. QED
  BY <1>3, <1>4, <1>5, <1>6, <1>7, <1>8, <1>9 DEF CpNext

\* What is still to be written back stays known to a record.
LEMMA PlanIsExplainedStep ==
  ASSUME CpTypes, TurnFits, DiskFits, CopiesFit, PlanIsExplained, CpNext \/ UNCHANGED cpVars
  PROVE  PlanIsExplained'
<1> SUFFICES ASSUME rewind'.at \in {"cut", "apply"}, ~strays', NEW k \in DOMAIN rewind'.plan \ gaps'
    PROVE  \/ files'[k] = rewind'.plan[k]
           \/ \E g \in DOMAIN disk' :
                /\ disk'[g].saved[k] # NotSaved
                /\ IF RestoresChat(rewind'.mode) THEN g >= rewind'.id ELSE g = nextCp' - 1
  BY DEF PlanIsExplained
<1>1. ~strays /\ k \notin gaps
  BY StraysStay, GapsGrow
<1>2. ASSUME rewind.at \in {"cut", "apply"}, SameRewind(rewind', rewind), k \in DOMAIN rewind.plan,
             rewind'.plan[k] = rewind.plan[k], files'[k] = files[k], UNCHANGED <<disk, nextCp>>
      PROVE  \/ files'[k] = rewind'.plan[k]
             \/ \E g \in DOMAIN disk' :
                  /\ disk'[g].saved[k] # NotSaved
                  /\ IF RestoresChat(rewind'.mode) THEN g >= rewind'.id ELSE g = nextCp' - 1
  BY <1>1, <1>2 DEF PlanIsExplained, SameRewind
<1>3. ASSUME NEW id \in 1..(nextCp - 1), NEW mode \in {"both", "chat", "code"},
             BeginRewind(id, mode)
      PROVE  \E g \in DOMAIN disk' :
               /\ disk'[g].saved[k] # NotSaved
               /\ IF RestoresChat(rewind'.mode) THEN g >= rewind'.id ELSE g = nextCp' - 1
  <2>1. /\ RestoresChat(mode) /\ rewind'.id = id /\ rewind'.mode = mode
        /\ k \in Planned(id)
    BY <1>3, RewindBegins
  <2> DEFINE g == Governing(k, id)
  <2>2. g \in DOMAIN records /\ g >= id /\ records[g].saved[k] # NotSaved
    BY <2>1, GoverningIs
  <2> HIDE DEF g
  <2>3. g \in DOMAIN disk /\ disk[g].saved[k] = records[g].saved[k]
    BY <1>1, <2>1, <2>2 DEF DiskFits, CopiesFit, CopiedAlike, Planned
  <2>4. disk' = disk
    BY <1>3 DEF BeginRewind, storeVars
  <2>5. QED
    BY <2>1, <2>2, <2>3, <2>4
<1>4. CASE CutChat /\ rewind' = [rewind EXCEPT !.at = "apply"]
  <2>1. UNCHANGED <<files, disk, nextCp>> /\ rewind.at = "cut"
    BY <1>4 DEF CutChat, storeVars
  <2>2. QED
    BY <1>2, <1>4, <2>1, RewindGoesOn
<1>5. CASE ProtectFiles /\ rewind' = [rewind EXCEPT !.at = "apply"]
  <2> DEFINE record == NewRecord([j \in CpFiles |-> IF j \in WillChange THEN files[j] ELSE NotSaved])
  <2>1. rewind'.plan = rewind.plan /\ SameRewind(rewind', rewind) /\ ~RestoresChat(rewind'.mode)
        /\ rewind'.at = "apply" /\ files' = files /\ NoRewind.at = "none"
    BY <1>5, RewindGoesOn, NoRewindIs DEF ProtectFiles, TurnFits, RestoresChat, SameRewind
  <2>2. k \in DOMAIN rewind.plan /\ k \in CpFiles /\ files[k] # NotSaved /\ nextCp \in Nat
    BY <2>1 DEF CpTypes, Rewinds, Plans, Contents, NotSaved, CpBoundsAssumption
  <2>3. record.saved[k] = IF k \in WillChange THEN files[k] ELSE NotSaved
    BY <2>2, SavedAtFirst, NewRecordIs
  <2>4. \/ /\ disk' = Put(disk, nextCp, record) /\ nextCp' = nextCp + 1
        \/ WillChange = {}
    BY <1>5, <2>1 DEF ProtectFiles
  <2> HIDE DEF record
  <2>5. CASE k \notin WillChange
    BY <2>1, <2>2, <2>5 DEF WillChange
  <2>6. CASE k \in WillChange
    <3>1. disk' = Put(disk, nextCp, record) /\ nextCp' = nextCp + 1
      BY <2>4, <2>6
    <3>2. nextCp \in DOMAIN disk' /\ disk'[nextCp] = record /\ nextCp = nextCp' - 1
      BY <2>2, <3>1 DEF Put
    <3>3. QED
      BY <2>1, <2>2, <2>3, <2>6, <3>2
  <2>7. QED
    BY <2>5, <2>6
<1>6. ASSUME NEW f \in CpFiles, ApplyFile(f)
      PROVE  \/ files'[k] = rewind'.plan[k]
             \/ \E g \in DOMAIN disk' :
                  /\ disk'[g].saved[k] # NotSaved
                  /\ IF RestoresChat(rewind'.mode) THEN g >= rewind'.id ELSE g = nextCp' - 1
  <2>1. /\ rewind.at = "apply" /\ SameRewind(rewind', rewind) /\ k # f /\ k \in DOMAIN rewind.plan
        /\ rewind'.plan[k] = rewind.plan[k]
        /\ files' \in {files, [files EXCEPT ![f] = rewind.plan[f]]}
    BY <1>6, ApplyFileIs
  <2>2. files'[k] = files[k]
    <3>1. files \in [CpFiles -> Contents] /\ k \in CpFiles
      BY <2>1 DEF CpTypes, Rewinds, Plans
    <3>2. QED
      BY <2>1, <3>1
  <2>3. UNCHANGED <<disk, nextCp>>
    BY <1>6 DEF ApplyFile, storeVars
  <2>4. QED
    BY <1>2, <2>1, <2>2, <2>3
<1>7. ~(RemoveRecord /\ rewind' = rewind)
  BY DEF RemoveRecord
<1>8. CASE UNCHANGED cpVars
  BY <1>2, <1>8 DEF cpVars, storeVars, SameRewind
<1>9. QED
  BY <1>3, <1>4, <1>5, <1>6, <1>7, <1>8, RewindSteps

\* From the chosen record on, the list and the folder have the same records, which agree on
\* the file.
LEMMA SameFromHere ==
  ASSUME CpTypes, DiskFits, CopiesFit, ~strays, NEW k \in CpFiles \ gaps, NEW id \in DOMAIN records,
         NEW m \in DOMAIN disk, id <= m
  PROVE  /\ m \in From(id)
         /\ ~Explained(m, k) <=> m \notin SavedIn(k, id) /\ m \notin ShellIn(k, id)
<1>1. m \in Nat /\ id \in Nat
  BY DEF CpTypes, TableOK
<1>2. m \in DOMAIN records
  <2>1. CASE m \in Left
    BY <1>1, <2>1 DEF DiskFits
  <2>2. QED
    BY <2>1 DEF Left
<1>3. CopiedAlike(disk[m], records[m], k)
  BY <1>2 DEF CopiesFit
<1>4. m \in From(id)
  BY <1>1, <1>2 DEF From
<1>5. QED
  BY <1>3, <1>4 DEF SavedIn, ShellIn, Explained, CopiedAlike

\* A file that has a copy: the earliest one is of the file at the chosen prompt, or a shell
\* command of that time is known or hidden.
LEMMA PlannedRestores ==
  ASSUME CpTypes, DiskFits, CopiesFit, ~strays, NEW id \in DOMAIN records,
         NEW k \in Planned(id) \ gaps, Knows(k), \A i \in DOMAIN disk : ~Gone(i)
  PROVE  \/ records[Governing(k, id)].saved[k] = records[id].files[k]
         \/ ShellKept(k, id)
         \/ k \in Hidden(id)
<1> DEFINE g == Governing(k, id)
<1>1. id \in Nat /\ k \in CpFiles /\ (\A i \in DOMAIN disk : i \in Nat) /\ From(id) \subseteq Nat
  BY DEF CpTypes, TableOK, Planned, From
<1>2. /\ g \in SavedIn(k, id) /\ (\A i \in SavedIn(k, id) : g <= i)
      /\ g \in DOMAIN records /\ g >= id /\ records[g].saved[k] # NotSaved
  BY <1>1, GoverningIs
<1>3. ShellIn(k, id) # {} =>
        /\ Sets!Min(ShellIn(k, id)) \in ShellIn(k, id)
        /\ \A i \in ShellIn(k, id) : Sets!Min(ShellIn(k, id)) <= i
  <2>1. ShellIn(k, id) \in SUBSET Nat
    BY <1>1 DEF ShellIn
  <2>2. QED
    BY <2>1, LowestIs
<1>4. ShellKept(k, id) <=>
        /\ ShellIn(k, id) # {}
        /\ \/ Sets!Min(ShellIn(k, id)) < g
           \/ Sets!Min(ShellIn(k, id)) = g /\ k \in records[g].after
  BY DEF ShellKept
<1> DEFINE first == Sets!Min(ShellIn(k, id))
<1> HIDE DEF g, first
<1>5. /\ g \in Nat /\ id \in DOMAIN disk /\ g \in DOMAIN disk /\ g \in From(id)
      /\ disk[id].files = records[id].files /\ CopiedAlike(disk[g], records[g], k)
  BY <1>1, <1>2 DEF DiskFits, SamePrompt, CopiesFit, SavedIn
<1>6. ShellIn(k, id) # {} => first \in Nat
  BY <1>1, <1>3 DEF ShellIn, first
<1>7. CASE k \in records[g].after
  <2>1. CASE k \in records[g].shell
    <3>1. g \in ShellIn(k, id)
      BY <1>5, <2>1 DEF ShellIn
    <3>2. first <= g
      BY <1>3, <3>1 DEF first
    <3>3. QED
      BY <1>4, <1>5, <1>6, <1>7, <3>1, <3>2 DEF first
  <2>2. CASE k \notin records[g].shell
    BY <1>5, <1>7, <2>2 DEF Hidden
  <2>3. QED
    BY <2>1, <2>2
<1>8. CASE k \notin records[g].after /\ \E i \in ShellIn(k, id) : i < g
  <2>1. PICK i \in ShellIn(k, id) : i < g
    BY <1>8
  <2>2. i \in Nat /\ first <= i
    BY <1>1, <1>3 DEF ShellIn, first
  <2>3. first < g
    BY <1>5, <1>6, <2>1, <2>2
  <2>4. QED
    BY <1>4, <2>1, <2>3 DEF first
<1>9. CASE k \notin records[g].after /\ \A i \in ShellIn(k, id) : ~(i < g)
  <2>1. Quiet(k, id, g)
    <3> SUFFICES ASSUME NEW m \in DOMAIN disk, id <= m, m < g PROVE ~Explained(m, k)
      BY DEF Quiet
    <3>1. m \notin SavedIn(k, id) /\ m \notin ShellIn(k, id)
      BY <1>1, <1>2, <1>5, <1>9
    <3>2. QED
      BY <1>1, <3>1, SameFromHere
  <2>2. disk[id].files[k] = disk[g].files[k]
    BY <1>1, <1>2, <1>5, <2>1 DEF Knows, Links
  <2>3. disk[g].saved[k] = disk[g].files[k]
    BY <1>2, <1>5, <1>9 DEF Knows, OldCopies, CopiedAlike
  <2>4. records[g].saved[k] = records[id].files[k]
    BY <1>5, <2>2, <2>3 DEF CopiedAlike
  <2>5. QED
    BY <2>4 DEF g
<1>10. QED
  BY <1>7, <1>8, <1>9

\* A file without a copy is as the chosen prompt found it, or a shell command is known.
LEMMA OthersAreTheSame ==
  ASSUME CpTypes, DiskFits, CopiesFit, ~strays, NEW id \in DOMAIN records,
         NEW k \in CpFiles \ (gaps \cup Planned(id)), Knows(k),
         \A i \in DOMAIN disk : ~Discarding(i), baseline = NoBaseline
  PROVE  files[k] = records[id].files[k] \/ k \in NotRestored(id)
<1>1. SavedIn(k, id) = {}
  BY DEF Planned
<1>2. CASE ShellIn(k, id) # {}
  BY <1>1, <1>2 DEF NotRestored
<1>3. CASE ShellIn(k, id) = {}
  <2>1. QuietSince(k, id)
    <3> SUFFICES ASSUME NEW m \in DOMAIN disk, id <= m PROVE ~Explained(m, k)
      BY DEF QuietSince
    <3>1. QED
      BY <1>1, <1>3, SameFromHere
  <2>2. id \in DOMAIN disk /\ disk[id].files = records[id].files
    BY DEF DiskFits, SamePrompt
  <2>3. disk[id].files[k] = BeforeShell(k)
    BY <2>1, <2>2 DEF Knows, Reaches
  <2>4. QED
    BY <2>2, <2>3 DEF BeforeShell
<1>4. QED
  BY <1>2, <1>3

\* A rewind that begins restores or reports every file the store knows.
LEMMA RewindRestores ==
  ASSUME CpTypes, TurnFits, DiskFits, CopiesFit, Explains, ~strays, NEW id \in 1..(nextCp - 1),
         NEW mode \in {"both", "chat", "code"}, BeginRewind(id, mode), RestoresCode(mode),
         NEW k \in CpFiles \ gaps
  PROVE  IF k \in DOMAIN rewind'.plan
         THEN \/ rewind'.plan[k] = rewind'.was.files[k]
              \/ k \in rewind'.kept \/ k \in rewind'.hidden
         ELSE \/ files'[k] = rewind'.was.files[k]
              \/ k \in rewind'.report \/ k \in rewind'.hidden
<1>1. /\ id \in DOMAIN records /\ files' = files /\ rewind.at = "none" /\ turn = "none"
  BY DEF BeginRewind, Idle
<1>2. /\ Knows(k) /\ baseline = NoBaseline
      /\ \A i \in DOMAIN disk : ~Gone(i) /\ ~Discarding(i)
  BY <1>1, NoTurnNoScan DEF Explains, Knows, Gone, Discarding
<1>3. /\ rewind'.was = records[id] /\ DOMAIN rewind'.plan = Planned(id)
      /\ \A j \in Planned(id) : rewind'.plan[j] = records[Governing(j, id)].saved[j]
      /\ rewind'.kept = {j \in Planned(id) : ShellKept(j, id)}
      /\ rewind'.report = NotRestored(id) /\ rewind'.hidden = Hidden(id)
  BY RewindBegins
<1>4. CASE k \in Planned(id)
  BY <1>1, <1>2, <1>3, <1>4, PlannedRestores
<1>5. CASE k \notin Planned(id)
  BY <1>1, <1>2, <1>3, <1>5, OthersAreTheSame
<1>6. QED
  BY <1>3, <1>4, <1>5

\* Each step of a rewind restores a file or has it in the report.
LEMMA PlanRestoresStep ==
  ASSUME CpTypes, TurnFits, DiskFits, CopiesFit, Explains, PlanRestores,
         CpNext \/ UNCHANGED cpVars
  PROVE  PlanRestores'
<1> SUFFICES ASSUME rewind'.at # "none", RestoresCode(rewind'.mode), ~strays',
                    NEW k \in CpFiles \ gaps'
    PROVE  IF k \in DOMAIN rewind'.plan
           THEN \/ rewind'.plan[k] = rewind'.was.files[k]
                \/ k \in rewind'.kept \/ k \in rewind'.hidden
           ELSE \/ files'[k] = rewind'.was.files[k]
                \/ k \in rewind'.report \/ k \in rewind'.hidden
  BY DEF PlanRestores
<1> DEFINE Restores == IF k \in DOMAIN rewind'.plan
                       THEN \/ rewind'.plan[k] = rewind'.was.files[k]
                            \/ k \in rewind'.kept \/ k \in rewind'.hidden
                       ELSE \/ files'[k] = rewind'.was.files[k]
                            \/ k \in rewind'.report \/ k \in rewind'.hidden
<1>1. ~strays /\ k \in CpFiles \ gaps
  BY StraysStay, GapsGrow
<1>2. ASSUME rewind.at # "none", SameRewind(rewind', rewind), rewind'.plan = rewind.plan,
             rewind'.report = rewind.report, files' = files
      PROVE  Restores
  BY <1>1, <1>2 DEF PlanRestores, SameRewind
<1>3. ASSUME NEW id \in 1..(nextCp - 1), NEW mode \in {"both", "chat", "code"},
             BeginRewind(id, mode)
      PROVE  Restores
  <2>1. rewind'.mode = mode
    BY <1>3, RewindBegins
  <2>2. QED
    BY <1>1, <1>3, <2>1, RewindRestores
<1>4. CASE CutChat /\ rewind' = [rewind EXCEPT !.at = "apply"]
  BY <1>2, <1>4, RewindGoesOn DEF CutChat
<1>5. CASE ProtectFiles /\ rewind' = [rewind EXCEPT !.at = "apply"]
  BY <1>2, <1>5, RewindGoesOn DEF ProtectFiles
<1>6. ASSUME NEW f \in CpFiles, ApplyFile(f) PROVE Restores
  <2>1. /\ rewind.at = "apply" /\ SameRewind(rewind', rewind)
        /\ f \in DOMAIN rewind.plan /\ DOMAIN rewind'.plan = DOMAIN rewind.plan \ {f}
        /\ \A j \in DOMAIN rewind'.plan : rewind'.plan[j] = rewind.plan[j]
        /\ \/ /\ files' = [files EXCEPT ![f] = rewind.plan[f]]
              /\ rewind'.report = IF f \in rewind.kept THEN rewind.report \cup {f}
                                  ELSE rewind.report
           \/ files' = files /\ rewind'.report = rewind.report \cup {f}
    BY <1>6, ApplyFileIs
  <2>2. rewind'.was = rewind.was /\ rewind'.kept = rewind.kept /\ rewind'.hidden = rewind.hidden
        /\ RestoresCode(rewind.mode)
    BY <2>1 DEF SameRewind
  <2>3. IF k \in DOMAIN rewind.plan
        THEN rewind.plan[k] = rewind.was.files[k] \/ k \in rewind.kept \/ k \in rewind.hidden
        ELSE files[k] = rewind.was.files[k] \/ k \in rewind.report \/ k \in rewind.hidden
    BY <1>1, <2>1, <2>2 DEF PlanRestores
  <2>4. files \in [CpFiles -> Contents]
    BY DEF CpTypes
  <2>5. CASE k = f
    <3>1. \/ files'[k] = rewind.plan[k] /\ (k \in rewind.kept => k \in rewind'.report)
          \/ k \in rewind'.report
      BY <2>1, <2>4, <2>5
    <3>2. k \in DOMAIN rewind.plan /\ k \notin DOMAIN rewind'.plan
      BY <2>1, <2>5
    <3>3. QED
      BY <2>2, <2>3, <3>1, <3>2
  <2>6. CASE k # f
    <3>1. files'[k] = files[k] /\ (k \in rewind.report => k \in rewind'.report)
      BY <2>1, <2>4, <2>6
    <3>2. (k \in DOMAIN rewind'.plan) <=> (k \in DOMAIN rewind.plan)
      BY <2>1, <2>6
    <3>3. QED
      BY <2>1, <2>2, <2>3, <3>1, <3>2
  <2>7. QED
    BY <2>5, <2>6
<1>7. CASE RemoveRecord /\ rewind' = rewind
  BY <1>2, <1>7 DEF RemoveRecord, SameRewind
<1>8. CASE UNCHANGED cpVars
  BY <1>2, <1>8 DEF cpVars, SameRewind
<1>9. QED
  BY <1>3, <1>4, <1>5, <1>6, <1>7, <1>8, RewindSteps

CpInvFiles == CpInvChat /\ CopiesFit /\ Explains /\ PlanIsExplained /\ PlanRestores

\* What the records say of the files holds at the start.
LEMMA CpFilesInit ==
  ASSUME CpInit
  PROVE  CpInvFiles
<1>1. CpInvChat
  BY CpChatInit
<1>2. records = <<>> /\ disk = <<>> /\ rewind.at = "none"
  BY NoRewindIs DEF CpInit
<1>3. CopiesFit /\ PlanIsExplained /\ PlanRestores
  BY <1>2 DEF CopiesFit, PlanIsExplained, PlanRestores
<1>4. Explains
  BY <1>2 DEF Explains, Links, Reaches, OldCopies
<1>5. QED
  BY <1>1, <1>3, <1>4 DEF CpInvFiles

\* Every step keeps it.
LEMMA CpFilesStep ==
  ASSUME CpInvFiles, CpNext \/ UNCHANGED cpVars
  PROVE  CpInvFiles'
<1>1. CpTypes /\ TurnFits /\ DiskFits /\ RewindFits /\ CopiesFit /\ Explains /\ PlanIsExplained
      /\ PlanRestores
  BY DEF CpInvFiles, CpInvChat, CpInvTypes
<1>2. CpInvChat'
  BY CpChatStep DEF CpInvFiles
<1>3. CopiesFit' /\ Explains' /\ PlanIsExplained' /\ PlanRestores'
  BY <1>1, CopiesFitStep, ExplainsStep, PlanIsExplainedStep, PlanRestoresStep
<1>4. QED
  BY <1>2, <1>3 DEF CpInvFiles

\* It implies that a rewind that is done has restored or reported every file.
LEMMA AllAreRestored ==
  ASSUME CpInvFiles
  PROVE  RestoresOrReportsTheRest
BY DEF CpInvFiles, PlanRestores, RestoresOrReportsTheRest, RewindDone, Unrestored

\* A rewind of the files that reaches its end leaves each of them as its prompt found it or
\* says that it could not, but for those a shell command changed unseen: whatever turns,
\* tools, shell commands, failed writes, crashes and other rewinds came between.
THEOREM FilesGoBackToTheirPrompt == CpSpec => []RestoresOrReportsTheRest
<1>1. CpInit => CpInvFiles
  BY CpFilesInit
<1>2. CpInvFiles /\ [CpNext]_cpVars => CpInvFiles'
  BY CpFilesStep
<1>3. CpInvFiles => RestoresOrReportsTheRest
  BY AllAreRestored
<1>4. QED
  BY <1>1, <1>2, <1>3, PTL DEF CpSpec
============================================================================
