---------------------------- MODULE StoreProofs ----------------------------
(* What is kept on disk. The file a session is in, for any number of messages, edits,    *)
(* failed writes and crashes: what reading its lines gives, the eight kinds of steps      *)
(* (StoreMoves), and what a restart finds after each of them. And the stored login, for   *)
(* any number of sign-ins, readers and mishaps: a lookup finds the last one; a step        *)
(* either leaves the store as it is, takes one place of it further, or ends a process      *)
(* (AcMoves), and the invariant is proved of these in eight parts.                         *)
EXTENDS SessionStore, Accounts, ChannelLemmas

-----------------------------------------------------------------------------
(* Reading the lines of a file (SessionStore) *)

ReadLine(read, line) == IF IsRecord(line) THEN Append(read, line) ELSE read

\* f is what was read after each line.
ReadByLine(f, lines) ==
  /\ f \in [0..Len(lines) -> Seq(Messages)] /\ f[0] = <<>>
  /\ \A k \in 1..Len(lines) : f[k] = ReadLine(f[k - 1], lines[k])

\* A line that is read adds a message, any other nothing.
LEMMA LineIsRead ==
  ASSUME NEW read \in Seq(Messages), NEW line \in Lines
  PROVE  ReadLine(read, line) \in Seq(Messages)
<1>1. CASE IsRecord(line)
  <2>1. line \in Messages
    BY <1>1 DEF Lines, Messages, Torn, IsRecord
  <2>2. QED
    BY <1>1, <2>1, LastAdded DEF ReadLine
<1>2. QED
  BY <1>1 DEF ReadLine

\* Loading reads a file line by line.
LEMMA LoadedByLine ==
  ASSUME NEW lines \in Seq(Lines)
  PROVE  \E f : ReadByLine(f, lines) /\ Loaded(lines) = f[Len(lines)]
<1> DEFINE n == Len(lines)
           A == Seq(Messages)
           read == CHOOSE read : read = [m \in 0..Len(lines) |->
                     IF m = 0 THEN <<>>
                     ELSE IF IsRecord(lines[m]) THEN Append(read[m - 1], lines[m])
                     ELSE read[m - 1]]
           step == [x \in A \X (1..n) |-> ReadLine(x[1], lines[x[2]])]
<1>1. n \in Nat /\ \A i \in 1..n : lines[i] \in Lines
  BY LenProperties, ElementOfSeq
<1>2. step \in Steps(n, A)
  <2>1. \A x \in A \X (1..n) : ReadLine(x[1], lines[x[2]]) \in A
    BY <1>1, LineIsRead
  <2>2. QED
    BY <2>1 DEF Steps
<1>3. \A x \in A, k \in 1..n : step[<<x, k>>] = ReadLine(x, lines[k])
  OBVIOUS
<1>4. <<>> \in A
  BY EmptySeq
<1> HIDE DEF step, n, A
<1>5. PICK f \in [0..n -> A] : /\ f[0] = <<>>
                               /\ \A k \in 1..n : f[k] = step[<<f[k - 1], k>>]
  <2>1. Stepped(n, A, <<>>, step) # {}
    BY <1>1, <1>2, <1>4, StepByStep
  <2>2. QED
    BY <2>1 DEF Stepped
<1>6. ASSUME NEW k \in 1..n PROVE f[k] = ReadLine(f[k - 1], lines[k])
  <2>1. k - 1 \in 0..n
    BY <1>1
  <2>2. f[k - 1] \in A
    BY <1>5, <2>1
  <2>3. QED
    BY <1>3, <1>5, <2>2
<1>7. f = [m \in 0..n |-> IF m = 0 THEN <<>>
                          ELSE IF IsRecord(lines[m]) THEN Append(f[m - 1], lines[m])
                          ELSE f[m - 1]]
  <2>1. ASSUME NEW m \in 0..n
        PROVE  f[m] = IF m = 0 THEN <<>>
                      ELSE IF IsRecord(lines[m]) THEN Append(f[m - 1], lines[m])
                      ELSE f[m - 1]
    <3>1. CASE m = 0
      BY <1>5, <3>1
    <3>2. CASE m # 0
      <4>1. m \in 1..n
        BY <1>1, <3>2
      <4>2. QED
        BY <1>6, <3>2, <4>1 DEF ReadLine
    <3>3. QED
      BY <3>1, <3>2
  <2>2. QED
    BY <1>5, <2>1
<1>8. read = [m \in 0..n |-> IF m = 0 THEN <<>>
                             ELSE IF IsRecord(lines[m]) THEN Append(read[m - 1], lines[m])
                             ELSE read[m - 1]]
  BY <1>7 DEF n
<1>9. Loaded(lines) = read[n]
  BY Zenon DEF Loaded, n
<1> HIDE DEF read
<1>10. read[0] = <<>> /\ \A k \in 1..n : read[k] = ReadLine(read[k - 1], lines[k])
  <2>1. 0 \in 0..n /\ \A k \in 1..n : k \in 0..n /\ k # 0
    BY <1>1
  <2>2. QED
    BY <1>8, <2>1 DEF ReadLine
<1> DEFINE T == {k \in 0..n : read[k] \in A}
<1>11. 0 \in T
  BY <1>1, <1>4, <1>10
<1>12. \A k \in 1..n : k - 1 \in T => k \in T
  <2> SUFFICES ASSUME NEW k \in 1..n, read[k - 1] \in A PROVE read[k] \in A
    BY <1>1
  <2>1. QED
    BY <1>1, <1>10, LineIsRead DEF A
<1> HIDE DEF T
<1>13. \A k \in 0..n : k \in T
  BY <1>1, <1>11, <1>12, UpTo
<1>14. \A k \in 0..n : read[k] \in A
  BY <1>13 DEF T
<1>15. read \in [0..n -> A]
  BY <1>8, <1>14
<1>16. ReadByLine(read, lines)
  BY <1>10, <1>15 DEF ReadByLine, n, A
<1>17. QED
  BY <1>9, <1>16 DEF n

\* What is read of the first lines does not depend on the lines after them.
LEMMA SameBeginning ==
  ASSUME NEW s \in Seq(Lines), NEW t \in Seq(Lines), NEW n \in 0..Len(s), n <= Len(t),
         \A k \in 1..n : s[k] = t[k],
         NEW f, ReadByLine(f, s), NEW g, ReadByLine(g, t)
  PROVE  f[n] = g[n]
<1>1. Len(s) \in Nat /\ Len(t) \in Nat /\ n \in Nat
  BY LenProperties
<1> DEFINE T == {k \in 0..n : f[k] = g[k]}
<1>2. 0 \in T
  BY <1>1 DEF ReadByLine
<1>3. \A k \in 1..n : k - 1 \in T => k \in T
  <2> SUFFICES ASSUME NEW k \in 1..n, f[k - 1] = g[k - 1] PROVE f[k] = g[k]
    BY <1>1
  <2>1. k \in 1..Len(s) /\ k \in 1..Len(t)
    BY <1>1
  <2>2. QED
    BY <2>1 DEF ReadByLine
<1> HIDE DEF T
<1>4. \A k \in 0..n : k \in T
  BY <1>1, <1>2, <1>3, UpTo
<1>5. n \in T
  BY <1>1, <1>4
<1>6. QED
  BY <1>5 DEF T

\* Loading gives messages, none of no lines.
LEMMA LoadedMessages ==
  /\ Loaded(<<>>) = <<>>
  /\ \A lines \in Seq(Lines) : Loaded(lines) \in Seq(Messages)
<1>1. ASSUME NEW lines \in Seq(Lines) PROVE Loaded(lines) \in Seq(Messages)
  <2>1. PICK f : ReadByLine(f, lines) /\ Loaded(lines) = f[Len(lines)]
    BY LoadedByLine
  <2>2. Len(lines) \in 0..Len(lines)
    BY LenProperties
  <2>3. QED
    BY <2>1, <2>2 DEF ReadByLine
<1>2. Loaded(<<>>) = <<>>
  <2>1. PICK lines \in Seq(Lines) : lines = <<>> /\ Len(lines) = 0
    BY EmptySeq, LenProperties
  <2>2. PICK f : ReadByLine(f, lines) /\ Loaded(lines) = f[Len(lines)]
    BY LoadedByLine
  <2>3. QED
    BY <2>1, <2>2 DEF ReadByLine
<1>3. QED
  BY <1>1, <1>2

\* One more line is read after the others.
LEMMA LoadedOneMore ==
  ASSUME NEW lines \in Seq(Lines), NEW line \in Lines
  PROVE  Loaded(Append(lines, line)) = ReadLine(Loaded(lines), line)
<1> DEFINE longer == Append(lines, line)
           n == Len(lines)
<1>1. /\ longer \in Seq(Lines) /\ Len(longer) = n + 1 /\ n \in Nat
      /\ longer[n + 1] = line /\ \A k \in 1..n : longer[k] = lines[k]
  BY AppendProperties, LenProperties
<1> HIDE DEF longer, n
<1>2. PICK f : ReadByLine(f, lines) /\ Loaded(lines) = f[n]
  BY LoadedByLine DEF n
<1>3. PICK g : ReadByLine(g, longer) /\ Loaded(longer) = g[n + 1]
  BY <1>1, LoadedByLine
<1>4. n \in 0..Len(lines) /\ n <= Len(longer) /\ \A k \in 1..n : lines[k] = longer[k]
  BY <1>1 DEF n
<1>5. f[n] = g[n]
  BY <1>1, <1>2, <1>3, <1>4, SameBeginning
<1>6. g[n + 1] = ReadLine(g[n], longer[n + 1])
  <2>1. n + 1 \in 1..Len(longer) /\ (n + 1) - 1 = n
    BY <1>1
  <2>2. QED
    BY <1>3, <2>1 DEF ReadByLine
<1>7. QED
  BY <1>1, <1>2, <1>3, <1>5, <1>6 DEF longer

\* A file of whole records is read as it is.
LEMMA LoadedWhole ==
  ASSUME NEW s \in Seq(Messages)
  PROVE  s \in Seq(Lines) /\ Loaded(s) = s
<1> DEFINE n == Len(s)
<1>1. n \in Nat /\ \A k \in 1..n : s[k] \in Messages
  BY LenProperties, ElementOfSeq
<1>2. s \in Seq(Lines)
  <2>1. Messages \subseteq Lines
    BY DEF Lines
  <2>2. QED
    BY <2>1
<1>3. \A k \in 1..n : IsRecord(s[k])
  BY <1>1, BoundsAssumption DEF IsRecord, Torn, Messages
<1>4. PICK f : ReadByLine(f, s) /\ Loaded(s) = f[n]
  BY <1>2, LoadedByLine
<1> DEFINE T == {k \in 0..n : Len(f[k]) = k /\ \A i \in 1..k : f[k][i] = s[i]}
<1>5. 0 \in T
  <2>1. f[0] = <<>> /\ Len(f[0]) = 0
    BY <1>4 DEF ReadByLine
  <2>2. QED
    BY <1>1, <2>1
<1>6. \A k \in 1..n : k - 1 \in T => k \in T
  <2> SUFFICES ASSUME NEW k \in 1..n, k - 1 \in T PROVE k \in T
    OBVIOUS
  <2>1. k - 1 \in 0..n /\ f[k - 1] \in Seq(Messages)
    BY <1>1, <1>4 DEF ReadByLine
  <2>2. Len(f[k - 1]) = k - 1 /\ \A i \in 1..(k - 1) : f[k - 1][i] = s[i]
    OBVIOUS
  <2>3. f[k] = Append(f[k - 1], s[k])
    BY <1>3, <1>4 DEF ReadByLine, ReadLine
  <2>4. s[k] \in Messages
    BY <1>1
  <2>5. /\ Len(f[k]) = (k - 1) + 1 /\ f[k][(k - 1) + 1] = s[k]
        /\ \A i \in 1..(k - 1) : f[k][i] = f[k - 1][i]
    BY <2>1, <2>2, <2>3, <2>4, AppendProperties
  <2>6. \A i \in 1..k : i = k \/ i \in 1..(k - 1)
    BY <1>1
  <2>7. QED
    BY <1>1, <2>2, <2>5, <2>6
<1> HIDE DEF T
<1>7. \A k \in 0..n : k \in T
  BY <1>1, <1>5, <1>6, UpTo
<1>8. n \in T
  BY <1>1, <1>7
<1>9. Len(f[n]) = Len(s) /\ \A i \in 1..Len(s) : f[n][i] = s[i]
  BY <1>8 DEF T
<1>10. f[n] \in Seq(Messages)
  BY <1>1, <1>4 DEF ReadByLine
<1>11. f[n] = s
  BY <1>9, <1>10, SeqEqual
<1>12. QED
  BY <1>2, <1>4, <1>11
-----------------------------------------------------------------------------
(* SessionStore: what is kept of a session, in memory and in its file *)

UpToNumber(s, n) == \A i \in 1..Len(s) : s[i] <= n

\* Which write of which operation is next, and what it finds.
Adding == op \in {"push", "rewrite"}
WritesFit ==
  /\ pc = "idle" <=> op = "none"
  /\ pc \in {"open", "record", "newline"} => op = "push" /\ main.exists
  /\ pc = "record" => main.ended
  /\ pc = "cleanup" => main.exists
  /\ Adding => memory # <<>> /\ Last(memory) = pushed
  /\ op = "rewind" => SetOf(memory) \subseteq SetOf(original)

\* Messages are in the order of their numbers, in memory and for a restart; a message whose record is
\* still to be appended is newer than all the file has.
InOrder ==
  /\ Increasing(memory) /\ UpToNumber(memory, pushed)
  /\ op = "rewind" => Increasing(original) /\ UpToNumber(original, pushed)
  /\ Increasing(Reload) /\ UpToNumber(Reload, pushed)
  /\ pc \in {"open", "record"} => UpToNumber(Reload, pushed - 1)

\* What a restart must find now: a rewind's messages until its snapshot is there, a new one
\* once its record is.
MustBeFound ==
  IF pc \in {"newline", "cleanup"} THEN memory
  ELSE IF op = "rewind" THEN original ELSE Acknowledged
FoundAgain ==
  /\ ~halfUndone => SetOf(MustBeFound) \subseteq SetOf(Reload)
  /\ pc = "cleanup" => Reload = memory

\* Until a write fails a restart finds what is acknowledged and nothing else, but before
\* a snapshot is written.
NothingElse ==
  failures = 0 =>
    /\ pc \in {"idle", "newline"} => Reload = memory
    /\ pc \in {"open", "record"} => Reload = Front(memory)

\* How many files rotations, failures and crashes may have left.
RotatedFew ==
  Len(rotated) <= MaxRotated + failures + crashes + (IF pc \in {"write", "cleanup"} THEN 1 ELSE 0)

StoreInv == TypeOK /\ WritesFit /\ InOrder /\ FoundAgain /\ NothingElse /\ RotatedFew

\* The kinds of steps: a push, a snapshot, a compaction or a rewind begins; the next write
\* is prepared, done, or the last one of its operation; a write fails; a restart.
Begins ==
  /\ Push \/ Snapshot \/ Compact \/ \E n \in 0..MaxMessages : Rewind(n)
  /\ Reload' = Reload
GoesOn ==
  /\ \/ pc = "rotate" /\ pc' = "write"
     \/ pc = "open" /\ pc' = "record"
  /\ Reload' = Reload /\ UNCHANGED <<memory, op, halfUndone, original, pushed, failures>>
WritesAll ==
  /\ pc = "write" /\ pc' = "cleanup"
  /\ Reload' = memory /\ UNCHANGED <<memory, op, halfUndone, original, pushed, failures>>
AddsOne ==
  /\ pc = "record" /\ pc' = "newline"
  /\ Reload' = Append(Reload, Last(memory))
  /\ UNCHANGED <<memory, op, halfUndone, original, pushed, failures>>
EndsWell ==
  /\ pc \in {"newline", "cleanup"} /\ Succeed
  /\ Reload' = Reload /\ UNCHANGED <<original, pushed, failures>>
EndsBadly ==
  /\ pc \in {"write", "cleanup", "open", "record", "newline"} /\ Fail
  /\ Reload' = Reload /\ UNCHANGED <<original, pushed>>
StartsAgain ==
  /\ memory' = Reload /\ Reload' = Reload
  /\ op' = "none" /\ pc' = "idle" /\ halfUndone' = FALSE /\ UNCHANGED <<pushed, failures>>
StoreRests ==
  Reload' = Reload /\ UNCHANGED <<memory, op, pc, halfUndone, original, pushed, failures>>
StoreMoves ==
  Begins \/ GoesOn \/ WritesAll \/ AddsOne \/ EndsWell \/ EndsBadly \/ StartsAgain \/ StoreRests
-----------------------------------------------------------------------------
(* Its types and its steps *)

\* The first, the last and the others of a list of messages.
LEMMA FrontAndLast ==
  ASSUME NEW S, NEW s \in Seq(S), s # <<>>
  PROVE  /\ Len(s) \in Nat \ {0} /\ Last(s) \in S /\ Front(s) \in Seq(S)
         /\ Len(Front(s)) = Len(s) - 1 /\ \A i \in 1..Len(Front(s)) : Front(s)[i] = s[i]
<1>1. Len(s) \in Nat \ {0} /\ DOMAIN s = 1..Len(s) /\ \A i \in 1..Len(s) : s[i] \in S
  BY EmptySeq, LenProperties, ElementOfSeq
<1>2. Len(s) \in 1..Len(s) /\ \A i \in 1..(Len(s) - 1) : i \in 1..Len(s)
  BY <1>1
<1>3. /\ SubSeq(s, 1, Len(s) - 1) \in Seq(S)
      /\ Len(SubSeq(s, 1, Len(s) - 1)) = Len(s) - 1
      /\ \A i \in 1..(Len(s) - 1) : SubSeq(s, 1, Len(s) - 1)[i] = s[i]
  <2> DEFINE n == Len(s) - 1
  <2>1. n \in Nat /\ 1 \in 1..(Len(s) + 1) /\ n \in 0..Len(s) /\ \A i \in 1..n : s[i] \in S
    BY <1>1, <1>2
  <2> HIDE DEF n
  <2>2. /\ SubSeq(s, 1, n) \in Seq(S) /\ Len(SubSeq(s, 1, n)) = n
        /\ \A i \in 1..n : SubSeq(s, 1, n)[i] = s[i]
    BY <2>1, SubSeqProperties
  <2>3. QED
    BY <2>2 DEF n
<1>4. QED
  BY <1>1, <1>2, <1>3 DEF Last, Front

\* The lines a restart reads, and what it makes of them.
LEMMA NewestTypes ==
  ASSUME TypeOK
  PROVE  /\ Newest \in [exists : BOOLEAN, lines : Seq(Lines), ended : BOOLEAN]
         /\ Reload \in Seq(Messages)
<1>1. main \in [exists : BOOLEAN, lines : Seq(Lines), ended : BOOLEAN] /\ rotated \in Seq(Seq(Lines))
  BY DEF TypeOK
<1>2. ASSUME rotated # <<>>
      PROVE  File(Last(rotated)) \in [exists : BOOLEAN, lines : Seq(Lines), ended : BOOLEAN]
  <2>1. Last(rotated) \in Seq(Lines)
    BY <1>1, <1>2, FrontAndLast
  <2>2. QED
    BY <2>1 DEF File
<1>3. NoFile \in [exists : BOOLEAN, lines : Seq(Lines), ended : BOOLEAN]
  BY EmptySeq DEF NoFile
<1>4. Newest \in [exists : BOOLEAN, lines : Seq(Lines), ended : BOOLEAN]
  BY <1>1, <1>2, <1>3 DEF Newest
<1>5. Newest.lines \in Seq(Lines)
  BY <1>4
<1>6. QED
  BY <1>4, <1>5, LoadedMessages DEF Reload

\* What a write of a record or of a part of it leaves of a file whose last line has its
\* newline.
LEMMA RecordWritten ==
  ASSUME TypeOK, main.ended, main.exists, NEW line \in Lines
  PROVE  /\ With(line) \in [exists : BOOLEAN, lines : Seq(Lines), ended : BOOLEAN]
         /\ With(line).exists
         /\ Loaded(With(line).lines) = ReadLine(Reload, line)
<1>1. main \in [exists : BOOLEAN, lines : Seq(Lines), ended : BOOLEAN]
  BY DEF TypeOK
<1>2. Append(main.lines, line) \in Seq(Lines)
  BY <1>1, LastAdded
<1>3. /\ With(line) \in [exists : BOOLEAN, lines : Seq(Lines), ended : BOOLEAN]
      /\ With(line).exists = main.exists /\ With(line).lines = Append(main.lines, line)
  <2>1. With(line) = [main EXCEPT !.ended = FALSE, !.lines = Append(main.lines, line)]
    BY <1>1 DEF With
  <2> DEFINE lines == Append(main.lines, line)
  <2>2. lines \in Seq(Lines)
    BY <1>2
  <2> HIDE DEF lines
  <2>3. [main EXCEPT !.ended = FALSE, !.lines = lines].lines = lines
    BY <1>1
  <2>4. [main EXCEPT !.ended = FALSE, !.lines = lines].exists = main.exists
    BY <1>1
  <2>5. [main EXCEPT !.ended = FALSE, !.lines = lines]
          \in [exists : BOOLEAN, lines : Seq(Lines), ended : BOOLEAN]
    BY <1>1, <2>2
  <2>6. QED
    BY <2>1, <2>3, <2>4, <2>5 DEF lines
<1>4. Reload = Loaded(main.lines)
  BY DEF Reload, Newest
<1>5. Loaded(Append(main.lines, line)) = ReadLine(Loaded(main.lines), line)
  BY <1>1, LoadedOneMore
<1>6. QED
  BY <1>2, <1>3, <1>4, <1>5
\* The types of what an operation works on go on holding, each with its writes.
LEMMA NextStoreTypes ==
  ASSUME TypeOK, WritesFit, RotatedFew, [Next]_vars
  PROVE  /\ memory' \in Seq(Messages) /\ rewrite' \in BOOLEAN /\ original' \in Seq(Messages)
         /\ op' \in {"none", "push", "rewrite", "snapshot", "rewind"}
         /\ pc' \in {"idle", "rotate", "write", "cleanup", "open", "record", "newline"}
         /\ halfUndone' \in BOOLEAN
         /\ pushed' \in 0..MaxMessages /\ edits' \in 0..MaxEdits
         /\ failures' \in 0..MaxFailures /\ crashes' \in 0..MaxCrashes
<1> USE DEF TypeOK
<1>0. /\ pushed \in Nat /\ edits \in Nat /\ failures \in Nat /\ crashes \in Nat
      /\ MaxMessages \in Nat /\ MaxEdits \in Nat /\ MaxFailures \in Nat /\ MaxCrashes \in Nat
  BY BoundsAssumption
<1>1. ASSUME Fail
      PROVE  /\ memory' \in Seq(Messages) /\ rewrite' \in BOOLEAN /\ halfUndone' \in BOOLEAN
             /\ op' = "none" /\ pc' = "idle" /\ failures' \in 0..MaxFailures
  <2>1. op \in {"push", "rewrite"} => Front(memory) \in Seq(Messages)
    BY FrontAndLast DEF WritesFit, Adding
  <2>2. memory' \in Seq(Messages)
    BY <1>1, <2>1 DEF Fail
  <2>3. failures' \in 0..MaxFailures
    BY <1>0, <1>1 DEF Fail
  <2>4. QED
    BY <1>1, <2>2, <2>3 DEF Fail
<1>2. CASE Push
  <2>1. pushed + 1 \in Messages /\ pushed + 1 \in 0..MaxMessages
    BY <1>0, <1>2 DEF Push, Messages
  <2>2. Append(memory, pushed + 1) \in Seq(Messages)
    BY <2>1, LastAdded
  <2>3. QED
    BY <1>2, <2>1, <2>2 DEF Push
<1>3. CASE Snapshot
  BY <1>3 DEF Snapshot, boundVars
<1>4. CASE Compact
  <2>1. Tail(memory) \in Seq(Messages)
    BY <1>4, FirstTaken DEF Compact
  <2>2. QED
    BY <1>0, <1>4, <2>1 DEF Compact
<1>5. ASSUME NEW n \in 0..MaxMessages, Rewind(n)
      PROVE  /\ memory' \in Seq(Messages) /\ original' \in Seq(Messages) /\ rewrite' = rewrite
             /\ op' = "rewind" /\ pc' = "rotate" /\ UNCHANGED <<halfUndone, pushed, failures, crashes>>
             /\ edits' \in 0..MaxEdits
  <2>1. n \in 0..Len(memory)
    BY <1>0, <1>5, LenProperties DEF Rewind
  <2>2. SubSeq(memory, 1, n) \in Seq(Messages)
    BY <2>1, SubSeqProperties, LenProperties, ElementOfSeq
  <2>3. QED
    BY <1>0, <1>5, <2>2 DEF Rewind
<1>6. CASE Rotate
  BY <1>6 DEF Rotate, Go, boundVars
<1>7. CASE WriteSnapshot
  BY <1>1, <1>7 DEF WriteSnapshot, Go
<1>8. CASE Cleanup
  BY <1>1, <1>8 DEF Cleanup, Succeed
<1>9. CASE OpenForAppend
  BY <1>9 DEF OpenForAppend, Go, boundVars
<1>10. CASE AppendRecord
  BY <1>10 DEF AppendRecord, Go, boundVars
<1>11. CASE AppendNewline
  BY <1>11 DEF AppendNewline, Succeed, boundVars
<1>12. CASE AppendFails
  BY <1>1, <1>12 DEF AppendFails
<1>13. CASE Crash
  <2>1. PICK left \in {Newest} \cup (IF pc = "record" THEN {With(Torn)} ELSE {}) :
          main' = left /\ memory' = Loaded(left.lines) /\ rewrite' = (Torn \in SetOf(left.lines))
    BY <1>13 DEF Crash
  <2>2. left \in [exists : BOOLEAN, lines : Seq(Lines), ended : BOOLEAN]
    <3>1. Torn \in Lines
      BY DEF Lines
    <3>2. QED
      BY <2>1, <3>1, NewestTypes, RecordWritten DEF WritesFit
  <2>3. left.lines \in Seq(Lines)
    BY <2>2
  <2>4. memory' \in Seq(Messages)
    BY <2>1, <2>3, LoadedMessages
  <2>5. crashes' \in 0..MaxCrashes
    BY <1>0, <1>13 DEF Crash
  <2>6. rewrite' \in BOOLEAN
    BY <2>1
  <2>7. QED
    BY <1>13, <2>4, <2>5, <2>6 DEF Crash
<1>14. CASE UNCHANGED vars
  BY <1>14 DEF vars, boundVars
<1>15. QED
  BY <1>2, <1>3, <1>4, <1>5, <1>6, <1>7, <1>8, <1>9, <1>10, <1>11, <1>12, <1>13, <1>14 DEF Next

\* So do the types of the files, of which there are few.
LEMMA NextFileTypes ==
  ASSUME TypeOK, WritesFit, RotatedFew, [Next]_vars
  PROVE  /\ main' \in [exists : BOOLEAN, lines : Seq(Lines), ended : BOOLEAN]
         /\ rotated' \in Seq(Seq(Lines)) /\ RotatedFew'
<1> DEFINE MainOK == main' \in [exists : BOOLEAN, lines : Seq(Lines), ended : BOOLEAN]
<1>0. /\ failures \in Nat /\ crashes \in Nat /\ MaxRotated \in Nat /\ Len(rotated) \in Nat
      /\ rotated \in Seq(Seq(Lines)) /\ memory \in Seq(Messages)
      /\ main \in [exists : BOOLEAN, lines : Seq(Lines), ended : BOOLEAN]
  BY BoundsAssumption, LenProperties DEF TypeOK
<1>1. ASSUME NEW lines \in Seq(Lines)
      PROVE  File(lines) \in [exists : BOOLEAN, lines : Seq(Lines), ended : BOOLEAN]
  BY DEF File
<1>2. NoFile \in [exists : BOOLEAN, lines : Seq(Lines), ended : BOOLEAN]
  BY EmptySeq DEF NoFile
<1>3. CASE Push \/ Snapshot \/ Compact \/ \E n \in 0..MaxMessages : Rewind(n)
  <2>1. UNCHANGED <<main, rotated, failures, crashes>> /\ pc = "idle" /\ pc' \in {"rotate", "open"}
    BY <1>3 DEF Push, Snapshot, Compact, Rewind, fileVars, boundVars
  <2>2. QED
    BY <1>0, <2>1 DEF RotatedFew
<1>4. CASE Rotate
  <2>1. pc = "rotate" /\ pc' = "write" /\ UNCHANGED <<failures, crashes>>
    BY <1>4 DEF Rotate, Go, boundVars
  <2>2. MainOK
    BY <1>0, <1>2, <1>4 DEF Rotate, fileVars
  <2>3. main.lines \in Seq(Lines)
    BY <1>0
  <2>4. Append(rotated, main.lines) \in Seq(Seq(Lines)) /\ Len(Append(rotated, main.lines)) = Len(rotated) + 1
    BY <1>0, <2>3, AppendProperties
  <2>5. rotated' \in Seq(Seq(Lines)) /\ Len(rotated') \in Nat /\ Len(rotated') <= Len(rotated) + 1
    <3>1. rotated' = rotated \/ rotated' = Append(rotated, main.lines)
      BY <1>4 DEF Rotate, fileVars
    <3>2. CASE rotated' = rotated
      BY <1>0, <3>2
    <3>3. CASE rotated' = Append(rotated, main.lines)
      <4>1. Len(rotated') = Len(rotated) + 1 /\ rotated' \in Seq(Seq(Lines))
        BY <2>4, <3>3
      <4>2. QED
        BY <1>0, <4>1
    <3>4. QED
      BY <3>1, <3>2, <3>3
  <2>6. QED
    BY <1>0, <2>1, <2>2, <2>5 DEF RotatedFew
<1>5. CASE WriteSnapshot
  <2>1. pc = "write" /\ UNCHANGED <<rotated, crashes>>
    BY <1>5 DEF WriteSnapshot
  <2>2. \/ pc' = "cleanup" /\ failures' = failures
        \/ pc' = "idle" /\ failures' = failures + 1
    BY <1>5 DEF WriteSnapshot, Go, Fail
  <2>3. main' = File(memory) \/ main' = main
    BY <1>5 DEF WriteSnapshot, Written
  <2>4. File(memory) \in [exists : BOOLEAN, lines : Seq(Lines), ended : BOOLEAN]
    BY <1>0, <1>1, LoadedWhole
  <2>5. QED
    BY <1>0, <2>1, <2>2, <2>3, <2>4 DEF RotatedFew
<1>6. CASE Cleanup
  <2>1. pc = "cleanup" /\ pc' = "idle" /\ UNCHANGED <<main, crashes>>
    BY <1>6 DEF Cleanup, Succeed, Fail
  <2>2. CASE rotated' = SubSeq(rotated, Excess + 1, Len(rotated)) /\ UNCHANGED failures
    <3>1. Excess \in 0..Len(rotated) /\ Len(rotated) - Excess <= MaxRotated
      BY <1>0 DEF Excess
    <3>2. \A i \in (Excess + 1)..Len(rotated) : rotated[i] \in Seq(Lines)
      <4>1. \A i \in (Excess + 1)..Len(rotated) : i \in 1..Len(rotated)
        BY <1>0, <3>1
      <4>2. QED
        BY <1>0, <4>1, ElementOfSeq
    <3>3. Excess + 1 \in 1..(Len(rotated) + 1) /\ Len(rotated) \in Excess..Len(rotated)
      BY <1>0, <3>1
    <3>4. /\ SubSeq(rotated, Excess + 1, Len(rotated)) \in Seq(Seq(Lines))
          /\ Len(SubSeq(rotated, Excess + 1, Len(rotated)))
               = IF Excess + 1 <= Len(rotated) THEN Len(rotated) - (Excess + 1) + 1 ELSE 0
      BY <1>0, <3>1, <3>2, SubSeqProperties
    <3>5. Len(rotated') \in Nat /\ Len(rotated') <= MaxRotated /\ rotated' \in Seq(Seq(Lines))
      BY <1>0, <2>2, <3>1, <3>4
    <3>6. QED
      BY <1>0, <2>1, <2>2, <3>5 DEF RotatedFew
  <2>3. CASE UNCHANGED rotated /\ Fail
    <3>1. failures' = failures + 1
      BY <2>3 DEF Fail
    <3>2. QED
      BY <1>0, <2>1, <2>3, <3>1 DEF RotatedFew
  <2>4. QED
    BY <1>6, <2>2, <2>3 DEF Cleanup
<1>7. CASE OpenForAppend \/ AppendNewline
  <2>1. /\ UNCHANGED <<rotated, failures, crashes>> /\ pc \in {"open", "newline"} /\ pc' \in {"record", "idle"}
        /\ main' = [main EXCEPT !.ended = TRUE]
    BY <1>7 DEF OpenForAppend, AppendNewline, Opened, Go, Succeed, boundVars
  <2>2. QED
    BY <1>0, <2>1 DEF RotatedFew
<1>8. CASE AppendRecord
  <2>1. UNCHANGED <<rotated, failures, crashes>> /\ pc = "record" /\ pc' = "newline"
    BY <1>8 DEF AppendRecord, Go, boundVars
  <2>2. Last(memory) \in Lines
    BY <1>0, <2>1, FrontAndLast DEF WritesFit, Adding, Lines
  <2>3. MainOK
    BY <1>8, <2>1, <2>2, RecordWritten DEF AppendRecord, WritesFit
  <2>4. QED
    BY <1>0, <2>1, <2>3 DEF RotatedFew
<1>9. CASE AppendFails
  <2>1. UNCHANGED <<rotated, crashes>> /\ pc' = "idle" /\ failures' = failures + 1 /\ pc \notin {"write", "cleanup"}
    BY <1>9 DEF AppendFails, Fail
  <2>2. main' = main \/ (pc = "record" /\ main' = With(Torn))
    BY <1>9 DEF AppendFails
  <2>3. Torn \in Lines
    BY DEF Lines
  <2>4. MainOK
    BY <1>0, <2>2, <2>3, RecordWritten DEF WritesFit
  <2>5. QED
    BY <1>0, <2>1, <2>4 DEF RotatedFew
<1>10. CASE Crash
  <2>1. /\ rotated' = (IF main.exists THEN rotated ELSE <<>>)
        /\ crashes' = crashes + 1 /\ pc' = "idle" /\ failures' = failures
    BY <1>10 DEF Crash
  <2>2. main' = Newest \/ (pc = "record" /\ main' = With(Torn))
    BY <1>10 DEF Crash
  <2>3. Torn \in Lines
    BY DEF Lines
  <2>4. MainOK
    BY <2>2, <2>3, RecordWritten, NewestTypes DEF WritesFit
  <2>5. <<>> \in Seq(Seq(Lines)) /\ Len(<<>>) = 0
    BY EmptySeq
  <2>6. rotated' \in Seq(Seq(Lines)) /\ Len(rotated') \in Nat /\ Len(rotated') <= Len(rotated)
    BY <1>0, <2>1, <2>5
  <2>7. QED
    BY <1>0, <2>1, <2>4, <2>6 DEF RotatedFew
<1>11. CASE UNCHANGED vars
  BY <1>0, <1>11 DEF vars, fileVars, boundVars, RotatedFew
<1>12. QED
  BY <1>3, <1>4, <1>5, <1>6, <1>7, <1>8, <1>9, <1>10, <1>11 DEF Next

\* Every step is of one of the kinds above.
LEMMA StoreStepKinds ==
  ASSUME TypeOK, WritesFit, [Next]_vars
  PROVE  StoreMoves
<1>0. /\ main \in [exists : BOOLEAN, lines : Seq(Lines), ended : BOOLEAN]
      /\ rotated \in Seq(Seq(Lines)) /\ memory \in Seq(Messages)
  BY DEF TypeOK
<1>1. ASSUME UNCHANGED <<main, rotated>> PROVE Reload' = Reload
  BY <1>1 DEF Reload, Newest
<1>2. ASSUME NEW file \in [exists : BOOLEAN, lines : Seq(Lines), ended : BOOLEAN],
             main' = file, file.exists
      PROVE  Reload' = Loaded(file.lines)
  BY <1>2 DEF Reload, Newest
<1>3. main.exists => Reload = Loaded(main.lines)
  BY DEF Reload, Newest
<1>4. Torn \in Lines /\ ~IsRecord(Torn)
  BY DEF Lines, IsRecord
<1>5. CASE Push \/ Snapshot \/ Compact \/ \E n \in 0..MaxMessages : Rewind(n)
  <2>1. UNCHANGED <<main, rotated>>
    BY <1>5 DEF Push, Snapshot, Compact, Rewind, fileVars
  <2>2. QED
    BY <1>1, <1>5, <2>1 DEF StoreMoves, Begins
<1>6. CASE Rotate
  <2>1. CASE main' = NoFile /\ rotated' = Append(rotated, main.lines) /\ main.exists
    <3>1. main.lines \in Seq(Lines)
      BY <1>0
    <3>2. /\ rotated' \in Seq(Seq(Lines)) /\ Len(rotated') = Len(rotated) + 1 /\ Len(rotated) \in Nat
          /\ rotated'[Len(rotated) + 1] = main.lines
      BY <1>0, <2>1, <3>1, AppendProperties, LenProperties
    <3>3. rotated' # <<>> /\ Last(rotated') = main.lines
      BY <3>2, EmptySeq DEF Last
    <3>4. Newest' = File(main.lines)
      BY <2>1, <3>3 DEF Newest, NoFile
    <3>5. Reload' = Loaded(main.lines)
      BY <3>4 DEF Reload, File
    <3>6. QED
      BY <1>3, <1>6, <2>1, <3>5 DEF Rotate, Go, boundVars, StoreMoves, GoesOn
  <2>2. CASE UNCHANGED fileVars
    BY <1>1, <1>6, <2>2 DEF Rotate, Go, fileVars, boundVars, StoreMoves, GoesOn
  <2>3. QED
    BY <1>6, <2>1, <2>2 DEF Rotate
<1>7. CASE WriteSnapshot
  <2>1. CASE Written(TRUE) /\ Go("cleanup") /\ UNCHANGED failures
    <3>1. main' = File(memory)
      BY <2>1 DEF Written
    <3>2. memory \in Seq(Lines) /\ Loaded(memory) = memory
      BY <1>0, LoadedWhole
    <3>3. Newest' = File(memory)
      BY <3>1 DEF Newest, File
    <3>4. Reload' = memory
      BY <3>2, <3>3 DEF Reload, File
    <3>5. QED
      BY <1>7, <2>1, <3>4 DEF WriteSnapshot, Go, StoreMoves, WritesAll
  <2>2. CASE Written(FALSE) /\ Fail
    <3>1. UNCHANGED <<main, rotated>>
      BY <1>7, <2>2 DEF WriteSnapshot, Written
    <3>2. QED
      BY <1>1, <1>7, <2>2, <3>1 DEF WriteSnapshot, StoreMoves, EndsBadly
  <2>3. QED
    BY <1>7, <2>1, <2>2 DEF WriteSnapshot
<1>8. CASE Cleanup
  <2>1. main.exists /\ main' = main
    BY <1>8 DEF Cleanup, WritesFit
  <2>2. Reload' = Reload
    BY <2>1 DEF Reload, Newest
  <2>3. QED
    BY <1>8, <2>2 DEF Cleanup, StoreMoves, EndsWell, EndsBadly
<1>9. CASE OpenForAppend \/ AppendNewline
  <2>1. main.exists /\ main' = [main EXCEPT !.ended = TRUE]
    BY <1>9 DEF OpenForAppend, AppendNewline, Opened, WritesFit
  <2>2. main'.exists = main.exists /\ main'.lines = main.lines
    BY <1>0, <2>1
  <2>3. Reload' = Reload
    BY <2>1, <2>2 DEF Reload, Newest
  <2>4. QED
    BY <1>9, <2>3
    DEF OpenForAppend, AppendNewline, Go, Succeed, boundVars, StoreMoves, GoesOn, EndsWell
<1>10. CASE AppendRecord
  <2>1. pc = "record" /\ main.exists /\ main.ended /\ memory # <<>> /\ main' = With(Last(memory))
    BY <1>10 DEF AppendRecord, WritesFit, Adding
  <2>2. Last(memory) \in Lines /\ IsRecord(Last(memory))
    <3>1. Last(memory) \in Messages
      BY <1>0, <2>1, FrontAndLast
    <3>2. QED
      BY <3>1, BoundsAssumption DEF Lines, Messages, IsRecord, Torn
  <2>3. Reload' = ReadLine(Reload, Last(memory))
    <3>1. /\ With(Last(memory)).exists
          /\ Loaded(With(Last(memory)).lines) = ReadLine(Reload, Last(memory))
      BY <2>1, <2>2, RecordWritten
    <3>2. Newest' = With(Last(memory))
      BY <2>1, <3>1 DEF Newest
    <3>3. QED
      BY <3>1, <3>2 DEF Reload
  <2>4. QED
    BY <1>10, <2>2, <2>3 DEF AppendRecord, Go, boundVars, ReadLine, StoreMoves, AddsOne
<1>11. CASE AppendFails
  <2>1. pc \in {"open", "record", "newline"} /\ main.exists /\ UNCHANGED <<rotated, original, pushed>> /\ Fail
    BY <1>11 DEF AppendFails, WritesFit
  <2>2. CASE main' = main
    BY <1>1, <2>1, <2>2 DEF StoreMoves, EndsBadly
  <2>3. CASE pc = "record" /\ main' = With(Torn)
    <3>1. With(Torn).exists /\ Loaded(With(Torn).lines) = ReadLine(Reload, Torn)
      BY <1>4, <2>1, <2>3, RecordWritten DEF WritesFit
    <3>2. Newest' = With(Torn)
      BY <2>3, <3>1 DEF Newest
    <3>3. Reload' = Reload
      BY <1>4, <3>1, <3>2 DEF Reload, ReadLine
    <3>4. QED
      BY <2>1, <3>3 DEF StoreMoves, EndsBadly
  <2>4. QED
    BY <1>11, <2>2, <2>3 DEF AppendFails
<1>12. CASE Crash
  <2>1. PICK left \in {Newest} \cup (IF pc = "record" THEN {With(Torn)} ELSE {}) :
          main' = left /\ memory' = Loaded(left.lines)
    BY <1>12 DEF Crash
  <2>2. Loaded(left.lines) = Reload
    <3>1. CASE left = Newest
      BY <3>1 DEF Reload
    <3>2. CASE pc = "record" /\ left = With(Torn)
      BY <1>4, <3>2, RecordWritten DEF WritesFit, ReadLine
    <3>3. QED
      BY <2>1, <3>1, <3>2
  <2>3. left.exists \/ (left = NoFile /\ ~main.exists)
    <3>1. left = Newest => Newest.exists \/ (Newest = NoFile /\ ~main.exists)
      BY DEF Newest, File
    <3>2. pc = "record" => With(Torn).exists
      BY <1>4, RecordWritten DEF WritesFit
    <3>3. QED
      BY <2>1, <3>1, <3>2
  <2>4. Newest' = left
    <3>1. CASE left.exists
      BY <2>1, <3>1 DEF Newest
    <3>2. CASE left = NoFile /\ ~main.exists
      <4>1. rotated' = <<>> /\ main' = NoFile
        BY <1>12, <2>1, <3>2 DEF Crash
      <4>2. QED
        BY <3>2, <4>1 DEF Newest, NoFile
    <3>3. QED
      BY <2>3, <3>1, <3>2
  <2>5. Reload' = Reload
    BY <2>2, <2>4 DEF Reload
  <2>6. QED
    BY <1>12, <2>1, <2>2, <2>5 DEF Crash, StoreMoves, StartsAgain
<1>13. CASE UNCHANGED vars
  <2>1. UNCHANGED <<main, rotated, memory, op, pc, halfUndone, original, pushed, failures>>
    BY <1>13 DEF vars, fileVars, boundVars
  <2>2. QED
    BY <1>1, <2>1 DEF StoreMoves, StoreRests
<1>14. QED
  BY <1>5, <1>6, <1>7, <1>8, <1>9, <1>10, <1>11, <1>12, <1>13 DEF Next
-----------------------------------------------------------------------------
(* Its order and what a restart finds *)

\* A stretch of a list of messages is in order as the list is, and has messages of it only.
LEMMA StretchInOrder ==
  ASSUME NEW s \in Seq(Messages), NEW t \in Seq(Messages), NEW d \in Nat, Len(t) + d <= Len(s),
         \A i \in 1..Len(t) : t[i] = s[i + d]
  PROVE  /\ SetOf(t) \subseteq SetOf(s)
         /\ Increasing(s) => Increasing(t)
         /\ \A n \in Nat : UpToNumber(s, n) => UpToNumber(t, n)
<1>1. /\ Len(s) \in Nat /\ DOMAIN s = 1..Len(s)
      /\ Len(t) \in Nat /\ DOMAIN t = 1..Len(t)
  BY LenProperties
<1>2. \A i \in 1..Len(t) : i + d \in 1..Len(s)
  BY <1>1
<1>3. SetOf(t) \subseteq SetOf(s)
  BY <1>1, <1>2 DEF SetOf
<1>4. ASSUME Increasing(s) PROVE Increasing(t)
  <2> SUFFICES ASSUME NEW i \in 1..(Len(t) - 1) PROVE t[i] < t[i + 1]
    BY DEF Increasing
  <2>1. i \in 1..Len(t) /\ i + 1 \in 1..Len(t) /\ i + d \in 1..(Len(s) - 1) /\ (i + 1) + d = (i + d) + 1
    BY <1>1
  <2>2. t[i] = s[i + d] /\ t[i + 1] = s[(i + d) + 1]
    BY <2>1
  <2>3. s[i + d] < s[(i + d) + 1]
    BY <1>4, <2>1 DEF Increasing
  <2>4. QED
    BY <2>2, <2>3
<1>5. ASSUME NEW n \in Nat, UpToNumber(s, n) PROVE UpToNumber(t, n)
  BY <1>2, <1>5 DEF UpToNumber
<1>6. QED
  BY <1>3, <1>4, <1>5

\* What a failed push leaves is such a stretch.
LEMMA FrontInOrder ==
  ASSUME NEW s \in Seq(Messages), s # <<>>
  PROVE  /\ SetOf(Front(s)) \subseteq SetOf(s)
         /\ Increasing(s) => Increasing(Front(s))
         /\ \A n \in Nat : UpToNumber(s, n) => UpToNumber(Front(s), n)
<1>1. /\ Len(s) \in Nat \ {0} /\ Front(s) \in Seq(Messages) /\ Len(Front(s)) = Len(s) - 1
      /\ \A i \in 1..Len(Front(s)) : Front(s)[i] = s[i]
  BY FrontAndLast
<1>2. Len(Front(s)) + 0 <= Len(s) /\ \A i \in 1..Len(Front(s)) : Front(s)[i] = s[i + 0]
  BY <1>1
<1>3. QED
  BY <1>1, <1>2, StretchInOrder

\* And what a compaction leaves.
LEMMA TailInOrder ==
  ASSUME NEW s \in Seq(Messages), s # <<>>
  PROVE  /\ Tail(s) \in Seq(Messages) /\ SetOf(Tail(s)) \subseteq SetOf(s)
         /\ Increasing(s) => Increasing(Tail(s))
         /\ \A n \in Nat : UpToNumber(s, n) => UpToNumber(Tail(s), n)
<1>1. Tail(s) \in Seq(Messages) /\ \A i \in 1..Len(Tail(s)) : Tail(s)[i] = s[i + 1]
  BY FirstTaken
<1>2. Len(Tail(s)) + 1 <= Len(s)
  BY HeadTailProperties, LenProperties
<1>3. QED
  BY <1>1, <1>2, StretchInOrder

\* And what a rewind leaves.
LEMMA BeginningInOrder ==
  ASSUME NEW s \in Seq(Messages), NEW n \in 0..Len(s)
  PROVE  /\ SubSeq(s, 1, n) \in Seq(Messages) /\ SetOf(SubSeq(s, 1, n)) \subseteq SetOf(s)
         /\ Increasing(s) => Increasing(SubSeq(s, 1, n))
         /\ \A m \in Nat : UpToNumber(s, m) => UpToNumber(SubSeq(s, 1, n), m)
<1>1. Len(s) \in Nat /\ n \in Nat /\ n <= Len(s) /\ \A i \in 1..n : s[i] \in Messages
  BY LenProperties, ElementOfSeq
<1> DEFINE t == SubSeq(s, 1, n)
<1>2. t \in Seq(Messages) /\ Len(t) = n /\ \A i \in 1..n : t[i] = s[i]
  BY <1>1, SubSeqProperties
<1> HIDE DEF t
<1>3. Len(t) + 0 <= Len(s) /\ \A i \in 1..Len(t) : t[i] = s[i + 0]
  BY <1>1, <1>2
<1>4. /\ SetOf(t) \subseteq SetOf(s)
      /\ Increasing(s) => Increasing(t)
      /\ \A m \in Nat : UpToNumber(s, m) => UpToNumber(t, m)
  BY <1>2, <1>3, StretchInOrder
<1>5. QED
  BY <1>2, <1>4 DEF t

\* A newer message at the end keeps the order.
LEMMA NewerAdded ==
  ASSUME NEW s \in Seq(Messages), NEW n \in Messages, Increasing(s), UpToNumber(s, n - 1)
  PROVE  /\ Append(s, n) \in Seq(Messages) /\ SetOf(Append(s, n)) = SetOf(s) \cup {n}
         /\ Increasing(Append(s, n)) /\ UpToNumber(Append(s, n), n)
         /\ Append(s, n) # <<>> /\ Last(Append(s, n)) = n /\ Front(Append(s, n)) = s
<1> DEFINE t == Append(s, n)
<1>1. /\ t \in Seq(Messages) /\ Len(t) = Len(s) + 1 /\ Len(s) \in Nat
      /\ t[Len(s) + 1] = n /\ \A i \in 1..Len(s) : t[i] = s[i]
  BY AppendProperties, LenProperties
<1> HIDE DEF t
<1>2. DOMAIN s = 1..Len(s) /\ DOMAIN t = 1..(Len(s) + 1)
  BY <1>1, LenProperties
<1>3. \A i \in 1..(Len(s) + 1) : i \in 1..Len(s) \/ i = Len(s) + 1
  BY <1>1
<1>4. SetOf(t) = SetOf(s) \cup {n}
  <2>1. SetOf(t) \subseteq SetOf(s) \cup {n}
    BY <1>1, <1>2, <1>3 DEF SetOf
  <2>2. \A i \in 1..Len(s) : i \in 1..(Len(s) + 1) /\ t[i] = s[i]
    BY <1>1
  <2>3. SetOf(s) \cup {n} \subseteq SetOf(t)
    <3>1. Len(s) + 1 \in 1..(Len(s) + 1)
      BY <1>1
    <3>2. n \in SetOf(t)
      BY <1>1, <1>2, <3>1 DEF SetOf
    <3>3. SetOf(s) \subseteq SetOf(t)
      BY <1>2, <2>2 DEF SetOf
    <3>4. QED
      BY <3>2, <3>3
  <2>4. QED
    BY <2>1, <2>3
<1>5. \A i \in 1..Len(s) : s[i] \in Nat /\ s[i] < n
  <2>1. n \in Nat /\ \A i \in 1..Len(s) : s[i] \in Nat
    BY BoundsAssumption, ElementOfSeq DEF Messages
  <2>2. QED
    BY <2>1 DEF UpToNumber
<1>6. Increasing(t)
  <2> SUFFICES ASSUME NEW i \in 1..Len(s) PROVE t[i] < t[i + 1]
    BY <1>1 DEF Increasing
  <2>1. CASE i = Len(s)
    BY <1>1, <1>5, <2>1
  <2>2. CASE i # Len(s)
    <3>1. i \in 1..(Len(s) - 1) /\ i + 1 \in 1..Len(s)
      BY <1>1, <2>2
    <3>2. QED
      BY <1>1, <3>1 DEF Increasing
  <2>3. QED
    BY <2>1, <2>2
<1>7. UpToNumber(t, n)
  <2>1. n \in Nat
    BY BoundsAssumption DEF Messages
  <2>2. \A i \in 1..(Len(s) + 1) : t[i] <= n
    BY <1>1, <1>3, <1>5, <2>1
  <2>3. QED
    BY <1>1, <2>2 DEF UpToNumber
<1>8. t # <<>> /\ Last(t) = n
  BY <1>1, EmptySeq DEF Last
<1>9. Front(t) = s
  <2>1. /\ Front(t) \in Seq(Messages) /\ Len(Front(t)) = Len(t) - 1
        /\ \A i \in 1..Len(Front(t)) : Front(t)[i] = t[i]
    BY <1>1, <1>8, FrontAndLast
  <2>2. Len(Front(t)) = Len(s) /\ \A i \in 1..Len(Front(t)) : Front(t)[i] = s[i]
    BY <1>1, <2>1
  <2>3. QED
    BY <2>1, <2>2, SeqEqual
<1>10. QED
  BY <1>1, <1>4, <1>6, <1>7, <1>8, <1>9 DEF t

\* A list is its first messages and its last.
LEMMA FrontThenLast ==
  ASSUME NEW s \in Seq(Messages), s # <<>>
  PROVE  /\ Append(Front(s), Last(s)) = s
         /\ SetOf(s) \subseteq SetOf(Front(s)) \cup {Last(s)}
<1>1. /\ Len(s) \in Nat \ {0} /\ Last(s) \in Messages /\ Front(s) \in Seq(Messages)
      /\ Len(Front(s)) = Len(s) - 1 /\ \A i \in 1..Len(Front(s)) : Front(s)[i] = s[i]
  BY FrontAndLast
<1> DEFINE t == Append(Front(s), Last(s))
<1>2. /\ t \in Seq(Messages) /\ Len(t) = Len(Front(s)) + 1
      /\ t[Len(Front(s)) + 1] = Last(s) /\ \A i \in 1..Len(Front(s)) : t[i] = Front(s)[i]
  BY <1>1, AppendProperties
<1> HIDE DEF t
<1>3. Len(t) = Len(s) /\ t[Len(s)] = s[Len(s)] /\ \A i \in 1..(Len(s) - 1) : t[i] = s[i]
  BY <1>1, <1>2 DEF Last
<1>4. \A i \in 1..Len(s) : i = Len(s) \/ i \in 1..(Len(s) - 1)
  BY <1>1
<1>5. t = s
  BY <1>2, <1>3, <1>4, SeqEqual
<1>6. SetOf(s) \subseteq SetOf(Front(s)) \cup {Last(s)}
  <2>1. DOMAIN s = 1..Len(s) /\ DOMAIN Front(s) = 1..(Len(s) - 1)
    BY <1>1, LenProperties
  <2>2. QED
    BY <1>1, <1>4, <2>1 DEF SetOf, Last
<1>7. QED
  BY <1>5, <1>6 DEF t

\* The parts of the invariant go on holding.
LEMMA NextWritesFit ==
  ASSUME TypeOK, WritesFit, InOrder, [Next]_vars
  PROVE  WritesFit'
<1>0. /\ memory \in Seq(Messages) /\ pushed \in Nat
      /\ main \in [exists : BOOLEAN, lines : Seq(Lines), ended : BOOLEAN]
  BY BoundsAssumption DEF TypeOK
<1>1. CASE Push
  <2>1. pushed + 1 \in Messages
    BY <1>0, <1>1, BoundsAssumption DEF Push, Messages
  <2>2. memory' # <<>> /\ Last(memory') = pushed + 1
    <3>1. Append(memory, pushed + 1) # <<>> /\ Last(Append(memory, pushed + 1)) = pushed + 1
      <4>1. UpToNumber(memory, (pushed + 1) - 1)
        BY <1>0 DEF InOrder
      <4>2. QED
        BY <1>0, <2>1, <4>1, NewerAdded DEF InOrder
    <3>2. QED
      BY <1>1, <3>1 DEF Push
  <2>3. /\ UNCHANGED main /\ pushed' = pushed + 1 /\ op' \in {"push", "rewrite"}
        /\ pc' \in {"rotate", "open"} /\ (pc' = "open" => op' = "push" /\ main.exists)
    BY <1>1 DEF Push, fileVars
  <2>4. QED
    BY <2>2, <2>3 DEF WritesFit, Adding
<1>2. CASE Snapshot \/ Compact
  BY <1>2 DEF Snapshot, Compact, WritesFit, Adding, fileVars, boundVars
<1>3. ASSUME NEW n \in 0..MaxMessages, Rewind(n) PROVE WritesFit'
  <2>1. n \in 0..Len(memory)
    BY <1>0, <1>3, LenProperties, BoundsAssumption DEF Rewind
  <2>2. SetOf(memory') \subseteq SetOf(original')
    BY <1>0, <1>3, <2>1, BeginningInOrder DEF Rewind
  <2>3. op' = "rewind" /\ pc' = "rotate"
    BY <1>3 DEF Rewind
  <2>4. QED
    BY <2>2, <2>3 DEF WritesFit, Adding
<1>4. CASE Rotate
  BY <1>4 DEF Rotate, Go, boundVars, WritesFit, Adding
<1>5. CASE WriteSnapshot
  <2>1. CASE Written(TRUE) /\ Go("cleanup")
    <3>1. main'.exists
      BY <2>1 DEF Written, File
    <3>2. QED
      BY <1>5, <2>1, <3>1 DEF WriteSnapshot, Go, WritesFit, Adding
  <2>2. CASE Fail
    BY <2>2 DEF Fail, WritesFit, Adding
  <2>3. QED
    BY <1>5, <2>1, <2>2 DEF WriteSnapshot
<1>6. CASE Cleanup \/ AppendNewline \/ AppendFails
  <2>1. op' = "none" /\ pc' = "idle"
    BY <1>6 DEF Cleanup, AppendNewline, AppendFails, Succeed, Fail
  <2>2. QED
    BY <2>1 DEF WritesFit, Adding
<1>7. CASE OpenForAppend
  <2>1. main'.exists = main.exists /\ main'.ended
    BY <1>0, <1>7 DEF OpenForAppend, Opened
  <2>2. QED
    BY <1>7, <2>1 DEF OpenForAppend, Go, boundVars, WritesFit, Adding
<1>8. CASE AppendRecord
  <2>1. main'.exists
    <3>1. Last(memory) \in Lines
      BY <1>0, <1>8, FrontAndLast DEF AppendRecord, WritesFit, Adding, Lines
    <3>2. QED
      BY <1>8, <3>1, RecordWritten DEF AppendRecord, WritesFit
  <2>2. QED
    BY <1>8, <2>1 DEF AppendRecord, Go, boundVars, WritesFit, Adding
<1>9. CASE Crash
  <2>1. op' = "none" /\ pc' = "idle"
    BY <1>9 DEF Crash
  <2>2. QED
    BY <2>1 DEF WritesFit, Adding
<1>10. CASE UNCHANGED vars
  BY <1>10 DEF vars, fileVars, boundVars, WritesFit, Adding
<1>11. QED
  BY <1>1, <1>2, <1>3, <1>4, <1>5, <1>6, <1>7, <1>8, <1>9, <1>10 DEF Next

\* Only a newer message is appended, and no step puts an older one behind a newer one.
LEMMA NextInOrder ==
  ASSUME TypeOK, WritesFit, InOrder, StoreMoves
  PROVE  InOrder'
<1>0. /\ memory \in Seq(Messages) /\ original \in Seq(Messages) /\ Reload \in Seq(Messages)
      /\ pushed \in Nat
  BY NewestTypes, BoundsAssumption DEF TypeOK
<1>1. ASSUME NEW s \in Seq(Messages), NEW m \in Nat, NEW n \in Nat, m <= n, UpToNumber(s, m)
      PROVE  UpToNumber(s, n)
  <2>1. \A i \in 1..Len(s) : s[i] \in Nat
    BY BoundsAssumption, ElementOfSeq DEF Messages
  <2>2. QED
    BY <1>1, <2>1 DEF UpToNumber
<1>2. CASE Begins /\ Push
  <2>1. pushed + 1 \in Messages /\ (pushed + 1) - 1 = pushed
    BY <1>0, <1>2, BoundsAssumption DEF Push, Messages
  <2>2. UpToNumber(memory, (pushed + 1) - 1)
    BY <2>1 DEF InOrder
  <2>3. /\ Increasing(Append(memory, pushed + 1))
        /\ UpToNumber(Append(memory, pushed + 1), pushed + 1)
    BY <1>0, <2>1, <2>2, NewerAdded DEF InOrder
  <2>4. UpToNumber(Reload, pushed + 1)
    BY <1>0, <1>1 DEF InOrder
  <2>5. /\ memory' = Append(memory, pushed + 1) /\ pushed' = pushed + 1 /\ op' # "rewind"
        /\ Reload' = Reload
    BY <1>2 DEF Push, Begins
  <2>6. UpToNumber(Reload, pushed' - 1)
    BY <2>1, <2>5 DEF InOrder
  <2>7. QED
    BY <2>3, <2>4, <2>5, <2>6 DEF InOrder
<1>3. CASE Begins /\ Snapshot
  BY <1>3 DEF Begins, Snapshot, boundVars, InOrder
<1>4. CASE Begins /\ Compact
  <2>1. Increasing(Tail(memory)) /\ UpToNumber(Tail(memory), pushed)
    BY <1>0, <1>4, TailInOrder DEF Compact, InOrder
  <2>2. QED
    BY <1>4, <2>1 DEF Begins, Compact, InOrder
<1>5. ASSUME Begins, NEW n \in 0..MaxMessages, Rewind(n) PROVE InOrder'
  <2>1. n \in 0..Len(memory)
    BY <1>0, <1>5, LenProperties, BoundsAssumption DEF Rewind
  <2>2. Increasing(SubSeq(memory, 1, n)) /\ UpToNumber(SubSeq(memory, 1, n), pushed)
    BY <1>0, <2>1, BeginningInOrder DEF InOrder
  <2>3. QED
    BY <1>5, <2>2 DEF Begins, Rewind, InOrder
<1>6. CASE GoesOn
  BY <1>6 DEF GoesOn, InOrder
<1>7. CASE WritesAll
  BY <1>7 DEF WritesAll, InOrder
<1>8. CASE AddsOne
  <2>1. memory # <<>> /\ Last(memory) = pushed /\ pushed \in Messages
    BY <1>0, <1>8, FrontAndLast DEF AddsOne, WritesFit, Adding
  <2>2. Increasing(Append(Reload, pushed)) /\ UpToNumber(Append(Reload, pushed), pushed)
    BY <1>0, <1>8, <2>1, NewerAdded DEF AddsOne, InOrder
  <2>3. QED
    BY <1>8, <2>1, <2>2 DEF AddsOne, InOrder
<1>9. CASE EndsWell
  BY <1>9 DEF EndsWell, Succeed, InOrder
<1>10. CASE EndsBadly
  <2>1. Increasing(memory') /\ UpToNumber(memory', pushed)
    <3>1. CASE op \in {"push", "rewrite"}
      <4>1. memory # <<>> /\ memory' = Front(memory)
        BY <1>10, <3>1 DEF EndsBadly, Fail, WritesFit, Adding
      <4>2. QED
        BY <1>0, <4>1, FrontInOrder DEF InOrder
    <3>2. CASE op \notin {"push", "rewrite"}
      BY <1>10, <3>2 DEF EndsBadly, Fail, InOrder
    <3>3. QED
      BY <3>1, <3>2
  <2>2. op' = "none" /\ pc' = "idle" /\ pushed' = pushed /\ Reload' = Reload
    BY <1>10 DEF EndsBadly, Fail
  <2>3. QED
    BY <2>1, <2>2 DEF InOrder
<1>11. CASE StartsAgain
  BY <1>11 DEF StartsAgain, InOrder
<1>12. CASE StoreRests
  BY <1>12 DEF StoreRests, InOrder
<1>13. QED
  BY <1>2, <1>3, <1>4, <1>5, <1>6, <1>7, <1>8, <1>9, <1>10, <1>11, <1>12 DEF StoreMoves, Begins

\* What must be found is found.
LEMMA NextFoundAgain ==
  ASSUME TypeOK, WritesFit, InOrder, FoundAgain, StoreMoves
  PROVE  FoundAgain'
<1>0. /\ memory \in Seq(Messages) /\ original \in Seq(Messages) /\ Reload \in Seq(Messages)
      /\ pushed \in Nat
  BY NewestTypes, BoundsAssumption DEF TypeOK
<1>1. pc = "idle" => op = "none" /\ MustBeFound = memory
  BY DEF WritesFit, MustBeFound, Acknowledged
<1>2. CASE Begins /\ Push
  <2>1. pushed + 1 \in Messages /\ (pushed + 1) - 1 = pushed
    BY <1>0, <1>2, BoundsAssumption DEF Push, Messages
  <2>2. UpToNumber(memory, (pushed + 1) - 1)
    BY <2>1 DEF InOrder
  <2>3. Front(Append(memory, pushed + 1)) = memory
    BY <1>0, <2>1, <2>2, NewerAdded DEF InOrder
  <2>4. pc = "idle" /\ pc' \in {"rotate", "open"} /\ op' \in {"push", "rewrite"} /\ Front(memory') = memory
        /\ halfUndone' = halfUndone /\ Reload' = Reload
    BY <1>2, <2>3 DEF Push, Begins
  <2>5. MustBeFound' = memory
    BY <2>4 DEF MustBeFound, Acknowledged
  <2>6. QED
    BY <1>1, <2>4, <2>5 DEF FoundAgain
<1>3. CASE Begins /\ (Snapshot \/ Compact)
  <2>1. SetOf(memory') \subseteq SetOf(memory)
    BY <1>0, <1>3, TailInOrder DEF Snapshot, Compact
  <2>2. pc = "idle" /\ pc' = "rotate" /\ op' = "snapshot" /\ halfUndone' = halfUndone /\ Reload' = Reload
    BY <1>3 DEF Snapshot, Compact, Begins
  <2>3. MustBeFound' = memory'
    BY <2>2 DEF MustBeFound, Acknowledged
  <2>4. QED
    BY <1>1, <2>1, <2>2, <2>3 DEF FoundAgain
<1>4. ASSUME Begins, NEW n \in 0..MaxMessages, Rewind(n) PROVE FoundAgain'
  <2>1. /\ pc = "idle" /\ pc' = "rotate" /\ op' = "rewind" /\ halfUndone' = halfUndone /\ Reload' = Reload
        /\ original' = memory
    BY <1>4 DEF Rewind, Begins
  <2>2. MustBeFound' = memory
    BY <2>1 DEF MustBeFound
  <2>3. QED
    BY <1>1, <2>1, <2>2 DEF FoundAgain
<1>5. CASE GoesOn
  <2>1. MustBeFound' = MustBeFound
    BY <1>5 DEF GoesOn, MustBeFound, Acknowledged
  <2>2. QED
    BY <1>5, <2>1 DEF GoesOn, FoundAgain
<1>6. CASE WritesAll
  BY <1>6 DEF WritesAll, FoundAgain, MustBeFound
<1>7. CASE AddsOne
  <2>1. op = "push" /\ memory # <<>> /\ Last(memory) = pushed /\ pushed \in Messages
    BY <1>0, <1>7, FrontAndLast DEF AddsOne, WritesFit, Adding
  <2>2. SetOf(Append(Reload, pushed)) = SetOf(Reload) \cup {pushed}
    BY <1>0, <1>7, <2>1, NewerAdded DEF AddsOne, InOrder
  <2>3. SetOf(memory) \subseteq SetOf(Front(memory)) \cup {pushed}
    BY <1>0, <2>1, FrontThenLast
  <2>4. MustBeFound = Front(memory) /\ MustBeFound' = memory
    BY <1>7, <2>1 DEF AddsOne, MustBeFound, Acknowledged
  <2>5. Reload' = Append(Reload, pushed) /\ halfUndone' = halfUndone /\ pc' = "newline"
    BY <1>7, <2>1 DEF AddsOne
  <2>6. QED
    BY <2>2, <2>3, <2>4, <2>5 DEF FoundAgain
<1>8. CASE EndsWell
  <2>1. MustBeFound = memory /\ MustBeFound' = memory
    BY <1>8 DEF EndsWell, Succeed, MustBeFound, Acknowledged
  <2>2. QED
    BY <1>8, <2>1 DEF EndsWell, Succeed, FoundAgain
<1>9. CASE EndsBadly
  <2>1. op' = "none" /\ pc' = "idle" /\ Reload' = Reload /\ MustBeFound' = memory'
    BY <1>9 DEF EndsBadly, Fail, MustBeFound, Acknowledged
  <2>2. ~halfUndone' => ~halfUndone /\ ~(op = "rewind" /\ pc = "cleanup")
    BY <1>9 DEF EndsBadly, Fail
  <2>3. ASSUME ~halfUndone' PROVE SetOf(memory') \subseteq SetOf(MustBeFound)
    <3>1. CASE op \in {"push", "rewrite"}
      <4>1. memory # <<>> /\ memory' = Front(memory)
        BY <1>9, <3>1 DEF EndsBadly, Fail, WritesFit, Adding
      <4>2. SetOf(Front(memory)) \subseteq SetOf(memory)
        BY <1>0, <4>1, FrontInOrder
      <4>3. MustBeFound \in {memory, Front(memory)}
        BY <3>1 DEF MustBeFound, Acknowledged
      <4>4. QED
        BY <4>1, <4>2, <4>3
    <3>2. CASE op = "rewind"
      <4>1. pc # "newline"
        BY <3>2 DEF WritesFit
      <4>2. MustBeFound = original /\ memory' = original
        BY <1>9, <2>2, <2>3, <3>2, <4>1 DEF EndsBadly, Fail, MustBeFound
      <4>3. QED
        BY <4>2
    <3>3. CASE op \notin {"push", "rewrite", "rewind"}
      BY <1>9, <3>3 DEF EndsBadly, Fail, MustBeFound, Acknowledged
    <3>4. QED
      BY <3>1, <3>2, <3>3
  <2>4. QED
    BY <2>1, <2>2, <2>3 DEF FoundAgain
<1>10. CASE StartsAgain
  BY <1>10 DEF StartsAgain, FoundAgain, MustBeFound, Acknowledged
<1>11. CASE StoreRests
  <2>1. MustBeFound' = MustBeFound
    BY <1>11 DEF StoreRests, MustBeFound, Acknowledged
  <2>2. QED
    BY <1>11, <2>1 DEF StoreRests, FoundAgain
<1>12. QED
  BY <1>2, <1>3, <1>4, <1>5, <1>6, <1>7, <1>8, <1>9, <1>10, <1>11 DEF StoreMoves, Begins

\* And nothing else, until a write fails.
LEMMA NextNothingElse ==
  ASSUME TypeOK, WritesFit, InOrder, FoundAgain, NothingElse, StoreMoves
  PROVE  NothingElse'
<1>0. memory \in Seq(Messages) /\ pushed \in Nat /\ failures \in Nat
  BY BoundsAssumption DEF TypeOK
<1>1. CASE Begins /\ Push
  <2>1. pushed + 1 \in Messages /\ (pushed + 1) - 1 = pushed
    BY <1>0, <1>1, BoundsAssumption DEF Push, Messages
  <2>2. UpToNumber(memory, (pushed + 1) - 1)
    BY <2>1 DEF InOrder
  <2>3. Front(Append(memory, pushed + 1)) = memory
    BY <1>0, <2>1, <2>2, NewerAdded DEF InOrder
  <2>4. /\ pc = "idle" /\ pc' \in {"rotate", "open"} /\ Front(memory') = memory
        /\ failures' = failures /\ Reload' = Reload
    BY <1>1, <2>3 DEF Push, Begins
  <2>5. QED
    BY <2>4 DEF NothingElse
<1>2. CASE Begins /\ (Snapshot \/ Compact \/ \E n \in 0..MaxMessages : Rewind(n))
  <2>1. pc' = "rotate"
    BY <1>2 DEF Snapshot, Compact, Rewind
  <2>2. QED
    BY <2>1 DEF NothingElse
<1>3. CASE GoesOn
  BY <1>3 DEF GoesOn, NothingElse
<1>4. CASE WritesAll
  BY <1>4 DEF WritesAll, NothingElse
<1>5. CASE AddsOne
  <2>1. memory # <<>>
    BY <1>5 DEF AddsOne, WritesFit, Adding
  <2>2. Append(Front(memory), Last(memory)) = memory
    BY <1>0, <2>1, FrontThenLast
  <2>3. QED
    BY <1>5, <2>2 DEF AddsOne, NothingElse
<1>6. CASE EndsWell
  BY <1>6 DEF EndsWell, Succeed, NothingElse, FoundAgain
<1>7. CASE EndsBadly
  <2>1. failures' # 0
    BY <1>0, <1>7 DEF EndsBadly, Fail
  <2>2. QED
    BY <2>1 DEF NothingElse
<1>8. CASE StartsAgain
  BY <1>8 DEF StartsAgain, NothingElse
<1>9. CASE StoreRests
  BY <1>9 DEF StoreRests, NothingElse
<1>10. QED
  BY <1>1, <1>2, <1>3, <1>4, <1>5, <1>6, <1>7, <1>8, <1>9 DEF StoreMoves, Begins

\* At the start there is no file and nothing in memory.
LEMMA InitStoreInv == Init => StoreInv
<1> SUFFICES ASSUME Init PROVE StoreInv
  OBVIOUS
<1>1. /\ <<>> \in Seq(Messages) /\ <<>> \in Seq(Lines) /\ <<>> \in Seq(Seq(Lines))
      /\ Len(<<>>) = 0 /\ <<>> \in Seq(Messages)
  BY EmptySeq
<1>2. NoFile \in [exists : BOOLEAN, lines : Seq(Lines), ended : BOOLEAN]
  BY <1>1 DEF NoFile
<1>3. Reload = <<>>
  BY LoadedMessages DEF Init, Reload, Newest, NoFile
<1>4. /\ MaxRotated \in Nat /\ MaxMessages \in Nat /\ MaxEdits \in Nat /\ MaxFailures \in Nat
      /\ MaxCrashes \in Nat
  BY BoundsAssumption
<1>5. TypeOK /\ RotatedFew
  <2>1. 0 \in 0..MaxMessages /\ 0 \in 0..MaxEdits /\ 0 \in 0..MaxFailures /\ 0 \in 0..MaxCrashes
    BY <1>4
  <2>2. Len(rotated) = 0 /\ rotated \in Seq(Seq(Lines))
    BY <1>1 DEF Init
  <2>3. Len(rotated) <= MaxRotated + 1 + 0 + 0 /\ Len(rotated) <= MaxRotated + 0 + 0 + 0
    BY <1>4, <2>2
  <2>4. memory \in Seq(Messages) /\ original \in Seq(Messages)
    BY <1>1 DEF Init
  <2>5. TypeOK
    BY <1>2, <2>1, <2>2, <2>3, <2>4 DEF Init, TypeOK
  <2>6. RotatedFew
    BY <2>3 DEF Init, RotatedFew
  <2>7. QED
    BY <2>5, <2>6
<1>6. WritesFit /\ NothingElse
  BY <1>3 DEF Init, WritesFit, Adding, NothingElse
<1>7. InOrder
  BY <1>1, <1>3 DEF Init, InOrder, Increasing, UpToNumber
<1>8. FoundAgain
  BY <1>3 DEF Init, FoundAgain, MustBeFound, Acknowledged
<1>9. QED
  BY <1>5, <1>6, <1>7, <1>8 DEF StoreInv

\* The inductive invariant of a session's file: which write is next, the order of messages,
\* and what a restart must find at each write of an operation.
THEOREM StoreInvariance == Spec => []StoreInv
<1>1. StoreInv /\ [Next]_vars => StoreInv'
  <2> SUFFICES ASSUME StoreInv, [Next]_vars PROVE StoreInv'
    OBVIOUS
  <2>1. TypeOK /\ WritesFit /\ InOrder /\ FoundAgain /\ NothingElse /\ RotatedFew
    BY DEF StoreInv
  <2>2. StoreMoves
    BY <2>1, StoreStepKinds
  <2>3. WritesFit' /\ InOrder' /\ FoundAgain' /\ NothingElse'
    BY <2>1, <2>2, NextWritesFit, NextInOrder, NextFoundAgain, NextNothingElse
  <2>4. RotatedFew' /\ rotated' \in Seq(Seq(Lines))
        /\ main' \in [exists : BOOLEAN, lines : Seq(Lines), ended : BOOLEAN]
    BY <2>1, NextFileTypes
  <2>5. /\ memory' \in Seq(Messages) /\ rewrite' \in BOOLEAN /\ original' \in Seq(Messages)
        /\ op' \in {"none", "push", "rewrite", "snapshot", "rewind"}
        /\ pc' \in {"idle", "rotate", "write", "cleanup", "open", "record", "newline"}
        /\ halfUndone' \in BOOLEAN
        /\ pushed' \in 0..MaxMessages /\ edits' \in 0..MaxEdits
        /\ failures' \in 0..MaxFailures /\ crashes' \in 0..MaxCrashes
    BY <2>1, NextStoreTypes
  <2>6. Len(rotated') <= MaxRotated + 1 + failures' + crashes'
    <3>1. Len(rotated') \in Nat /\ failures' \in Nat /\ crashes' \in Nat /\ MaxRotated \in Nat
      BY <2>4, <2>5, LenProperties, BoundsAssumption
    <3>2. PICK one \in {0, 1} : Len(rotated') <= MaxRotated + failures' + crashes' + one
      BY <2>4 DEF RotatedFew
    <3> DEFINE few == Len(rotated')
    <3> HIDE DEF few
    <3>3. few \in Nat /\ few <= MaxRotated + failures' + crashes' + one
      BY <3>1, <3>2 DEF few
    <3>4. CASE one = 0
      BY <3>1, <3>3, <3>4 DEF few
    <3>5. CASE one = 1
      BY <3>1, <3>3, <3>5 DEF few
    <3>6. QED
      BY <3>4, <3>5
  <2>7. TypeOK'
    BY <2>4, <2>5, <2>6 DEF TypeOK
  <2>8. QED
    BY <2>3, <2>4, <2>7 DEF StoreInv
<1>2. QED
  BY <1>1, InitStoreInv, PTL DEF Spec

\* Memory, files and operations have their types, and there are few rotated files.
THEOREM StoreTypes == Spec => []TypeOK
<1>1. StoreInv => TypeOK
  BY DEF StoreInv
<1>2. QED
  BY <1>1, StoreInvariance, PTL

\* A restart at any write of an operation finds every message whose push returned, once and
\* in order (session.rs, push_message and save_to_path).
THEOREM NothingIsLost == Spec => []NothingAcknowledgedIsLost
<1>1. StoreInv => NothingAcknowledgedIsLost
  <2> SUFFICES ASSUME StoreInv PROVE NothingAcknowledgedIsLost
    OBVIOUS
  <2>1. Increasing(Reload)
    BY DEF StoreInv, InOrder
  <2>2. SetOf(Acknowledged) \subseteq SetOf(MustBeFound)
    <3>1. CASE op \in {"push", "rewrite"}
      <4>1. memory \in Seq(Messages) /\ memory # <<>>
        BY <3>1 DEF StoreInv, TypeOK, WritesFit, Adding
      <4>2. SetOf(Front(memory)) \subseteq SetOf(memory)
        BY <4>1, FrontInOrder
      <4>3. QED
        BY <3>1, <4>2 DEF Acknowledged, MustBeFound
    <3>2. CASE op = "rewind"
      BY <3>2 DEF StoreInv, WritesFit, Acknowledged, MustBeFound
    <3>3. CASE op \notin {"push", "rewrite", "rewind"}
      BY <3>3 DEF Acknowledged, MustBeFound
    <3>4. QED
      BY <3>1, <3>2, <3>3
  <2>3. QED
    BY <2>1, <2>2 DEF StoreInv, FoundAgain, NothingAcknowledgedIsLost
<1>2. QED
  BY <1>1, StoreInvariance, PTL

\* Until a write fails a restart finds what is in memory, once an operation is over.
THEOREM NothingElseComesBack == Spec => []NothingComesBack
<1>1. StoreInv => NothingComesBack
  BY DEF StoreInv, WritesFit, NothingElse, NothingComesBack
<1>2. QED
  BY <1>1, StoreInvariance, PTL

\* What a restart would find changes by whole steps, whatever fails in between.
THEOREM FilesChangeByWholeSteps == Spec => ChangesAreWhole
<1>1. StoreInv /\ [Next]_vars =>
        [Reload' = Reload \/ Reload' = memory \/ Reload' = Append(Reload, Last(memory))]_vars
  BY StoreStepKinds
  DEF StoreInv, StoreMoves, Begins, GoesOn, WritesAll, AddsOne, EndsWell, EndsBadly,
      StartsAgain, StoreRests
<1>2. QED
  BY <1>1, StoreInvariance, PTL DEF Spec, ChangesAreWhole

-----------------------------------------------------------------------------
(* The stored login (Accounts) *)

AcPlaces == {"", "look", "lookFile", "fetch", "again", "againFile"} \cup Storing
AcJobs == [kind : {"none", "login", "logout", "status", "use", "read"}, place : AcPlaces,
           held : 0..(MaxLogins + 1), record : Logins, stale : BOOLEAN, left : BOOLEAN]

\* A job that neither signs in nor out.
Reads(j) == j.kind \in {"status", "use", "read"}

AcCounts ==
  /\ AcTypeOK /\ {overtaken, shadowed, unremoved} \subseteq BOOLEAN
  /\ mishaps \in 0..AcMishaps

\* Which jobs are at which places; what is fetched for or stored is a login.
JobsFit ==
  \A a \in AcActors :
    /\ job[a].kind = "none" <=> job[a].place = ""
    /\ job[a].kind = "logout" => job[a].place \in {"look", "lookFile"} \cup Clearing
    /\ job[a].kind = "login" => job[a].place \in {"fetch"} \cup Storing
    /\ job[a].place \in {"again", "againFile"} => job[a].kind = "read"
    /\ Reads(job[a]) => job[a].place \notin Clearing
    /\ Reads(job[a]) /\ job[a].place \in {"fetch"} \cup Storing => job[a].held # 0
    /\ Reads(job[a]) /\ job[a].place \in Storing => job[a].record.token = job[a].held
    /\ job[a].kind = "login" => job[a].record.token # 0

\* The user signs in or out in one place at a time.
OneSigns == \A a, b \in AcActors : Signs(job[a]) /\ Signs(job[b]) => a = b

\* A login's stored profile is its own, also the one that is about to be stored.
IsWhole(login) == login.profile \in {0, login.token}
ProfilesFit ==
  /\ IsWhole(keychain) /\ IsWhole(credFile) /\ IsWhole(vault)
  /\ \A a \in AcActors : IsWhole(job[a].record)

\* Once a login or logout changed the store, whoever looked it up before is marked, and
\* whoever looks it up before the change is over.
ReadersAreMarked ==
  \A a, b \in AcActors :
    /\ Signs(job[a]) /\ job[a].place \in Storing \ {"save", "clear"}
    /\ Reads(job[b]) /\ job[b].place # "look"
    => job[b].stale

\* The login with this token is the one found, and the vault is not asked for it.
InFront(token) == keychain.token = token \/ (keychain = NoLogin /\ credFile.token = token)

\* What a job looked up is what is found, and what it has stored is in front.
SeesFound(j) ==
  /\ j.place \in {"lookFile", "againFile"} => keychain = NoLogin
  /\ j.place = "fetch" => j.held = Found.token
  /\ j.place \in {"save", "saveFile"} => j.record.token = Found.token
  /\ j.place = "dropFile" => keychain.token = j.record.token
  /\ j.place = "dropVault" => InFront(j.record.token)
LookedUpIsFound ==
  ~overtaken => \A a \in AcActors : Reads(job[a]) /\ ~job[a].stale => SeesFound(job[a])

\* What a login has stored is in front, unless an older one is left in the keychain; what
\* a logout or a rejected login has cleared is empty, or it said that something was left.
SignedInOrOut ==
  ~overtaken /\ ~unremoved => \A a \in AcActors :
    /\ job[a].kind = "login" /\ ~shadowed =>
         /\ job[a].place = "saveFile" => keychain.token \in {0, job[a].record.token}
         /\ job[a].place = "dropVault" => InFront(job[a].record.token)
    /\ job[a].kind = "login" /\ job[a].place = "dropFile" => keychain = job[a].record
    /\ ~job[a].left =>
         /\ job[a].place \in {"clearFile", "clearVault"} => keychain = NoLogin
         /\ job[a].place = "clearVault" => credFile = NoLogin

\* The login owed is found, but while another takes its place.
Replacing == {"dropFile", "dropVault"} \cup Clearing
OwedIsFound ==
  /\ AcClaimed
  /\ \A a \in AcActors : Signs(job[a]) => job[a].place \notin Replacing
  => Found.token = owed

AcInv ==
  /\ AcCounts /\ JobsFit /\ OneSigns /\ ProfilesFit /\ ReadersAreMarked
  /\ LookedUpIsFound /\ SignedInOrOut /\ OwedIsFound

\* Actor a goes on as j. The others keep their jobs, and are marked as Proceeds says.
JobMoves(a, j) ==
  /\ j \in AcJobs /\ job' \in [AcActors -> AcJobs] /\ job'[a] = j
  /\ \A b \in AcActors : b # a =>
       /\ job'[b].kind = job[b].kind /\ job'[b].place = job[b].place
       /\ job'[b].held = job[b].held /\ job'[b].record = job[b].record
       /\ job'[b].left = job[b].left
       /\ job'[b].stale <=> (job[b].stale \/ (/\ job[a].place \in Storing /\ Reads(job[b])
                                              /\ Signs(job[a]) \/ job[b].place \in {"lookFile", "againFile"}))
  /\ overtaken' = (overtaken \/ (job[a].place \in Storing /\ job[a].stale))

\* Steps that leave the store as it is: a job begins, looks on behind the keychain, found a
\* login or stops, or goes on to what it does with the answer it fetched.
JobBegins(a, j) ==
  /\ job[a].place = "" /\ j.place \in {"look", "fetch"} /\ j.record.profile = 0
  /\ Signs(j) => ~UserSigns
  /\ IF j.place = "fetch" THEN j.kind = "login" /\ j.record.token # 0
     ELSE j.kind = "logout" \/ Reads(j)
JobLooksOn(a, j) ==
  /\ job[a].place \in {"look", "again"} /\ keychain = NoLogin
  /\ j.place = (IF job[a].place = "look" THEN "lookFile" ELSE "againFile")
  /\ j.kind = job[a].kind /\ j.record = job[a].record /\ j.stale = StoreChanges
JobFinds(a, j) ==
  /\ Reads(job[a]) /\ job[a].place \in {"look", "lookFile", "again", "againFile"}
  /\ j.kind = job[a].kind
  /\ StoreChanges \/ (job[a].place \in {"lookFile", "againFile"} /\ job[a].stale) => j.stale
  /\ job[a].place \in {"look", "again"} => keychain # NoLogin
  /\ LET found == IF job[a].place \in {"look", "again"} THEN keychain ELSE BehindKeychain IN
     /\ found # NoLogin /\ j.held = found.token
     /\ \/ j.place = "fetch" /\ j.record = job[a].record
        \/ /\ j.place = "save" /\ j.record.token = found.token
           /\ j.record.profile \in {found.profile, found.token}
JobStores(a, j) ==
  /\ job[a].place = "fetch" /\ j.place = "save" /\ j.kind = job[a].kind /\ j.stale = job[a].stale
  /\ IF j.kind = "login" THEN j.record.token = job[a].record.token
     ELSE Reads(j) /\ j.record.token = job[a].held /\ j.held = job[a].held
  /\ j.record.profile \in {0, j.record.token}
JobGoesOn(a, j, from, to) ==
  /\ job[a].place \in from /\ j = [job[a] EXCEPT !.place = to]
QuietStep(a, j) ==
  /\ JobMoves(a, j) /\ job[a].place \notin Storing
  /\ UNCHANGED <<acStore, mishaps, owed, shadowed, unremoved>> /\ logins' \in 0..MaxLogins
  /\ \/ JobBegins(a, j) \/ JobLooksOn(a, j) \/ JobFinds(a, j) \/ JobStores(a, j)
     \/ job[a].kind = "read" /\ JobGoesOn(a, j, {"fetch"}, "again")
     \/ Signs(job[a]) /\ JobGoesOn(a, j, {"look", "lookFile", "fetch"}, "clear")
     \/ Reads(job[a]) /\ j = NoJob

\* Steps on the store: a login is saved to the keychain, or that refuses and it is saved to
\* the file; then the file and the vault are dropped. Or each place is cleared.
JobPlaced(a, j, place) == j = [job[a] EXCEPT !.place = place]
JobIsOver(a, j) ==
  j = NoJob \/ (job[a].kind = "use" /\ j = [job[a] EXCEPT !.kind = "status", !.place = "fetch"])
KeychainTakes(a, j) ==
  /\ job[a].place = "save" /\ JobPlaced(a, j, "dropFile")
  /\ keychain' = job[a].record /\ UNCHANGED <<credFile, vault, owed>>
  /\ shadowed' = (shadowed /\ job[a].kind # "login")
KeychainDoesNot(a, j) ==
  /\ job[a].place = "save" /\ JobPlaced(a, j, "saveFile")
  /\ UNCHANGED <<keychain, credFile, vault, owed>>
  /\ shadowed' = (shadowed \/ keychain.token \notin {0, job[a].record.token})
FileTakes(a, j) ==
  /\ job[a].place = "saveFile" /\ UNCHANGED <<keychain, vault, owed, shadowed>>
  /\ \/ JobPlaced(a, j, "dropVault") /\ credFile' = job[a].record
     \/ JobIsOver(a, j) /\ UNCHANGED credFile
FileDropped(a, j) ==
  /\ job[a].place = "dropFile" /\ JobPlaced(a, j, "dropVault")
  /\ credFile' \in {NoLogin, credFile} /\ UNCHANGED <<keychain, vault, owed, shadowed>>
VaultDropped(a, j) ==
  /\ job[a].place = "dropVault" /\ JobIsOver(a, j)
  /\ vault' \in {NoLogin, vault} /\ UNCHANGED <<keychain, credFile, shadowed>>
  /\ owed' = IF job[a].kind = "login" THEN job[a].record.token ELSE owed
\* A place is cleared, or it keeps its login, which is said or not.
JobClears(a, j, from, to) ==
  job[a].place = from /\ j \in {[job[a] EXCEPT !.place = to], [job[a] EXCEPT !.place = to, !.left = TRUE]}
KeychainCleared(a, j) ==
  /\ JobClears(a, j, "clear", "clearFile")
  /\ keychain' \in {NoLogin, keychain} /\ (keychain' = NoLogin \/ j.left \/ unremoved')
  /\ UNCHANGED <<credFile, vault, owed>> /\ shadowed' = (shadowed /\ keychain' # NoLogin)
FileCleared(a, j) ==
  /\ JobClears(a, j, "clearFile", "clearVault")
  /\ credFile' \in {NoLogin, credFile} /\ (credFile' = NoLogin \/ j.left \/ unremoved')
  /\ UNCHANGED <<keychain, vault, owed, shadowed>>
VaultCleared(a, j) ==
  /\ job[a].place = "clearVault" /\ j = NoJob
  /\ vault' \in {NoLogin, vault} /\ UNCHANGED <<keychain, credFile, shadowed>>
  /\ owed' = Found'.token \/ (owed' = 0 /\ ~job[a].left /\ (vault' = NoLogin \/ unremoved'))
StoreStep(a, j) ==
  /\ JobMoves(a, j) /\ mishaps' \in 0..AcMishaps /\ UNCHANGED <<usesKeychain, logins>>
  /\ unremoved' \in BOOLEAN /\ (unremoved => unremoved')
  /\ \/ KeychainTakes(a, j) \/ KeychainDoesNot(a, j) \/ FileTakes(a, j)
     \/ FileDropped(a, j) \/ VaultDropped(a, j)
     \/ KeychainCleared(a, j) \/ FileCleared(a, j) \/ VaultCleared(a, j)

\* A process is gone; what a login or logout of it left is owed.
DeathStep(threads) ==
  /\ job' \in [AcActors -> AcJobs] /\ mishaps' \in 0..AcMishaps
  /\ \A a \in AcActors : job'[a] = IF a \in threads THEN NoJob ELSE job[a]
  /\ UNCHANGED <<acStore, logins, shadowed, overtaken, unremoved>>
  /\ owed' = IF \E a \in AcActors : a \in threads /\ Signs(job[a]) THEN Found.token ELSE owed

AcMoves == \/ UNCHANGED acVars
           \/ \E a \in AcActors, j \in AcJobs : QuietStep(a, j)
           \/ \E a \in AcActors, j \in AcJobs : StoreStep(a, j)
           \/ \E threads \in SUBSET AcActors : DeathStep(threads)

-----------------------------------------------------------------------------
(* The steps *)

\* The move of Proceeds, field by field.
LEMMA ProceedsMoves ==
  ASSUME AcCounts, NEW a \in AcActors, NEW j \in AcJobs, Proceeds(a, j)
  PROVE  JobMoves(a, j)
<1>1. job \in [AcActors -> AcJobs]
  BY DEF AcCounts, AcTypeOK, AcJobs, AcPlaces
<1> DEFINE marks(b) == /\ job[a].place \in Storing /\ job[b].kind \in {"status", "use", "read"}
                       /\ Signs(job[a]) \/ job[b].place \in {"lookFile", "againFile"}
<1>2. /\ job' = [b \in AcActors |-> IF b = a THEN j
                   ELSE IF marks(b) THEN [job[b] EXCEPT !.stale = TRUE] ELSE job[b]]
      /\ overtaken' = (overtaken \/ (job[a].place \in Storing /\ job[a].stale))
  BY DEF Proceeds
<1>3. ASSUME NEW b \in AcActors
      PROVE  /\ [job[b] EXCEPT !.stale = TRUE] \in AcJobs
             /\ [job[b] EXCEPT !.stale = TRUE].stale = TRUE
             /\ [job[b] EXCEPT !.stale = TRUE].kind = job[b].kind
             /\ [job[b] EXCEPT !.stale = TRUE].place = job[b].place
             /\ [job[b] EXCEPT !.stale = TRUE].held = job[b].held
             /\ [job[b] EXCEPT !.stale = TRUE].record = job[b].record
             /\ [job[b] EXCEPT !.stale = TRUE].left = job[b].left
  BY <1>1 DEF AcJobs
<1>4. job' \in [AcActors -> AcJobs] /\ job'[a] = j
  BY <1>1, <1>2, <1>3
<1>5. ASSUME NEW b \in AcActors, b # a
      PROVE  /\ job'[b].kind = job[b].kind /\ job'[b].place = job[b].place
             /\ job'[b].held = job[b].held /\ job'[b].record = job[b].record
             /\ job'[b].left = job[b].left
             /\ job'[b].stale <=> (job[b].stale \/ (/\ job[a].place \in Storing /\ Reads(job[b])
                                                    /\ Signs(job[a]) \/ job[b].place \in {"lookFile", "againFile"}))
  <2>1. CASE marks(b)
    <3>1. job'[b] = [job[b] EXCEPT !.stale = TRUE]
      BY <1>2, <1>5, <2>1
    <3>2. QED
      BY <1>3, <2>1, <3>1 DEF Reads
  <2>2. CASE ~marks(b)
    <3>1. job'[b] = job[b]
      BY <1>2, <1>5, <2>2
    <3>2. QED
      BY <2>2, <3>1 DEF Reads
  <2>3. QED
    BY <2>1, <2>2
<1>6. QED
  BY <1>2, <1>4, <1>5 DEF JobMoves

\* What no job and no login are.
LEMMA NoJobIsAJob ==
  AccountsAssumption => /\ NoJob \in AcJobs /\ NoLogin \in Logins
                        /\ NoJob.kind = "none" /\ NoJob.place = "" /\ NoJob.record = NoLogin
                        /\ NoJob.stale = FALSE /\ NoJob.held = 0
                        /\ NoLogin.token = 0 /\ NoLogin.profile = 0
BY DEF AccountsAssumption, NoJob, AcJobs, AcPlaces, NoLogin, Logins

\* Numbers the types rest on.
LEMMA BoundsAreNumbers == MaxLogins \in Nat /\ AcMishaps \in Nat
BY AccountsAssumption DEF AccountsAssumption

\* A count below its bound may grow.
LEMMA OneMore ==
  ASSUME NEW n \in Nat, NEW k \in 0..n, k < n
  PROVE  k + 1 \in 0..n /\ k + 1 # k
OBVIOUS

\* No token is a token.
LEMMA TokensHaveZero == 0 \in 0..(MaxLogins + 1)
<1>1. MaxLogins + 1 \in Nat
  BY BoundsAreNumbers
<1>2. QED
  BY <1>1

\* A job that begins moves like it, as the actor had none.
LEMMA BeginMoves ==
  ASSUME AcCounts, NEW a \in AcActors, NEW j \in AcJobs, job[a] = NoJob,
         job' = [job EXCEPT ![a] = j], UNCHANGED overtaken
  PROVE  JobMoves(a, j) /\ job[a].place = ""
<1>1. job \in [AcActors -> AcJobs] /\ overtaken \in BOOLEAN
  BY DEF AcCounts, AcTypeOK, AcJobs, AcPlaces
<1>2. job' \in [AcActors -> AcJobs] /\ job'[a] = j
  BY <1>1
<1>3. \A b \in AcActors : b # a => job'[b] = job[b]
  BY <1>1
<1>4. job[a].place = "" /\ "" \notin Storing
  <2>1. job[a].place = ""
    BY NoJobIsAJob, AccountsAssumption
  <2>2. "" \notin Storing
    BY DEF Storing, Clearing
  <2>3. QED
    BY <2>1, <2>2
<1>5. \A b \in AcActors : job[b].stale \in BOOLEAN
  BY <1>1 DEF AcJobs
<1>6. QED
  BY <1>1, <1>2, <1>3, <1>4, <1>5 DEF JobMoves

\* The jobs a step may go on as.
LEMMA JobPlacing ==
  ASSUME NEW j \in AcJobs, NEW place \in AcPlaces
  PROVE  LET k == [j EXCEPT !.place = place] IN
         /\ k \in AcJobs /\ k.place = place /\ k.kind = j.kind /\ k.held = j.held
         /\ k.record = j.record /\ k.stale = j.stale /\ k.left = j.left
BY DEF AcJobs

\* Where a job is told apart by what it does to the store.
LEMMA StoringPlaces ==
  /\ Storing \subseteq AcPlaces
  /\ {"look", "lookFile", "fetch", "again", "againFile", ""} \subseteq AcPlaces
  /\ {"look", "lookFile", "fetch", "again", "againFile", ""} \cap Storing = {}
  /\ Storing = {"save", "saveFile", "dropFile", "dropVault", "clear", "clearFile", "clearVault"}
  /\ Clearing = {"clear", "clearFile", "clearVault"}
BY DEF AcPlaces, Storing, Clearing

\* The types in the form the provers use.
LEMMA AcCountsMeans ==
  AcCounts => /\ job \in [AcActors -> AcJobs] /\ mishaps \in 0..AcMishaps
              /\ keychain \in Logins /\ credFile \in Logins /\ vault \in Logins
              /\ logins \in 0..MaxLogins /\ owed \in 0..(MaxLogins + 1)
              /\ usesKeychain \in BOOLEAN /\ shadowed \in BOOLEAN /\ overtaken \in BOOLEAN
              /\ unremoved \in BOOLEAN
BY DEF AcCounts, AcTypeOK, AcJobs, AcPlaces

\* A new login's token is within the tokens' bound.
LEMMA NextToken ==
  ASSUME NEW n \in Nat, NEW k \in 0..n, k < n
  PROVE  k + 2 \in 0..(n + 1) /\ k + 2 # 0 /\ k + 1 \in 0..n
OBVIOUS

\* Jobs begin.
LEMMA BeginSteps ==
  ASSUME AcInv, NEW a \in AcActors
  PROVE  /\ BeginLogin(a) => \E j \in AcJobs : QuietStep(a, j)
         /\ BeginLogout(a) => \E j \in AcJobs : QuietStep(a, j)
         /\ \A kind \in {"status", "use", "read"} :
              StartJob(a, kind, "look") => \E j \in AcJobs : QuietStep(a, j)
<1>0. AcCounts /\ NoJob \in AcJobs /\ NoJob.record = NoLogin /\ NoLogin \in Logins
      /\ NoLogin.profile = 0 /\ NoLogin.token = 0 /\ NoJob.place = ""
  BY NoJobIsAJob, AccountsAssumption DEF AcInv
<1> USE StoringPlaces
<1>1. ASSUME BeginLogin(a) PROVE \E j \in AcJobs : QuietStep(a, j)
  <2> DEFINE record == [NoLogin EXCEPT !.token = logins + 2]
             j == [NoJob EXCEPT !.kind = "login", !.place = "fetch", !.record = record]
  <2>1. logins + 2 \in 0..(MaxLogins + 1) /\ logins + 2 # 0 /\ logins' \in 0..MaxLogins
    <3>1. MaxLogins \in Nat /\ logins \in 0..MaxLogins /\ logins < MaxLogins /\ logins' = logins + 1
      BY <1>0, <1>1, AcCountsMeans, BoundsAreNumbers DEF BeginLogin
    <3>2. QED
      BY <3>1, NextToken
  <2>2. record \in Logins /\ record.token # 0 /\ record.profile = 0
    BY <1>0, <2>1 DEF Logins
  <2>3. j \in AcJobs /\ j.kind = "login" /\ j.place = "fetch" /\ j.record = record
    BY <1>0, <2>2 DEF AcJobs
  <2>4. job[a] = NoJob /\ job' = [job EXCEPT ![a] = j] /\ ~UserSigns /\ UNCHANGED <<overtaken, acStore, mishaps, owed, shadowed, unremoved>>
    BY <1>0, <1>1 DEF BeginLogin
  <2> HIDE DEF j, record
  <2>5. JobMoves(a, j) /\ job[a].place = ""
    BY <1>0, <2>3, <2>4, BeginMoves
  <2>6. JobBegins(a, j)
    BY <2>2, <2>3, <2>4, <2>5 DEF JobBegins
  <2>7. QED
    BY <2>1, <2>3, <2>4, <2>5, <2>6 DEF QuietStep
<1>2. ASSUME NEW kind \in {"logout", "status", "use", "read"}, StartJob(a, kind, "look"),
             kind = "logout" => ~UserSigns
      PROVE  \E j \in AcJobs : QuietStep(a, j)
  <2> DEFINE j == [NoJob EXCEPT !.kind = kind, !.place = "look"]
  <2>3. j \in AcJobs /\ j.kind = kind /\ j.place = "look" /\ j.record = NoLogin
    BY <1>0 DEF AcJobs
  <2>4. job[a] = NoJob /\ job' = [job EXCEPT ![a] = j] /\ UNCHANGED <<overtaken, acStore, mishaps, owed, shadowed, logins, unremoved>>
    BY <1>2 DEF StartJob
  <2> HIDE DEF j
  <2>5. JobMoves(a, j) /\ job[a].place = ""
    BY <1>0, <2>3, <2>4, BeginMoves
  <2>6. JobBegins(a, j)
    BY <1>0, <1>2, <2>3, <2>4, <2>5 DEF JobBegins, Signs, Reads
  <2>7. logins' \in 0..MaxLogins
    BY <1>0, <2>4, AcCountsMeans
  <2>8. QED
    BY <2>3, <2>4, <2>5, <2>6, <2>7 DEF QuietStep
<1>3. QED
  BY <1>1, <1>2 DEF BeginLogout

\* A lookup steps as said: on behind the keychain, with the login it found, or to its end.
LEMMA LookSteps ==
  ASSUME AcInv, NEW a \in AcActors,
         NEW found \in Logins, IsWhole(found), NEW fromVault \in BOOLEAN,
         job[a].place \in {"look", "lookFile", "again", "againFile"},
         found = IF job[a].place \in {"look", "again"} THEN keychain ELSE BehindKeychain,
         job[a].place \in {"look", "again"} => keychain # NoLogin,
         Looked(a, found, fromVault), UNCHANGED <<acStore, logins, mishaps, owed, shadowed, unremoved>>
  PROVE  \E j \in AcJobs : QuietStep(a, j)
<1> USE StoringPlaces
<1>0. /\ AcCounts /\ NoJob \in AcJobs /\ job[a] \in AcJobs /\ job[a].place \notin Storing
      /\ logins' \in 0..MaxLogins
  BY NoJobIsAJob, AccountsAssumption, AcCountsMeans DEF AcInv
<1>1. found # NoLogin => found.token # 0 /\ found.token \in 0..(MaxLogins + 1)
  BY DEF IsWhole, Logins, NoLogin
<1>2. found.token \in 0..(MaxLogins + 1) /\ found.profile \in 0..(MaxLogins + 1)
  BY DEF Logins
<1> DEFINE since == job[a].place \in {"lookFile", "againFile"} /\ job[a].stale
           marks == since \/ StoreChanges
           seen == [job[a] EXCEPT !.held = found.token, !.stale = marks]
           saves == [seen EXCEPT !.place = "save", !.record = found]
           fetches == [seen EXCEPT !.place = "fetch"]
           record == [found EXCEPT !.profile = job[a].held]
           stores == [saves EXCEPT !.record = record]
           clears == [job[a] EXCEPT !.place = "clear"]
<1>m. marks \in BOOLEAN /\ (StoreChanges \/ since => marks)
  OBVIOUS
<1>9. \/ job[a].kind = "logout" /\ Proceeds(a, clears)
      \/ job[a].kind # "logout" /\ Proceeds(a, NoJob)
      \/ /\ job[a].kind # "logout" /\ job[a].place \in {"again", "againFile"} /\ found # NoLogin
         /\ found.token = job[a].held /\ Proceeds(a, stores)
      \/ job[a].kind = "use" /\ found # NoLogin /\ Proceeds(a, saves)
      \/ job[a].kind \in {"read", "status"} /\ found # NoLogin /\ Proceeds(a, fetches)
  <2>1. [saves EXCEPT !.record.profile = job[a].held] = stores
    <3>1. saves.record = found
      BY <1>0 DEF AcJobs
    <3>2. QED
      BY <3>1
  <2>2. CASE job[a].kind = "logout"
    <3>1. job[a].place \notin {"again", "againFile"}
      BY <2>2 DEF AcInv, JobsFit
    <3>2. QED
      BY <2>2, <3>1 DEF Looked
  <2>3. CASE job[a].kind # "logout" /\ job[a].place \in {"again", "againFile"}
    BY <2>1, <2>3 DEF Looked, SameLogin
  <2>4. CASE job[a].kind # "logout" /\ job[a].place \notin {"again", "againFile"}
    BY <2>4 DEF Looked
  <2>5. QED
    BY <2>2, <2>3, <2>4
<1> HIDE DEF marks
<1>3. /\ seen \in AcJobs /\ seen.kind = job[a].kind /\ seen.held = found.token
      /\ seen.stale = marks /\ seen.record = job[a].record
      /\ seen.place = job[a].place
  BY <1>0, <1>2, <1>m DEF AcJobs
<1> HIDE DEF seen
<1>4. /\ saves \in AcJobs /\ saves.kind = job[a].kind /\ saves.held = found.token
      /\ saves.stale = marks /\ saves.record = found /\ saves.place = "save"
  BY <1>3 DEF AcJobs
<1>5. /\ fetches \in AcJobs /\ fetches.kind = job[a].kind /\ fetches.held = found.token
      /\ fetches.stale = marks /\ fetches.place = "fetch"
      /\ fetches.record = job[a].record
  BY <1>3 DEF AcJobs
<1>6. record \in Logins /\ record.token = found.token /\ record.profile = job[a].held
  BY <1>0 DEF AcJobs, Logins
<1> HIDE DEF record, saves, fetches
<1>7. /\ stores \in AcJobs /\ stores.kind = job[a].kind /\ stores.held = found.token
      /\ stores.stale = marks /\ stores.record = record /\ stores.place = "save"
  BY <1>4, <1>6 DEF AcJobs
<1>8. clears \in AcJobs
  BY <1>0 DEF AcJobs
<1> HIDE DEF stores, clears
<1>10. job[a].kind # "logout" => Reads(job[a])
  <2>1. job[a].kind \in {"none", "login", "logout", "status", "use", "read"}
    BY <1>0 DEF AcJobs
  <2>2. job[a].kind \notin {"none", "login"}
    BY DEF AcInv, JobsFit
  <2>3. QED
    BY <2>1, <2>2 DEF Reads
<1>11. CASE job[a].kind = "logout" /\ Proceeds(a, clears)
  <2>1. JobMoves(a, clears) /\ JobGoesOn(a, clears, {"look", "lookFile", "fetch"}, "clear")
    <3>1. job[a].place \in {"look", "lookFile"}
      BY <1>11 DEF AcInv, JobsFit
    <3>2. QED
      BY <1>0, <1>8, <1>11, <3>1, ProceedsMoves DEF JobGoesOn, clears
  <2>2. QED
    BY <1>0, <1>8, <1>11, <2>1 DEF QuietStep, Signs
<1>12. CASE job[a].kind # "logout" /\ Proceeds(a, NoJob)
  BY <1>0, <1>10, <1>12, ProceedsMoves DEF QuietStep
<1>13. ASSUME NEW j \in AcJobs, Proceeds(a, j), job[a].kind # "logout", found # NoLogin,
              j.kind = job[a].kind, j.held = found.token, j.stale = marks,
              \/ j.place = "fetch" /\ j.record = job[a].record
              \/ j.place = "save" /\ j.record.token = found.token
                 /\ j.record.profile \in {found.profile, found.token}
       PROVE  QuietStep(a, j)
  <2>1. JobFinds(a, j)
    BY <1>1, <1>m, <1>10, <1>13 DEF JobFinds
  <2>2. QED
    BY <1>0, <1>13, <2>1, ProceedsMoves DEF QuietStep
<1>14. QED
  <2>1. CASE Proceeds(a, stores) /\ found # NoLogin /\ job[a].kind # "logout" /\ found.token = job[a].held
    <3>1. stores.record.token = found.token /\ stores.record.profile = found.token
      BY <1>6, <1>7, <2>1
    <3>2. QED
      BY <1>7, <1>13, <2>1, <3>1
  <2>2. CASE Proceeds(a, saves) /\ found # NoLogin /\ job[a].kind = "use"
    BY <1>4, <1>13, <2>2
  <2>3. CASE Proceeds(a, fetches) /\ found # NoLogin /\ job[a].kind \in {"read", "status"}
    BY <1>5, <1>13, <2>3
  <2>4. QED
    BY <1>0, <1>8, <1>9, <1>11, <1>12, <2>1, <2>2, <2>3

\* What a look sees.
LEMMA Lookups ==
  ASSUME AcInv, NEW a \in AcActors
  PROVE  /\ LookInKeychain(a) => \E j \in AcJobs : QuietStep(a, j)
         /\ LookBehind(a) => \E j \in AcJobs : QuietStep(a, j)
<1> USE StoringPlaces
<1>0. /\ AcCounts /\ job[a] \in AcJobs /\ keychain \in Logins /\ BehindKeychain \in Logins
      /\ IsWhole(keychain) /\ IsWhole(BehindKeychain) /\ logins \in 0..MaxLogins
  BY AcCountsMeans DEF AcInv, ProfilesFit, BehindKeychain
<1>1. ASSUME LookInKeychain(a) PROVE \E j \in AcJobs : QuietStep(a, j)
  <2>1. CASE keychain # NoLogin
    BY <1>0, <1>1, <2>1, LookSteps DEF LookInKeychain
  <2>2. CASE keychain = NoLogin
    <3> DEFINE place == IF job[a].place = "look" THEN "lookFile" ELSE "againFile"
               j == [job[a] EXCEPT !.place = place, !.stale = StoreChanges]
    <3>1. /\ j \in AcJobs /\ j.place = place /\ j.stale = StoreChanges /\ j.kind = job[a].kind
          /\ j.record = job[a].record
      BY <1>0 DEF AcJobs, StoreChanges
    <3>2. Proceeds(a, j) /\ UNCHANGED <<acStore, logins, mishaps, owed, shadowed, unremoved>>
          /\ job[a].place \in {"look", "again"}
      BY <1>1, <2>2 DEF LookInKeychain
    <3> HIDE DEF j
    <3>3. JobLooksOn(a, j)
      BY <2>2, <3>1, <3>2 DEF JobLooksOn
    <3>4. QED
      BY <1>0, <3>1, <3>2, <3>3, ProceedsMoves DEF QuietStep
  <2>3. QED
    BY <2>1, <2>2
<1>2. ASSUME LookBehind(a) PROVE \E j \in AcJobs : QuietStep(a, j)
  BY <1>0, <1>2, LookSteps DEF LookBehind
<1>3. QED
  BY <1>1, <1>2

\* An answer comes, or none.
LEMMA FetchSteps ==
  ASSUME AcInv, NEW a \in AcActors, Fetched(a) \/ NothingFetched(a) \/ NewLoginRejected(a)
  PROVE  \E j \in AcJobs : QuietStep(a, j)
<1> USE StoringPlaces
<1>0. /\ AcCounts /\ job[a] \in AcJobs /\ logins \in 0..MaxLogins /\ NoJob \in AcJobs
      /\ job[a].place = "fetch" /\ job[a].place \notin Storing
      /\ UNCHANGED <<acStore, logins, mishaps, owed, shadowed, unremoved>>
  BY AcCountsMeans, NoJobIsAJob, AccountsAssumption
  DEF AcInv, Fetched, NothingFetched, NewLoginRejected
<1>1. ASSUME NEW profile \in {0, job[a].record.token}, job[a].kind = "login",
             Proceeds(a, [job[a] EXCEPT !.place = "save", !.record.profile = profile])
      PROVE  \E j \in AcJobs : QuietStep(a, j)
  <2> DEFINE record == [job[a].record EXCEPT !.profile = profile]
             j == [job[a] EXCEPT !.place = "save", !.record = record]
  <2>1. profile \in 0..(MaxLogins + 1)
    <3>1. 0 \in 0..(MaxLogins + 1)
      BY TokensHaveZero
    <3>2. job[a].record.token \in 0..(MaxLogins + 1)
      BY <1>0 DEF AcJobs, Logins
    <3>3. QED
      BY <3>1, <3>2
  <2>2. record \in Logins /\ record.token = job[a].record.token /\ record.profile = profile
    BY <1>0, <2>1 DEF AcJobs, Logins
  <2>3. [job[a] EXCEPT !.place = "save", !.record.profile = profile] = j
    BY <1>0 DEF AcJobs
  <2> HIDE DEF record
  <2>4. /\ j \in AcJobs /\ j.place = "save" /\ j.kind = "login" /\ j.stale = job[a].stale
        /\ j.record = record
    BY <1>0, <1>1, <2>2 DEF AcJobs
  <2>5. Proceeds(a, j)
    BY <1>1, <2>3
  <2> HIDE DEF j
  <2>6. JobStores(a, j)
    BY <1>0, <1>1, <2>2, <2>4 DEF JobStores
  <2>7. QED
    BY <1>0, <2>4, <2>5, <2>6, ProceedsMoves DEF QuietStep
<1>2. ASSUME job[a].kind = "status",
             Proceeds(a, [job[a] EXCEPT !.place = "save",
                             !.record = [token |-> job[a].held, profile |-> job[a].held]])
      PROVE  \E j \in AcJobs : QuietStep(a, j)
  <2> DEFINE record == [token |-> job[a].held, profile |-> job[a].held]
             j == [job[a] EXCEPT !.place = "save", !.record = record]
  <2>2. record \in Logins /\ record.token = job[a].held /\ record.profile = job[a].held
    BY <1>0 DEF AcJobs, Logins
  <2> HIDE DEF record
  <2>4. /\ j \in AcJobs /\ j.place = "save" /\ j.kind = "status" /\ j.stale = job[a].stale
        /\ j.record = record /\ j.held = job[a].held
    BY <1>0, <1>2, <2>2 DEF AcJobs
  <2>5. Proceeds(a, j)
    BY <1>2 DEF record
  <2> HIDE DEF j
  <2>6. JobStores(a, j)
    BY <1>0, <1>2, <2>2, <2>4 DEF JobStores, Reads
  <2>7. QED
    BY <1>0, <2>4, <2>5, <2>6, ProceedsMoves DEF QuietStep
<1>3. ASSUME job[a].kind = "read", Proceeds(a, [job[a] EXCEPT !.place = "again"])
      PROVE  \E j \in AcJobs : QuietStep(a, j)
  <2>1. [job[a] EXCEPT !.place = "again"] \in AcJobs
    BY <1>0, JobPlacing
  <2>2. QED
    BY <1>0, <1>3, <2>1, ProceedsMoves DEF QuietStep, JobGoesOn
<1>4. ASSUME job[a].kind = "login", Proceeds(a, [job[a] EXCEPT !.place = "clear"])
      PROVE  \E j \in AcJobs : QuietStep(a, j)
  <2>1. [job[a] EXCEPT !.place = "clear"] \in AcJobs
    BY <1>0, JobPlacing
  <2>2. QED
    BY <1>0, <1>4, <2>1, ProceedsMoves DEF QuietStep, JobGoesOn, Signs
<1>5. ASSUME job[a].kind # "login", Proceeds(a, NoJob)
      PROVE  \E j \in AcJobs : QuietStep(a, j)
  <2>1. Reads(job[a])
    <3>1. job[a].kind \in {"none", "login", "logout", "status", "use", "read"}
      BY <1>0 DEF AcJobs
    <3>2. job[a].kind \notin {"none", "logout"}
      BY <1>0 DEF AcInv, JobsFit
    <3>3. QED
      BY <1>5, <3>1, <3>2 DEF Reads
  <2>2. QED
    BY <1>0, <1>5, <2>1, ProceedsMoves DEF QuietStep
<1>6. QED
  <2>1. CASE Fetched(a)
    BY <1>1, <1>2, <1>3, <2>1 DEF Fetched, ProceedsTo
  <2>2. CASE NothingFetched(a)
    BY <1>5, <2>2 DEF NothingFetched
  <2>3. CASE NewLoginRejected(a)
    BY <1>4, <2>3 DEF NewLoginRejected, ProceedsTo
  <2>4. QED
    BY <2>1, <2>2, <2>3

\* The store's own steps.
LEMMA StoreSteps ==
  ASSUME AcInv, NEW a \in AcActors,
         \/ SaveToKeychain(a) \/ KeychainRefuses(a) \/ SaveToFile(a) \/ DropFile(a)
         \/ DropVault(a) \/ ClearKeychain(a) \/ ClearFile(a) \/ ClearVault(a)
  PROVE  \E j \in AcJobs : StoreStep(a, j)
<1> USE StoringPlaces
<1>0. /\ AcCounts /\ job[a] \in AcJobs /\ NoJob \in AcJobs /\ mishaps \in 0..AcMishaps
      /\ AcMishaps \in Nat
  BY AcCountsMeans, NoJobIsAJob, AccountsAssumption, BoundsAreNumbers DEF AcInv
<1> DEFINE to(place) == [job[a] EXCEPT !.place = place]
           lefts(place) == [job[a] EXCEPT !.place = place, !.left = TRUE]
           goesOn == [job[a] EXCEPT !.kind = "status", !.place = "fetch"]
<1>1. /\ \A place \in AcPlaces : to(place) \in AcJobs
      /\ \A place \in AcPlaces : lefts(place) \in AcJobs /\ lefts(place).left
      /\ goesOn \in AcJobs
  BY <1>0 DEF AcJobs
<1>2. \A j \in AcJobs : Proceeds(a, j) => JobMoves(a, j)
  BY <1>0, ProceedsMoves
<1>3. /\ UNCHANGED mishaps => mishaps' \in 0..AcMishaps
      /\ Fails => mishaps' \in 0..AcMishaps /\ mishaps' # mishaps
      /\ UNCHANGED unremoved => unremoved' \in BOOLEAN /\ (unremoved => unremoved')
  BY <1>0, OneMore, AcCountsMeans DEF Fails, AcInv
<1>4. SaveIsOver(a) => \E j \in AcJobs : JobMoves(a, j) /\ JobIsOver(a, j)
  BY <1>0, <1>1, <1>2 DEF SaveIsOver, JobIsOver
<1> HIDE DEF to, lefts, goesOn
<1>5. ASSUME NEW place \in AcPlaces, ProceedsTo(a, place)
      PROVE  to(place) \in AcJobs /\ JobMoves(a, to(place)) /\ JobPlaced(a, to(place), place)
  BY <1>1, <1>2, <1>5 DEF ProceedsTo, JobPlaced, to
<1>6. ASSUME SaveToKeychain(a) PROVE \E j \in AcJobs : StoreStep(a, j)
  <2>1. JobMoves(a, to("dropFile")) /\ KeychainTakes(a, to("dropFile")) /\ to("dropFile") \in AcJobs
    BY <1>5, <1>6 DEF SaveToKeychain, KeychainTakes
  <2>2. QED
    BY <1>3, <1>6, <2>1 DEF StoreStep, SaveToKeychain
<1>7. ASSUME KeychainRefuses(a) PROVE \E j \in AcJobs : StoreStep(a, j)
  <2>1. JobMoves(a, to("saveFile")) /\ KeychainDoesNot(a, to("saveFile")) /\ to("saveFile") \in AcJobs
    BY <1>5, <1>7 DEF KeychainRefuses, KeychainDoesNot, acStore
  <2>2. mishaps' \in 0..AcMishaps
    BY <1>3, <1>7 DEF KeychainRefuses
  <2>3. QED
    BY <1>3, <1>7, <2>1, <2>2 DEF StoreStep, KeychainRefuses, acStore
<1>8. ASSUME SaveToFile(a) PROVE \E j \in AcJobs : StoreStep(a, j)
  <2>1. CASE credFile' = job[a].record /\ UNCHANGED mishaps /\ ProceedsTo(a, "dropVault")
    <3>1. JobMoves(a, to("dropVault")) /\ FileTakes(a, to("dropVault")) /\ to("dropVault") \in AcJobs
      BY <1>5, <1>8, <2>1 DEF SaveToFile, FileTakes
    <3>2. QED
      BY <1>3, <1>8, <2>1, <3>1 DEF StoreStep, SaveToFile
  <2>2. CASE Fails /\ UNCHANGED credFile /\ SaveIsOver(a)
    <3>1. PICK j \in AcJobs : JobMoves(a, j) /\ JobIsOver(a, j)
      BY <1>4, <2>2
    <3>2. FileTakes(a, j)
      BY <1>8, <2>2, <3>1 DEF SaveToFile, FileTakes
    <3>3. QED
      BY <1>3, <1>8, <2>2, <3>1, <3>2 DEF StoreStep, SaveToFile
  <2>3. QED
    BY <1>8, <2>1, <2>2 DEF SaveToFile
<1>9. ASSUME DropFile(a) PROVE \E j \in AcJobs : StoreStep(a, j)
  <2>1. JobMoves(a, to("dropVault")) /\ FileDropped(a, to("dropVault")) /\ to("dropVault") \in AcJobs
    BY <1>5, <1>9 DEF DropFile, FileDropped
  <2>2. mishaps' \in 0..AcMishaps
    BY <1>3, <1>9 DEF DropFile
  <2>3. QED
    BY <1>3, <1>9, <2>1, <2>2 DEF StoreStep, DropFile
<1>10. ASSUME DropVault(a) PROVE \E j \in AcJobs : StoreStep(a, j)
  <2>1. PICK j \in AcJobs : JobMoves(a, j) /\ JobIsOver(a, j)
    BY <1>4, <1>10 DEF DropVault
  <2>2. VaultDropped(a, j)
    BY <1>10, <2>1 DEF DropVault, VaultDropped
  <2>3. mishaps' \in 0..AcMishaps
    BY <1>3, <1>10 DEF DropVault
  <2>4. QED
    BY <1>3, <1>10, <2>1, <2>2, <2>3 DEF StoreStep, DropVault
<1>11. ASSUME NEW from, NEW next \in AcPlaces, NEW login, NEW told \in BOOLEAN,
              Cleared(a, next) \/ Kept(a, login, told, next), job[a].place = from
       PROVE  \E j \in AcJobs : /\ JobMoves(a, j) /\ JobClears(a, j, from, next)
                                /\ Cleared(a, next) \/ j.left \/ login = NoLogin \/ unremoved'
                                /\ unremoved' \in BOOLEAN /\ (unremoved => unremoved')
                                /\ mishaps' \in 0..AcMishaps
  <2>1. CASE Cleared(a, next)
    BY <1>0, <1>3, <1>5, <1>11, <2>1, AcCountsMeans DEF JobClears, Cleared, to
  <2>2. CASE Kept(a, login, told, next)
    <3>1. /\ mishaps' \in 0..AcMishaps /\ unremoved' \in BOOLEAN /\ (unremoved => unremoved')
          /\ login = NoLogin \/ told \/ unremoved'
      BY <1>0, <1>3, <2>2, AcCountsMeans DEF Kept
    <3>2. CASE told
      <4>1. Proceeds(a, lefts(next))
        <5>1. [job[a] EXCEPT !.place = next, !.left = @ \/ told] = lefts(next)
          BY <1>0, <3>2 DEF lefts, AcJobs
        <5>2. QED
          BY <2>2, <5>1 DEF Kept
      <4>2. QED
        BY <1>1, <1>2, <1>11, <3>1, <4>1 DEF JobClears, lefts
    <3>3. CASE ~told
      <4>1. Proceeds(a, to(next))
        <5>1. [job[a] EXCEPT !.place = next, !.left = @ \/ told] = to(next)
          BY <1>0, <3>3 DEF to, AcJobs
        <5>2. QED
          BY <2>2, <5>1 DEF Kept
      <4>2. QED
        BY <1>1, <1>2, <1>11, <3>1, <3>3, <4>1 DEF JobClears, to
    <3>4. QED
      BY <3>2, <3>3
  <2>3. QED
    BY <1>11, <2>1, <2>2
<1>12. ASSUME ClearKeychain(a) PROVE \E j \in AcJobs : StoreStep(a, j)
  <2>1. PICK told \in BOOLEAN :
          \/ Cleared(a, "clearFile") /\ keychain' = NoLogin
          \/ Kept(a, keychain, told, "clearFile") /\ keychain' = keychain
    <3>1. Warned(a) \in BOOLEAN
      BY DEF Warned
    <3>2. CASE keychain' = NoLogin /\ Cleared(a, "clearFile")
      BY <3>2
    <3>3. CASE \E told \in {FALSE, Warned(a)} : /\ Kept(a, keychain, told, "clearFile")
                                                /\ keychain' = keychain
      <4>1. PICK said \in {FALSE, Warned(a)} :
              Kept(a, keychain, said, "clearFile") /\ keychain' = keychain
        BY <3>3
      <4>2. said \in BOOLEAN
        BY <3>1
      <4>3. QED
        BY <4>1, <4>2, Zenon
    <3>4. QED
      BY <1>12, <3>2, <3>3 DEF ClearKeychain
  <2>2. PICK j \in AcJobs : /\ JobMoves(a, j) /\ JobClears(a, j, "clear", "clearFile")
                            /\ Cleared(a, "clearFile") \/ j.left \/ keychain = NoLogin \/ unremoved'
                            /\ unremoved' \in BOOLEAN /\ (unremoved => unremoved')
                            /\ mishaps' \in 0..AcMishaps
    BY <1>11, <1>12, <2>1 DEF ClearKeychain
  <2>3. keychain' \in {NoLogin, keychain} /\ (keychain' = NoLogin \/ j.left \/ unremoved')
    <3>1. CASE Cleared(a, "clearFile") /\ keychain' = NoLogin
      BY <3>1
    <3>2. CASE Kept(a, keychain, told, "clearFile") /\ keychain' = keychain
      <4>1. Cleared(a, "clearFile") => FALSE
        BY <1>3, <3>2 DEF Kept, Cleared
      <4>2. QED
        BY <2>2, <3>2, <4>1
    <3>3. QED
      BY <2>1, <3>1, <3>2
  <2>4. KeychainCleared(a, j)
    BY <1>12, <2>2, <2>3 DEF ClearKeychain, KeychainCleared
  <2>5. QED
    BY <1>12, <2>2, <2>4 DEF StoreStep, ClearKeychain
<1>13. ASSUME ClearFile(a) PROVE \E j \in AcJobs : StoreStep(a, j)
  <2>1. Warned(a) \in BOOLEAN
    BY DEF Warned
  <2>2. PICK j \in AcJobs : /\ JobMoves(a, j) /\ JobClears(a, j, "clearFile", "clearVault")
                            /\ Cleared(a, "clearVault") \/ j.left \/ credFile = NoLogin \/ unremoved'
                            /\ unremoved' \in BOOLEAN /\ (unremoved => unremoved')
                            /\ mishaps' \in 0..AcMishaps
    BY <1>11, <1>13, <2>1 DEF ClearFile
  <2>3. credFile' \in {NoLogin, credFile} /\ (credFile' = NoLogin \/ j.left \/ unremoved')
    <3>1. CASE Cleared(a, "clearVault") /\ credFile' = NoLogin
      BY <3>1
    <3>2. CASE Kept(a, credFile, Warned(a), "clearVault") /\ credFile' = credFile
      <4>1. Cleared(a, "clearVault") => FALSE
        BY <1>3, <3>2 DEF Kept, Cleared
      <4>2. QED
        BY <2>2, <3>2, <4>1
    <3>3. QED
      BY <1>13, <3>1, <3>2 DEF ClearFile
  <2>4. FileCleared(a, j)
    BY <1>13, <2>2, <2>3 DEF ClearFile, FileCleared
  <2>5. QED
    BY <1>13, <2>2, <2>4 DEF StoreStep, ClearFile
<1>14. ASSUME ClearVault(a) PROVE \E j \in AcJobs : StoreStep(a, j)
  <2>1. JobMoves(a, NoJob) /\ mishaps' \in 0..AcMishaps
    BY <1>0, <1>2, <1>3, <1>14 DEF ClearVault
  <2>2. VaultCleared(a, NoJob) /\ unremoved' \in BOOLEAN /\ (unremoved => unremoved')
    <3>1. CASE vault' = NoLogin /\ UNCHANGED <<mishaps, unremoved>>
               /\ owed' = IF job[a].left THEN Found'.token ELSE 0
      BY <1>0, <1>14, <3>1, AcCountsMeans DEF ClearVault, VaultCleared
    <3>2. CASE /\ Fails /\ UNCHANGED vault
               /\ unremoved' = (unremoved \/ (vault # NoLogin /\ ~Warned(a)))
               /\ owed' = IF job[a].left \/ Warned(a) THEN Found'.token ELSE 0
      BY <1>0, <1>14, <3>2, AcCountsMeans DEF ClearVault, VaultCleared
    <3>3. QED
      BY <1>14, <3>1, <3>2 DEF ClearVault
  <2>3. QED
    BY <1>0, <1>14, <2>1, <2>2 DEF StoreStep, ClearVault
<1>15. QED
  BY <1>6, <1>7, <1>8, <1>9, <1>10, <1>12, <1>13, <1>14

\* A process dies.
LEMMA Deaths ==
  ASSUME AcInv, NEW threads \in SUBSET AcActors, ProcessDies(threads)
  PROVE  DeathStep(threads)
<1>0. /\ job \in [AcActors -> AcJobs] /\ NoJob \in AcJobs /\ mishaps \in 0..AcMishaps
      /\ AcMishaps \in Nat
  BY AcCountsMeans, NoJobIsAJob, AccountsAssumption, BoundsAreNumbers DEF AcInv
<1>1. mishaps' \in 0..AcMishaps
  BY <1>0 DEF ProcessDies, Fails
<1>2. job' \in [AcActors -> AcJobs] /\ \A a \in AcActors : job'[a] = IF a \in threads THEN NoJob ELSE job[a]
  BY <1>0 DEF ProcessDies
<1>3. (\E a \in threads : Signs(job[a])) <=> \E a \in AcActors : a \in threads /\ Signs(job[a])
  OBVIOUS
<1>4. QED
  BY <1>1, <1>2, <1>3 DEF DeathStep, ProcessDies

\* So every step is one of these.
LEMMA AcMovesKnown == AcInv /\ [AcNext]_acVars => AcMoves
<1> SUFFICES ASSUME AcInv, [AcNext]_acVars PROVE AcMoves
  OBVIOUS
<1>1. {"engine"} \cup Readers \in SUBSET AcActors /\ {"command"} \in SUBSET AcActors
      /\ "command" \in AcActors /\ Readers \subseteq AcActors
  BY DEF AcActors
<1>2. ASSUME NEW a \in AcActors, AcStep(a) PROVE AcMoves
  BY <1>2, BeginSteps, Lookups, FetchSteps, StoreSteps DEF AcStep, AcMoves
<1>3. ASSUME BeginStatus \/ BeginUse PROVE AcMoves
  BY <1>1, <1>3, BeginSteps DEF BeginStatus, BeginUse, AcMoves
<1>4. ASSUME NEW r \in Readers, BeginRead(r) PROVE AcMoves
  BY <1>1, <1>4, BeginSteps DEF BeginRead, AcMoves
<1>5. ASSUME ProcessDies({"engine"} \cup Readers) \/ ProcessDies({"command"}) PROVE AcMoves
  BY <1>1, <1>5, Deaths DEF AcMoves
<1>6. QED
  BY <1>2, <1>3, <1>4, <1>5 DEF AcNext, AcMoves

-----------------------------------------------------------------------------
(* What the steps keep *)

\* Every step keeps the types.
LEMMA NextAcCounts == AcInv /\ AcMoves => AcCounts'
<1> SUFFICES ASSUME AcInv, AcMoves PROVE AcCounts'
  OBVIOUS
<1>0. /\ job \in [AcActors -> AcJobs] /\ mishaps \in 0..AcMishaps
      /\ keychain \in Logins /\ credFile \in Logins /\ vault \in Logins
      /\ logins \in 0..MaxLogins /\ owed \in 0..(MaxLogins + 1)
      /\ usesKeychain \in BOOLEAN /\ shadowed \in BOOLEAN /\ overtaken \in BOOLEAN
      /\ unremoved \in BOOLEAN
  BY AcCountsMeans DEF AcInv
<1>1. NoLogin \in Logins /\ 0 \in 0..(MaxLogins + 1)
  BY NoJobIsAJob, AccountsAssumption, TokensHaveZero
<1>2. \A a \in AcActors : job[a].record \in Logins /\ job[a].record.token \in 0..(MaxLogins + 1)
                          /\ job[a].stale \in BOOLEAN
  BY <1>0 DEF AcJobs, Logins
<1>3. \A login \in Logins : login.token \in 0..(MaxLogins + 1)
  BY DEF Logins
<1>4. Found \in Logins
  BY <1>0 DEF Found, BehindKeychain
<1>5. SUFFICES /\ job' \in [AcActors -> AcJobs] /\ mishaps' \in 0..AcMishaps
               /\ keychain' \in Logins /\ credFile' \in Logins /\ vault' \in Logins
               /\ logins' \in 0..MaxLogins /\ owed' \in 0..(MaxLogins + 1)
               /\ usesKeychain' \in BOOLEAN /\ shadowed' \in BOOLEAN /\ overtaken' \in BOOLEAN
               /\ unremoved' \in BOOLEAN
  BY DEF AcCounts, AcTypeOK, AcJobs, AcPlaces
<1>6. CASE UNCHANGED acVars
  BY <1>0, <1>6 DEF acVars, acStore
<1>7. ASSUME NEW a \in AcActors, NEW j \in AcJobs, QuietStep(a, j)
      PROVE  <1>5!1
  BY <1>0, <1>2, <1>7 DEF QuietStep, JobMoves, acStore
<1>8. ASSUME NEW a \in AcActors, NEW j \in AcJobs, StoreStep(a, j)
      PROVE  <1>5!1
  <2>1. keychain' \in Logins /\ credFile' \in Logins /\ vault' \in Logins
    BY <1>0, <1>1, <1>2, <1>8
    DEF StoreStep, KeychainTakes, KeychainDoesNot, FileTakes, FileDropped, VaultDropped,
        KeychainCleared, FileCleared, VaultCleared
  <2>2. owed' \in 0..(MaxLogins + 1)
    <3>1. Found' \in Logins
      BY <2>1 DEF Found, BehindKeychain
    <3>2. QED
      BY <1>0, <1>1, <1>2, <1>3, <1>8, <3>1
      DEF StoreStep, KeychainTakes, KeychainDoesNot, FileTakes, FileDropped, VaultDropped,
          KeychainCleared, FileCleared, VaultCleared
  <2>3. shadowed' \in BOOLEAN
    BY <1>0, <1>8
    DEF StoreStep, KeychainTakes, KeychainDoesNot, FileTakes, FileDropped, VaultDropped,
        KeychainCleared, FileCleared, VaultCleared
  <2>4. /\ job' \in [AcActors -> AcJobs] /\ overtaken' \in BOOLEAN
        /\ mishaps' \in 0..AcMishaps /\ logins' = logins /\ usesKeychain' = usesKeychain
        /\ unremoved' \in BOOLEAN
    BY <1>0, <1>2, <1>8 DEF StoreStep, JobMoves
  <2>5. QED
    BY <1>0, <2>1, <2>2, <2>3, <2>4
<1>9. ASSUME NEW threads \in SUBSET AcActors, DeathStep(threads)
      PROVE  <1>5!1
  BY <1>0, <1>3, <1>4, <1>9 DEF DeathStep, acStore
<1>10. QED
  BY <1>6, <1>7, <1>8, <1>9 DEF AcMoves

\* What the parts below use of a step on the store.
LEMMA StoreStepJobs ==
  ASSUME AcInv, NEW a \in AcActors, NEW j \in AcJobs, StoreStep(a, j)
  PROVE  /\ job[a].place \in Storing
         /\ \/ j = NoJob
            \/ /\ Reads(job[a]) /\ Reads(j) /\ j.place = "fetch"
               /\ j.held = job[a].held /\ j.stale = job[a].stale /\ j.record = job[a].record
            \/ /\ j.kind = job[a].kind /\ j.place \in Storing /\ j.record = job[a].record
               /\ j.held = job[a].held /\ j.stale = job[a].stale
               /\ job[a].place \in Clearing <=> j.place \in Clearing
<1> USE StoringPlaces
<1>1. job[a] \in AcJobs
  BY AcCountsMeans DEF AcInv
<1>5. CASE KeychainTakes(a, j)
  BY <1>1, <1>5 DEF KeychainTakes, JobPlaced, AcJobs
<1>6. CASE KeychainDoesNot(a, j)
  BY <1>1, <1>6 DEF KeychainDoesNot, JobPlaced, AcJobs
<1>7. CASE FileTakes(a, j)
  BY <1>1, <1>7 DEF FileTakes, JobPlaced, JobIsOver, Reads, AcJobs
<1>8. CASE FileDropped(a, j)
  BY <1>1, <1>8 DEF FileDropped, JobPlaced, AcJobs
<1>9. CASE VaultDropped(a, j)
  BY <1>1, <1>9 DEF VaultDropped, JobIsOver, Reads, AcJobs
<1>10. CASE KeychainCleared(a, j)
  BY <1>1, <1>10 DEF KeychainCleared, JobClears, AcJobs
<1>11. CASE FileCleared(a, j)
  BY <1>1, <1>11 DEF FileCleared, JobClears, AcJobs
<1>12. CASE VaultCleared(a, j)
  BY <1>12 DEF VaultCleared
<1>13. QED
  BY <1>5, <1>6, <1>7, <1>8, <1>9, <1>10, <1>11, <1>12 DEF StoreStep

\* Jobs stay at their places.
LEMMA NextJobsFit == AcInv /\ AcMoves => JobsFit'
<1> SUFFICES ASSUME AcInv, AcMoves PROVE JobsFit'
  OBVIOUS
<1> USE StoringPlaces
<1> DEFINE Fits(j) ==
      /\ j.kind = "none" <=> j.place = ""
      /\ j.kind = "logout" => j.place \in {"look", "lookFile"} \cup Clearing
      /\ j.kind = "login" => j.place \in {"fetch"} \cup Storing
      /\ j.place \in {"again", "againFile"} => j.kind = "read"
      /\ Reads(j) => j.place \notin Clearing
      /\ Reads(j) /\ j.place \in {"fetch"} \cup Storing => j.held # 0
      /\ Reads(j) /\ j.place \in Storing => j.record.token = j.held
      /\ j.kind = "login" => j.record.token # 0
<1>0. (\A a \in AcActors : Fits(job[a])) /\ \A a \in AcActors : job[a] \in AcJobs
  BY AcCountsMeans DEF AcInv, JobsFit
<1>1. Fits(NoJob)
  BY NoJobIsAJob, AccountsAssumption DEF Reads
<1>2. SUFFICES \A a \in AcActors : Fits(job'[a])
  BY DEF JobsFit, Reads
<1>3. CASE UNCHANGED acVars
  BY <1>0, <1>3 DEF acVars
<1>4. ASSUME NEW a \in AcActors, NEW j \in AcJobs, JobMoves(a, j), Fits(j)
      PROVE  <1>2!1
  <2>1. ASSUME NEW b \in AcActors, b # a PROVE Fits(job'[b])
    <3>1. /\ job'[b].kind = job[b].kind /\ job'[b].place = job[b].place
          /\ job'[b].held = job[b].held /\ job'[b].record = job[b].record
      BY <1>4, <2>1 DEF JobMoves
    <3>2. Fits(job[b])
      BY <1>0
    <3>3. QED
      BY <3>1, <3>2 DEF Reads
  <2>2. job'[a] = j
    BY <1>4 DEF JobMoves
  <2>3. QED
    BY <1>4, <2>1, <2>2
<1>5. ASSUME NEW a \in AcActors, NEW j \in AcJobs, QuietStep(a, j)
      PROVE  Fits(j)
  <2>1. CASE JobBegins(a, j)
    BY <2>1 DEF JobBegins, Reads
  <2>2. CASE JobLooksOn(a, j)
    BY <1>0, <2>2 DEF JobLooksOn, Reads
  <2>3. CASE JobFinds(a, j)
    <3>1. ASSUME NEW login \in {keychain, credFile, vault}, login # NoLogin PROVE login.token # 0
      <4>1. login \in Logins /\ IsWhole(login)
        BY AcCountsMeans DEF AcInv, ProfilesFit
      <4>2. QED
        BY <3>1, <4>1 DEF Logins, IsWhole, NoLogin
    <3>2. QED
      BY <1>0, <2>3, <3>1 DEF JobFinds, Reads, BehindKeychain
  <2>4. CASE JobStores(a, j)
    BY <1>0, <2>4 DEF JobStores, Reads
  <2>5. CASE job[a].kind = "read" /\ JobGoesOn(a, j, {"fetch"}, "again")
    BY <1>0, <2>5 DEF JobGoesOn, Reads, AcJobs
  <2>6. CASE Signs(job[a]) /\ JobGoesOn(a, j, {"look", "lookFile", "fetch"}, "clear")
    <3>1. j.place = "clear" /\ j.kind = job[a].kind /\ j.record = job[a].record
      BY <1>0, <2>6 DEF JobGoesOn, AcJobs
    <3>2. QED
      BY <1>0, <2>6, <3>1 DEF Signs, Reads
  <2>7. CASE j = NoJob
    BY <1>1, <2>7
  <2>8. QED
    BY <1>5, <2>1, <2>2, <2>3, <2>4, <2>5, <2>6, <2>7 DEF QuietStep
<1>6. ASSUME NEW a \in AcActors, NEW j \in AcJobs, StoreStep(a, j)
      PROVE  Fits(j)
  <2>0. /\ job[a].place \in Storing
        /\ \/ j = NoJob
           \/ Reads(job[a]) /\ Reads(j) /\ j.place = "fetch" /\ j.held = job[a].held
           \/ /\ j.kind = job[a].kind /\ j.place \in Storing /\ j.record = job[a].record /\ j.held = job[a].held
              /\ job[a].place \in Clearing <=> j.place \in Clearing
    BY <1>6, StoreStepJobs
  <2>1. CASE j = NoJob
    BY <1>1, <2>1
  <2>2. CASE Reads(job[a]) /\ Reads(j) /\ j.place = "fetch" /\ j.held = job[a].held
    <3>1. Fits(job[a])
      BY <1>0
    <3>2. j.held # 0
      BY <2>0, <2>2, <3>1
    <3>3. QED
      BY <2>2, <3>2 DEF Reads
  <2>3. CASE /\ j.kind = job[a].kind /\ j.place \in Storing /\ j.record = job[a].record /\ j.held = job[a].held
             /\ job[a].place \in Clearing <=> j.place \in Clearing
             /\ job[a].place \in Storing
    <3>1. j.place # "" /\ j.place \notin {"look", "lookFile", "fetch", "again", "againFile"}
      BY <2>3
    <3>2. Fits(job[a]) /\ job[a].place # "" /\ job[a].place \notin {"look", "lookFile", "fetch", "again", "againFile"}
      BY <1>0, <2>3
    <3>3. job[a].kind = "logout" => job[a].place \in Clearing
      BY <3>2
    <3>4. QED
      BY <2>3, <3>1, <3>2, <3>3 DEF Reads
  <2>4. QED
    BY <2>0, <2>1, <2>2, <2>3
<1> HIDE DEF Fits
<1>7. ASSUME NEW threads \in SUBSET AcActors, DeathStep(threads)
      PROVE  <1>2!1
  BY <1>0, <1>1, <1>7 DEF DeathStep
<1>8. QED
  BY <1>3, <1>4, <1>5, <1>6, <1>7 DEF AcMoves, QuietStep, StoreStep

\* One signs in or out at a time.
LEMMA NextOneSigns == AcInv /\ AcMoves => OneSigns'
<1> SUFFICES ASSUME AcInv, AcMoves PROVE OneSigns'
  OBVIOUS
<1>0. OneSigns
  BY DEF AcInv
<1>1. ~Signs(NoJob)
  BY NoJobIsAJob, AccountsAssumption DEF Signs
<1>2. SUFFICES \A a, b \in AcActors : Signs(job'[a]) /\ Signs(job'[b]) => a = b
  BY DEF OneSigns, Signs
<1>3. CASE UNCHANGED acVars
  BY <1>0, <1>3 DEF acVars, OneSigns
<1>4. ASSUME NEW a \in AcActors, NEW j \in AcJobs, JobMoves(a, j),
             Signs(j) => Signs(job[a]) \/ ~UserSigns
      PROVE  <1>2!1
  <2>1. \A b \in AcActors : b # a /\ Signs(job'[b]) => Signs(job[b])
    BY <1>4 DEF JobMoves, Signs
  <2>2. job'[a] = j
    BY <1>4 DEF JobMoves
  <2>3. QED
    BY <1>0, <1>4, <2>1, <2>2 DEF OneSigns, UserSigns
<1>5. ASSUME NEW a \in AcActors, NEW j \in AcJobs, QuietStep(a, j)
      PROVE  Signs(j) => Signs(job[a]) \/ ~UserSigns
  <2>0. job[a] \in AcJobs
    BY AcCountsMeans DEF AcInv
  <2>1. CASE JobBegins(a, j)
    BY <2>1 DEF JobBegins
  <2>2. CASE JobLooksOn(a, j) \/ JobFinds(a, j) \/ JobStores(a, j)
    BY <2>2 DEF JobLooksOn, JobFinds, JobStores, Signs
  <2>3. CASE job[a].kind = "read" /\ JobGoesOn(a, j, {"fetch"}, "again")
    BY <2>0, <2>3 DEF JobGoesOn, AcJobs, Signs
  <2>4. CASE Signs(job[a]) \/ j = NoJob
    BY <1>1, <2>4
  <2>5. QED
    BY <1>5, <2>1, <2>2, <2>3, <2>4 DEF QuietStep
<1>6. ASSUME NEW a \in AcActors, NEW j \in AcJobs, StoreStep(a, j)
      PROVE  Signs(j) => Signs(job[a])
  BY <1>1, <1>6, StoreStepJobs DEF Signs, Reads
<1>7. ASSUME NEW threads \in SUBSET AcActors, DeathStep(threads)
      PROVE  <1>2!1
  BY <1>0, <1>1, <1>7 DEF DeathStep, OneSigns
<1>8. QED
  BY <1>3, <1>4, <1>5, <1>6, <1>7 DEF AcMoves, QuietStep, StoreStep

\* Profiles stay with their logins.
LEMMA NextProfilesFit == AcInv /\ AcMoves => ProfilesFit'
<1> SUFFICES ASSUME AcInv, AcMoves PROVE ProfilesFit'
  OBVIOUS
<1>0. /\ IsWhole(keychain) /\ IsWhole(credFile) /\ IsWhole(vault)
      /\ \A a \in AcActors : IsWhole(job[a].record)
      /\ \A a \in AcActors : job[a] \in AcJobs
  BY AcCountsMeans DEF AcInv, ProfilesFit
<1>1. IsWhole(NoLogin) /\ IsWhole(NoJob.record)
  BY NoJobIsAJob, AccountsAssumption DEF IsWhole
<1>2. SUFFICES /\ IsWhole(keychain') /\ IsWhole(credFile') /\ IsWhole(vault')
               /\ \A a \in AcActors : IsWhole(job'[a].record)
  BY DEF ProfilesFit, IsWhole
<1>3. CASE UNCHANGED acVars
  BY <1>0, <1>3 DEF acVars, acStore
<1>4. ASSUME NEW a \in AcActors, NEW j \in AcJobs, JobMoves(a, j), IsWhole(j.record)
      PROVE  \A b \in AcActors : IsWhole(job'[b].record)
  BY <1>0, <1>4 DEF JobMoves
<1>5. ASSUME NEW a \in AcActors, NEW j \in AcJobs, QuietStep(a, j)
      PROVE  IsWhole(j.record)
  <2>1. CASE JobBegins(a, j) \/ JobStores(a, j)
    BY <2>1 DEF JobBegins, JobStores, IsWhole
  <2>2. CASE JobLooksOn(a, j)
    BY <1>0, <2>2 DEF JobLooksOn
  <2>3. CASE JobFinds(a, j)
    BY <1>0, <2>3 DEF JobFinds, BehindKeychain, IsWhole
  <2>4. CASE JobGoesOn(a, j, {"fetch"}, "again") \/ JobGoesOn(a, j, {"look", "lookFile", "fetch"}, "clear")
    BY <1>0, <2>4 DEF JobGoesOn, AcJobs
  <2>5. QED
    BY <1>1, <1>5, <2>1, <2>2, <2>3, <2>4 DEF QuietStep
<1>6. ASSUME NEW a \in AcActors, NEW j \in AcJobs, StoreStep(a, j)
      PROVE  /\ IsWhole(j.record)
             /\ IsWhole(keychain') /\ IsWhole(credFile') /\ IsWhole(vault')
  <2>1. IsWhole(j.record)
    BY <1>0, <1>1, <1>6, StoreStepJobs
  <2>2. /\ keychain' \in {keychain, NoLogin, job[a].record}
        /\ credFile' \in {credFile, NoLogin, job[a].record}
        /\ vault' \in {vault, NoLogin}
    BY <1>6 DEF StoreStep, KeychainTakes, KeychainDoesNot, FileTakes, FileDropped, VaultDropped,
        KeychainCleared, FileCleared, VaultCleared
  <2>3. QED
    BY <1>0, <1>1, <2>1, <2>2
<1>7. ASSUME NEW threads \in SUBSET AcActors, DeathStep(threads)
      PROVE  <1>2!1
  BY <1>0, <1>1, <1>7 DEF DeathStep, acStore
<1>8. CASE \E a \in AcActors, j \in AcJobs : QuietStep(a, j)
  <2>1. PICK a \in AcActors, j \in AcJobs : QuietStep(a, j)
    BY <1>8
  <2>2. /\ IsWhole(keychain') /\ IsWhole(credFile') /\ IsWhole(vault')
    BY <1>0, <2>1 DEF QuietStep, acStore
  <2>3. QED
    BY <1>4, <1>5, <2>1, <2>2 DEF QuietStep
<1>9. QED
  BY <1>3, <1>4, <1>6, <1>7, <1>8 DEF AcMoves, StoreStep

\* Marks stay where they are needed.
LEMMA NextReadersAreMarked == AcInv /\ AcMoves => ReadersAreMarked'
<1> SUFFICES ASSUME AcInv, AcMoves PROVE ReadersAreMarked'
  OBVIOUS
<1> USE StoringPlaces
<1> DEFINE Changing(j) == Signs(j) /\ j.place \in Storing \ {"save", "clear"}
           Marked(j) == Reads(j) /\ j.place # "look" => j.stale
<1>0. /\ \A a, b \in AcActors : Changing(job[a]) => Marked(job[b])
      /\ \A a \in AcActors : job[a] \in AcJobs
      /\ OneSigns
  BY AcCountsMeans DEF AcInv, ReadersAreMarked
<1>1. ~Changing(NoJob) /\ Marked(NoJob)
  BY NoJobIsAJob, AccountsAssumption DEF Signs, Reads
<1>2. SUFFICES \A a, b \in AcActors : Changing(job'[a]) => Marked(job'[b])
  BY DEF ReadersAreMarked, Signs, Reads
<1>3. CASE UNCHANGED acVars
  BY <1>0, <1>3 DEF acVars
<1>4. ASSUME NEW a \in AcActors, NEW j \in AcJobs, QuietStep(a, j)
      PROVE  <1>2!1
  <2>1. \A b \in AcActors : b # a => (Changing(job'[b]) => Changing(job[b])) /\ (Marked(job[b]) => Marked(job'[b]))
    BY <1>4 DEF QuietStep, JobMoves, Signs, Reads
  <2>2. job'[a] = j
    BY <1>4 DEF QuietStep, JobMoves
  <2>3. ~Changing(j)
    <3>1. CASE JobBegins(a, j)
      BY <3>1 DEF JobBegins
    <3>2. CASE JobLooksOn(a, j) \/ JobFinds(a, j) \/ JobStores(a, j)
      BY <3>2 DEF JobLooksOn, JobFinds, JobStores
    <3>3. CASE JobGoesOn(a, j, {"fetch"}, "again") \/ JobGoesOn(a, j, {"look", "lookFile", "fetch"}, "clear")
      BY <1>0, <3>3 DEF JobGoesOn, AcJobs
    <3>4. QED
      BY <1>1, <1>4, <3>1, <3>2, <3>3 DEF QuietStep
  <2>4. ASSUME NEW b \in AcActors, Changing(job[b]), b # a PROVE Marked(j)
    <3>1. StoreChanges
      BY <2>4 DEF StoreChanges
    <3>2. Marked(job[a])
      BY <1>0, <2>4
    <3>3. CASE JobBegins(a, j)
      <4>1. UserSigns
        BY <2>4 DEF UserSigns
      <4>2. QED
        BY <3>3, <4>1 DEF JobBegins, Signs, Reads
    <3>4. CASE JobLooksOn(a, j)
      BY <3>1, <3>4 DEF JobLooksOn
    <3>5. CASE JobFinds(a, j)
      BY <3>1, <3>5 DEF JobFinds
    <3>6. CASE JobStores(a, j)
      BY <3>2, <3>6 DEF JobStores, Reads
    <3>7. CASE job[a].kind = "read" /\ JobGoesOn(a, j, {"fetch"}, "again")
      BY <1>0, <3>2, <3>7 DEF JobGoesOn, AcJobs, Reads
    <3>8. CASE Signs(job[a])
      BY <1>0, <2>4, <3>8 DEF OneSigns
    <3>9. QED
      BY <1>1, <1>4, <3>3, <3>4, <3>5, <3>6, <3>7, <3>8 DEF QuietStep
  <2>5. QED
    BY <1>0, <2>1, <2>2, <2>3, <2>4
<1>5. ASSUME NEW a \in AcActors, NEW j \in AcJobs, StoreStep(a, j)
      PROVE  <1>2!1
  <2>1. ASSUME NEW b \in AcActors, b # a
        PROVE  /\ Changing(job'[b]) => Changing(job[b])
               /\ Marked(job[b]) => Marked(job'[b])
               /\ Signs(job[a]) => Marked(job'[b])
    BY <1>5, <2>1, StoreStepJobs DEF StoreStep, JobMoves, Signs, Reads
  <2>2. job'[a] = j
    BY <1>5 DEF StoreStep, JobMoves
  <2>j. /\ job[a].place \in Storing
        /\ \/ j = NoJob
           \/ Reads(job[a]) /\ Reads(j) /\ j.stale = job[a].stale
           \/ j.kind = job[a].kind /\ j.stale = job[a].stale
    BY <1>5, StoreStepJobs
  <2>3. Changing(j) => Signs(job[a]) /\ Marked(j)
    BY <1>1, <2>j DEF Signs, Reads
  <2>4. Marked(job[a]) => Marked(j)
    BY <1>1, <2>j DEF Reads
  <2>5. QED
    BY <1>0, <2>1, <2>2, <2>3, <2>4
<1>6. ASSUME NEW threads \in SUBSET AcActors, DeathStep(threads)
      PROVE  <1>2!1
  BY <1>0, <1>1, <1>6 DEF DeathStep
<1>7. QED
  BY <1>3, <1>4, <1>5, <1>6 DEF AcMoves

\* A login in front is the one found, whatever the vault has.
LEMMA FrontIsFound ==
  AcInv => /\ \A login \in {keychain, credFile, vault} : login = NoLogin <=> login.token = 0
           /\ Found = IF keychain # NoLogin THEN keychain
                      ELSE IF credFile # NoLogin THEN credFile ELSE vault
           /\ \A t : t # 0 /\ InFront(t) =>
                Found.token = t /\ (keychain # NoLogin \/ credFile # NoLogin)
<1> SUFFICES ASSUME AcInv
    PROVE  /\ \A login \in {keychain, credFile, vault} : login = NoLogin <=> login.token = 0
           /\ Found = IF keychain # NoLogin THEN keychain
                      ELSE IF credFile # NoLogin THEN credFile ELSE vault
           /\ \A t : t # 0 /\ InFront(t) =>
                Found.token = t /\ (keychain # NoLogin \/ credFile # NoLogin)
  OBVIOUS
<1>1. \A login \in {keychain, credFile, vault} : login = NoLogin <=> login.token = 0
  <2>1. ASSUME NEW login \in {keychain, credFile, vault} PROVE login \in Logins /\ IsWhole(login)
    BY AcCountsMeans DEF AcInv, ProfilesFit
  <2>2. QED
    BY <2>1 DEF Logins, IsWhole, NoLogin
<1>2. Found = IF keychain # NoLogin THEN keychain
              ELSE IF credFile # NoLogin THEN credFile ELSE vault
  BY DEF Found, BehindKeychain
<1>3. QED
  BY <1>1, <1>2 DEF InFront

\* A reader that is not marked stores the login that is found.
LEMMA ReaderKeepsFound ==
  ASSUME AcInv, NEW a \in AcActors, NEW j \in AcJobs, StoreStep(a, j),
         Reads(job[a]), ~job[a].stale, ~overtaken
  PROVE  /\ Found'.token = Found.token /\ owed' = owed /\ (shadowed => shadowed')
         /\ \A k \in AcJobs :
              /\ SeesFound(k) /\ k.place \notin {"lookFile", "againFile"}
              /\ k.place \in Storing => k.record.token # 0
              => SeesFound(k)'
         /\ Reads(j) => SeesFound(j)'
<1> USE StoringPlaces
<1> DEFINE t == job[a].record.token
           front == IF keychain' # NoLogin THEN keychain'
                    ELSE IF credFile' # NoLogin THEN credFile' ELSE vault'
<1>1. /\ t # 0 /\ SeesFound(job[a]) /\ job[a].kind # "login" /\ job[a].place \notin Clearing
      /\ job[a].held = t
  <2>1. job[a].place \in Storing
    BY StoreStepJobs
  <2>2. SeesFound(job[a])
    BY DEF AcInv, LookedUpIsFound
  <2>3. t # 0 /\ job[a].place \notin Clearing /\ job[a].held = t
    BY <2>1 DEF AcInv, JobsFit
  <2>4. QED
    BY <2>2, <2>3 DEF Reads
<1>2. Found' = front
  BY DEF Found, BehindKeychain
<1>3. /\ \A login \in {keychain, credFile, vault} : login = NoLogin <=> login.token = 0
      /\ Found = IF keychain # NoLogin THEN keychain
                 ELSE IF credFile # NoLogin THEN credFile ELSE vault
      /\ InFront(t) => Found.token = t /\ (keychain # NoLogin \/ credFile # NoLogin)
  BY <1>1, FrontIsFound
<1>4. NoLogin.token = 0 /\ job[a] \in AcJobs
  BY NoJobIsAJob, AccountsAssumption, AcCountsMeans DEF AcInv
<1>5. job[a].record.token = t /\ job[a].record # NoLogin
  BY <1>1, <1>4
<1> HIDE DEF t
<1>6. CASE KeychainTakes(a, j)
  <2>1. /\ keychain' = job[a].record /\ UNCHANGED <<credFile, vault, owed>> /\ shadowed' = shadowed
        /\ j = [job[a] EXCEPT !.place = "dropFile"] /\ t = Found.token
    BY <1>1, <1>5, <1>6, AcCountsMeans DEF KeychainTakes, JobPlaced, SeesFound, AcInv
  <2>2. j.place = "dropFile" /\ j.record = job[a].record
    BY <1>4, <2>1 DEF AcJobs
  <2>3. Found' = job[a].record
    BY <1>2, <1>5, <2>1
  <2>4. ASSUME NEW k \in AcJobs, SeesFound(k), k.place \notin {"lookFile", "againFile"},
               k.place \in Storing => k.record.token # 0
        PROVE  SeesFound(k)'
    <3>1. k.place \in {"dropFile", "dropVault"} => k.record.token = t
      BY <1>3, <2>1, <2>4 DEF SeesFound, InFront
    <3>2. QED
      BY <1>5, <2>1, <2>3, <2>4, <3>1 DEF SeesFound, InFront
  <2>5. SeesFound(j)'
    BY <2>1, <2>2 DEF SeesFound
  <2>6. QED
    BY <1>5, <2>1, <2>3, <2>4, <2>5
<1>7. CASE KeychainDoesNot(a, j)
  <2>1. /\ UNCHANGED <<keychain, credFile, vault, owed>> /\ (shadowed => shadowed')
        /\ j = [job[a] EXCEPT !.place = "saveFile"] /\ t = Found.token
    BY <1>1, <1>5, <1>7 DEF KeychainDoesNot, JobPlaced, SeesFound
  <2>2. j.place = "saveFile" /\ j.record = job[a].record
    BY <1>4, <2>1 DEF AcJobs
  <2>3. Found' = Found
    BY <2>1 DEF Found, BehindKeychain
  <2>4. \A k \in AcJobs : SeesFound(k) => SeesFound(k)'
    BY <2>1, <2>3 DEF SeesFound, InFront
  <2>5. SeesFound(j)'
    BY <1>5, <2>1, <2>2, <2>3 DEF SeesFound
  <2>6. QED
    BY <2>1, <2>3, <2>4, <2>5
<1>8. CASE FileTakes(a, j) /\ credFile' = job[a].record /\ JobPlaced(a, j, "dropVault")
  <2>1. /\ UNCHANGED <<keychain, vault, owed, shadowed>> /\ credFile' = job[a].record
        /\ j = [job[a] EXCEPT !.place = "dropVault"] /\ t = Found.token
    BY <1>1, <1>5, <1>8 DEF FileTakes, JobPlaced, SeesFound
  <2>2. j.place = "dropVault" /\ j.record = job[a].record
    BY <1>4, <2>1 DEF AcJobs
  <2>3. /\ keychain = NoLogin \/ keychain.token = t
        /\ Found'.token = t
    BY <1>2, <1>3, <1>5, <2>1
  <2>4. ASSUME NEW k \in AcJobs, SeesFound(k), k.place \in Storing => k.record.token # 0
        PROVE  SeesFound(k)'
    <3>1. k.place \in {"dropFile", "dropVault"} => k.record.token = t
      BY <1>3, <2>1, <2>4 DEF SeesFound, InFront
    <3>2. QED
      BY <1>5, <2>1, <2>3, <2>4, <3>1 DEF SeesFound, InFront
  <2>5. SeesFound(j)'
    BY <1>5, <2>1, <2>2, <2>3 DEF SeesFound, InFront
  <2>6. QED
    BY <2>1, <2>3, <2>4, <2>5
<1>9. CASE FileTakes(a, j) /\ JobIsOver(a, j) /\ UNCHANGED credFile
  <2>1. UNCHANGED <<keychain, credFile, vault, owed, shadowed>> /\ t = Found.token
    BY <1>1, <1>5, <1>9 DEF FileTakes, SeesFound
  <2>2. Found' = Found
    BY <2>1 DEF Found, BehindKeychain
  <2>3. \A k \in AcJobs : SeesFound(k) => SeesFound(k)'
    BY <2>1, <2>2 DEF SeesFound, InFront
  <2>4. Reads(j) => j.place = "fetch" /\ j.held = t
    BY <1>1, <1>4, <1>5, <1>9, NoJobIsAJob, AccountsAssumption DEF JobIsOver, Reads, AcJobs
  <2>5. Reads(j) => SeesFound(j)'
    BY <2>1, <2>2, <2>4 DEF SeesFound
  <2>6. QED
    BY <2>1, <2>2, <2>3, <2>5
<1>10. CASE FileDropped(a, j)
  <2>1. /\ UNCHANGED <<keychain, vault, owed, shadowed>> /\ keychain.token = t
        /\ j = [job[a] EXCEPT !.place = "dropVault"]
    BY <1>1, <1>5, <1>10 DEF FileDropped, JobPlaced, SeesFound
  <2>2. j.place = "dropVault" /\ j.record = job[a].record
    BY <1>4, <2>1 DEF AcJobs
  <2>3. keychain # NoLogin /\ Found' = Found
    BY <1>1, <1>2, <1>3, <1>4, <1>5, <2>1
  <2>4. \A k \in AcJobs : SeesFound(k) => SeesFound(k)'
    BY <2>1, <2>3 DEF SeesFound, InFront
  <2>5. SeesFound(j)'
    BY <1>5, <2>1, <2>2 DEF SeesFound, InFront
  <2>6. QED
    BY <2>1, <2>3, <2>4, <2>5
<1>11. CASE VaultDropped(a, j)
  <2>1. /\ UNCHANGED <<keychain, credFile, owed, shadowed>> /\ InFront(t)
    BY <1>1, <1>5, <1>11 DEF VaultDropped, SeesFound
  <2>2. Found' = Found /\ Found.token = t
    BY <1>2, <1>3, <2>1
  <2>3. \A k \in AcJobs : SeesFound(k) => SeesFound(k)'
    BY <2>1, <2>2 DEF SeesFound, InFront
  <2>4. Reads(j) => j.place = "fetch" /\ j.held = t
    BY <1>1, <1>4, <1>5, <1>11, NoJobIsAJob, AccountsAssumption DEF VaultDropped, JobIsOver, Reads, AcJobs
  <2>5. Reads(j) => SeesFound(j)'
    BY <2>1, <2>2, <2>4 DEF SeesFound
  <2>6. QED
    BY <2>1, <2>2, <2>3, <2>5
<1>12. QED
  <2>1. ~KeychainCleared(a, j) /\ ~FileCleared(a, j) /\ ~VaultCleared(a, j)
    BY <1>1 DEF KeychainCleared, FileCleared, VaultCleared, JobClears
  <2>2. FileTakes(a, j) => \/ FileTakes(a, j) /\ credFile' = job[a].record /\ JobPlaced(a, j, "dropVault")
                           \/ FileTakes(a, j) /\ JobIsOver(a, j) /\ UNCHANGED credFile
    BY DEF FileTakes
  <2>3. QED
    BY <1>6, <1>7, <1>8, <1>9, <1>10, <1>11, <2>1, <2>2 DEF StoreStep

\* What a job that is not marked sees stays so.
LEMMA NextLookedUpIsFound == AcInv /\ AcMoves => LookedUpIsFound'
<1> SUFFICES ASSUME AcInv, AcMoves, ~overtaken', NEW b \in AcActors,
                    Reads(job'[b]), ~job'[b].stale
             PROVE  SeesFound(job[b])'
  BY DEF LookedUpIsFound, Reads
<1> USE StoringPlaces
<1>0. /\ \A a \in AcActors : job[a] \in AcJobs
      /\ ~overtaken => \A a \in AcActors : Reads(job[a]) /\ ~job[a].stale => SeesFound(job[a])
  BY AcCountsMeans DEF AcInv, LookedUpIsFound
<1>1. ~Reads(NoJob)
  BY NoJobIsAJob, AccountsAssumption DEF Reads
<1>2. ASSUME UNCHANGED <<acStore, overtaken>>, job'[b] = job[b] PROVE SeesFound(job[b])'
  <2>1. SeesFound(job[b])
    BY <1>0, <1>2
  <2>2. QED
    BY <1>2, <2>1 DEF SeesFound, InFront, Found, BehindKeychain, acStore
<1>3. CASE UNCHANGED acVars
  BY <1>2, <1>3 DEF acVars
<1>4. ASSUME NEW a \in AcActors, NEW j \in AcJobs, QuietStep(a, j)
      PROVE  SeesFound(job[b])'
  <2>0. /\ UNCHANGED <<keychain, credFile, vault>> /\ ~overtaken /\ Found' = Found
        /\ job'[a] = j
    BY <1>4 DEF QuietStep, JobMoves, acStore, Found, BehindKeychain
  <2>1. CASE b # a
    <3>1. /\ job'[b].place = job[b].place /\ job'[b].held = job[b].held
          /\ job'[b].record = job[b].record /\ job'[b].stale = job[b].stale
          /\ Reads(job[b])
      <4>1. job'[b] \in AcJobs
        BY <1>4 DEF QuietStep, JobMoves
      <4>2. QED
        BY <1>0, <1>4, <2>1, <4>1 DEF QuietStep, JobMoves, Reads, AcJobs
    <3>2. SeesFound(job[b])
      BY <1>0, <2>0, <3>1
    <3>3. QED
      BY <2>0, <3>1, <3>2 DEF SeesFound, InFront
  <2>2. CASE b = a
    <3>0. Reads(j) /\ ~j.stale
      BY <2>0, <2>2
    <3>1. CASE JobBegins(a, j)
      BY <2>0, <2>2, <3>0, <3>1 DEF JobBegins, SeesFound, Reads
    <3>2. CASE JobLooksOn(a, j)
      BY <2>0, <2>2, <3>2 DEF JobLooksOn, SeesFound
    <3>3. CASE JobFinds(a, j)
      <4>1. job[a].place \in {"lookFile", "againFile"} => keychain = NoLogin
        BY <1>0, <2>0, <3>0, <3>3 DEF JobFinds, SeesFound
      <4>2. Found = IF job[a].place \in {"look", "again"} THEN keychain ELSE BehindKeychain
        BY <3>3, <4>1 DEF JobFinds, Found
      <4>3. QED
        BY <2>0, <2>2, <3>3, <4>2 DEF JobFinds, SeesFound
    <3>4. CASE JobStores(a, j)
      <4>1. job[a].held = Found.token
        BY <1>0, <2>0, <3>0, <3>4 DEF JobStores, SeesFound, Reads
      <4>2. j.kind # "login" /\ j.place = "save"
        BY <3>0, <3>4 DEF JobStores, Reads
      <4>3. QED
        BY <2>0, <2>2, <3>4, <4>1, <4>2 DEF JobStores, SeesFound
    <3>5. CASE job[a].kind = "read" /\ JobGoesOn(a, j, {"fetch"}, "again")
      <4>1. j.place = "again"
        BY <1>0, <3>5 DEF JobGoesOn, AcJobs
      <4>2. QED
        BY <2>0, <2>2, <4>1 DEF SeesFound
    <3>6. CASE Signs(job[a]) /\ JobGoesOn(a, j, {"look", "lookFile", "fetch"}, "clear")
      <4>1. j.kind = job[a].kind
        BY <1>0, <3>6 DEF JobGoesOn, AcJobs
      <4>2. QED
        BY <3>0, <3>6, <4>1 DEF Signs, Reads
    <3>7. QED
      BY <1>1, <1>4, <3>0, <3>1, <3>2, <3>3, <3>4, <3>5, <3>6 DEF QuietStep
  <2>3. QED
    BY <2>1, <2>2
<1>5. ASSUME NEW a \in AcActors, NEW j \in AcJobs, StoreStep(a, j)
      PROVE  SeesFound(job[b])'
  <2>j. job'[b] \in AcJobs
    BY <1>5 DEF StoreStep, JobMoves
  <2>0. /\ ~overtaken /\ ~job[a].stale /\ job'[a] = j /\ job[a].place \in Storing
        /\ job'[b] \in AcJobs
    <3>1. job[a].place \in Storing
      BY <1>5, StoreStepJobs
    <3>2. QED
      BY <1>5, <2>j, <3>1 DEF StoreStep, JobMoves
  <2>1. CASE b # a
    <3>1. /\ job'[b].kind = job[b].kind
          /\ job'[b].place = job[b].place /\ job'[b].held = job[b].held
          /\ job'[b].record = job[b].record
          /\ ~job[b].stale /\ ~Signs(job[a]) /\ job[b].place \notin {"lookFile", "againFile"}
          /\ Reads(job[b])
      BY <1>5, <2>0, <2>1 DEF StoreStep, JobMoves, Reads
    <3>2. Reads(job[a])
      <4>1. job[a].kind \in {"none", "login", "logout", "status", "use", "read"}
        BY <1>0 DEF AcJobs
      <4>2. job[a].kind # "none"
        BY <2>0 DEF AcInv, JobsFit
      <4>3. QED
        BY <3>1, <4>1, <4>2 DEF Reads, Signs
    <3>3. SeesFound(job[b]) /\ (job[b].place \in Storing => job[b].record.token # 0)
      BY <1>0, <2>0, <3>1 DEF AcInv, JobsFit
    <3>4. SeesFound(job'[b])
      BY <3>1, <3>3 DEF SeesFound
    <3>5. job'[b].place \notin {"lookFile", "againFile"}
          /\ (job'[b].place \in Storing => job'[b].record.token # 0)
      BY <3>1, <3>3
    <3>6. QED
      <4>1. PICK k \in AcJobs : k = job'[b]
        BY <2>0
      <4>2. SeesFound(k) /\ k.place \notin {"lookFile", "againFile"}
            /\ (k.place \in Storing => k.record.token # 0)
        BY <3>4, <3>5, <4>1
      <4>3. SeesFound(k)'
        BY <1>5, <2>0, <3>2, <4>2, ReaderKeepsFound
      <4>4. QED
        BY <4>1, <4>3 DEF SeesFound, InFront
  <2>2. CASE b = a
    <3>1. Reads(j) /\ Reads(job[a])
      BY <1>1, <1>5, <2>0, <2>2, StoreStepJobs DEF Reads
    <3>2. SeesFound(j)'
      BY <1>5, <2>0, <3>1, ReaderKeepsFound
    <3>3. QED
      BY <2>0, <2>2, <3>2 DEF SeesFound
  <2>3. QED
    BY <2>1, <2>2
<1>6. ASSUME NEW threads \in SUBSET AcActors, DeathStep(threads)
      PROVE  SeesFound(job[b])'
  BY <1>1, <1>2, <1>6 DEF DeathStep
<1>7. QED
  BY <1>3, <1>4, <1>5, <1>6 DEF AcMoves

\* What a login or logout did to the store stays while it goes on.
LEMMA NextSignedInOrOut == AcInv /\ AcMoves => SignedInOrOut'
<1> DEFINE Did(j) ==
      /\ j.kind = "login" /\ ~shadowed =>
           /\ j.place = "saveFile" => keychain.token \in {0, j.record.token}
           /\ j.place = "dropVault" => InFront(j.record.token)
      /\ j.kind = "login" /\ j.place = "dropFile" => keychain = j.record
      /\ ~j.left =>
           /\ j.place \in {"clearFile", "clearVault"} => keychain = NoLogin
           /\ j.place = "clearVault" => credFile = NoLogin
<1> SUFFICES ASSUME AcInv, AcMoves, ~overtaken', ~unremoved', NEW b \in AcActors
             PROVE  Did(job[b])'
  BY DEF SignedInOrOut
<1> USE StoringPlaces
<1> DEFINE Changing(j) == Signs(j) /\ j.place \in {"saveFile", "dropFile", "dropVault", "clearFile", "clearVault"}
<1>0. /\ \A a \in AcActors : job[a] \in AcJobs
      /\ ~overtaken /\ ~unremoved => \A a \in AcActors : Did(job[a])
  BY AcCountsMeans DEF AcInv, SignedInOrOut
<1>1. NoJob.kind = "none" /\ NoJob.place = "" /\ NoLogin.token = 0
  BY NoJobIsAJob, AccountsAssumption
<1>2. ASSUME UNCHANGED <<acStore, shadowed, overtaken, unremoved>>, job'[b] = job[b] PROVE Did(job[b])'
  <2>1. Did(job[b])
    BY <1>0, <1>2
  <2>2. QED
    BY <1>2, <2>1 DEF InFront, acStore
<1>3. CASE UNCHANGED acVars
  BY <1>2, <1>3 DEF acVars
<1>4. ASSUME job'[b].place \notin {"saveFile", "dropFile", "dropVault", "clearFile", "clearVault"}
      PROVE  Did(job[b])'
  BY <1>4
<1>5. ASSUME NEW a \in AcActors, NEW j \in AcJobs, QuietStep(a, j)
      PROVE  Did(job[b])'
  <2>0. /\ UNCHANGED <<keychain, credFile, vault, shadowed>> /\ ~overtaken /\ ~unremoved /\ job'[a] = j
    BY <1>5 DEF QuietStep, JobMoves, acStore
  <2>1. CASE b # a
    <3>1. /\ job'[b].place = job[b].place /\ job'[b].kind = job[b].kind
          /\ job'[b].record = job[b].record /\ job'[b].left = job[b].left
      BY <1>5, <2>1 DEF QuietStep, JobMoves
    <3>2. Did(job[b])
      BY <1>0, <2>0
    <3>3. QED
      BY <2>0, <3>1, <3>2 DEF InFront
  <2>2. CASE b = a
    <3>1. CASE JobGoesOn(a, j, {"fetch"}, "again") \/ JobGoesOn(a, j, {"look", "lookFile", "fetch"}, "clear")
      <4>1. j.place \in {"again", "clear"}
        BY <1>0, <3>1 DEF JobGoesOn, AcJobs
      <4>2. QED
        BY <1>4, <2>0, <2>2, <4>1
    <3>2. CASE JobBegins(a, j) \/ JobLooksOn(a, j) \/ JobFinds(a, j) \/ JobStores(a, j)
      <4>1. j.place \in {"look", "fetch", "lookFile", "againFile", "save"}
        BY <3>2 DEF JobBegins, JobLooksOn, JobFinds, JobStores
      <4>2. QED
        BY <1>4, <2>0, <2>2, <4>1
    <3>3. CASE j = NoJob
      BY <1>1, <1>4, <2>0, <2>2, <3>3
    <3>4. QED
      BY <1>5, <3>1, <3>2, <3>3 DEF QuietStep
  <2>3. QED
    BY <2>1, <2>2
<1>6. ASSUME NEW a \in AcActors, NEW j \in AcJobs, StoreStep(a, j)
      PROVE  Did(job[b])'
  <2>0. /\ ~overtaken /\ ~unremoved /\ ~job[a].stale /\ job'[a] = j /\ job[a].place \in Storing
    BY <1>6, StoreStepJobs DEF StoreStep, JobMoves
  <2>1. CASE b # a
    <3>1. /\ job'[b].place = job[b].place /\ job'[b].kind = job[b].kind
      BY <1>6, <2>1 DEF StoreStep, JobMoves
    <3>2. CASE Changing(job[b])
      <4>1. ~Signs(job[a])
        BY <2>1, <3>2 DEF AcInv, OneSigns
      <4>2. Reads(job[a]) /\ job[a].place # "look"
        <5>1. job[a].kind \in {"none", "login", "logout", "status", "use", "read"}
          BY <1>0 DEF AcJobs
        <5>2. job[a].kind # "none"
          BY <2>0 DEF AcInv, JobsFit
        <5>3. QED
          BY <2>0, <4>1, <5>1, <5>2 DEF Reads, Signs
      <4>3. job[a].stale
        BY <3>2, <4>2 DEF AcInv, ReadersAreMarked
      <4>4. QED
        BY <2>0, <4>3
    <3>3. CASE ~Signs(job[b])
      <4>1. job[b].kind # "login" /\ job[b].place \notin {"clearFile", "clearVault"}
        <5>1. job[b].kind \in {"none", "login", "logout", "status", "use", "read"}
          BY <1>0 DEF AcJobs
        <5>2. Reads(job[b]) => job[b].place \notin Clearing
          BY DEF AcInv, JobsFit
        <5>3. job[b].kind = "none" => job[b].place = ""
          BY DEF AcInv, JobsFit
        <5>4. QED
          BY <3>3, <5>1, <5>2, <5>3 DEF Signs, Reads
      <4>2. QED
        BY <3>1, <4>1
    <3>4. CASE Signs(job[b]) /\ ~Changing(job[b])
      BY <1>4, <3>1, <3>4
    <3>5. QED
      BY <3>2, <3>3, <3>4
  <2>2. CASE b = a
    <3>1. Did(job[a]) /\ job[a] \in AcJobs
      BY <1>0, <2>0
    <3>2. CASE KeychainTakes(a, j)
      <4>1. /\ j.place = "dropFile" /\ j.record = job[a].record /\ keychain' = job[a].record
        BY <3>1, <3>2 DEF KeychainTakes, JobPlaced, AcJobs
      <4>2. QED
        BY <2>0, <2>2, <4>1
    <3>3. CASE KeychainDoesNot(a, j)
      <4>1. /\ j.place = "saveFile" /\ j.record = job[a].record /\ keychain' = keychain
            /\ shadowed' = (shadowed \/ keychain.token \notin {0, job[a].record.token})
        BY <3>1, <3>3 DEF KeychainDoesNot, JobPlaced, AcJobs
      <4>2. QED
        BY <2>0, <2>2, <4>1
    <3>4. CASE FileTakes(a, j) /\ JobPlaced(a, j, "dropVault") /\ credFile' = job[a].record
      <4>1. /\ j.place = "dropVault" /\ j.record = job[a].record /\ UNCHANGED <<keychain, shadowed>>
            /\ j.kind = job[a].kind /\ job[a].place = "saveFile"
        BY <3>1, <3>4 DEF FileTakes, JobPlaced, AcJobs
      <4>2. keychain.token = 0 => keychain = NoLogin
        BY FrontIsFound
      <4>3. QED
        BY <2>0, <2>2, <3>1, <3>4, <4>1, <4>2 DEF InFront
    <3>5. CASE FileDropped(a, j)
      <4>1. /\ j.place = "dropVault" /\ j.record = job[a].record /\ UNCHANGED <<keychain, shadowed>>
            /\ j.kind = job[a].kind /\ job[a].place = "dropFile"
        BY <3>1, <3>5 DEF FileDropped, JobPlaced, AcJobs
      <4>2. QED
        BY <2>0, <2>2, <3>1, <4>1 DEF InFront
    <3>6. CASE JobIsOver(a, j)
      <4>1. j.place \in {"", "fetch"}
        BY <1>1, <3>1, <3>6 DEF JobIsOver, AcJobs
      <4>2. QED
        BY <1>4, <2>0, <2>2, <4>1
    <3>7. CASE KeychainCleared(a, j)
      <4>1. /\ j.place = "clearFile" /\ (~j.left => keychain' = NoLogin)
        BY <3>1, <3>7 DEF KeychainCleared, JobClears, AcJobs
      <4>2. QED
        BY <2>0, <2>2, <4>1
    <3>8. CASE FileCleared(a, j)
      <4>1. /\ j.place = "clearVault" /\ (~j.left => credFile' = NoLogin) /\ keychain' = keychain
            /\ (~j.left => ~job[a].left) /\ job[a].place = "clearFile"
        BY <3>1, <3>8 DEF FileCleared, JobClears, AcJobs
      <4>2. QED
        BY <2>0, <2>2, <3>1, <4>1
    <3>9. CASE VaultCleared(a, j)
      <4>1. j = NoJob
        BY <3>9 DEF VaultCleared
      <4>2. QED
        BY <1>1, <1>4, <2>0, <2>2, <4>1
    <3>10. QED
      BY <1>6, <3>2, <3>3, <3>4, <3>5, <3>6, <3>7, <3>8, <3>9 DEF StoreStep, FileTakes, VaultDropped
  <2>3. QED
    BY <2>1, <2>2
<1>7. ASSUME NEW threads \in SUBSET AcActors, DeathStep(threads)
      PROVE  Did(job[b])'
  <2>1. CASE b \in threads
    BY <1>1, <1>4, <1>7, <2>1 DEF DeathStep
  <2>2. CASE b \notin threads
    BY <1>2, <1>7, <2>2 DEF DeathStep
  <2>3. QED
    BY <2>1, <2>2
<1>8. QED
  BY <1>3, <1>5, <1>6, <1>7 DEF AcMoves

\* The login owed is found.
LEMMA NextOwedIsFound == AcInv /\ AcMoves => OwedIsFound'
<1> SUFFICES ASSUME AcInv, AcMoves, ~shadowed', ~overtaken', ~unremoved',
                    \A a \in AcActors : Signs(job'[a]) => job'[a].place \notin Replacing
             PROVE  Found'.token = owed'
  BY DEF OwedIsFound, AcClaimed, Signs
<1> USE StoringPlaces
<1>0. /\ \A a \in AcActors : job[a] \in AcJobs
      /\ Replacing = {"dropFile", "dropVault", "clear", "clearFile", "clearVault"}
  BY AcCountsMeans DEF AcInv, Replacing
<1>1. ~Signs(NoJob) /\ NoLogin.token = 0
  BY NoJobIsAJob, AccountsAssumption DEF Signs
<1>2. ASSUME ~shadowed, ~overtaken, ~unremoved, \A a \in AcActors : Signs(job[a]) => job[a].place \notin Replacing
      PROVE  Found.token = owed
  BY <1>2 DEF AcInv, OwedIsFound, AcClaimed
<1>3. CASE UNCHANGED acVars
  BY <1>2, <1>3 DEF acVars, acStore, Found, BehindKeychain
<1>4. ASSUME NEW a \in AcActors, NEW j \in AcJobs, JobMoves(a, j),
             Signs(job[a]) => job[a].place \notin Replacing
      PROVE  \A b \in AcActors : Signs(job[b]) => job[b].place \notin Replacing
  BY <1>4 DEF JobMoves, Signs
<1>5. ASSUME NEW a \in AcActors, NEW j \in AcJobs, QuietStep(a, j)
      PROVE  Found'.token = owed'
  <2>1. /\ UNCHANGED <<keychain, credFile, vault, shadowed, owed>> /\ ~overtaken /\ ~unremoved /\ Found' = Found
    BY <1>5 DEF QuietStep, JobMoves, acStore, Found, BehindKeychain
  <2>2. job[a].place \notin Replacing /\ JobMoves(a, j)
    BY <1>0, <1>5 DEF QuietStep
  <2>3. QED
    BY <1>2, <1>4, <2>1, <2>2
<1>6. ASSUME NEW a \in AcActors, NEW j \in AcJobs, StoreStep(a, j)
      PROVE  Found'.token = owed'
  <2>0. /\ ~overtaken /\ ~unremoved /\ ~job[a].stale /\ job'[a] = j /\ job[a].place \in Storing
        /\ JobMoves(a, j)
    BY <1>6, StoreStepJobs DEF StoreStep, JobMoves
  <2>1. CASE Reads(job[a])
    <3>1. Found'.token = Found.token /\ owed' = owed /\ (shadowed => shadowed')
      BY <1>6, <2>0, <2>1, ReaderKeepsFound
    <3>2. ~Signs(job[a])
      BY <2>1 DEF Reads, Signs
    <3>3. QED
      BY <1>2, <1>4, <2>0, <3>1, <3>2
  <2>2. CASE Signs(job[a])
    <3>0. /\ job[a] \in AcJobs /\ job[a].kind # "use" /\ (j.kind = job[a].kind => Signs(j))
      BY <1>0, <2>2 DEF Signs
    <3>1. CASE KeychainTakes(a, j)
      <4>1. j.place = "dropFile" /\ j.kind = job[a].kind
        BY <3>0, <3>1 DEF KeychainTakes, JobPlaced, AcJobs
      <4>2. QED
        BY <1>0, <2>0, <3>0, <4>1
    <3>2. CASE KeychainDoesNot(a, j)
      <4>1. /\ UNCHANGED <<keychain, credFile, vault, owed>> /\ ~shadowed /\ job[a].place = "save"
        BY <3>2 DEF KeychainDoesNot
      <4>2. QED
        BY <1>0, <1>2, <1>4, <2>0, <4>1 DEF Found, BehindKeychain
    <3>3. CASE FileTakes(a, j) /\ JobPlaced(a, j, "dropVault")
      <4>1. j.place = "dropVault" /\ j.kind = job[a].kind
        BY <3>0, <3>3 DEF JobPlaced, AcJobs
      <4>2. QED
        BY <1>0, <2>0, <3>0, <4>1
    <3>4. CASE FileTakes(a, j) /\ UNCHANGED credFile
      <4>1. UNCHANGED <<keychain, credFile, vault, owed, shadowed>> /\ job[a].place = "saveFile"
        BY <3>4 DEF FileTakes
      <4>2. QED
        BY <1>0, <1>2, <1>4, <2>0, <4>1 DEF Found, BehindKeychain
    <3>5. CASE FileDropped(a, j)
      <4>1. j.place = "dropVault" /\ j.kind = job[a].kind
        BY <3>0, <3>5 DEF FileDropped, JobPlaced, AcJobs
      <4>2. QED
        BY <1>0, <2>0, <3>0, <4>1
    <3>6. CASE VaultDropped(a, j)
      <4>1. job[a].place = "dropVault" /\ job[a].kind = "login"
        BY <2>2, <3>6 DEF VaultDropped, AcInv, JobsFit, Signs
      <4>2. UNCHANGED <<keychain, credFile, shadowed>> /\ owed' = job[a].record.token
        BY <3>6, <4>1 DEF VaultDropped
      <4>3. InFront(job[a].record.token) /\ job[a].record.token # 0
        BY <2>0, <4>1, <4>2 DEF AcInv, SignedInOrOut, JobsFit
      <4>4. /\ Found.token = job[a].record.token /\ (keychain # NoLogin \/ credFile # NoLogin)
        BY <4>3, FrontIsFound
      <4>5. Found' = Found
        BY <4>2, <4>4 DEF Found, BehindKeychain
      <4>6. QED
        BY <4>2, <4>4, <4>5
    <3>7. CASE KeychainCleared(a, j)
      <4>1. j.place = "clearFile" /\ j.kind = job[a].kind
        BY <3>0, <3>7 DEF KeychainCleared, JobClears, AcJobs
      <4>2. QED
        BY <1>0, <2>0, <3>0, <4>1
    <3>8. CASE FileCleared(a, j)
      <4>1. j.place = "clearVault" /\ j.kind = job[a].kind
        BY <3>0, <3>8 DEF FileCleared, JobClears, AcJobs
      <4>2. QED
        BY <1>0, <2>0, <3>0, <4>1
    <3>9. CASE VaultCleared(a, j)
      <4>1. CASE owed' = Found'.token
        BY <4>1
      <4>2. CASE owed' = 0 /\ ~job[a].left /\ (vault' = NoLogin \/ unremoved')
        <5>1. keychain = NoLogin /\ credFile = NoLogin
          BY <2>0, <3>9, <4>2 DEF VaultCleared, AcInv, SignedInOrOut
        <5>2. Found' = NoLogin
          BY <3>9, <4>2, <5>1 DEF VaultCleared, Found, BehindKeychain
        <5>3. QED
          BY <1>1, <4>2, <5>2
      <4>3. QED
        BY <3>9, <4>1, <4>2 DEF VaultCleared
    <3>10. QED
      BY <1>6, <3>1, <3>2, <3>3, <3>4, <3>5, <3>6, <3>7, <3>8, <3>9 DEF StoreStep, FileTakes
  <2>3. QED
    <3>1. job[a].kind \in {"none", "login", "logout", "status", "use", "read"}
      BY <1>0 DEF AcJobs
    <3>2. job[a].kind # "none"
      BY <2>0 DEF AcInv, JobsFit
    <3>3. QED
      BY <2>1, <2>2, <3>1, <3>2 DEF Reads, Signs
<1>7. ASSUME NEW threads \in SUBSET AcActors, DeathStep(threads)
      PROVE  Found'.token = owed'
  <2>1. Found' = Found /\ ~shadowed /\ ~overtaken /\ ~unremoved
    BY <1>7 DEF DeathStep, acStore, Found, BehindKeychain
  <2>2. CASE \E a \in AcActors : a \in threads /\ Signs(job[a])
    BY <1>7, <2>1, <2>2 DEF DeathStep
  <2>3. CASE ~\E a \in AcActors : a \in threads /\ Signs(job[a])
    <3>1. \A a \in AcActors : Signs(job[a]) => job'[a] = job[a]
      BY <1>7, <2>3 DEF DeathStep
    <3>2. owed' = owed
      BY <1>7, <2>3 DEF DeathStep
    <3>3. QED
      BY <1>2, <2>1, <3>1, <3>2
  <2>4. QED
    BY <2>2, <2>3
<1>8. QED
  BY <1>3, <1>5, <1>6, <1>7 DEF AcMoves

\* At first nobody has a job, and the login there is owed.
LEMMA InitAcInv == AcInit => AcInv
<1> SUFFICES ASSUME AcInit PROVE AcInv
  OBVIOUS
<1>0. /\ NoJob \in AcJobs /\ NoJob.kind = "none" /\ NoJob.place = "" /\ NoJob.record = NoLogin
      /\ NoLogin \in Logins /\ IsWhole(NoLogin) /\ NoLogin.token = 0
  BY NoJobIsAJob, AccountsAssumption DEF IsWhole
<1>1. \A a \in AcActors : job[a] = NoJob
  BY DEF AcInit
<1>2. job \in [AcActors -> AcJobs]
  BY <1>0 DEF AcInit
<1>3. PICK first \in {NoLogin, [token |-> 1, profile |-> 0]} :
       \/ usesKeychain /\ keychain = first /\ credFile = NoLogin /\ vault = NoLogin
       \/ keychain = NoLogin /\ credFile = first /\ vault = NoLogin
       \/ keychain = NoLogin /\ credFile = NoLogin /\ vault = first
  BY DEF AcInit
<1>4. first \in Logins /\ IsWhole(first) /\ first.token \in 0..(MaxLogins + 1)
  <2>1. 0 \in 0..(MaxLogins + 1) /\ 1 \in 0..(MaxLogins + 1)
    BY TokensHaveZero, NextToken, BoundsAreNumbers
  <2>2. CASE first = NoLogin
    BY <1>0, <2>1, <2>2
  <2>3. CASE first = [token |-> 1, profile |-> 0]
    BY <2>1, <2>3 DEF Logins, IsWhole
  <2>4. QED
    BY <2>2, <2>3
<1>5. /\ keychain \in Logins /\ credFile \in Logins /\ vault \in Logins
      /\ IsWhole(keychain) /\ IsWhole(credFile) /\ IsWhole(vault)
  BY <1>0, <1>3, <1>4
<1>6. Found.token \in 0..(MaxLogins + 1)
  <2>1. Found \in Logins
    BY <1>5 DEF Found, BehindKeychain
  <2>2. QED
    BY <2>1 DEF Logins
<1>7. AcCounts
  <2>1. 0 \in 0..MaxLogins /\ 0 \in 0..AcMishaps
    BY BoundsAreNumbers
  <2>2. QED
    BY <1>2, <1>5, <1>6, <2>1 DEF AcInit, AcCounts, AcTypeOK, AcJobs, AcPlaces
<1>8. JobsFit /\ OneSigns /\ ProfilesFit /\ ReadersAreMarked
  BY <1>0, <1>1, <1>5, StoringPlaces
  DEF JobsFit, OneSigns, ProfilesFit, ReadersAreMarked, Reads, Signs
<1>9. LookedUpIsFound /\ SignedInOrOut /\ OwedIsFound
  BY <1>0, <1>1 DEF AcInit, LookedUpIsFound, SignedInOrOut, OwedIsFound, Reads
<1>10. QED
  BY <1>7, <1>8, <1>9 DEF AcInv

\* The inductive invariant: marks on the readers a login or logout overtakes, what each
\* reader that is not marked saw and stored, and what a login or logout has done so far, or
\* has left with or without a word.
THEOREM AccountsInvariance == AcSpec => []AcInv
<1>1. AcInit => AcInv
  BY InitAcInv
<1>2. AcInv /\ [AcNext]_acVars => AcInv'
  BY AcMovesKnown, NextAcCounts, NextJobsFit, NextOneSigns, NextProfilesFit,
     NextReadersAreMarked, NextLookedUpIsFound, NextSignedInOrOut, NextOwedIsFound DEF AcInv
<1>3. QED
  BY <1>1, <1>2, PTL DEF AcSpec

\* The store, the jobs and the counts have their types.
THEOREM AccountsTypes == AcSpec => []AcTypeOK
<1>1. AcInv => AcTypeOK
  BY DEF AcInv, AcCounts
<1>2. QED
  BY <1>1, AccountsInvariance, PTL

\* A lookup finds the last login, or none after a logout that cleared every place, whoever
\* else reads and stores logins meanwhile or dies (credentials.rs, engine_account.rs), and
\* each stored profile is its login's own. Nothing is said once one of the defects AcClaimed
\* names has happened, a logout that leaves a login without a word among them.
THEOREM LoginsAreTheLast == AcSpec => []LoginFoundIsTheLast
<1>1. AcInv => LoginFoundIsTheLast
  <2> SUFFICES ASSUME AcInv, AcClaimed
               PROVE  /\ (\A a \in AcActors : job[a].place \notin Clearing) =>
                           Found.token \in {owed} \cup {job[a].record.token : a \in {b \in AcActors : job[b].kind = "login"}}
                      /\ \A login \in {keychain, credFile, vault} : login.profile \in {0, login.token}
    BY DEF LoginFoundIsTheLast
  <2>1. ASSUME \A a \in AcActors : job[a].place \notin Clearing,
               NEW a \in AcActors, Signs(job[a]), job[a].place \in Replacing
        PROVE  Found.token = job[a].record.token /\ job[a].kind = "login"
    <3>1. job[a].place \in {"dropFile", "dropVault"} /\ job[a].kind = "login"
      BY <2>1, StoringPlaces DEF AcInv, JobsFit, Signs, Replacing
    <3>2. job[a].record.token # 0 /\ InFront(job[a].record.token)
      BY <3>1 DEF AcInv, JobsFit, SignedInOrOut, AcClaimed, InFront
    <3>3. QED
      BY <3>1, <3>2, FrontIsFound
  <2>2. ASSUME \A a \in AcActors : Signs(job[a]) => job[a].place \notin Replacing
        PROVE  Found.token = owed
    BY <2>2 DEF AcInv, OwedIsFound
  <2>3. \A login \in {keychain, credFile, vault} : login.profile \in {0, login.token}
    BY DEF AcInv, ProfilesFit, IsWhole
  <2>4. QED
    BY <2>1, <2>2, <2>3
<1>2. QED
  BY <1>1, AccountsInvariance, PTL
============================================================================
