------------------------- MODULE TurnLoopProofs -------------------------
(* What the turn loop promises, for any calls, limits and responses: that it  *)
(* stops a call that repeats, that every request it sends is in order, and    *)
(* that a turn answers its calls and is closed.                               *)
EXTENDS TurnLoop, ChannelLemmas, FiniteSetTheorems

-----------------------------------------------------------------------------
(* Counting in a sequence *)

Places(s, x) == {i \in 1..Len(s) : s[i] = x}
Count(s, x) == Cardinality(Places(s, x))

\* A count is a number.
LEMMA CountIsANumber ==
  ASSUME NEW S, NEW s \in Seq(S), NEW x
  PROVE  IsFiniteSet(Places(s, x)) /\ Count(s, x) \in Nat
<1>1. Len(s) \in Nat
  BY LenProperties
<1>2. IsFiniteSet(1..Len(s))
  BY <1>1, FS_Interval
<1>3. Places(s, x) \in SUBSET (1..Len(s))
  BY DEF Places
<1>4. IsFiniteSet(Places(s, x))
  BY <1>2, <1>3, FS_Subset
<1>5. QED
  BY <1>4, FS_CardinalityType DEF Count

\* An element more is counted at most once more.
LEMMA CountOfAppend ==
  ASSUME NEW S, NEW s \in Seq(S), NEW e \in S, NEW x
  PROVE  Count(Append(s, e), x) <= Count(s, x) + (IF x = e THEN 1 ELSE 0)
<1> DEFINE t == Append(s, e)
           n == Len(s) + 1
<1>1. /\ t \in Seq(S) /\ Len(t) = n /\ Len(s) \in Nat
      /\ \A k \in 1..Len(t) : \/ k = n /\ t[k] = e
                              \/ k \in 1..Len(s) /\ t[k] = s[k]
  BY LastAdded
<1>2. IsFiniteSet(Places(s, x)) /\ Count(s, x) \in Nat
  BY CountIsANumber
<1>3. /\ IsFiniteSet(Places(s, x) \cup {n})
      /\ Cardinality(Places(s, x) \cup {n}) <= Count(s, x) + 1
  <2>1. /\ IsFiniteSet(Places(s, x) \cup {n})
        /\ \/ Cardinality(Places(s, x) \cup {n}) = Cardinality(Places(s, x))
           \/ Cardinality(Places(s, x) \cup {n}) = Cardinality(Places(s, x)) + 1
    BY <1>2, FS_AddElement
  <2>2. QED
    BY <1>2, <2>1 DEF Count
<1> HIDE DEF t, n
<1>4. CASE x = e
  <2>1. Places(t, x) \in SUBSET (Places(s, x) \cup {n})
    BY <1>1 DEF Places
  <2>2. Cardinality(Places(t, x)) <= Cardinality(Places(s, x) \cup {n})
    BY <1>3, <2>1, FS_Subset
  <2>3. Cardinality(Places(t, x)) \in Nat /\ Cardinality(Places(s, x) \cup {n}) \in Nat
    BY <1>1, <1>3, CountIsANumber, FS_CardinalityType DEF Count
  <2>4. QED
    BY <1>2, <1>3, <1>4, <2>2, <2>3 DEF Count, t
<1>5. CASE x # e
  <2>1. Places(t, x) \in SUBSET Places(s, x)
    BY <1>1, <1>5 DEF Places
  <2>2. Count(t, x) <= Count(s, x)
    BY <1>2, <2>1, FS_Subset DEF Count
  <2>3. Count(t, x) \in Nat
    BY <1>1, CountIsANumber
  <2>4. QED
    BY <1>2, <1>5, <2>2, <2>3 DEF t
<1>6. QED
  BY <1>4, <1>5

\* Without one of its elements a sequence has that one less, and no more of any other.
LEMMA CountWithoutOne ==
  ASSUME NEW S, NEW s \in Seq(S), NEW t \in Seq(S), NEW f \in 1..Len(s),
         Len(t) = Len(s) - 1,
         \A i \in 1..Len(t) : t[i] = IF i < f THEN s[i] ELSE s[i + 1],
         NEW x
  PROVE  Count(t, x) <= Count(s, x) - (IF x = s[f] THEN 1 ELSE 0)
<1>1. Len(s) \in Nat /\ Len(t) \in Nat
  BY LenProperties
<1>2. /\ IsFiniteSet(Places(s, x)) /\ Count(s, x) \in Nat
      /\ IsFiniteSet(Places(t, x)) /\ Count(t, x) \in Nat
  BY CountIsANumber
<1> DEFINE rest == Places(s, x) \ {f}
           place == [i \in Places(t, x) |-> IF i < f THEN i ELSE i + 1]
<1>3. /\ IsFiniteSet(rest) /\ Cardinality(rest) = Count(s, x) - (IF x = s[f] THEN 1 ELSE 0)
  <2>1. /\ IsFiniteSet(rest)
        /\ Cardinality(rest) = IF f \in Places(s, x) THEN Count(s, x) - 1 ELSE Count(s, x)
    BY <1>2, FS_RemoveElement DEF Count
  <2>2. f \in Places(s, x) <=> x = s[f]
    BY DEF Places
  <2>3. QED
    BY <1>2, <2>1, <2>2
<1>4. place \in [Places(t, x) -> rest]
  BY <1>1 DEF Places
<1>5. \A i, j \in Places(t, x) : place[i] = place[j] => i = j
  BY <1>1 DEF Places
<1>6. place \in Injection(Places(t, x), rest)
  BY <1>4, <1>5 DEF Injection, IsInjective
<1>7. Count(t, x) <= Cardinality(rest)
  BY <1>3, <1>6, FS_Injection DEF Count
<1>8. QED
  BY <1>3, <1>7

-----------------------------------------------------------------------------
(* The turn loop: repeated calls *)

CallType == [id : CallIds, sig : Signatures]

PendingOK ==
  /\ pending \in Seq(CallType)
  /\ pc = "execute" => pending # <<>>

GuardOK ==
  /\ guard \in [last : Signatures \cup {"none"}, streak : Nat, warned : BOOLEAN]
  /\ executed \in [sig : Signatures \cup {"none"}, times : Nat]

\* The guard's streak is of the call that is counted, never over the threshold, and
\* ahead of its executions while one is still to come.
StreakIsAhead ==
  /\ executed.sig = guard.last /\ guard.streak <= Threshold
  /\ executed.times <= guard.streak
  /\ pc = "execute" => executed.times < guard.streak

GuardInv == PendingOK /\ GuardOK /\ StreakIsAhead

\* What a step does to the guard and to the calls that are left.
Guarded == UNCHANGED <<guard, executed>> /\ (pc' = "execute" => pc = "execute")
Fresh == /\ pc' # "execute" /\ pending' = <<>>
         /\ guard' = NoCallYet /\ executed' = NoneExecuted
CallsLeft == \/ pending' = pending
             \/ pending' = <<>> /\ pc' # "execute"
             \/ pending' \in CallLists /\ pc' # "execute"
             \/ pending # <<>> /\ pending' = Tail(pending) /\ pc' # "execute"

GuardMoves ==
  \/ Guarded /\ CallsLeft
  \/ Fresh
  \/ StartCall
  \/ ExecuteCall

\* There are no other steps.
LEMMA GuardMovesKnown ==
  ASSUME [Next]_vars PROVE GuardMoves
<1>1. CASE StartTurn
  BY <1>1 DEF StartTurn, turnVars, Guarded, CallsLeft, GuardMoves
<1>2. CASE LoopTop
  BY <1>2 DEF LoopTop, Shrinks, Guarded, CallsLeft, GuardMoves
<1>3. CASE StreamInterrupted
  BY <1>3 DEF StreamInterrupted, Push, Guarded, CallsLeft, GuardMoves
<1>4. CASE StreamOverflows
  BY <1>4 DEF StreamOverflows, Shrinks, Guarded, CallsLeft, GuardMoves
<1>5. CASE StreamFails
  BY <1>5 DEF StreamFails, Guarded, CallsLeft, GuardMoves
<1>6. CASE Continue
  BY <1>6 DEF Continue, Push, Guarded, CallsLeft, GuardMoves
<1>7. CASE Nudge
  BY <1>7 DEF Nudge, Push, Guarded, CallsLeft, GuardMoves
<1>8. CASE EndReply
  BY <1>8 DEF EndReply, FreshTurn, Fresh, GuardMoves
<1>9. CASE CallsDone
  BY <1>9 DEF CallsDone, Guarded, CallsLeft, GuardMoves
<1>10. CASE InterruptCalls
  BY <1>10 DEF InterruptCalls, EndCalls, Push, Guarded, CallsLeft, GuardMoves
<1>11. CASE RejectCall
  BY <1>11 DEF RejectCall, Push, Guarded, CallsLeft, GuardMoves
<1>12. CASE StopLoop
  BY <1>12 DEF StopLoop, Push, FreshTurn, Fresh, Guarded, CallsLeft, GuardMoves
<1>13. CASE AbandonCall
  BY <1>13 DEF AbandonCall, EndCalls, Push, Guarded, CallsLeft, GuardMoves
<1>14. CASE Close
  BY <1>14 DEF Close, FreshTurn, Fresh, GuardMoves
<1>15. CASE CloseFailed
  BY <1>15 DEF CloseFailed, FreshTurn, Fresh, GuardMoves
<1>16. CASE Save
  BY <1>16 DEF Save, turnVars, Guarded, CallsLeft, GuardMoves
<1>17. CASE Interrupt
  BY <1>17 DEF Interrupt, Guarded, CallsLeft, GuardMoves
<1>18. CASE Crash
  BY <1>18 DEF Crash, FreshTurn, Fresh, GuardMoves
<1>19. CASE AllTurnsDone
  BY <1>19 DEF AllTurnsDone, vars, Guarded, CallsLeft, GuardMoves
<1>20. ASSUME NEW calls \in CallLists, NEW text \in Texts, Refuses(calls, text)
      PROVE  GuardMoves
  BY <1>20 DEF Refuses, Push, Guarded, CallsLeft, GuardMoves
<1>21. ASSUME NEW calls \in CallLists, NEW text \in Texts, NEW cutOff \in BOOLEAN,
            Responds(calls, text, cutOff)
      PROVE  GuardMoves
  BY <1>21 DEF Responds, Push, Guarded, CallsLeft, GuardMoves
<1>22. CASE StartCall \/ ExecuteCall
  BY <1>22 DEF GuardMoves
<1>23. CASE UNCHANGED vars
  BY <1>23 DEF vars, Guarded, CallsLeft, GuardMoves
<1>24. QED
  BY <1>1, <1>2, <1>3, <1>4, <1>5, <1>6, <1>7, <1>8, <1>9, <1>10, <1>11, <1>12, <1>13,
     <1>14, <1>15, <1>16, <1>17, <1>18, <1>19, <1>20, <1>21, <1>22, <1>23 DEF Next,
     Turn, Stream

\* Every step keeps the guard's invariant.
LEMMA NextGuardInv ==
  ASSUME GuardInv, [Next]_vars PROVE GuardInv'
<1> USE BoundsAssumption DEF GuardInv, PendingOK, GuardOK, StreakIsAhead
<1>1. CASE Guarded /\ CallsLeft
  <2>1. PendingOK'
    <3>1. CASE pending' = pending
      BY <1>1, <3>1 DEF Guarded
    <3>2. CASE pending' = <<>> /\ pc' # "execute"
      BY <3>2, EmptySeq
    <3>3. CASE pending' \in CallLists /\ pc' # "execute"
      BY <3>3, CallsAssumption DEF CallType
    <3>4. CASE pending # <<>> /\ pending' = Tail(pending) /\ pc' # "execute"
      BY <3>4, FirstTaken
    <3>5. QED
      BY <1>1, <3>1, <3>2, <3>3, <3>4 DEF CallsLeft
  <2>2. QED
    BY <1>1, <2>1 DEF Guarded
<1>2. CASE Fresh
  BY <1>2, EmptySeq DEF Fresh, NoCallYet, NoneExecuted
<1>3. CASE StartCall
  <2> DEFINE sig == Head(pending).sig
             g == Observed(sig)
  <2>1. /\ pending # <<>> /\ Proceeds(g) /\ pc' = "execute" /\ pending' = pending
        /\ guard' = [g EXCEPT !.warned = @ \/ Warns(g)]
        /\ executed' = IF executed.sig = g.last THEN executed
                       ELSE [sig |-> g.last, times |-> 0]
    BY <1>3 DEF StartCall
  <2>2. sig \in Signatures
    <3>1. Head(pending) \in CallType
      BY <2>1, FirstTaken
    <3>2. QED
      BY <3>1 DEF CallType
  <2>3. /\ g.last = sig /\ g.warned = guard.warned
        /\ g.streak = IF guard.last = sig THEN guard.streak + 1 ELSE 1
    BY DEF Observed
  <2>4. g \in [last : Signatures \cup {"none"}, streak : Nat, warned : BOOLEAN]
    BY <2>2 DEF Observed
  <2>5. g.streak <= Threshold
    BY <2>1, <2>4 DEF Proceeds, Warns
  <2> HIDE DEF g, sig
  <2>6. guard'.last = sig /\ guard'.streak = g.streak
    BY <2>1, <2>3, <2>4
  <2>7. (guard.warned \/ Warns(g)) \in BOOLEAN
    BY DEF Warns
  <2>8. guard' \in [last : Signatures \cup {"none"}, streak : Nat, warned : BOOLEAN]
    BY <2>1, <2>3, <2>4, <2>7
  <2>9. CASE executed.sig = sig
    <3>1. executed' = executed /\ guard.last = sig
      BY <2>1, <2>3, <2>9
    <3>2. guard'.streak = guard.streak + 1
      BY <2>3, <2>6, <3>1
    <3>3. QED
      BY <2>1, <2>5, <2>6, <2>8, <2>9, <3>1, <3>2
  <2>10. CASE executed.sig # sig
    <3>1. executed' = [sig |-> sig, times |-> 0] /\ guard.last # sig
      BY <2>1, <2>3, <2>10
    <3>2. guard'.streak = 1
      BY <2>3, <2>6, <3>1
    <3>3. executed' \in [sig : Signatures \cup {"none"}, times : Nat]
          /\ executed'.sig = sig /\ executed'.times = 0
      BY <2>2, <3>1
    <3>4. QED
      BY <2>1, <2>5, <2>6, <2>8, <3>2, <3>3
  <2>11. QED
    BY <2>9, <2>10
<1>4. CASE ExecuteCall
  <2>1. /\ pc = "execute" /\ pc' # "execute" /\ guard' = guard
        /\ pending' \in {<<>>, Tail(pending)}
        /\ \/ executed' = [executed EXCEPT !.times = executed.times + 1]
           \/ executed' = executed
    BY <1>4 DEF ExecuteCall, Push
  <2>2. pending' \in Seq(CallType)
    <3>1. pending # <<>> /\ pending \in Seq(CallType)
      BY <2>1
    <3>2. <<>> \in Seq(CallType) /\ Tail(pending) \in Seq(CallType)
      BY <3>1, EmptySeq, FirstTaken
    <3>3. QED
      BY <2>1, <3>2
  <2>3. /\ executed' \in [sig : Signatures \cup {"none"}, times : Nat]
        /\ executed'.sig = executed.sig
        /\ executed'.times \in {executed.times, executed.times + 1}
    BY <2>1
  <2>4. QED
    BY <2>1, <2>2, <2>3
<1>5. QED
  BY <1>1, <1>2, <1>3, <1>4, GuardMovesKnown DEF GuardMoves

\* LoopGuard (conversation.rs): whatever the model calls, whatever is rejected, denied or
\* fails in between and however the calls are spread over responses, an identical call is
\* executed at most LOOP_GUARD_THRESHOLD times in a row.
THEOREM RepeatedCallsAreStopped == Spec => []RepeatedCallsStop
<1>1. Init => GuardInv
  BY EmptySeq, BoundsAssumption
  DEF Init, GuardInv, PendingOK, GuardOK, StreakIsAhead, NoCallYet, NoneExecuted
<1>2. GuardInv /\ [Next]_vars => GuardInv'
  BY NextGuardInv
<1>3. GuardInv => RepeatedCallsStop
  BY BoundsAssumption DEF GuardInv, GuardOK, StreakIsAhead, RepeatedCallsStop
<1>4. QED
  BY <1>1, <1>2, <1>3, PTL DEF Spec
-----------------------------------------------------------------------------
(* Elements of sequences *)

ElementsOf(s) == {s[i] : i \in 1..Len(s)}
Elements(s, I) == {s[i] : i \in {i \in 1..Len(s) : i \in I}}
Distinct(s) == \A i, j \in 1..Len(s) : s[i] = s[j] => i = j

\* The elements of a sequence with one more at the end.
LEMMA ElementsOfAppend ==
  ASSUME NEW S, NEW s \in Seq(S), NEW e \in S
  PROVE  /\ ElementsOf(Append(s, e)) = ElementsOf(s) \cup {e}
         /\ Distinct(s) /\ e \notin ElementsOf(s) => Distinct(Append(s, e))
<1>1. PICK n \in Nat : n = Len(s)
  BY LenProperties
<1>2. PICK t \in Seq(S) : t = Append(s, e)
  BY AppendProperties
<1>3. /\ Len(t) = n + 1 /\ t[n + 1] = e
      /\ \A i \in 1..n : t[i] = s[i]
  BY <1>1, <1>2, AppendProperties
<1>4. 1..(n + 1) = 1..n \cup {n + 1}
  OBVIOUS
<1>5. ElementsOf(t) = {t[i] : i \in 1..n} \cup {t[n + 1]}
  BY <1>3, <1>4 DEF ElementsOf
<1>6. {t[i] : i \in 1..n} = ElementsOf(s)
  BY <1>1, <1>3 DEF ElementsOf
<1>7. ASSUME Distinct(s), e \notin ElementsOf(s), NEW i \in 1..(n + 1), NEW j \in 1..(n + 1),
             t[i] = t[j]
      PROVE  i = j
  <2>1. \A m \in 1..n : t[m] # e
    BY <1>1, <1>3, <1>7 DEF ElementsOf
  <2>2. CASE i \in 1..n /\ j \in 1..n
    BY <1>1, <1>3, <1>7, <2>2 DEF Distinct
  <2>3. CASE i = n + 1 /\ j # n + 1
    BY <1>3, <1>7, <2>1, <2>3
  <2>4. CASE i # n + 1 /\ j = n + 1
    BY <1>3, <1>7, <2>1, <2>4
  <2>5. QED
    BY <1>4, <2>2, <2>3, <2>4
<1>8. Distinct(s) /\ e \notin ElementsOf(s) => Distinct(t)
  BY <1>3, <1>7 DEF Distinct
<1>9. QED
  BY <1>2, <1>3, <1>5, <1>6, <1>8

\* The elements kept are those at the places, in order: none of another place, and none
\* twice that is at one place only.
LEMMA KeptElements ==
  ASSUME NEW S, NEW s \in Seq(S), NEW I,
         \A i, j \in 1..Len(s) : i \in I /\ j \in I /\ s[i] = s[j] => i = j
  PROVE  /\ Kept(s, I) \in Seq(S) /\ Distinct(Kept(s, I))
         /\ ElementsOf(Kept(s, I)) = Elements(s, I)
<1> DEFINE n == Len(s)
           A == Seq(S)
           kept == CHOOSE kept : kept = [m \in 0..Len(s) |->
                     IF m = 0 THEN <<>>
                     ELSE IF m \in I THEN Append(kept[m - 1], s[m])
                     ELSE kept[m - 1]]
           step == [x \in A \X (1..n) |->
                      IF x[2] \in I THEN Append(x[1], s[x[2]]) ELSE x[1]]
<1>1. n \in Nat /\ \A i \in 1..n : s[i] \in S
  BY LenProperties, ElementOfSeq
<1>2. PICK first \in A : first = <<>>
  BY EmptySeq
<1>3. step \in Steps(n, A)
  <2>1. ASSUME NEW x \in A \X (1..n)
        PROVE  (IF x[2] \in I THEN Append(x[1], s[x[2]]) ELSE x[1]) \in A
    <3>1. x[1] \in A /\ s[x[2]] \in S
      BY <1>1
    <3>2. Append(x[1], s[x[2]]) \in A
      BY <3>1, AppendProperties
    <3>3. QED
      BY <3>1, <3>2
  <2>2. QED
    BY <2>1 DEF Steps
<1>4. \A x \in A, k \in 1..n :
        step[<<x, k>>] = IF k \in I THEN Append(x, s[k]) ELSE x
  OBVIOUS
<1> HIDE DEF step, n, A
<1>5. PICK f \in [0..n -> A] : /\ f[0] = first
                               /\ \A k \in 1..n : f[k] = step[<<f[k - 1], k>>]
  <2>1. Stepped(n, A, first, step) # {}
    BY <1>1, <1>3, StepByStep
  <2>2. QED
    BY <2>1 DEF Stepped
<1>6. ASSUME NEW k \in 1..n
      PROVE  f[k] = IF k \in I THEN Append(f[k - 1], s[k]) ELSE f[k - 1]
  <2>1. k - 1 \in 0..n
    BY <1>1
  <2>2. f[k - 1] \in A
    BY <1>5, <2>1
  <2>3. QED
    BY <1>4, <1>5, <2>2
<1>7. f = [m \in 0..n |-> IF m = 0 THEN <<>>
                          ELSE IF m \in I THEN Append(f[m - 1], s[m])
                          ELSE f[m - 1]]
  <2>1. ASSUME NEW m \in 0..n
        PROVE  f[m] = IF m = 0 THEN <<>>
                      ELSE IF m \in I THEN Append(f[m - 1], s[m])
                      ELSE f[m - 1]
    <3>1. m = 0 \/ m \in 1..n
      BY <1>1
    <3>2. QED
      BY <1>2, <1>5, <1>6, <3>1
  <2>2. QED
    BY <1>5, <2>1
<1>8. kept = [m \in 0..n |-> IF m = 0 THEN <<>>
                             ELSE IF m \in I THEN Append(kept[m - 1], s[m])
                             ELSE kept[m - 1]]
  BY <1>7 DEF n
<1>9. Kept(s, I) = kept[n]
  BY Zenon DEF Kept, n
<1> HIDE DEF kept
<1>10. kept[0] = <<>>
  BY <1>1, <1>8
<1>11. ASSUME NEW k \in 1..n
       PROVE  kept[k] = IF k \in I THEN Append(kept[k - 1], s[k]) ELSE kept[k - 1]
  <2>1. k \in 0..n /\ k # 0
    BY <1>1
  <2>2. QED
    BY <1>8, <2>1
<1> DEFINE Upto(k) == {s[i] : i \in {i \in 1..k : i \in I}}
           Is(k) == /\ kept[k] \in Seq(S) /\ Distinct(kept[k])
                    /\ ElementsOf(kept[k]) = Upto(k)
           T == {k \in 0..n : Is(k)}
<1>12. Upto(0) = {}
  OBVIOUS
<1>13. \A k \in 1..n : Upto(k) = Upto(k - 1) \cup (IF k \in I THEN {s[k]} ELSE {})
  BY <1>1
<1>14. \A k \in 1..n : k \in I => s[k] \notin Upto(k - 1)
  BY <1>1 DEF n
<1> HIDE DEF Upto
<1>15. Is(0)
  <2>1. Len(<<>>) = 0 /\ <<>> \in Seq(S)
    BY EmptySeq
  <2>2. Distinct(<<>>) /\ ElementsOf(<<>>) = {}
    BY <2>1 DEF Distinct, ElementsOf
  <2>3. QED
    BY <1>10, <1>12, <2>1, <2>2
<1>16. ASSUME NEW k \in 1..n, Is(k - 1) PROVE Is(k)
  <2>1. PICK old \in Seq(S) : old = kept[k - 1]
    BY <1>16
  <2>2. Distinct(old) /\ ElementsOf(old) = Upto(k - 1)
    BY <1>16, <2>1
  <2>3. CASE k \in I
    <3>1. kept[k] = Append(old, s[k]) /\ s[k] \in S
      BY <1>1, <1>11, <2>1, <2>3
    <3>2. kept[k] \in Seq(S)
      BY <3>1, AppendProperties
    <3>3. ElementsOf(kept[k]) = Upto(k)
      <4>1. ElementsOf(kept[k]) = ElementsOf(old) \cup {s[k]}
        BY <3>1, ElementsOfAppend
      <4>2. Upto(k) = Upto(k - 1) \cup {s[k]}
        BY <1>13, <2>3
      <4>3. QED
        BY <2>2, <4>1, <4>2
    <3>4. s[k] \notin ElementsOf(old)
      BY <1>14, <2>2, <2>3
    <3>5. Distinct(kept[k])
      BY <2>2, <3>1, <3>4, ElementsOfAppend
    <3>6. QED
      BY <3>2, <3>3, <3>5
  <2>4. CASE k \notin I
    <3>1. kept[k] = old /\ Upto(k) = Upto(k - 1)
      BY <1>11, <1>13, <2>1, <2>4
    <3>2. QED
      BY <2>1, <2>2, <3>1
  <2>5. QED
    BY <2>3, <2>4
<1> HIDE DEF Is
<1>17. 0 \in T
  BY <1>1, <1>15
<1>18. \A k \in 1..n : k - 1 \in T => k \in T
  BY <1>1, <1>16
<1> HIDE DEF T
<1>19. \A k \in 0..n : k \in T
  BY <1>1, <1>17, <1>18, UpTo
<1>20. n \in 0..n
  BY <1>1
<1>21. n \in T
  BY <1>19, <1>20
<1>22. Is(n)
  BY <1>21 DEF T
<1>23. QED
  BY <1>9, <1>22 DEF Is, Elements, Upto, n

-----------------------------------------------------------------------------
(* Transcripts *)

MessageType == [role : {"user", "assistant", "tool", "system"}, ids : Seq(CallIds),
                blank : BOOLEAN]
\* A result answers one call.
Messages == {m \in MessageType : m.role = "tool" => Len(m.ids) = 1}
Closed(s) == AllCallsAnswered(s) /\ NoStrayResult(s)

\* The elements of a sequence, by its domain or by its length.
LEMMA SetOfElements ==
  ASSUME NEW S, NEW s \in Seq(S)
  PROVE  SetOf(s) = ElementsOf(s) /\ DOMAIN s = 1..Len(s)
BY LenProperties DEF SetOf, ElementsOf

\* The messages the runtime writes itself.
LEMMA OwnMessages ==
  /\ User \in Messages /\ Note \in Messages /\ Summary \in Messages
  /\ \A id \in CallIds : Result(id) \in Messages /\ Result(id).role = "tool"
                         /\ Result(id).ids[1] = id
  /\ \A ids \in Seq(CallIds), blank \in BOOLEAN : Assistant(ids, blank) \in Messages
<1>1. <<>> \in Seq(CallIds)
  BY EmptySeq
<1>2. ASSUME NEW id \in CallIds
      PROVE  Result(id) \in Messages /\ Result(id).role = "tool" /\ Result(id).ids[1] = id
  <2>1. <<id>> \in Seq(CallIds) /\ Len(<<id>>) = 1 /\ (<<id>>)[1] = id
    OBVIOUS
  <2>2. QED
    BY <2>1 DEF Result, Message, Messages, MessageType
<1>3. ASSUME NEW ids \in Seq(CallIds), NEW blank \in BOOLEAN
      PROVE  Assistant(ids, blank) \in Messages
  BY DEF Assistant, Message, Messages, MessageType
<1>4. User \in Messages /\ Summary \in Messages
  BY <1>1 DEF User, Summary, Message, Messages, MessageType
<1>5. QED
  BY <1>1, <1>2, <1>3, <1>4 DEF Note

\* What answers a message is the same in two transcripts that are the same up to there,
\* and in which the results end there.
LEMMA AnswersSame ==
  ASSUME NEW s, NEW t, Len(s) \in Nat, Len(t) \in Nat,
         NEW n \in Nat, n <= Len(s), n <= Len(t),
         \A k \in 1..n : t[k] = s[k],
         n = Len(s) \/ s[n + 1].role # "tool",
         n = Len(t) \/ t[n + 1].role # "tool"
  PROVE  \A i \in 1..n : Answers(t, i) = Answers(s, i)
<1> SUFFICES ASSUME NEW i \in 1..n PROVE Answers(t, i) = Answers(s, i)
  OBVIOUS
<1> DEFINE In(u) == {j \in (i + 1)..Len(u) : \A k \in (i + 1)..j : u[k].role = "tool"}
<1>1. \A j \in In(s) : j \in (i + 1)..n
  BY DEF In
<1>2. \A j \in In(t) : j \in (i + 1)..n
  BY DEF In
<1>3. In(s) = In(t)
  <2>1. ASSUME NEW j \in (i + 1)..n
        PROVE  /\ j \in (i + 1)..Len(s) /\ j \in (i + 1)..Len(t)
               /\ \A k \in (i + 1)..j : t[k] = s[k]
    OBVIOUS
  <2>2. \A j \in In(s) : j \in In(t)
    BY <1>1, <2>1 DEF In
  <2>3. \A j \in In(t) : j \in In(s)
    BY <1>2, <2>1 DEF In
  <2>4. QED
    BY <2>2, <2>3
<1>4. \A j \in In(s) : s[j] = t[j]
  BY <1>1
<1> HIDE DEF In
<1>5. {s[j].ids[1] : j \in In(s)} = {t[j].ids[1] : j \in In(t)}
  BY <1>3, <1>4
<1>6. QED
  BY <1>5 DEF Answers, In

\* The results at the end answer the message before them.
LEMMA AnswersAtTheEnd ==
  ASSUME NEW s, Len(s) \in Nat, NEW a \in 1..Len(s),
         \A j \in (a + 1)..Len(s) : s[j].role = "tool"
  PROVE  Answers(s, a) = {s[j].ids[1] : j \in (a + 1)..Len(s)}
<1>1. {j \in (a + 1)..Len(s) : \A k \in (a + 1)..j : s[k].role = "tool"} = (a + 1)..Len(s)
  OBVIOUS
<1>2. QED
  BY <1>1 DEF Answers

OpenType == [calls : Seq(CallIds), answered : SUBSET CallIds]

\* The calls of a message are tracked once each.
LEMMA TrackedCalls ==
  ASSUME NEW ids \in Seq(CallIds)
  PROVE  /\ Track(ids) \in OpenType /\ Distinct(Track(ids).calls)
         /\ Track(ids).answered = {} /\ ElementsOf(Track(ids).calls) = ElementsOf(ids)
<1> DEFINE first == {i \in DOMAIN ids : \A j \in 1..(i - 1) : ids[j] # ids[i]}
<1>1. Len(ids) \in Nat /\ DOMAIN ids = 1..Len(ids)
  BY LenProperties
<1>2. \A i, j \in 1..Len(ids) : i \in first /\ j \in first /\ ids[i] = ids[j] => i = j
  BY <1>1
<1>3. Elements(ids, first) = ElementsOf(ids)
  <2>1. ASSUME NEW x \in ElementsOf(ids) PROVE x \in Elements(ids, first)
    <3>1. Places(ids, x) \in SUBSET Nat /\ Places(ids, x) # {}
      BY <1>1, <2>1 DEF Places, ElementsOf
    <3>2. PICK i \in Places(ids, x) : \A m \in Places(ids, x) : i <= m
      BY <3>1, FirstOfNumbers
    <3>3. i \in 1..Len(ids) /\ ids[i] = x /\ \A j \in 1..(i - 1) : ids[j] # ids[i]
      BY <1>1, <3>2 DEF Places
    <3>4. i \in first
      BY <1>1, <3>3
    <3> HIDE DEF first
    <3>5. QED
      BY <3>3, <3>4 DEF Elements
  <2>2. ASSUME NEW x \in Elements(ids, first) PROVE x \in ElementsOf(ids)
    BY <2>2 DEF Elements, ElementsOf
  <2>3. QED
    BY <2>1, <2>2
<1>4. Track(ids) = [calls |-> Kept(ids, first), answered |-> {}]
  BY DEF Track
<1> HIDE DEF first
<1>5. /\ Kept(ids, first) \in Seq(CallIds) /\ Distinct(Kept(ids, first))
      /\ ElementsOf(Kept(ids, first)) = ElementsOf(ids)
  BY <1>2, <1>3, KeptElements
<1>6. QED
  BY <1>4, <1>5 DEF OpenType

\* Flushing gives the calls without a result one each.
LEMMA FlushedCalls ==
  ASSUME NEW open \in OpenType, Distinct(open.calls)
  PROVE  /\ Flush(open) \in Seq(Messages)
         /\ \A k \in 1..Len(Flush(open)) : Flush(open)[k].role = "tool"
         /\ \A k, l \in 1..Len(Flush(open)) :
              Flush(open)[k].ids[1] = Flush(open)[l].ids[1] => k = l
         /\ {Flush(open)[k].ids[1] : k \in 1..Len(Flush(open))} =
              ElementsOf(open.calls) \ open.answered
<1> DEFINE missing == {i \in DOMAIN open.calls : open.calls[i] \notin open.answered}
<1>1. PICK calls \in Seq(CallIds) : calls = open.calls
  BY DEF OpenType
<1>2. Len(calls) \in Nat /\ DOMAIN calls = 1..Len(calls)
  BY LenProperties
<1>3. \A i, j \in 1..Len(calls) : i \in missing /\ j \in missing /\ calls[i] = calls[j] => i = j
  BY <1>1 DEF Distinct
<1>4. Elements(calls, missing) = ElementsOf(calls) \ open.answered
  BY <1>1, <1>2 DEF Elements, ElementsOf
<1>5. PICK kept \in Seq(CallIds) : kept = Kept(calls, missing)
  BY <1>3, KeptElements
<1>6. Flush(open) = [i \in DOMAIN kept |-> Result(kept[i])]
  BY <1>1, <1>5 DEF Flush
<1> HIDE DEF missing
<1>7. Distinct(kept) /\ ElementsOf(kept) = ElementsOf(calls) \ open.answered
  BY <1>3, <1>4, <1>5, KeptElements
<1>8. PICK n \in Nat : n = Len(kept) /\ DOMAIN kept = 1..n
  BY LenProperties
<1>9. \A i \in 1..n : kept[i] \in CallIds
  BY <1>8, ElementOfSeq
<1>10. PICK f : f = [i \in 1..n |-> Result(kept[i])]
  OBVIOUS
<1>11. \A i \in 1..n : /\ f[i] \in Messages /\ f[i].role = "tool" /\ f[i].ids[1] = kept[i]
  BY <1>9, <1>10, OwnMessages
<1>12. f \in Seq(Messages) /\ Len(f) = n
  BY <1>10, <1>11
<1>13. \A k, l \in 1..n : f[k].ids[1] = f[l].ids[1] => k = l
  BY <1>7, <1>8, <1>11 DEF Distinct
<1>14. {f[k].ids[1] : k \in 1..n} = ElementsOf(kept)
  BY <1>8, <1>11 DEF ElementsOf
<1>15. Flush(open) = f
  BY <1>6, <1>8, <1>10
<1>16. QED
  BY SMTT(60), <1>1, <1>7, <1>11, <1>12, <1>13, <1>14, <1>15

(* normalize_messages *)

\* What was read so far is in order: everything before the last message that is no result
\* is answered, and the open calls and their results are those of that message.
Reading(out, open, a) ==
  /\ a = 0 => Len(out) = 0
  /\ a > 0 => out[a].role # "tool"
  /\ \A j \in (a + 1)..Len(out) : out[j].role = "tool"
  /\ \A i \in 1..(a - 1) : out[i].role = "assistant" => Answers(out, i) = SetOf(out[i].ids)
  /\ IF a > 0 /\ out[a].role = "assistant"
     THEN ElementsOf(open.calls) = SetOf(out[a].ids) ELSE open.calls = <<>>
  /\ open.answered = {out[j].ids[1] : j \in (a + 1)..Len(out)}
  /\ open.answered \subseteq ElementsOf(open.calls)

Read == {acc \in [out : Seq(Messages), open : OpenType] :
           /\ Distinct(acc.open.calls) /\ NoStrayResult(acc.out)
           /\ \E a \in 0..Len(acc.out) : Reading(acc.out, acc.open, a)}

\* A result that is no stray in a transcript is none in a longer one.
LEMMA StillNoStray ==
  ASSUME NEW s, NEW t, Len(s) \in Nat, Len(t) \in Nat, Len(s) <= Len(t),
         \A k \in 1..Len(s) : t[k] = s[k], DOMAIN s = 1..Len(s), DOMAIN t = 1..Len(t),
         NoStrayResult(s),
         \A j \in (Len(s) + 1)..Len(t) : t[j].role = "tool" =>
           \E i \in 1..(j - 1) :
             /\ t[i].role = "assistant" /\ t[j].ids[1] \in SetOf(t[i].ids)
             /\ \A k \in (i + 1)..(j - 1) : t[k].role = "tool" /\ t[k].ids # t[j].ids
  PROVE  NoStrayResult(t)
<1> SUFFICES ASSUME NEW j \in 1..Len(t), t[j].role = "tool"
             PROVE  \E i \in 1..(j - 1) :
               /\ t[i].role = "assistant" /\ t[j].ids[1] \in SetOf(t[i].ids)
               /\ \A k \in (i + 1)..(j - 1) : t[k].role = "tool" /\ t[k].ids # t[j].ids
  BY DEF NoStrayResult
<1>1. CASE j \in 1..Len(s)
  <2>1. s[j] = t[j]
    BY <1>1
  <2>2. PICK i \in 1..(j - 1) :
          /\ s[i].role = "assistant" /\ s[j].ids[1] \in SetOf(s[i].ids)
          /\ \A k \in (i + 1)..(j - 1) : s[k].role = "tool" /\ s[k].ids # s[j].ids
    BY <1>1, <2>1 DEF NoStrayResult
  <2>3. s[i] = t[i] /\ \A k \in (i + 1)..(j - 1) : s[k] = t[k]
    BY <1>1
  <2>4. \A k \in (i + 1)..(j - 1) : t[k].role = "tool" /\ t[k].ids # t[j].ids
    BY <2>1, <2>2, <2>3
  <2>5. t[i].role = "assistant" /\ t[j].ids[1] \in SetOf(t[i].ids)
    BY <2>1, <2>2, <2>3
  <2>6. QED
    BY <2>4, <2>5
<1>2. CASE j \in (Len(s) + 1)..Len(t)
  BY <1>2
<1>3. QED
  BY <1>1, <1>2

\* Flushing the open calls closes what was read.
LEMMA FlushCloses ==
  ASSUME NEW acc \in Read
  PROVE  acc.out \o Flush(acc.open) \in Seq(Messages) /\ Closed(acc.out \o Flush(acc.open))
<1>1. PICK out \in Seq(Messages), open \in OpenType : out = acc.out /\ open = acc.open
  BY DEF Read
<1>2. /\ Distinct(open.calls) /\ NoStrayResult(out)
      /\ \E a \in 0..Len(out) : Reading(out, open, a)
  BY <1>1 DEF Read
<1>3. PICK f \in Seq(Messages) : f = Flush(open)
  BY <1>2, FlushedCalls
<1>4. /\ \A k \in 1..Len(f) : f[k].role = "tool"
      /\ \A k, l \in 1..Len(f) : f[k].ids[1] = f[l].ids[1] => k = l
      /\ {f[k].ids[1] : k \in 1..Len(f)} = ElementsOf(open.calls) \ open.answered
  BY <1>2, <1>3, FlushedCalls
<1>5. PICK n \in Nat, m \in Nat : n = Len(out) /\ m = Len(f)
  BY LenProperties
<1>6. PICK t \in Seq(Messages) : t = out \o f
  BY ConcatProperties
<1>7. /\ Len(t) = n + m
      /\ \A i \in 1..n : t[i] = out[i]
      /\ \A i \in (n + 1)..(n + m) : t[i] = f[i - n]
  BY <1>5, <1>6, ConcatProperties
<1>8. PICK a \in 0..n : Reading(out, open, a)
  BY <1>2, <1>5
<1>9. ASSUME m > 0 PROVE a \in 1..n /\ out[a].role = "assistant"
  <2>1. f[1].ids[1] \in ElementsOf(open.calls)
    BY <1>4, <1>5, <1>9
  <2>2. open.calls # <<>>
    <3>1. ElementsOf(<<>>) = {}
      BY EmptySeq DEF ElementsOf
    <3>2. QED
      BY <2>1, <3>1
  <2>3. QED
    BY <1>8, <2>2 DEF Reading
<1>10. \A j \in (a + 1)..Len(t) : t[j].role = "tool"
  <2> SUFFICES ASSUME NEW j \in (a + 1)..(n + m) PROVE t[j].role = "tool"
    BY <1>7
  <2>1. CASE j <= n
    BY <1>5, <1>7, <1>8, <2>1 DEF Reading
  <2>2. CASE j > n
    <3>1. j - n \in 1..m /\ t[j] = f[j - n]
      BY SMTT(60), <1>7, <2>2
    <3>2. QED
      BY <1>4, <1>5, <3>1
  <2>3. QED
    BY <2>1, <2>2
<1>11. a \in 1..n => {t[j].ids[1] : j \in (a + 1)..(n + m)} =
                       open.answered \cup (ElementsOf(open.calls) \ open.answered)
  <2> SUFFICES ASSUME a \in 1..n
               PROVE  {t[j].ids[1] : j \in (a + 1)..(n + m)} =
                        open.answered \cup (ElementsOf(open.calls) \ open.answered)
    OBVIOUS
  <2>1. {t[j].ids[1] : j \in (a + 1)..n} = open.answered
    <3>1. \A j \in (a + 1)..n : t[j] = out[j]
      BY <1>7
    <3>2. QED
      BY SMTT(30), <1>5, <1>8, <3>1 DEF Reading
  <2>2. {t[j].ids[1] : j \in (n + 1)..(n + m)} = ElementsOf(open.calls) \ open.answered
    <3>1. {t[j].ids[1] : j \in (n + 1)..(n + m)} = {f[k].ids[1] : k \in 1..m}
      <4>1. \A j \in (n + 1)..(n + m) : j - n \in 1..m /\ t[j] = f[j - n]
        BY <1>7
      <4>2. \A k \in 1..m : k + n \in (n + 1)..(n + m) /\ t[k + n] = f[k]
        BY <1>7
      <4>3. \A x \in {t[j].ids[1] : j \in (n + 1)..(n + m)} : x \in {f[k].ids[1] : k \in 1..m}
        BY SMTT(60), <4>1
      <4>4. \A x \in {f[k].ids[1] : k \in 1..m} : x \in {t[j].ids[1] : j \in (n + 1)..(n + m)}
        BY SMTT(60), <4>2
      <4>5. QED
        BY <4>3, <4>4
    <3>2. QED
      BY <1>4, <1>5, <3>1
  <2>3. (a + 1)..(n + m) = ((a + 1)..n) \cup ((n + 1)..(n + m))
    OBVIOUS
  <2>4. QED
    BY <2>1, <2>2, <2>3
<1>12. AllCallsAnswered(t)
  <2> SUFFICES ASSUME NEW i \in 1..(n + m), t[i].role = "assistant"
               PROVE  Answers(t, i) = SetOf(t[i].ids)
    BY <1>6, <1>7, LenProperties DEF AllCallsAnswered
  <2>1. CASE i < a
    <3>1. PICK b \in Nat : b = a - 1
      BY <2>1
    <3>2. /\ b <= Len(out) /\ b <= Len(t) /\ i \in 1..b /\ a \in 1..n /\ b + 1 = a
          /\ Len(out) \in Nat /\ Len(t) \in Nat
      BY <1>5, <1>7, <2>1, <3>1
    <3>3. \A k \in 1..b : t[k] = out[k]
      BY <1>7, <3>2
    <3>4. out[b + 1].role # "tool" /\ t[b + 1].role # "tool"
      <4>1. out[a].role # "tool" /\ t[a] = out[a]
        BY <1>7, <1>8, <3>2 DEF Reading
      <4>2. QED
        BY <3>2, <4>1
    <3>5. Answers(t, i) = Answers(out, i)
      BY <3>2, <3>3, <3>4, AnswersSame
    <3>6. t[i] = out[i] /\ i \in 1..(a - 1)
      BY <1>7, <2>1
    <3>7. QED
      BY <1>8, <3>5, <3>6 DEF Reading
  <2>2. CASE i = a
    <3>1. a \in 1..n /\ t[a] = out[a]
      BY <1>7, <2>2
    <3>2. Answers(t, a) = {t[j].ids[1] : j \in (a + 1)..(n + m)}
      <4>1. Len(t) \in Nat /\ a \in 1..Len(t)
        BY <1>7, <3>1
      <4>2. QED
        BY <1>7, <1>10, <4>1, AnswersAtTheEnd
    <3>3. ElementsOf(open.calls) = SetOf(out[a].ids) /\ open.answered \subseteq ElementsOf(open.calls)
      BY <1>8, <2>2, <3>1 DEF Reading
    <3>4. QED
      BY <1>11, <2>2, <3>1, <3>2, <3>3
  <2>3. CASE i > a
    BY SMTT(30), <1>7, <1>10, <2>3
  <2>4. QED
    BY <2>1, <2>2, <2>3
<1>13. NoStrayResult(t)
  <2>1. ASSUME NEW j \in (n + 1)..(n + m)
        PROVE  \E i \in 1..(j - 1) :
                 /\ t[i].role = "assistant" /\ t[j].ids[1] \in SetOf(t[i].ids)
                 /\ \A k \in (i + 1)..(j - 1) : t[k].role = "tool" /\ t[k].ids # t[j].ids
    <3>1. a \in 1..n /\ out[a].role = "assistant" /\ t[a] = out[a] /\ a \in 1..(j - 1)
      BY <1>7, <1>9
    <3>2. j - n \in 1..m /\ t[j] = f[j - n]
      BY <1>7
    <3>3. t[j].ids[1] \in ElementsOf(open.calls) \ open.answered
      BY <1>4, <1>5, <3>2
    <3>4. ElementsOf(open.calls) = SetOf(out[a].ids)
      BY <1>8, <3>1 DEF Reading
    <3>5. ASSUME NEW k \in (a + 1)..(j - 1)
          PROVE  t[k].role = "tool" /\ t[k].ids # t[j].ids
      <4>1. t[k].role = "tool"
        BY <1>7, <1>10
      <4>2. CASE k <= n
        <5>1. t[k] = out[k] /\ k \in (a + 1)..n
          BY SMTT(60), <1>7, <3>1, <4>2
        <5>2. t[k].ids[1] \in open.answered
          BY <1>5, <1>8, <5>1 DEF Reading
        <5>3. QED
          BY <3>3, <4>1, <5>2
      <4>3. CASE k > n
        <5>0. k \in (n + 1)..(n + m) /\ k # j
          BY SMTT(60), <3>1, <4>3
        <5>1. k - n \in 1..m /\ t[k] = f[k - n] /\ k - n # j - n
          BY <1>7, <5>0
        <5>2. f[k - n].ids[1] # f[j - n].ids[1]
          BY <1>4, <1>5, <3>2, <5>1
        <5>3. QED
          BY <3>2, <4>1, <5>1, <5>2
      <4>4. QED
        BY <4>2, <4>3
    <3>6. QED
      BY <3>1, <3>3, <3>4, <3>5
  <2>2. DOMAIN out = 1..n /\ DOMAIN t = 1..(n + m)
    BY <1>5, <1>7, LenProperties
  <2>3. /\ Len(out) \in Nat /\ Len(t) \in Nat /\ Len(out) <= Len(t)
        /\ DOMAIN out = 1..Len(out) /\ DOMAIN t = 1..Len(t)
    BY <1>5, <1>7, <2>2
  <2>4. \A k \in 1..Len(out) : t[k] = out[k]
    BY <1>5, <1>7
  <2>5. \A j \in (Len(out) + 1)..Len(t) :
          \E i \in 1..(j - 1) :
            /\ t[i].role = "assistant" /\ t[j].ids[1] \in SetOf(t[i].ids)
            /\ \A k \in (i + 1)..(j - 1) : t[k].role = "tool" /\ t[k].ids # t[j].ids
    BY <1>5, <1>7, <2>1
  <2>6. QED
    BY <1>2, <2>3, <2>4, <2>5, StillNoStray
<1>14. QED
  BY <1>1, <1>3, <1>6, <1>12, <1>13 DEF Closed

\* Nothing is open before the first message, and after one that makes no call.
LEMMA NothingOpen ==
  /\ NoCalls \in OpenType /\ Distinct(NoCalls.calls) /\ ElementsOf(NoCalls.calls) = {}
  /\ NoCalls.calls = <<>> /\ NoCalls.answered = {}
<1>1. <<>> \in Seq(CallIds) /\ Len(<<>>) = 0
  BY EmptySeq
<1>2. Distinct(<<>>) /\ ElementsOf(<<>>) = {}
  BY <1>1 DEF Distinct, ElementsOf
<1>3. NoCalls.calls = <<>> /\ NoCalls.answered = {} /\ NoCalls \in OpenType
  BY <1>1 DEF NoCalls, OpenType
<1>4. QED
  BY <1>2, <1>3

\* A message that is no result closes what was read before it, and opens its own calls.
LEMMA ReadMessage ==
  ASSUME NEW w \in Seq(Messages), Closed(w), NEW m \in Messages, m.role # "tool",
         NEW open \in OpenType, Distinct(open.calls), open.answered = {},
         IF m.role = "assistant" THEN ElementsOf(open.calls) = SetOf(m.ids)
         ELSE open.calls = <<>>
  PROVE  [out |-> Append(w, m), open |-> open] \in Read
<1>1. PICK n \in Nat : n = Len(w) /\ DOMAIN w = 1..n
  BY LenProperties
<1>2. PICK t \in Seq(Messages) : t = Append(w, m)
  BY AppendProperties
<1>3. /\ Len(t) = n + 1 /\ t[n + 1] = m /\ DOMAIN t = 1..(n + 1)
      /\ \A i \in 1..n : t[i] = w[i]
  BY <1>1, <1>2, AppendProperties, LenProperties
<1>4. NoStrayResult(t)
  <2>1. /\ Len(w) \in Nat /\ Len(t) \in Nat /\ Len(w) <= Len(t)
        /\ DOMAIN w = 1..Len(w) /\ DOMAIN t = 1..Len(t)
    BY <1>1, <1>3
  <2>2. \A k \in 1..Len(w) : t[k] = w[k]
    BY <1>1, <1>3
  <2>3. \A j \in (Len(w) + 1)..Len(t) : t[j].role # "tool"
    BY <1>1, <1>3
  <2>4. NoStrayResult(w)
    BY DEF Closed
  <2>5. QED
    BY <2>1, <2>2, <2>3, <2>4, StillNoStray
<1>5. \A i \in 1..n : t[i].role = "assistant" => Answers(t, i) = SetOf(t[i].ids)
  <2>1. /\ Len(w) \in Nat /\ Len(t) \in Nat /\ n <= Len(w) /\ n <= Len(t)
        /\ n = Len(w)
    BY <1>1, <1>3
  <2>2. t[n + 1].role # "tool"
    BY <1>3
  <2>3. \A i \in 1..n : Answers(t, i) = Answers(w, i)
    BY ZenonT(60), <1>3, <2>1, <2>2, AnswersSame
  <2>4. \A i \in 1..n : w[i].role = "assistant" => Answers(w, i) = SetOf(w[i].ids)
    BY <1>1 DEF Closed, AllCallsAnswered
  <2>5. QED
    BY <1>3, <2>3, <2>4
<1>6. Reading(t, open, n + 1)
  <2>1. t[n + 1].role # "tool" /\ n + 1 > 0 /\ n + 1 # 0
    BY <1>3
  <2>2. \A j \in (n + 2)..Len(t) : FALSE
    BY <1>3
  <2>3. (n + 1) + 1 = n + 2 /\ (n + 1) - 1 = n
    OBVIOUS
  <2>4. open.answered = {t[j].ids[1] : j \in (n + 2)..Len(t)}
    BY <2>2
  <2>5. open.answered \subseteq ElementsOf(open.calls)
    OBVIOUS
  <2>6. IF t[n + 1].role = "assistant" THEN ElementsOf(open.calls) = SetOf(t[n + 1].ids)
        ELSE open.calls = <<>>
    BY <1>3
  <2>7. QED
    BY <1>5, <2>1, <2>2, <2>3, <2>4, <2>5, <2>6 DEF Reading
<1>7. n + 1 \in 0..Len(t)
  BY <1>3
<1>8. QED
  BY <1>2, <1>4, <1>6, <1>7 DEF Read

\* The first result of an open call stays, as one more answer.
LEMMA ReadResult ==
  ASSUME NEW acc \in Read, NEW m \in Messages, m.role = "tool",
         m.ids[1] \in ElementsOf(acc.open.calls) \ acc.open.answered
  PROVE  [out |-> Append(acc.out, m),
          open |-> [calls |-> acc.open.calls,
                    answered |-> acc.open.answered \cup {m.ids[1]}]] \in Read
<1>1. PICK out \in Seq(Messages), open \in OpenType : out = acc.out /\ open = acc.open
  BY DEF Read
<1>2. PICK n \in Nat : n = Len(out) /\ DOMAIN out = 1..n
  BY LenProperties
<1>3. PICK a \in 0..n : Reading(out, open, a)
  BY <1>1, <1>2 DEF Read
<1>4. PICK t \in Seq(Messages) : t = Append(out, m)
  BY AppendProperties
<1>5. /\ Len(t) = n + 1 /\ t[n + 1] = m /\ DOMAIN t = 1..(n + 1)
      /\ \A i \in 1..n : t[i] = out[i]
  BY <1>2, <1>4, AppendProperties, LenProperties
<1>6. PICK id : id = m.ids[1]
  OBVIOUS
<1>7. id \in ElementsOf(open.calls) /\ id \notin open.answered
  BY <1>1, <1>6
<1>8. a \in 1..n /\ out[a].role = "assistant" /\ ElementsOf(open.calls) = SetOf(out[a].ids)
  <2>1. open.calls # <<>>
    <3>1. ElementsOf(<<>>) = {}
      BY EmptySeq DEF ElementsOf
    <3>2. QED
      BY <1>7, <3>1
  <2>2. QED
    BY <1>3, <2>1 DEF Reading
<1>9. id \in CallIds
  <2>1. m.ids \in Seq(CallIds) /\ Len(m.ids) = 1
    BY DEF Messages, MessageType
  <2>2. QED
    BY <1>6, <2>1, ElementOfSeq
<1>10. \A k \in (a + 1)..n : t[k] = out[k] /\ t[k].role = "tool" /\ t[k].ids[1] \in open.answered
  BY <1>2, <1>3, <1>5 DEF Reading
<1>11. NoStrayResult(t)
  <2>1. /\ Len(out) \in Nat /\ Len(t) \in Nat /\ Len(out) <= Len(t)
        /\ DOMAIN out = 1..Len(out) /\ DOMAIN t = 1..Len(t)
    BY <1>2, <1>5
  <2>2. \A k \in 1..Len(out) : t[k] = out[k]
    BY <1>2, <1>5
  <2>3. ASSUME NEW j \in (Len(out) + 1)..Len(t)
        PROVE  \E i \in 1..(j - 1) :
                 /\ t[i].role = "assistant" /\ t[j].ids[1] \in SetOf(t[i].ids)
                 /\ \A k \in (i + 1)..(j - 1) : t[k].role = "tool" /\ t[k].ids # t[j].ids
    <3>1. j = n + 1 /\ t[j] = m
      BY <1>2, <1>5
    <3>2. t[a] = out[a] /\ a \in 1..(j - 1)
      BY <1>5, <1>8, <3>1
    <3>3. \A k \in (a + 1)..(j - 1) : t[k].role = "tool" /\ t[k].ids # t[j].ids
      BY <1>6, <1>7, <1>10, <3>1
    <3>4. t[j].ids[1] \in SetOf(t[a].ids)
      BY <1>6, <1>7, <1>8, <3>1, <3>2
    <3>5. QED
      BY <1>8, <3>2, <3>3, <3>4
  <2>4. NoStrayResult(out)
    BY <1>1 DEF Read
  <2>5. QED
    BY <2>1, <2>2, <2>3, <2>4, StillNoStray
<1> DEFINE now == [calls |-> open.calls, answered |-> open.answered \cup {id}]
<1>12. now \in OpenType /\ now.calls = open.calls /\ now.answered = open.answered \cup {id}
  BY <1>9 DEF OpenType
<1> HIDE DEF now
<1>13. Reading(t, now, a)
  <2>1. a # 0 /\ a > 0 /\ t[a] = out[a] /\ t[a].role # "tool" /\ t[a].role = "assistant"
    BY <1>5, <1>8
  <2>2. \A j \in (a + 1)..Len(t) : t[j].role = "tool"
    <3>1. \A j \in (a + 1)..Len(t) : j \in (a + 1)..n \/ j = n + 1
      BY <1>5
    <3>2. QED
      BY <1>5, <1>10, <3>1
  <2>3. ASSUME NEW i \in 1..(a - 1), t[i].role = "assistant"
        PROVE  Answers(t, i) = SetOf(t[i].ids)
    <3>1. PICK b \in Nat : b = a - 1 /\ b + 1 = a
      BY <1>8
    <3>2. /\ b <= Len(out) /\ b <= Len(t) /\ Len(out) \in Nat /\ Len(t) \in Nat
          /\ i \in 1..b /\ i \in 1..n
      BY <1>2, <1>5, <1>8, <3>1
    <3>3. out[b + 1].role # "tool" /\ t[b + 1].role # "tool"
      BY <1>8, <2>1, <3>1
    <3>4. \A k \in 1..b : t[k] = out[k]
      BY <1>2, <1>5, <3>2
    <3>5. Answers(t, i) = Answers(out, i)
      BY <3>2, <3>3, <3>4, AnswersSame
    <3>6. t[i] = out[i]
      BY <1>5, <3>2
    <3>7. QED
      BY <1>3, <2>3, <3>5, <3>6 DEF Reading
  <2>4. ElementsOf(now.calls) = SetOf(t[a].ids)
    BY <1>8, <1>12, <2>1
  <2>5. now.answered = {t[j].ids[1] : j \in (a + 1)..Len(t)}
    <3>1. (a + 1)..Len(t) = (a + 1)..n \cup {n + 1}
      <4>1. (a + 1)..(n + 1) = (a + 1)..n \cup {n + 1}
        BY <1>8
      <4>2. Len(t) = n + 1
        BY <1>5
      <4>3. QED
        BY <4>1, <4>2
    <3>2. {t[j].ids[1] : j \in (a + 1)..n} = open.answered
      BY <1>2, <1>3, <1>10 DEF Reading
    <3>3. t[n + 1].ids[1] = id
      BY <1>5, <1>6
    <3>4. {t[j].ids[1] : j \in (a + 1)..n \cup {n + 1}} = open.answered \cup {id}
      BY <3>2, <3>3
    <3>5. QED
      BY <1>12, <3>1, <3>4
  <2>6. now.answered \subseteq ElementsOf(now.calls)
    BY <1>3, <1>7, <1>12 DEF Reading
  <2>7. QED
    BY <2>1, <2>2, <2>3, <2>4, <2>5, <2>6 DEF Reading
<1>14. Distinct(now.calls)
  BY <1>1, <1>12 DEF Read
<1>15. a \in 0..Len(t)
  BY <1>5
<1>16. [out |-> t, open |-> now] \in Read
  BY <1>11, <1>12, <1>13, <1>14, <1>15 DEF Read
<1>17. QED
  BY <1>1, <1>4, <1>6, <1>16 DEF now

\* One more answer changes nothing else of what is open.
LEMMA OneMoreAnswer ==
  ASSUME NEW open \in OpenType, NEW id \in CallIds
  PROVE  [open EXCEPT !.answered = @ \cup {id}] =
           [calls |-> open.calls, answered |-> open.answered \cup {id}]
<1>1. PICK now \in SUBSET CallIds : now = open.answered \cup {id}
  BY DEF OpenType
<1>2. [open EXCEPT !.answered = now] = [calls |-> open.calls, answered |-> now]
  BY DEF OpenType
<1>3. QED
  BY <1>1, <1>2

\* Every message read keeps what was read in order.
LEMMA StepKeeps ==
  ASSUME NEW acc \in Read, NEW m \in Messages
  PROVE  Normalized1(acc, m) \in Read
<1>1. PICK w \in Seq(Messages) : w = acc.out \o Flush(acc.open) /\ Closed(w)
  BY FlushCloses
<1>2. m.ids \in Seq(CallIds)
  BY DEF Messages, MessageType
<1>3. CASE m.role = "assistant"
  <2>1. PICK open \in OpenType : open = Track(m.ids)
    BY <1>2, TrackedCalls
  <2>2. Distinct(open.calls) /\ open.answered = {} /\ ElementsOf(open.calls) = SetOf(m.ids)
    BY <1>2, <2>1, TrackedCalls, SetOfElements
  <2>3. [out |-> Append(w, m), open |-> open] \in Read
    BY <1>1, <1>3, <2>2, ReadMessage
  <2>4. Normalized1(acc, m) = [out |-> Append(w, m), open |-> open]
    BY <1>1, <1>3, <2>1 DEF Normalized1
  <2>5. QED
    BY <2>3, <2>4
<1>4. CASE m.role # "assistant" /\ m.role # "tool"
  <2>1. [out |-> Append(w, m), open |-> NoCalls] \in Read
    BY <1>1, <1>4, NothingOpen, ReadMessage
  <2>2. Normalized1(acc, m) = [out |-> Append(w, m), open |-> NoCalls]
    BY <1>1, <1>4 DEF Normalized1
  <2>3. QED
    BY <2>1, <2>2
<1>5. CASE m.role = "tool"
  <2>1. acc.open \in OpenType /\ acc.open.calls \in Seq(CallIds)
    BY DEF Read, OpenType
  <2>2. SetOf(acc.open.calls) = ElementsOf(acc.open.calls)
    BY <2>1, SetOfElements
  <2>3. m.ids[1] \in CallIds
    BY <1>2, <1>5, ElementOfSeq DEF Messages
  <2>4. CASE m.ids[1] \in SetOf(acc.open.calls) \ acc.open.answered
    <3>1. [acc.open EXCEPT !.answered = @ \cup {m.ids[1]}] =
            [calls |-> acc.open.calls, answered |-> acc.open.answered \cup {m.ids[1]}]
      BY <2>1, <2>3, OneMoreAnswer
    <3>2. Normalized1(acc, m) =
            [out |-> Append(acc.out, m),
             open |-> [acc.open EXCEPT !.answered = @ \cup {m.ids[1]}]]
      BY <1>5, <2>4 DEF Normalized1
    <3>3. m.ids[1] \in ElementsOf(acc.open.calls) \ acc.open.answered
      BY <2>2, <2>4
    <3>4. [out |-> Append(acc.out, m),
           open |-> [calls |-> acc.open.calls,
                     answered |-> acc.open.answered \cup {m.ids[1]}]] \in Read
      BY <1>5, <3>3, ReadResult
    <3>5. QED
      BY <3>1, <3>2, <3>4
  <2>5. CASE m.ids[1] \notin SetOf(acc.open.calls) \ acc.open.answered
    BY <1>5, <2>5 DEF Normalized1
  <2>6. QED
    BY <2>4, <2>5
<1>6. QED
  BY <1>3, <1>4, <1>5

\* The beginning of a transcript is closed when what follows it is no result.
LEMMA BeginningIsClosed ==
  ASSUME NEW s \in Seq(Messages), Closed(s), NEW e \in 0..Len(s),
         e = Len(s) \/ s[e + 1].role # "tool"
  PROVE  SubSeq(s, 1, e) \in Seq(Messages) /\ Closed(SubSeq(s, 1, e))
<1>1. PICK n \in Nat : n = Len(s) /\ DOMAIN s = 1..n
  BY LenProperties
<1>2. PICK t : t = SubSeq(s, 1, e)
  OBVIOUS
<1>3. t \in Seq(Messages) /\ Len(t) = e /\ DOMAIN t = 1..e /\ \A i \in 1..e : t[i] = s[i]
  <2>1. t \in Seq(Messages) /\ Len(t) = e /\ \A i \in 1..e : t[i] = s[i]
    BY <1>1, <1>2
  <2>2. QED
    BY <2>1, LenProperties
<1>4. e \in Nat /\ e <= n
  BY <1>1
<1>5. \A i \in 1..e : Answers(t, i) = Answers(s, i)
  <2>1. /\ Len(s) \in Nat /\ Len(t) \in Nat /\ e \in Nat /\ e <= Len(s) /\ e <= Len(t)
        /\ e = Len(t)
    BY <1>1, <1>3, <1>4
  <2>2. QED
    BY <1>3, <2>1, AnswersSame
<1>6. AllCallsAnswered(t)
  <2>1. \A i \in 1..n : s[i].role = "assistant" => Answers(s, i) = SetOf(s[i].ids)
    BY <1>1 DEF Closed, AllCallsAnswered
  <2>2. \A i \in 1..e : i \in 1..n
    BY <1>4
  <2>3. QED
    BY <1>3, <1>5, <2>1, <2>2 DEF AllCallsAnswered
<1>7. NoStrayResult(t)
  <2> SUFFICES ASSUME NEW j \in 1..e, t[j].role = "tool"
               PROVE  \E i \in 1..(j - 1) :
                 /\ t[i].role = "assistant" /\ t[j].ids[1] \in SetOf(t[i].ids)
                 /\ \A k \in (i + 1)..(j - 1) : t[k].role = "tool" /\ t[k].ids # t[j].ids
    BY <1>3 DEF NoStrayResult
  <2>1. j \in 1..n /\ s[j] = t[j]
    BY <1>3, <1>4
  <2>2. PICK i \in 1..(j - 1) :
          /\ s[i].role = "assistant" /\ s[j].ids[1] \in SetOf(s[i].ids)
          /\ \A k \in (i + 1)..(j - 1) : s[k].role = "tool" /\ s[k].ids # s[j].ids
    BY <1>1, <2>1 DEF Closed, NoStrayResult
  <2>3. \A k \in i..(j - 1) : k \in 1..e
    BY <1>4
  <2>4. i \in 1..e /\ s[i] = t[i]
    BY <1>3, <1>4
  <2>5. \A k \in (i + 1)..(j - 1) : t[k].role = "tool" /\ t[k].ids # t[j].ids
    BY <1>3, <2>1, <2>2, <2>3
  <2>6. QED
    BY <2>1, <2>2, <2>4, <2>5
<1>8. QED
  BY <1>2, <1>3, <1>6, <1>7 DEF Closed

\* What is dropped is the blank replies at the end, all of them and nothing else.
LEMMA BlankTail ==
  ASSUME NEW S, NEW s \in Seq(S)
  PROVE  \E e \in 0..Len(s) :
           /\ DropBlankTail(s) = SubSeq(s, 1, e)
           /\ \A k \in (e + 1)..Len(s) : IsBlankReply(s[k])
           /\ e = 0 \/ ~IsBlankReply(s[e])
<1> DEFINE n == Len(s)
           A == Nat
           kept == CHOOSE kept : kept = [m \in 0..Len(s) |->
                     IF m > 0 /\ IsBlankReply(s[m]) THEN kept[m - 1] ELSE m]
           step == [x \in A \X (1..n) |-> IF IsBlankReply(s[x[2]]) THEN x[1] ELSE x[2]]
<1>1. n \in Nat
  BY LenProperties
<1>2. step \in Steps(n, A)
  BY <1>1 DEF Steps
<1>3. \A x \in A, k \in 1..n : step[<<x, k>>] = IF IsBlankReply(s[k]) THEN x ELSE k
  OBVIOUS
<1>4. 0 \in A
  OBVIOUS
<1> HIDE DEF step, n, A
<1>5. PICK f \in [0..n -> A] : /\ f[0] = 0
                               /\ \A k \in 1..n : f[k] = step[<<f[k - 1], k>>]
  <2>1. Stepped(n, A, 0, step) # {}
    BY <1>1, <1>2, <1>4, StepByStep
  <2>2. QED
    BY <2>1 DEF Stepped
<1>6. ASSUME NEW k \in 1..n
      PROVE  f[k] = IF IsBlankReply(s[k]) THEN f[k - 1] ELSE k
  <2>1. k - 1 \in 0..n
    BY <1>1
  <2>2. f[k - 1] \in A
    BY <1>5, <2>1
  <2>3. QED
    BY <1>3, <1>5, <2>2
<1>7. f = [m \in 0..n |-> IF m > 0 /\ IsBlankReply(s[m]) THEN f[m - 1] ELSE m]
  <2>1. ASSUME NEW m \in 0..n
        PROVE  f[m] = IF m > 0 /\ IsBlankReply(s[m]) THEN f[m - 1] ELSE m
    <3>1. CASE m = 0
      BY <1>5, <3>1
    <3>2. CASE m # 0
      <4>1. m \in 1..n /\ m > 0
        BY <1>1, <3>2
      <4>2. QED
        BY <1>6, <4>1
    <3>3. QED
      BY <3>1, <3>2
  <2>2. QED
    BY <1>5, <2>1
<1>8. kept = [m \in 0..n |-> IF m > 0 /\ IsBlankReply(s[m]) THEN kept[m - 1] ELSE m]
  BY <1>7 DEF n
<1>9. DropBlankTail(s) = SubSeq(s, 1, kept[n])
  BY Zenon DEF DropBlankTail, n
<1> HIDE DEF kept
<1> DEFINE Is(k) == /\ kept[k] \in 0..k
                    /\ \A i \in (kept[k] + 1)..k : IsBlankReply(s[i])
                    /\ kept[k] = 0 \/ ~IsBlankReply(s[kept[k]])
           T == {k \in 0..n : Is(k)}
<1>10. Is(0)
  <2>1. kept[0] = 0
    BY <1>1, <1>8
  <2>2. QED
    BY <2>1
<1>11. ASSUME NEW k \in 1..n, Is(k - 1) PROVE Is(k)
  <2>1. k \in 0..n /\ k > 0 /\ k \in Nat
    BY <1>1
  <2>2. CASE IsBlankReply(s[k])
    <3>1. kept[k] = kept[k - 1]
      BY <1>8, <2>1, <2>2
    <3>2. PICK e : e = kept[k - 1]
      OBVIOUS
    <3>3. /\ e \in 0..(k - 1) /\ (e = 0 \/ ~IsBlankReply(s[e]))
          /\ \A i \in (e + 1)..(k - 1) : IsBlankReply(s[i])
      BY <1>11, <3>2
    <3>4. \A i \in (e + 1)..k : i = k \/ i \in (e + 1)..(k - 1)
      BY <2>1, <3>3
    <3>5. e \in 0..k
      BY <2>1, <3>3
    <3>6. QED
      BY <2>2, <3>1, <3>2, <3>3, <3>4, <3>5
  <2>3. CASE ~IsBlankReply(s[k])
    <3>1. kept[k] = k
      BY <1>8, <2>1, <2>3
    <3>2. \A i \in (k + 1)..k : FALSE
      BY <2>1
    <3>3. QED
      BY <2>1, <2>3, <3>1, <3>2
  <2>4. QED
    BY <2>2, <2>3
<1> HIDE DEF Is
<1>12. 0 \in T
  BY <1>1, <1>10
<1>13. \A k \in 1..n : k - 1 \in T => k \in T
  BY <1>1, <1>11
<1> HIDE DEF T
<1>14. \A k \in 0..n : k \in T
  BY <1>1, <1>12, <1>13, UpTo
<1>15. n \in T
  BY <1>1, <1>14
<1>16. Is(n)
  BY <1>15 DEF T
<1>17. QED
  BY <1>9, <1>16 DEF Is, n

\* Dropping blank replies at the end leaves a closed transcript closed: what is left ends
\* before one of them, if not at the end.
LEMMA BlankTailDropped ==
  ASSUME NEW s \in Seq(Messages), Closed(s)
  PROVE  DropBlankTail(s) \in Seq(Messages) /\ Closed(DropBlankTail(s))
<1>1. PICK e \in 0..Len(s) : /\ DropBlankTail(s) = SubSeq(s, 1, e)
                             /\ \A k \in (e + 1)..Len(s) : IsBlankReply(s[k])
  BY BlankTail
<1>2. e = Len(s) \/ s[e + 1].role # "tool"
  <2>1. CASE e # Len(s)
    <3>1. Len(s) \in Nat
      BY LenProperties
    <3>2. e + 1 \in (e + 1)..Len(s)
      BY <2>1, <3>1
    <3>3. QED
      BY <1>1, <3>2 DEF IsBlankReply
  <2>2. QED
    BY <2>1
<1>3. QED
  BY <1>1, <1>2, BeginningIsClosed

\* A transcript is read message by message, and what was read is in order all the way.
Reads(s, read) ==
  /\ read[0] = [out |-> <<>>, open |-> NoCalls]
  /\ \A k \in 1..Len(s) : read[k] = Normalized1(read[k - 1], s[k])
  /\ \A k \in 0..Len(s) : read[k] \in Read
  /\ Normalize(s) = DropBlankTail(read[Len(s)].out \o Flush(read[Len(s)].open))

\* There is such a reading of any transcript.
LEMMA NormalizeReads ==
  ASSUME NEW s \in Seq(Messages)
  PROVE  \E read : Reads(s, read)
<1> DEFINE n == Len(s)
           start == [out |-> <<>>, open |-> NoCalls]
           read == CHOOSE read : read = [m \in 0..Len(s) |->
                     IF m = 0 THEN [out |-> <<>>, open |-> NoCalls]
                     ELSE Normalized1(read[m - 1], s[m])]
           step == [x \in Read \X (1..n) |-> Normalized1(x[1], s[x[2]])]
<1>1. n \in Nat /\ \A i \in 1..n : s[i] \in Messages
  BY LenProperties, ElementOfSeq
<1>2. start \in Read
  <2>0. PICK out \in Seq(Messages) : out = <<>>
    BY EmptySeq
  <2>1. out = <<>> /\ Len(out) = 0 /\ DOMAIN out = 1..0
    BY <2>0, EmptySeq, LenProperties
  <2>2. NoStrayResult(out)
    BY <2>1 DEF NoStrayResult
  <2>3. Reading(out, NoCalls, 0)
    BY <2>1, NothingOpen DEF Reading
  <2>4. 0 \in 0..Len(out)
    BY <2>1
  <2>5. [out |-> out, open |-> NoCalls] \in Read
    BY <2>1, <2>2, <2>3, <2>4, NothingOpen DEF Read
  <2>6. QED
    BY <2>0, <2>1, <2>5
<1>3. step \in Steps(n, Read)
  <2>1. \A x \in Read \X (1..n) : Normalized1(x[1], s[x[2]]) \in Read
    BY <1>1, StepKeeps
  <2>2. QED
    BY <2>1 DEF Steps
<1>4. \A x \in Read, k \in 1..n : step[<<x, k>>] = Normalized1(x, s[k])
  OBVIOUS
<1> HIDE DEF step, n, start
<1>5. PICK f \in [0..n -> Read] : /\ f[0] = start
                                  /\ \A k \in 1..n : f[k] = step[<<f[k - 1], k>>]
  <2>1. Stepped(n, Read, start, step) # {}
    BY <1>1, <1>2, <1>3, StepByStep
  <2>2. QED
    BY <2>1 DEF Stepped
<1>6. ASSUME NEW k \in 1..n PROVE f[k] = Normalized1(f[k - 1], s[k])
  <2>1. k - 1 \in 0..n
    BY <1>1
  <2>2. f[k - 1] \in Read
    BY <1>5, <2>1
  <2>3. QED
    BY <1>4, <1>5, <2>2
<1>7. f = [m \in 0..n |-> IF m = 0 THEN [out |-> <<>>, open |-> NoCalls]
                          ELSE Normalized1(f[m - 1], s[m])]
  <2>1. ASSUME NEW m \in 0..n
        PROVE  f[m] = IF m = 0 THEN [out |-> <<>>, open |-> NoCalls]
                      ELSE Normalized1(f[m - 1], s[m])
    <3>1. CASE m = 0
      BY <1>5, <3>1 DEF start
    <3>2. CASE m # 0
      <4>1. m \in 1..n
        BY <1>1, <3>2
      <4>2. QED
        BY <1>6, <3>2, <4>1
    <3>3. QED
      BY <3>1, <3>2
  <2>2. QED
    BY <1>5, <2>1
<1>8. read = [m \in 0..n |-> IF m = 0 THEN [out |-> <<>>, open |-> NoCalls]
                             ELSE Normalized1(read[m - 1], s[m])]
  BY <1>7 DEF n
<1>9. Normalize(s) = DropBlankTail(read[n].out \o Flush(read[n].open))
  BY Zenon DEF Normalize, n
<1> HIDE DEF read
<1> DEFINE T == {k \in 0..n : read[k] \in Read}
<1>10. 0 \in T
  <2>1. 0 \in 0..n
    BY <1>1
  <2>2. read[0] = start
    BY <1>8, <2>1 DEF start
  <2>3. QED
    BY <1>2, <2>1, <2>2
<1>11. \A k \in 1..n : k - 1 \in T => k \in T
  <2> SUFFICES ASSUME NEW k \in 1..n, read[k - 1] \in Read PROVE read[k] \in Read
    BY <1>1
  <2>1. read[k] = Normalized1(read[k - 1], s[k])
    <3>1. k \in 0..n /\ k # 0
      BY <1>1
    <3>2. QED
      BY <1>8, <3>1
  <2>2. QED
    BY <1>1, <2>1, StepKeeps
<1> HIDE DEF T
<1>12. \A k \in 0..n : k \in T
  BY <1>1, <1>10, <1>11, UpTo
<1>13. \A k \in 0..n : read[k] \in Read
  BY <1>12 DEF T
<1>14. \A k \in 1..n : read[k] = Normalized1(read[k - 1], s[k])
  <2>1. \A k \in 1..n : k \in 0..n /\ k # 0
    BY <1>1
  <2>2. QED
    BY <1>8, <2>1
<1>15. read[0] = [out |-> <<>>, open |-> NoCalls]
  <2>1. 0 \in 0..n
    BY <1>1
  <2>2. QED
    BY <1>8, <2>1
<1>16. Reads(s, read)
  BY <1>9, <1>13, <1>14, <1>15 DEF Reads, n
<1>17. QED
  BY <1>16

\* Whatever a transcript holds, its normal form answers every call and has no stray result.
LEMMA NormalizeCloses ==
  ASSUME NEW s \in Seq(Messages)
  PROVE  Normalize(s) \in Seq(Messages) /\ Closed(Normalize(s))
<1>1. PICK read : Reads(s, read)
  BY NormalizeReads
<1>2. PICK n \in Nat : n = Len(s)
  BY LenProperties
<1>3. read[n] \in Read
  BY <1>1, <1>2 DEF Reads
<1>4. PICK t \in Seq(Messages) : /\ t = read[n].out \o Flush(read[n].open)
                                 /\ Closed(t)
  BY <1>3, FlushCloses
<1>5. QED
  BY <1>1, <1>2, <1>4, BlankTailDropped DEF Reads

-----------------------------------------------------------------------------
(* What is added to a transcript *)

\* One result for each call, in the order of the calls.
LEMMA ResultsOfCalls ==
  ASSUME NEW calls \in Seq(CallType)
  PROVE  /\ Results(calls) \in Seq(Messages) /\ Len(Results(calls)) = Len(calls)
         /\ Ids(calls) \in Seq(CallIds) /\ Len(Ids(calls)) = Len(calls)
         /\ \A i \in 1..Len(calls) : /\ Results(calls)[i] = Result(calls[i].id)
                                     /\ Results(calls)[i].role = "tool"
         /\ {Results(calls)[i].ids[1] : i \in 1..Len(calls)} = SetOf(Ids(calls))
<1>1. PICK n \in Nat : n = Len(calls) /\ DOMAIN calls = 1..n
  BY LenProperties
<1>2. \A i \in 1..n : calls[i].id \in CallIds
  <2>1. \A i \in 1..n : calls[i] \in CallType
    BY <1>1, ElementOfSeq
  <2>2. QED
    BY <2>1 DEF CallType
<1>3. PICK ids : ids = [i \in 1..n |-> calls[i].id]
  OBVIOUS
<1>4. ids \in Seq(CallIds) /\ DOMAIN ids = 1..n /\ Len(ids) = n
      /\ \A i \in 1..n : ids[i] = calls[i].id
  BY <1>2, <1>3
<1>5. PICK results : results = [i \in 1..n |-> Result(calls[i].id)]
  OBVIOUS
<1>6. \A i \in 1..n : /\ results[i] = Result(calls[i].id) /\ results[i] \in Messages
                      /\ results[i].role = "tool" /\ results[i].ids[1] = ids[i]
  BY <1>2, <1>4, <1>5, OwnMessages
<1>7. results \in Seq(Messages) /\ Len(results) = n
  BY <1>5, <1>6
<1>8. {results[i].ids[1] : i \in 1..n} = {ids[i] : i \in 1..n}
  BY <1>6
<1>9. Results(calls) = results /\ Ids(calls) = ids
  BY <1>1, <1>3, <1>5 DEF Results, Ids
<1>10. QED
  BY SMTT(30), <1>1, <1>4, <1>6, <1>7, <1>8, <1>9 DEF SetOf

\* A message whose calls are answered by the results after it, if it makes any.
LEMMA AnsweredMore ==
  ASSUME NEW s \in Seq(Messages), AllCallsAnswered(s), NEW m \in Messages, m.role # "tool",
         NEW r \in Seq(Messages), \A k \in 1..Len(r) : r[k].role = "tool",
         m.role = "assistant" => {r[k].ids[1] : k \in 1..Len(r)} = SetOf(m.ids)
  PROVE  AllCallsAnswered(Append(s, m) \o r)
<1>1. PICK n \in Nat, l \in Nat : n = Len(s) /\ l = Len(r) /\ DOMAIN s = 1..n
  BY LenProperties
<1>2. PICK u \in Seq(Messages) : u = Append(s, m)
  BY AppendProperties
<1>3. Len(u) = n + 1 /\ u[n + 1] = m /\ \A i \in 1..n : u[i] = s[i]
  BY <1>1, <1>2, AppendProperties
<1>4. PICK t \in Seq(Messages) : t = u \o r
  BY ConcatProperties
<1>5. /\ Len(t) = (n + 1) + l
      /\ \A i \in 1..((n + 1) + l) : t[i] = IF i <= n + 1 THEN u[i] ELSE r[i - (n + 1)]
  <2>1. /\ Len(t) = Len(u) + Len(r)
        /\ \A i \in 1..(Len(u) + Len(r)) : t[i] = IF i <= Len(u) THEN u[i] ELSE r[i - Len(u)]
    BY <1>4, ConcatProperties
  <2>2. Len(u) = n + 1 /\ Len(r) = l
    BY <1>1, <1>3
  <2>3. QED
    BY <2>1, <2>2
<1>6. PICK len \in Nat : len = (n + 1) + l
  OBVIOUS
<1>7. Len(t) = len /\ DOMAIN t = 1..len
  BY <1>4, <1>5, <1>6, LenProperties
<1>8. \A i \in 1..n : t[i] = s[i]
  <2> SUFFICES ASSUME NEW i \in 1..n PROVE t[i] = s[i]
    OBVIOUS
  <2>1. i \in 1..((n + 1) + l) /\ i <= n + 1
    OBVIOUS
  <2>2. QED
    BY <1>3, <1>5, <2>1
<1>9. t[n + 1] = m
  <2>1. n + 1 \in 1..((n + 1) + l) /\ n + 1 <= n + 1
    OBVIOUS
  <2>2. QED
    BY <1>3, <1>5, <2>1
<1>10. \A j \in (n + 2)..len : j - (n + 1) \in 1..l /\ t[j] = r[j - (n + 1)]
  <2> SUFFICES ASSUME NEW j \in (n + 2)..len
               PROVE  j - (n + 1) \in 1..l /\ t[j] = r[j - (n + 1)]
    OBVIOUS
  <2>1. j \in 1..((n + 1) + l) /\ ~(j <= n + 1) /\ j - (n + 1) \in 1..l
    BY <1>6
  <2>2. QED
    BY <1>5, <2>1
<1>11. \A j \in (n + 2)..len : t[j].role = "tool"
  BY <1>1, <1>10
<1>12. ASSUME NEW i \in 1..len, t[i].role = "assistant"
       PROVE  Answers(t, i) = SetOf(t[i].ids)
  <2>1. CASE i \in 1..n
    <3>1. /\ Len(s) \in Nat /\ Len(t) \in Nat /\ n <= Len(s) /\ n <= Len(t) /\ n = Len(s)
      BY <1>1, <1>6, <1>7
    <3>2. t[n + 1].role # "tool"
      BY <1>9
    <3>3. Answers(t, i) = Answers(s, i)
      BY <1>8, <2>1, <3>1, <3>2, AnswersSame
    <3>4. QED
      BY <1>1, <1>8, <1>12, <2>1, <3>3 DEF AllCallsAnswered
  <2>2. CASE i = n + 1
    <3>1. Len(t) \in Nat /\ n + 1 \in 1..Len(t) /\ (n + 1) + 1 = n + 2
      BY <1>6, <1>7
    <3>2. Answers(t, n + 1) = {t[j].ids[1] : j \in (n + 2)..len}
      <4>1. \A j \in ((n + 1) + 1)..Len(t) : t[j].role = "tool"
        BY <1>7, <1>11, <3>1
      <4>2. QED
        BY <1>7, <3>1, <4>1, AnswersAtTheEnd
    <3>3. {t[j].ids[1] : j \in (n + 2)..len} = {r[k].ids[1] : k \in 1..l}
      <4>1. ASSUME NEW j \in (n + 2)..len
            PROVE  t[j].ids[1] \in {r[k].ids[1] : k \in 1..l}
        <5>1. j - (n + 1) \in 1..l /\ t[j].ids[1] = r[j - (n + 1)].ids[1]
          BY <1>10
        <5>2. QED
          BY <5>1
      <4>2. ASSUME NEW k \in 1..l
            PROVE  r[k].ids[1] \in {t[j].ids[1] : j \in (n + 2)..len}
        <5>1. k + (n + 1) \in (n + 2)..len /\ (k + (n + 1)) - (n + 1) = k
          BY SMTT(60), <1>6
        <5>2. t[k + (n + 1)] = r[k]
          BY <1>10, <5>1
        <5>3. QED
          BY <5>1, <5>2
      <4>3. QED
        BY <4>1, <4>2
    <3>4. QED
      BY <1>1, <1>9, <1>12, <2>2, <3>2, <3>3
  <2>3. CASE i \in (n + 2)..len
    BY <1>11, <1>12, <2>3
  <2>4. QED
    BY <1>6, <2>1, <2>2, <2>3
<1>13. QED
  BY <1>2, <1>4, <1>7, <1>12 DEF AllCallsAnswered

\* A prompt, a note or a summary, which make no call.
LEMMA AnsweredNoCall ==
  ASSUME NEW s \in Seq(Messages), AllCallsAnswered(s), NEW m \in {User, Note, Summary}
  PROVE  AllCallsAnswered(Append(s, m))
<1>1. PICK r \in Seq(Messages) : r = <<>>
  BY EmptySeq
<1>2. Len(r) = 0
  BY <1>1
<1>3. m \in Messages /\ m.role # "tool" /\ m.ids = <<>>
  <2>1. m \in Messages
    BY OwnMessages
  <2>2. \A x \in {User, Note, Summary} : x.role # "tool" /\ x.ids = <<>>
    BY DEF User, Note, Assistant, Summary, Message
  <2>3. QED
    BY <2>1, <2>2
<1>4. SetOf(m.ids) = {}
  BY <1>3 DEF SetOf
<1>5. {r[k].ids[1] : k \in 1..Len(r)} = {} /\ \A k \in 1..Len(r) : FALSE
  BY <1>2
<1>6. AllCallsAnswered(Append(s, m) \o r)
  BY <1>3, <1>4, <1>5, AnsweredMore
<1>7. Append(s, m) \o r = Append(s, m)
  BY <1>1, <1>3, AppendProperties, ConcatEmptySeq
<1>8. QED
  BY <1>6, <1>7

\* A response with its calls, once each has its result.
LEMMA AnsweredCalls ==
  ASSUME NEW s \in Seq(Messages), AllCallsAnswered(s), NEW calls \in Seq(CallType),
         NEW blank \in BOOLEAN
  PROVE  /\ AllCallsAnswered((s \o <<Assistant(Ids(calls), blank)>>) \o Results(calls))
         /\ AllCallsAnswered(s \o (<<Assistant(Ids(calls), blank)>> \o Results(calls)))
<1>1. PICK r \in Seq(Messages) : r = Results(calls)
  BY ResultsOfCalls
<1>2. PICK m \in Messages : m = Assistant(Ids(calls), blank)
  BY ResultsOfCalls, OwnMessages
<1>3. m.role = "assistant" /\ m.ids = Ids(calls)
  BY <1>2 DEF Assistant, Message
<1>4. /\ \A k \in 1..Len(r) : r[k].role = "tool"
      /\ {r[k].ids[1] : k \in 1..Len(r)} = SetOf(m.ids)
  BY SMTT(60), <1>1, <1>3, ResultsOfCalls
<1>5. AllCallsAnswered(Append(s, m) \o r)
  BY <1>3, <1>4, AnsweredMore
<1>6. Append(s, m) = s \o <<m>>
  BY AppendIsConcat
<1>7. <<m>> \in Seq(Messages)
  OBVIOUS
<1>8. (s \o <<m>>) \o r = s \o (<<m>> \o r)
  BY <1>7, ConcatAssociative
<1>9. QED
  BY <1>1, <1>2, <1>5, <1>6, <1>8

\* The result of the first call left, and those of the rest.
LEMMA FirstAnswered ==
  ASSUME NEW s \in Seq(Messages), NEW calls \in Seq(CallType), calls # <<>>
  PROVE  /\ <<Result(Head(calls).id)>> \in Seq(Messages)
         /\ (s \o <<Result(Head(calls).id)>>) \o Results(Tail(calls)) = s \o Results(calls)
<1>1. Head(calls) = calls[1] /\ Tail(calls) \in Seq(CallType) /\ 1 \in 1..Len(calls)
  BY FirstTaken
<1>2. PICK n \in Nat : n = Len(Tail(calls))
  BY <1>1, LenProperties
<1>3. Len(calls) = n + 1 /\ \A k \in 1..n : Tail(calls)[k] = calls[k + 1]
  <2>1. Len(Tail(calls)) = Len(calls) - 1 /\ Len(calls) \in Nat
    BY HeadTailProperties, LenProperties
  <2>2. QED
    BY <1>2, <2>1, FirstTaken
<1>4. PICK rest \in Seq(Messages) : rest = Results(Tail(calls))
  BY <1>1, ResultsOfCalls
<1>5. Len(rest) = n /\ \A k \in 1..n : rest[k] = Result(Tail(calls)[k].id)
  BY <1>1, <1>2, <1>4, ResultsOfCalls
<1>6. PICK all \in Seq(Messages) : all = Results(calls)
  BY ResultsOfCalls
<1>7. Len(all) = n + 1 /\ \A k \in 1..(n + 1) : all[k] = Result(calls[k].id)
  BY <1>3, <1>6, ResultsOfCalls
<1>8. PICK m \in Messages : m = Result(Head(calls).id)
  <2>1. Head(calls) \in CallType
    BY FirstTaken
  <2>2. Head(calls).id \in CallIds
    BY <2>1 DEF CallType
  <2>3. QED
    BY <2>2, OwnMessages
<1>9. PICK one : one = <<m>> /\ one \in Seq(Messages) /\ Len(one) = 1 /\ one[1] = m
  <2>1. <<m>> \in Seq(Messages) /\ Len(<<m>>) = 1 /\ (<<m>>)[1] = m
    OBVIOUS
  <2>2. QED
    BY <2>1
<1>10. one \o rest = all
  <2>1. PICK t \in Seq(Messages) : t = one \o rest
    BY <1>9, ConcatProperties
  <2>2. Len(t) = 1 + n /\ \A k \in 1..(1 + n) : t[k] = IF k <= 1 THEN one[k] ELSE rest[k - 1]
    BY <1>5, <1>9, <2>1, ConcatProperties
  <2>3. ASSUME NEW k \in 1..Len(t) PROVE t[k] = all[k]
    <3>1. CASE k = 1
      <4>1. t[1] = one[1]
        <5>1. 1 \in 1..(1 + n) /\ 1 <= 1
          OBVIOUS
        <5>2. QED
          BY <2>2, <5>1
      <4>2. all[1] = Result(calls[1].id)
        BY <1>7
      <4>3. QED
        BY <1>1, <1>8, <1>9, <3>1, <4>1, <4>2
    <3>2. CASE k # 1
      <4>1. k \in 1..(1 + n) /\ ~(k <= 1) /\ k - 1 \in 1..n /\ (k - 1) + 1 = k
        BY <2>2, <3>2
      <4>2. t[k] = rest[k - 1] /\ rest[k - 1] = Result(Tail(calls)[k - 1].id)
        BY <1>5, <2>2, <4>1
      <4>3. Tail(calls)[k - 1] = calls[k]
        BY <1>3, <4>1
      <4>4. k \in 1..(n + 1)
        BY <4>1
      <4>5. QED
        BY <1>7, <4>2, <4>3, <4>4
    <3>3. QED
      BY <3>1, <3>2
  <2>4. Len(t) = Len(all)
    BY <1>7, <2>2
  <2>5. t = all
    BY <2>3, <2>4, SeqEqual
  <2>6. QED
    BY <2>1, <2>5
<1>11. (s \o one) \o rest = s \o (one \o rest)
  BY <1>9, ConcatAssociative
<1>12. QED
  BY <1>4, <1>6, <1>8, <1>9, <1>10, <1>11

\* No calls, no results.
LEMMA NoResults == Results(<<>>) = <<>> /\ Ids(<<>>) = <<>>
<1>1. <<>> \in Seq(CallType) /\ Len(<<>>) = 0
  BY EmptySeq
<1>2. PICK r \in Seq(Messages) : r = Results(<<>>) /\ Len(r) = 0
  BY <1>1, ResultsOfCalls
<1>3. PICK ids \in Seq(CallIds) : ids = Ids(<<>>) /\ Len(ids) = 0
  BY <1>1, ResultsOfCalls
<1>4. QED
  BY <1>2, <1>3, EmptySeq

\* The end of a transcript after a summary, message by message.
LEMMA SummaryAndEnd ==
  ASSUME NEW s \in Seq(Messages), NEW b \in 0..Len(s)
  PROVE  LET t == <<Summary>> \o SubSeq(s, b + 1, Len(s))
         IN  /\ t \in Seq(Messages) /\ Len(t) = 1 + (Len(s) - b) /\ t[1] = Summary
             /\ \A i \in 2..(1 + (Len(s) - b)) : t[i] = s[b + (i - 1)]
<1>1. PICK n \in Nat : n = Len(s) /\ DOMAIN s = 1..n
  BY LenProperties
<1>2. PICK b0 \in Nat : b0 = b /\ b0 <= n
  BY <1>1
<1>3. PICK e : e = SubSeq(s, b0 + 1, n)
  OBVIOUS
<1>4. PICK l \in Nat : l = n - b0
  BY <1>2
<1>5. e \in Seq(Messages) /\ Len(e) = l /\ \A i \in 1..l : e[i] = s[b0 + i]
  <2>1. \A i \in (b0 + 1)..n : s[i] \in Messages
    <3>1. \A i \in (b0 + 1)..n : i \in 1..Len(s)
      BY <1>1
    <3>2. QED
      BY <3>1, ElementOfSeq
  <2>2. b0 + 1 \in Int /\ n \in Int
    OBVIOUS
  <2>3. /\ e \in Seq(Messages)
        /\ Len(e) = IF b0 + 1 <= n THEN (n - (b0 + 1)) + 1 ELSE 0
        /\ \A i \in 1..((n - (b0 + 1)) + 1) : e[i] = s[((b0 + 1) + i) - 1]
    BY <1>3, <2>1, <2>2, SubSeqProperties
  <2>4. (IF b0 + 1 <= n THEN (n - (b0 + 1)) + 1 ELSE 0) = l /\ (n - (b0 + 1)) + 1 = l
    BY <1>2, <1>4
  <2>5. \A i \in 1..l : ((b0 + 1) + i) - 1 = b0 + i
    OBVIOUS
  <2>6. QED
    BY <2>3, <2>4, <2>5
<1>6. PICK one : one = <<Summary>> /\ one \in Seq(Messages) /\ Len(one) = 1 /\ one[1] = Summary
  <2>1. Summary \in Messages
    BY OwnMessages
  <2>2. <<Summary>> \in Seq(Messages) /\ Len(<<Summary>>) = 1 /\ (<<Summary>>)[1] = Summary
    BY <2>1
  <2>3. QED
    BY <2>2
<1>7. PICK t : t = one \o e
  OBVIOUS
<1>8. /\ t \in Seq(Messages) /\ Len(t) = 1 + l
      /\ \A i \in 1..(1 + l) : t[i] = IF i <= 1 THEN one[i] ELSE e[i - 1]
  BY <1>5, <1>6, <1>7, ConcatProperties
<1>9. t[1] = Summary /\ Summary.role = "system"
  <2>1. t[1] = one[1]
    <3>1. 1 \in 1..(1 + l) /\ 1 <= 1
      OBVIOUS
    <3>2. QED
      BY <1>8, <3>1
  <2>2. QED
    BY <1>6, <2>1 DEF Summary, Message
<1>10. \A i \in 2..(1 + l) : t[i] = s[b0 + (i - 1)]
  <2> SUFFICES ASSUME NEW i \in 2..(1 + l) PROVE t[i] = s[b0 + (i - 1)]
    OBVIOUS
  <2>1. i \in 1..(1 + l) /\ ~(i <= 1) /\ i - 1 \in 1..l
    OBVIOUS
  <2>2. t[i] = e[i - 1]
    BY <1>8, <2>1
  <2>3. QED
    BY <1>5, <2>1, <2>2
<1>11. t = <<Summary>> \o SubSeq(s, b + 1, Len(s))
  BY <1>1, <1>2, <1>3, <1>6, <1>7
<1>12. QED
  BY <1>1, <1>2, <1>4, <1>8, <1>9, <1>10, <1>11

\* It answers what it answered before.
LEMMA SummarizedAnswered ==
  ASSUME NEW s \in Seq(Messages), NEW b \in 0..Len(s)
  PROVE  LET t == <<Summary>> \o SubSeq(s, b + 1, Len(s))
         IN  /\ t \in Seq(Messages) /\ t # <<>>
             /\ AllCallsAnswered(s) => AllCallsAnswered(t)
<1>1. PICK n \in Nat : n = Len(s) /\ DOMAIN s = 1..n
  BY LenProperties
<1>2. PICK b0 \in Nat : b0 = b /\ b0 <= n
  BY <1>1
<1>3. PICK l \in Nat : l = n - b0
  BY <1>2
<1>4. PICK t : t = <<Summary>> \o SubSeq(s, b + 1, Len(s))
  OBVIOUS
<1>5. /\ t \in Seq(Messages) /\ Len(t) = 1 + l /\ t[1] = Summary
      /\ \A i \in 2..(1 + l) : t[i] = s[b0 + (i - 1)]
  BY <1>1, <1>2, <1>3, <1>4, SummaryAndEnd
<1>6. t # <<>> /\ DOMAIN t = 1..(1 + l)
  BY <1>5, EmptySeq, LenProperties
<1>7. t[1] = Summary /\ Summary.role = "system"
  BY <1>5 DEF Summary, Message
<1>8. \A i \in 2..(1 + l) : t[i] = s[b0 + (i - 1)]
  BY <1>5
<1>9. ASSUME NEW i \in 2..(1 + l) PROVE Answers(t, i) = Answers(s, b0 + (i - 1))
  <2> DEFINE at == b0 + (i - 1)
             In(u, k) == {j \in (k + 1)..Len(u) : \A x \in (k + 1)..j : u[x].role = "tool"}
  <2>1. at \in Nat /\ at + 1 = b0 + i /\ i + 1 \in 2..(2 + l) /\ n = b0 + l
    BY <1>2, <1>3
  <2>2. ASSUME NEW j \in In(t, i)
        PROVE  b0 + (j - 1) \in In(s, at) /\ t[j] = s[b0 + (j - 1)]
    <3>1. j \in (i + 1)..(1 + l) /\ \A x \in (i + 1)..j : t[x].role = "tool"
      BY <1>5
    <3>2. b0 + (j - 1) \in (at + 1)..n
      BY SMTT(30), <2>1, <3>1
    <3>3. ASSUME NEW x \in (at + 1)..(b0 + (j - 1)) PROVE s[x].role = "tool"
      <4>1. (x - b0) + 1 \in (i + 1)..j /\ (x - b0) + 1 \in 2..(1 + l)
            /\ b0 + (((x - b0) + 1) - 1) = x
        BY <2>1, <3>1
      <4>2. t[(x - b0) + 1] = s[x]
        BY <1>8, <4>1
      <4>3. QED
        BY <3>1, <4>1, <4>2
    <3>4. j \in 2..(1 + l)
      BY <3>1
    <3>5. QED
      BY <1>1, <1>8, <3>2, <3>3, <3>4
  <2>3. ASSUME NEW j \in In(s, at)
        PROVE  (j - b0) + 1 \in In(t, i) /\ t[(j - b0) + 1] = s[j]
    <3>1. j \in (at + 1)..n /\ \A x \in (at + 1)..j : s[x].role = "tool"
      BY <1>1
    <3>2. (j - b0) + 1 \in (i + 1)..(1 + l)
      BY SMTT(30), <2>1, <3>1
    <3>3. ASSUME NEW x \in (i + 1)..((j - b0) + 1) PROVE t[x].role = "tool"
      <4>1. b0 + (x - 1) \in (at + 1)..j /\ x \in 2..(1 + l)
        BY <2>1, <3>1
      <4>2. t[x] = s[b0 + (x - 1)]
        BY <1>8, <4>1
      <4>3. QED
        BY <3>1, <4>1, <4>2
    <3>4. (j - b0) + 1 \in 2..(1 + l) /\ b0 + (((j - b0) + 1) - 1) = j
      BY <2>1, <3>1, <3>2
    <3>5. QED
      BY <1>5, <1>8, <3>2, <3>3, <3>4
  <2>4. Answers(t, i) = {t[j].ids[1] : j \in In(t, i)}
    BY DEF Answers
  <2>5. Answers(s, at) = {s[j].ids[1] : j \in In(s, at)}
    BY DEF Answers
  <2> HIDE DEF In, at
  <2>6. ASSUME NEW j \in In(t, i) PROVE t[j].ids[1] \in {s[k].ids[1] : k \in In(s, at)}
    BY <2>2
  <2>7. ASSUME NEW j \in In(s, at) PROVE s[j].ids[1] \in {t[k].ids[1] : k \in In(t, i)}
    <3>1. s[j].ids[1] = t[(j - b0) + 1].ids[1]
      BY <2>3
    <3>2. QED
      BY <2>3, <3>1
  <2>8. {t[j].ids[1] : j \in In(t, i)} = {s[j].ids[1] : j \in In(s, at)}
    BY <2>6, <2>7
  <2>9. QED
    BY <2>4, <2>5, <2>8 DEF at
<1>10. ASSUME AllCallsAnswered(s) PROVE AllCallsAnswered(t)
  <2>1. ASSUME NEW i \in 2..(1 + l), t[i].role = "assistant"
        PROVE  Answers(t, i) = SetOf(t[i].ids)
    <3>1. PICK at \in 1..n : at = b0 + (i - 1)
      BY <1>2, <1>3
    <3>2. t[i] = s[at]
      BY <1>8, <3>1
    <3>3. Answers(s, at) = SetOf(s[at].ids)
      BY <1>1, <1>10, <2>1, <3>2 DEF AllCallsAnswered
    <3>4. QED
      BY <1>9, <3>1, <3>2, <3>3
  <2>2. t[1].role # "assistant"
    BY <1>7
  <2>3. \A i \in 1..(1 + l) : i = 1 \/ i \in 2..(1 + l)
    OBVIOUS
  <2>4. QED
    BY <1>6, <2>1, <2>2, <2>3 DEF AllCallsAnswered
<1>11. QED
  BY <1>4, <1>5, <1>6, <1>10

\* The boundary of a compaction is between the summary and the messages it has to keep, and
\* what is kept does not begin with a result.
LEMMA BoundaryIsFound ==
  ASSUME transcript \in Seq(Messages), NEW k \in PrefixLen..Len(transcript)
  PROVE  /\ PairSafe(k) \in PrefixLen..k
         /\ PairSafe(k) = PrefixLen \/ transcript[PairSafe(k) + 1].role # "tool"
<1>1. PrefixLen \in Nat
  BY DEF PrefixLen
<1>2. PICK p \in Nat : p = PrefixLen
  BY <1>1
<1>3. PICK n \in Nat : n = Len(transcript)
  BY LenProperties
<1>4. k \in p..n /\ k \in Nat
  BY <1>2, <1>3
<1> DEFINE D == {d \in 0..(k - p) : d = k - p \/ transcript[(k - d) + 1].role # "tool"}
<1>5. D \in SUBSET Nat /\ D # {}
  <2>1. k - p \in D
    BY <1>4
  <2>2. D # {}
    BY <2>1
  <2>3. D \in SUBSET Nat
    BY <1>4
  <2>4. QED
    BY <2>2, <2>3
<1>6. PICK d \in D : \A x \in D : d <= x
  BY <1>5, FirstOfNumbers
<1>7. d \in 0..(k - p) /\ (d = k - p \/ transcript[(k - d) + 1].role # "tool")
  BY <1>6
<1>8. PICK b \in p..k : b = k - d
  BY <1>4, <1>7
<1>9. b = p \/ transcript[b + 1].role # "tool"
  BY <1>4, <1>7, <1>8
<1>10. ASSUME NEW c \in (b + 1)..k PROVE transcript[c + 1].role = "tool"
  <2>1. k - c \in 0..(k - p) /\ ~(d <= k - c) /\ (k - (k - c)) + 1 = c + 1
    BY <1>4, <1>7, <1>8
  <2>2. k - c \notin D
    BY <1>6, <2>1
  <2>3. QED
    BY <2>1, <2>2
<1>11. \E b1 \in PrefixLen..k :
         /\ b1 = PrefixLen \/ transcript[b1 + 1].role # "tool"
         /\ \A c \in (b1 + 1)..k : transcript[c + 1].role = "tool"
  BY <1>2, <1>8, <1>9, <1>10
<1>12. QED
  BY <1>11 DEF PairSafe

\* Shrinking leaves a transcript of the same kind, and as many calls without a result.
LEMMA Shrunk ==
  ASSUME transcript \in Seq(Messages), NEW minRecent \in {1, 2}, NEW next,
         Shrinks(minRecent, next)
  PROVE  /\ transcript' \in Seq(Messages) /\ file' \in {file, transcript'}
         /\ transcript # <<>> => transcript' # <<>>
         /\ AllCallsAnswered(transcript) => AllCallsAnswered(transcript')
         /\ (pc' = next /\ failures' = failures) \/ (pc' = "failed" /\ FailedWrite)
         /\ \/ compactions' = compactions
            \/ compactions < MaxCompactions /\ compactions' = compactions + 1
<1>0. /\ file' \in {file, transcript'}
      /\ (pc' = next /\ failures' = failures) \/ (pc' = "failed" /\ FailedWrite)
      /\ \/ compactions' = compactions
         \/ compactions < MaxCompactions /\ compactions' = compactions + 1
  BY DEF Shrinks
<1>1. CASE transcript' = transcript
  <2>1. AllCallsAnswered(transcript) => AllCallsAnswered(transcript')
    BY <1>1
  <2>2. QED
    BY <1>0, <1>1, <2>1
<1>2. CASE transcript' \in Compacted(minRecent)
  <2>1. PICK n \in Nat : n = Len(transcript)
    BY LenProperties
  <2>2. PICK k \in PrefixLen..(Len(transcript) - minRecent) :
          transcript' = <<Summary>> \o SubSeq(transcript, PairSafe(k) + 1, Len(transcript))
    BY <1>2 DEF Compacted
  <2>3. PrefixLen \in Nat
    BY DEF PrefixLen
  <2>4. k \in PrefixLen..Len(transcript)
    BY <2>1, <2>3
  <2>5. PairSafe(k) \in PrefixLen..k
    BY <2>4, BoundaryIsFound
  <2>6. PICK b \in 0..Len(transcript) : b = PairSafe(k)
    BY <2>1, <2>3, <2>4, <2>5
  <2>7. PICK s \in Seq(Messages) : s = transcript
    OBVIOUS
  <2>8. PICK t : t = <<Summary>> \o SubSeq(s, b + 1, Len(s))
    OBVIOUS
  <2>9. b \in 0..Len(s)
    BY <2>7
  <2>10. t \in Seq(Messages) /\ t # <<>> /\ (AllCallsAnswered(s) => AllCallsAnswered(t))
    BY <2>8, <2>9, SummarizedAnswered
  <2>11. transcript' = t
    BY <2>2, <2>6, <2>7, <2>8
  <2>12. AllCallsAnswered(transcript) => AllCallsAnswered(transcript')
    BY <2>7, <2>10, <2>11
  <2>13. transcript' \in Seq(Messages) /\ transcript' # <<>>
    BY <2>10, <2>11
  <2>14. QED
    BY <1>0, <2>12, <2>13
<1>3. QED
  BY <1>1, <1>2 DEF Shrinks

\* Writing messages adds them, or some of them when a write fails.
LEMMA Pushed ==
  ASSUME transcript \in Seq(Messages), file \in Seq(Messages),
         NEW ms \in Seq(Messages), NEW next, Push(ms, next)
  PROVE  /\ transcript' \in Seq(Messages) /\ file' \in Seq(Messages)
         /\ transcript # <<>> => transcript' # <<>>
         /\ \/ transcript' = transcript \o ms /\ pc' = next /\ failures' = failures
            \/ pc' = "failed" /\ FailedWrite
<1>1. CASE transcript' = transcript \o ms /\ file' = file \o ms
  BY <1>1, ConcatProperties, ConcatEqualIffEmpty DEF Push
<1>2. ASSUME NEW n \in 0..(Len(ms) - 1), FailedWrite, pc' = "failed",
             transcript' = transcript \o SubSeq(ms, 1, n), file' = file \o SubSeq(ms, 1, n)
      PROVE  /\ transcript' \in Seq(Messages) /\ file' \in Seq(Messages)
             /\ transcript # <<>> => transcript' # <<>>
  <2>1. Len(ms) \in Nat
    BY LenProperties
  <2>2. PICK some : some = SubSeq(ms, 1, n)
    OBVIOUS
  <2>3. some \in Seq(Messages)
    BY <2>1, <2>2
  <2>4. QED
    BY <1>2, <2>2, <2>3, ConcatProperties, ConcatEqualIffEmpty
<1>3. QED
  BY <1>1, <1>2 DEF Push

-----------------------------------------------------------------------------
(* The turn loop: its transcript *)

SessionOK == transcript \in Seq(Messages) /\ file \in Seq(Messages)

\* The messages an action writes are of their kind.
LEMMA SingleMessages ==
  /\ <<User>> \in Seq(Messages) /\ <<Note>> \in Seq(Messages) /\ <<>> \in Seq(Messages)
  /\ \A m \in Messages : <<m>> \in Seq(Messages)
<1>1. User \in Messages /\ Note \in Messages
  BY OwnMessages
<1>2. QED
  BY <1>1

\* A response's message: its calls, or a note for one that says nothing.
LEMMA ResponseMessages ==
  ASSUME NEW calls \in CallLists, NEW text
  PROVE  /\ calls \in Seq(CallType)
         /\ Assistant(Ids(calls), text # "some") \in Messages
         /\ (IF calls = <<>> /\ text = "none" THEN Note
             ELSE Assistant(Ids(calls), text # "some")) \in Messages
         /\ (IF calls = <<>> /\ text = "none" THEN <<>>
             ELSE <<Assistant(Ids(calls), text # "some")>>) \in Seq(Messages)
<1>1. calls \in Seq(CallType)
  BY CallsAssumption DEF CallType
<1>2. Ids(calls) \in Seq(CallIds) /\ (text # "some") \in BOOLEAN
  BY <1>1, ResultsOfCalls
<1>3. Assistant(Ids(calls), text # "some") \in Messages
  BY <1>2, OwnMessages
<1>4. Note \in Messages
  BY OwnMessages
<1>5. QED
  BY <1>1, <1>3, <1>4, SingleMessages

\* Closing adds a note, or nothing.
LEMMA NoteAdded ==
  ASSUME SessionOK, CloseWithNote
  PROVE  /\ SessionOK'
         /\ \/ transcript' = transcript /\ ~EndsUnanswered /\ failures' = failures
            \/ transcript' = Append(transcript, Note) /\ failures' = failures
            \/ transcript' = transcript /\ FailedWrite
<1>1. Append(transcript, Note) \in Seq(Messages) /\ Append(file, Note) \in Seq(Messages)
  BY OwnMessages, AppendProperties DEF SessionOK
<1>2. CASE EndsUnanswered /\ transcript' = Append(transcript, Note) /\ file' = Append(file, Note)
  BY <1>1, <1>2 DEF CloseWithNote, session, SessionOK, FailedWrite
<1>3. CASE UNCHANGED session
  BY <1>3 DEF CloseWithNote, session, SessionOK
<1>4. QED
  BY <1>2, <1>3 DEF CloseWithNote

\* The transcript and its file stay sequences of messages.
LEMMA NextSessionOK ==
  ASSUME SessionOK, PendingOK, [Next]_vars PROVE SessionOK'
<1> USE DEF SessionOK
<1>0. /\ Request \in Seq(Messages) /\ Normalize(file) \in Seq(Messages)
      /\ RepairedFile \in Seq(Messages)
  BY NormalizeCloses DEF Request, RepairedFile
<1>1. CASE StartTurn
  <2>1. /\ Append(Request, User) \in Seq(Messages) /\ Append(file, User) \in Seq(Messages)
        /\ Append(RepairedFile, User) \in Seq(Messages)
    BY <1>0, OwnMessages, AppendProperties
  <2>2. transcript' = Request \/ transcript' = Append(Request, User)
    BY <1>1 DEF StartTurn
  <2>3. file' \in {Append(RepairedFile, User), Append(file, User), file, RepairedFile}
    BY <1>1 DEF StartTurn
  <2>4. QED
    BY <1>0, <2>1, <2>2, <2>3
<1>2. CASE LoopTop
  <2>1. CASE UNCHANGED session
    BY <2>1 DEF session
  <2>2. CASE Shrinks(2, "stream")
    BY <2>2, Shrunk
  <2>3. QED
    BY <1>2, <2>1, <2>2 DEF LoopTop
<1>3. CASE StreamInterrupted
  <2>1. PICK partial \in {<<>>, <<Note>>} : Push(partial, "close")
    BY <1>3 DEF StreamInterrupted
  <2>2. QED
    BY <2>1, SingleMessages, Pushed
<1>4. CASE StreamOverflows
  <2>1. CASE UNCHANGED session
    BY <2>1 DEF session
  <2>2. CASE Shrinks(1, "loop")
    BY <2>2, Shrunk
  <2>3. QED
    BY <1>4, <2>1, <2>2 DEF StreamOverflows
<1>5. CASE Continue \/ Nudge
  <2>1. Push(<<User>>, "loop")
    BY <1>5 DEF Continue, Nudge
  <2>2. QED
    BY <2>1, SingleMessages, Pushed
<1>6. CASE InterruptCalls \/ AbandonCall \/ StopLoop
  <2>1. PICK next : Push(Results(pending), next)
    BY <1>6 DEF InterruptCalls, AbandonCall, StopLoop, EndCalls
  <2>2. Results(pending) \in Seq(Messages)
    BY ResultsOfCalls DEF PendingOK
  <2>3. QED
    BY <2>1, <2>2, Pushed
<1>7. CASE RejectCall \/ ExecuteCall
  <2>1. Push(<<Result(Head(pending).id)>>, "calls") /\ pending # <<>>
    BY <1>7 DEF RejectCall, ExecuteCall, PendingOK
  <2>2. <<Result(Head(pending).id)>> \in Seq(Messages)
    BY <2>1, FirstAnswered DEF PendingOK
  <2>3. QED
    BY <2>1, <2>2, Pushed
<1>8. CASE Close \/ CloseFailed
  BY <1>8, NoteAdded DEF Close, CloseFailed
<1>9. CASE Save
  BY <1>9 DEF Save
<1>10. CASE Crash
  BY <1>0, <1>10 DEF Crash
<1>11. CASE StreamFails \/ EndReply \/ CallsDone \/ StartCall \/ Interrupt \/ AllTurnsDone
            \/ UNCHANGED vars
  BY <1>11 DEF StreamFails, EndReply, CallsDone, StartCall, Interrupt, AllTurnsDone, vars,
     session
<1>12. ASSUME NEW calls \in CallLists, NEW text \in Texts, Refuses(calls, text)
       PROVE  SessionOK'
  <2>1. PICK message : message = IF calls = <<>> /\ text = "none" THEN <<>>
                                 ELSE <<Assistant(Ids(calls), text # "some")>>
    OBVIOUS
  <2>2. Push(message \o Results(calls), "close")
    BY <1>12, <2>1 DEF Refuses
  <2>3. message \in Seq(Messages) /\ Results(calls) \in Seq(Messages)
    BY <2>1, ResponseMessages, ResultsOfCalls
  <2>4. message \o Results(calls) \in Seq(Messages)
    BY <2>3, ConcatProperties
  <2>5. QED
    BY <2>2, <2>4, Pushed
<1>13. ASSUME NEW calls \in CallLists, NEW text \in Texts, NEW cutOff \in BOOLEAN,
             Responds(calls, text, cutOff)
       PROVE  SessionOK'
  <2>1. PICK message : message = IF calls = <<>> /\ text = "none" THEN Note
                                 ELSE Assistant(Ids(calls), text # "some")
    OBVIOUS
  <2>2. PICK next : Push(<<message>>, next)
    BY <1>13, <2>1 DEF Responds
  <2>3. <<message>> \in Seq(Messages)
    BY <2>1, ResponseMessages, SingleMessages
  <2>4. QED
    BY <2>2, <2>3, Pushed
<1>14. QED
  BY <1>1, <1>2, <1>3, <1>4, <1>5, <1>6, <1>7, <1>8, <1>9, <1>10, <1>11, <1>12, <1>13
  DEF Next, Turn, Stream

\* While no write has failed: every call of the transcript has its result, except those of
\* the response that is being carried out, which are left.
CarriesOut == {"calls", "execute"}
CallsAreAnswered ==
  failures = 0 =>
    AllCallsAnswered(IF pc \in CarriesOut THEN transcript \o Results(pending) ELSE transcript)

\* Every step keeps it: one that answers a call, one that answers all that are left, and
\* one that writes a message of its own.
LEMMA NextCallsAreAnswered ==
  ASSUME SessionOK, PendingOK, failures \in Nat, CallsAreAnswered, [Next]_vars
  PROVE  CallsAreAnswered'
<1> SUFFICES ASSUME failures' = 0
             PROVE  AllCallsAnswered(IF pc' \in CarriesOut THEN transcript' \o Results(pending')
                                     ELSE transcript')
  BY DEF CallsAreAnswered
<1> USE DEF CarriesOut
<1>1. ~FailedWrite
  BY DEF FailedWrite
<1>2. PICK s \in Seq(Messages) : s = transcript
  BY DEF SessionOK
<1>3. PICK left \in Seq(CallType) : left = pending
  BY DEF PendingOK
<1>4. failures = 0 /\ pc \notin CarriesOut => AllCallsAnswered(s)
  BY <1>2 DEF CallsAreAnswered
<1>5. failures = 0 /\ pc \in CarriesOut => AllCallsAnswered(s \o Results(left))
  BY <1>2, <1>3 DEF CallsAreAnswered
<1>6. ASSUME NEW ms \in Seq(Messages), NEW next, Push(ms, next)
      PROVE  transcript' = s \o ms /\ pc' = next /\ failures = 0
  BY <1>1, <1>2, <1>6, Pushed DEF SessionOK
<1>7. CASE StartTurn
  <2>1. PICK r \in Seq(Messages) : r = Request /\ AllCallsAnswered(r)
    BY <1>2, NormalizeCloses DEF Request, Closed
  <2>2. AllCallsAnswered(Append(r, User))
    BY <2>1, AnsweredNoCall
  <2>3. (transcript' = r \/ transcript' = Append(r, User)) /\ pc' \in {"loop", "save"}
    BY <1>7, <2>1 DEF StartTurn
  <2>4. QED
    BY <2>1, <2>2, <2>3
<1>8. CASE LoopTop
  <2>1. pc = "loop"
    BY <1>8 DEF LoopTop
  <2>2. CASE UNCHANGED <<session, failures>> /\ pc' \in {"close", "failed", "stream"}
    BY <1>2, <1>4, <2>1, <2>2 DEF session
  <2>3. CASE Shrinks(2, "stream")
    <3>1. pc' = "stream" /\ failures = 0 /\ (AllCallsAnswered(s) => AllCallsAnswered(transcript'))
      BY <1>1, <1>2, <2>3, Shrunk DEF SessionOK
    <3>2. QED
      BY <1>4, <2>1, <3>1
  <2>4. QED
    BY <1>8, <2>2, <2>3 DEF LoopTop
<1>9. CASE StreamInterrupted
  <2>1. PICK partial \in {<<>>, <<Note>>} : Push(partial, "close") /\ pc = "stream"
    BY <1>9 DEF StreamInterrupted
  <2>2. transcript' = s \o partial /\ pc' = "close" /\ failures = 0
    BY <1>6, <2>1, SingleMessages
  <2>3. s \o <<>> = s /\ s \o <<Note>> = Append(s, Note)
    BY ConcatEmptySeq, AppendIsConcat, OwnMessages
  <2>4. AllCallsAnswered(s) /\ AllCallsAnswered(Append(s, Note))
    BY <1>4, <2>1, <2>2, AnsweredNoCall
  <2>5. QED
    BY <2>1, <2>2, <2>3, <2>4
<1>10. CASE StreamOverflows
  <2>1. pc = "stream"
    BY <1>10 DEF StreamOverflows
  <2>2. CASE UNCHANGED <<session, failures>> /\ pc' = "failed"
    BY <1>2, <1>4, <2>1, <2>2 DEF session
  <2>3. CASE Shrinks(1, "loop")
    <3>1. pc' = "loop" /\ failures = 0 /\ (AllCallsAnswered(s) => AllCallsAnswered(transcript'))
      BY <1>1, <1>2, <2>3, Shrunk DEF SessionOK
    <3>2. QED
      BY <1>4, <2>1, <3>1
  <2>4. QED
    BY <1>10, <2>2, <2>3 DEF StreamOverflows
<1>11. CASE Continue \/ Nudge
  <2>1. Push(<<User>>, "loop") /\ pc = "reply"
    BY <1>11 DEF Continue, Nudge
  <2>2. transcript' = s \o <<User>> /\ pc' = "loop" /\ failures = 0
    BY <1>6, <2>1, SingleMessages
  <2>3. s \o <<User>> = Append(s, User)
    BY AppendIsConcat, OwnMessages
  <2>4. AllCallsAnswered(Append(s, User))
    BY <1>4, <2>1, <2>2, AnsweredNoCall
  <2>5. QED
    BY <2>2, <2>3, <2>4
<1>12. CASE InterruptCalls \/ AbandonCall \/ StopLoop
  <2>1. PICK next \in {"close", "save"} : Push(Results(left), next) /\ pc \in CarriesOut
    BY <1>3, <1>12 DEF InterruptCalls, AbandonCall, StopLoop, EndCalls
  <2>2. Results(left) \in Seq(Messages)
    BY ResultsOfCalls
  <2>3. transcript' = s \o Results(left) /\ pc' = next /\ failures = 0
    BY <1>6, <2>1, <2>2
  <2>4. QED
    BY <1>5, <2>1, <2>3
<1>13. CASE RejectCall \/ ExecuteCall
  <2>1. /\ Push(<<Result(Head(left).id)>>, "calls") /\ left # <<>> /\ pc \in CarriesOut
        /\ pc' = "calls" => pending' = Tail(left)
    BY <1>3, <1>13 DEF RejectCall, ExecuteCall, PendingOK
  <2>2. /\ <<Result(Head(left).id)>> \in Seq(Messages)
        /\ (s \o <<Result(Head(left).id)>>) \o Results(Tail(left)) = s \o Results(left)
    BY <2>1, FirstAnswered
  <2>3. transcript' = s \o <<Result(Head(left).id)>> /\ pc' = "calls" /\ failures = 0
    BY <1>6, <2>1, <2>2
  <2>4. transcript' \o Results(pending') = s \o Results(left)
    BY <2>1, <2>2, <2>3
  <2>5. QED
    BY <1>5, <2>1, <2>3, <2>4
<1>14. CASE Close \/ CloseFailed
  <2>1. CloseWithNote /\ pc' = "save" /\ pc \notin CarriesOut
    BY <1>14 DEF Close, CloseFailed
  <2>2. (transcript' = s \/ transcript' = Append(s, Note)) /\ failures = 0
    BY <1>1, <1>2, <2>1, NoteAdded
  <2>3. AllCallsAnswered(s) /\ AllCallsAnswered(Append(s, Note))
    BY <1>4, <2>1, <2>2, AnsweredNoCall
  <2>4. QED
    BY <2>1, <2>2, <2>3
<1>15. CASE Crash
  <2>1. file \in Seq(Messages) /\ transcript' = Normalize(file) /\ pc' = "idle"
    BY <1>15 DEF Crash, SessionOK
  <2>2. QED
    BY <2>1, NormalizeCloses DEF Closed
<1>16. CASE CallsDone
  <2>1. transcript' = s /\ pending = <<>> /\ pc = "calls" /\ pc' = "loop" /\ failures = 0
    BY <1>2, <1>16 DEF CallsDone, session
  <2>2. Results(left) = <<>>
    <3>1. PICK r \in Seq(Messages) : r = Results(left)
      BY ResultsOfCalls
    <3>2. Len(r) = 0
      BY <1>3, <2>1, <3>1, ResultsOfCalls, EmptySeq
    <3>3. QED
      BY <3>1, <3>2, EmptySeq
  <2>3. s \o Results(left) = s
    BY <2>2, ConcatEmptySeq
  <2>4. QED
    BY <1>5, <2>1, <2>3
<1>17. CASE StartCall
  <2>1. /\ transcript' = s /\ pending' = left /\ pc \in CarriesOut /\ pc' \in CarriesOut
        /\ failures = 0
    BY <1>2, <1>3, <1>17 DEF StartCall, session
  <2>2. QED
    BY <1>5, <2>1
<1>18. CASE StreamFails \/ EndReply \/ Save
  <2>1. transcript' = s /\ pc \notin CarriesOut /\ pc' \notin CarriesOut /\ failures = 0
    BY <1>1, <1>2, <1>18 DEF StreamFails, EndReply, Save, session
  <2>2. QED
    BY <1>4, <2>1
<1>19. CASE Interrupt \/ AllTurnsDone \/ UNCHANGED vars
  <2>1. transcript' = s /\ pending' = left /\ pc' = pc /\ failures = 0
    BY <1>2, <1>3, <1>19 DEF Interrupt, AllTurnsDone, vars, session
  <2>2. QED
    BY <1>4, <1>5, <2>1
<1>20. ASSUME NEW calls \in CallLists, NEW text \in Texts, Refuses(calls, text)
       PROVE  AllCallsAnswered(IF pc' \in CarriesOut THEN transcript' \o Results(pending')
                               ELSE transcript')
  <2>1. PICK message : message = IF calls = <<>> /\ text = "none" THEN <<>>
                                 ELSE <<Assistant(Ids(calls), text # "some")>>
    OBVIOUS
  <2>2. Push(message \o Results(calls), "close") /\ pc = "stream"
    BY <1>20, <2>1 DEF Refuses
  <2>3. message \in Seq(Messages) /\ calls \in Seq(CallType) /\ Results(calls) \in Seq(Messages)
    BY <2>1, ResponseMessages, ResultsOfCalls
  <2>4. message \o Results(calls) \in Seq(Messages)
    BY <2>3, ConcatProperties
  <2>5. transcript' = s \o (message \o Results(calls)) /\ pc' = "close" /\ failures = 0
    BY <1>6, <2>2, <2>4
  <2>6. AllCallsAnswered(s)
    BY <1>4, <2>2, <2>5
  <2>7. AllCallsAnswered(s \o (message \o Results(calls)))
    <3>1. CASE calls = <<>> /\ text = "none"
      <4>1. message = <<>> /\ Results(calls) = <<>>
        BY <2>1, <2>3, <3>1, NoResults
      <4>2. s \o (<<>> \o <<>>) = s
        BY SingleMessages, ConcatEmptySeq
      <4>3. QED
        BY <2>6, <4>1, <4>2
    <3>2. CASE ~(calls = <<>> /\ text = "none")
      <4>1. message = <<Assistant(Ids(calls), text # "some")>> /\ (text # "some") \in BOOLEAN
        BY <2>1, <3>2
      <4>2. QED
        BY <2>3, <2>6, <4>1, AnsweredCalls
    <3>3. QED
      BY <3>1, <3>2
  <2>8. QED
    BY <2>5, <2>7
<1>21. ASSUME NEW calls \in CallLists, NEW text \in Texts, NEW cutOff \in BOOLEAN,
             Responds(calls, text, cutOff)
       PROVE  AllCallsAnswered(IF pc' \in CarriesOut THEN transcript' \o Results(pending')
                               ELSE transcript')
  <2>1. PICK message : message = IF calls = <<>> /\ text = "none" THEN Note
                                 ELSE Assistant(Ids(calls), text # "some")
    OBVIOUS
  <2>2. PICK next : next = IF calls = <<>> THEN "reply" ELSE "calls"
    OBVIOUS
  <2>3. Push(<<message>>, next) /\ pc = "stream" /\ (pc' # "failed" => pending' = calls)
    BY <1>21, <2>1, <2>2 DEF Responds
  <2>4. /\ message \in Messages /\ <<message>> \in Seq(Messages) /\ calls \in Seq(CallType)
        /\ Results(calls) \in Seq(Messages)
    BY <2>1, ResponseMessages, SingleMessages, ResultsOfCalls
  <2>5. transcript' = s \o <<message>> /\ pc' = next /\ failures = 0 /\ pending' = calls
    <3>1. transcript' = s \o <<message>> /\ pc' = next /\ failures = 0
      BY <1>6, <2>3, <2>4
    <3>2. next # "failed"
      BY <2>2
    <3>3. QED
      BY <2>3, <3>1, <3>2
  <2>6. AllCallsAnswered(s)
    BY <1>4, <2>3, <2>5
  <2>7. AllCallsAnswered((s \o <<message>>) \o Results(calls))
    <3>1. PICK blank \in BOOLEAN : message = Assistant(Ids(calls), blank)
      <4>1. CASE calls = <<>> /\ text = "none"
        <5>1. Ids(calls) = <<>> /\ message = Note
          BY <2>1, <2>4, <4>1, NoResults
        <5>2. message = Assistant(Ids(calls), FALSE)
          BY <5>1 DEF Note
        <5>3. QED
          BY <5>2
      <4>2. CASE ~(calls = <<>> /\ text = "none")
        BY <2>1, <4>2
      <4>3. QED
        BY <4>1, <4>2
    <3>2. QED
      BY <2>4, <2>6, <3>1, AnsweredCalls
  <2>8. CASE calls = <<>>
    <3>1. Results(calls) = <<>>
      BY <2>4, <2>8, NoResults
    <3>2. s \o <<message>> \in Seq(Messages)
      BY <2>4, ConcatProperties
    <3>3. (s \o <<message>>) \o <<>> = s \o <<message>>
      BY <3>2, ConcatEmptySeq
    <3>4. QED
      BY <2>2, <2>5, <2>7, <2>8, <3>1, <3>3
  <2>9. CASE calls # <<>>
    BY <2>2, <2>5, <2>7, <2>9
  <2>10. QED
    BY <2>8, <2>9
<1>22. QED
  BY <1>7, <1>8, <1>9, <1>10, <1>11, <1>12, <1>13, <1>14, <1>15, <1>16, <1>17, <1>18, <1>19,
     <1>20, <1>21
  DEF Next, Turn, Stream

\* While no write has failed: a turn that is over for a reason that stopped it ends with
\* the model's reply or a note, as does a reply that is about to be judged; and a turn has
\* something in its transcript.
Ends(s) == s # <<>> /\ Last(s).role = "assistant"
Stopped == {"cancelled", "failed", "refused", "truncated"}
TurnsAreClosed ==
  /\ pc \notin {"idle", "save"} => transcript # <<>>
  /\ failures = 0 /\ pc = "reply" => Ends(transcript)
  /\ failures = 0 /\ pc \in {"idle", "save"} /\ outcome \in Stopped => Ends(transcript)

\* A reply at the end.
LEMMA EndsWithReply ==
  ASSUME NEW s \in Seq(Messages), NEW m \in Messages, m.role = "assistant"
  PROVE  Ends(Append(s, m)) /\ Ends(s \o <<m>>)
<1>1. PICK t \in Seq(Messages) : t = Append(s, m) /\ t # <<>>
  BY AppendProperties
<1>2. t[Len(t)] = m
  BY <1>1, AppendProperties
<1>3. Ends(t)
  BY <1>1, <1>2 DEF Ends, Last
<1>4. QED
  BY <1>1, <1>3, AppendIsConcat

\* Every step keeps turns closed.
LEMMA NextTurnsAreClosed ==
  ASSUME SessionOK, PendingOK, failures \in Nat, TurnsAreClosed, [Next]_vars
  PROVE  TurnsAreClosed'
<1>1. failures' = 0 => ~FailedWrite
  BY DEF FailedWrite
<1>2. PICK s \in Seq(Messages) : s = transcript
  BY DEF SessionOK
<1>3. ASSUME pc' \in {"loop", "stream", "calls", "execute", "close", "failed"},
             transcript' # <<>>
      PROVE  TurnsAreClosed'
  BY <1>3 DEF TurnsAreClosed
<1>4. ASSUME NEW ms \in Seq(Messages), NEW next, Push(ms, next)
      PROVE  /\ transcript # <<>> => transcript' # <<>>
             /\ failures' = 0 => transcript' = s \o ms
             /\ pc' \in {next, "failed"}
  BY <1>1, <1>2, <1>4, Pushed DEF SessionOK
<1>5. CASE StartTurn
  <2>1. CASE pc' = "loop"
    <3>1. transcript' = Append(Request, User)
      BY <1>5, <2>1 DEF StartTurn
    <3>2. Append(Request, User) # <<>>
      BY <1>2, NormalizeCloses, OwnMessages, AppendProperties DEF Request
    <3>3. QED
      BY <1>3, <2>1, <3>1, <3>2
  <2>2. CASE pc' = "save" /\ outcome' = "unsent"
    BY <2>2 DEF TurnsAreClosed, Stopped
  <2>3. QED
    BY <1>5, <2>1, <2>2 DEF StartTurn
<1>6. CASE LoopTop \/ StreamOverflows
  <2>1. transcript # <<>> /\ pc' \in {"close", "failed", "stream", "loop"}
    BY <1>6 DEF LoopTop, StreamOverflows, Shrinks, TurnsAreClosed
  <2>2. transcript' # <<>>
    <3>1. CASE UNCHANGED session
      BY <2>1, <3>1 DEF session
    <3>2. CASE Shrinks(2, "stream") \/ Shrinks(1, "loop")
      BY <2>1, <3>2, Shrunk DEF SessionOK
    <3>3. QED
      BY <1>6, <3>1, <3>2 DEF LoopTop, StreamOverflows
  <2>3. QED
    BY <1>3, <2>1, <2>2
<1>7. CASE StreamInterrupted \/ Continue \/ Nudge
  <2>1. transcript # <<>>
    BY <1>7 DEF StreamInterrupted, Continue, Nudge, TurnsAreClosed
  <2>2. PICK ms \in {<<>>, <<User>>, <<Note>>}, next \in {"close", "loop"} : Push(ms, next)
    BY <1>7 DEF StreamInterrupted, Continue, Nudge
  <2>3. transcript' # <<>> /\ pc' \in {"close", "loop", "failed"}
    BY <1>4, <2>1, <2>2, SingleMessages
  <2>4. QED
    BY <1>3, <2>3
<1>8. CASE InterruptCalls \/ AbandonCall
  <2>1. transcript # <<>> /\ Push(Results(pending), "close")
    BY <1>8 DEF InterruptCalls, AbandonCall, EndCalls, TurnsAreClosed
  <2>2. Results(pending) \in Seq(Messages)
    BY ResultsOfCalls DEF PendingOK
  <2>3. transcript' # <<>> /\ pc' \in {"close", "failed"}
    BY <1>4, <2>1, <2>2
  <2>4. QED
    BY <1>3, <2>3
<1>9. CASE StopLoop
  <2>1. /\ transcript # <<>> /\ Push(Results(pending), "save")
        /\ pc' = "failed" \/ outcome' = "loop"
    BY <1>9 DEF StopLoop, TurnsAreClosed
  <2>2. Results(pending) \in Seq(Messages)
    BY ResultsOfCalls DEF PendingOK
  <2>3. transcript' # <<>> /\ pc' \in {"save", "failed"}
    BY <1>4, <2>1, <2>2
  <2>4. QED
    BY <2>1, <2>3 DEF TurnsAreClosed, Stopped
<1>10. CASE RejectCall \/ ExecuteCall
  <2>1. /\ Push(<<Result(Head(pending).id)>>, "calls") /\ pending # <<>>
        /\ transcript # <<>>
    BY <1>10 DEF RejectCall, ExecuteCall, PendingOK, TurnsAreClosed
  <2>2. <<Result(Head(pending).id)>> \in Seq(Messages)
    BY <1>2, <2>1, FirstAnswered DEF PendingOK
  <2>3. transcript' # <<>> /\ pc' \in {"calls", "failed"}
    BY <1>4, <2>1, <2>2
  <2>4. QED
    BY <1>3, <2>3
<1>11. CASE StreamFails \/ CallsDone \/ StartCall
  <2>1. /\ transcript # <<>> /\ transcript' = transcript
        /\ pc' \in {"failed", "loop", "execute"}
    BY <1>11 DEF StreamFails, CallsDone, StartCall, session, TurnsAreClosed
  <2>2. QED
    BY <1>3, <2>1
<1>12. CASE EndReply
  <2>1. pc = "reply" /\ pc' = "save" /\ transcript' = transcript /\ failures' = failures
    BY <1>12 DEF EndReply, session
  <2>2. QED
    BY <2>1 DEF TurnsAreClosed
<1>13. CASE Close \/ CloseFailed
  <2>1. CloseWithNote /\ pc' = "save" /\ s # <<>>
    BY <1>2, <1>13 DEF Close, CloseFailed, TurnsAreClosed
  <2>2. ASSUME failures' = 0 PROVE Ends(transcript')
    <3>1. CASE transcript' = s /\ ~EndsUnanswered
      BY <1>2, <2>1, <3>1 DEF EndsUnanswered, Ends
    <3>2. CASE transcript' = Append(s, Note)
      <4>1. Note \in Messages /\ Note.role = "assistant"
        BY OwnMessages DEF Note, Assistant, Message
      <4>2. QED
        BY <3>2, <4>1, EndsWithReply
    <3>3. QED
      BY <1>1, <1>2, <2>1, <2>2, <3>1, <3>2, NoteAdded
  <2>3. QED
    BY <2>1, <2>2 DEF TurnsAreClosed
<1>14. CASE Save
  <2>1. /\ pc = "save" /\ pc' = "idle" /\ transcript' = transcript /\ outcome' = outcome
        /\ failures' = 0 => failures = 0
    BY <1>1, <1>14 DEF Save
  <2>2. QED
    BY <2>1 DEF TurnsAreClosed
<1>15. CASE Crash
  BY <1>15 DEF Crash, TurnsAreClosed, Stopped
<1>16. CASE Interrupt \/ AllTurnsDone \/ UNCHANGED vars
  <2>1. /\ pc' = pc /\ transcript' = transcript /\ outcome' = outcome
        /\ failures' = failures
    BY <1>16 DEF Interrupt, AllTurnsDone, vars, session
  <2>2. QED
    BY <2>1 DEF TurnsAreClosed
<1>17. ASSUME NEW calls \in CallLists, NEW text \in Texts, Refuses(calls, text)
       PROVE  TurnsAreClosed'
  <2>1. PICK message : message = IF calls = <<>> /\ text = "none" THEN <<>>
                                 ELSE <<Assistant(Ids(calls), text # "some")>>
    OBVIOUS
  <2>2. Push(message \o Results(calls), "close") /\ transcript # <<>>
    BY <1>17, <2>1 DEF Refuses, TurnsAreClosed
  <2>3. message \in Seq(Messages) /\ Results(calls) \in Seq(Messages)
    BY <2>1, ResponseMessages, ResultsOfCalls
  <2>4. message \o Results(calls) \in Seq(Messages)
    BY <2>3, ConcatProperties
  <2>5. transcript' # <<>> /\ pc' \in {"close", "failed"}
    BY <1>4, <2>2, <2>4
  <2>6. QED
    BY <1>3, <2>5
<1>18. ASSUME NEW calls \in CallLists, NEW text \in Texts, NEW cutOff \in BOOLEAN,
             Responds(calls, text, cutOff)
       PROVE  TurnsAreClosed'
  <2>1. PICK message : message = IF calls = <<>> /\ text = "none" THEN Note
                                 ELSE Assistant(Ids(calls), text # "some")
    OBVIOUS
  <2>2. PICK next \in {"reply", "calls"} : Push(<<message>>, next) /\ transcript # <<>>
    BY <1>18, <2>1 DEF Responds, TurnsAreClosed
  <2>3. /\ message \in Messages /\ message.role = "assistant"
        /\ <<message>> \in Seq(Messages)
    BY <2>1, ResponseMessages, SingleMessages DEF Note, Assistant, Message
  <2>4. /\ transcript' # <<>> /\ pc' \in {"reply", "calls", "failed"}
        /\ failures' = 0 => transcript' = s \o <<message>>
    BY <1>4, <2>2, <2>3
  <2>5. failures' = 0 => Ends(transcript')
    BY <2>3, <2>4, EndsWithReply
  <2>6. QED
    BY <2>4, <2>5 DEF TurnsAreClosed
<1>19. QED
  BY <1>5, <1>6, <1>7, <1>8, <1>9, <1>10, <1>11, <1>12, <1>13, <1>14, <1>15, <1>16, <1>17,
     <1>18
  DEF Next, Turn, Stream

\* What is left of the types: the flags and the counters, within their bounds.
CountsOK ==
  /\ pc \in {"idle", "loop", "save", "stream", "reply", "calls", "execute", "close", "failed"}
  /\ {cancelled, recovered, continued, nudged, checked, edited, truncated} \subseteq BOOLEAN
  /\ iterations \in 0..MaxIterations
  /\ outcome \in {"none", "unsent", "completed", "cancelled", "loop", "truncated",
                  "refused", "failed", "crashed"}
  /\ turns \in 0..MaxTurns /\ failures \in 0..MaxFailures
  /\ crashes \in 0..MaxCrashes /\ compactions \in 0..MaxCompactions

\* Every step keeps them.
LEMMA NextCountsOK ==
  ASSUME CountsOK, [Next]_vars PROVE CountsOK'
<1> USE BoundsAssumption DEF CountsOK
<1>1. FailedWrite => failures' \in 0..MaxFailures
  BY DEF FailedWrite
<1>2. ASSUME NEW ms, NEW next, Push(ms, next)
      PROVE  /\ failures' \in 0..MaxFailures /\ compactions' = compactions
             /\ pc' \in {next, "failed"}
  BY <1>1, <1>2 DEF Push
<1>3. ASSUME NEW minRecent, NEW next, Shrinks(minRecent, next)
      PROVE  /\ failures' \in 0..MaxFailures /\ compactions' \in 0..MaxCompactions
             /\ pc' \in {next, "failed"}
  BY <1>1, <1>3 DEF Shrinks
<1>4. CloseWithNote => failures' \in 0..MaxFailures /\ compactions' = compactions
  BY <1>1 DEF CloseWithNote, session
<1>5. FreshTurn => /\ {cancelled, recovered, continued, nudged, checked, edited, truncated}'
                        \subseteq BOOLEAN
                   /\ iterations' = 0
  BY DEF FreshTurn
<1>6. CASE StartTurn
  BY <1>1, <1>6 DEF StartTurn, turnVars, progressVars
<1>7. CASE LoopTop
  <2>0. iterations' \in 0..MaxIterations
    BY <1>7 DEF LoopTop, CapReached
  <2>1. CASE UNCHANGED <<session, failures>>
    <3>1. /\ failures' = failures /\ compactions' = compactions
          /\ pc' \in {"close", "failed", "stream"} /\ outcome' \in {outcome, "cancelled"}
      BY <1>7, <2>1 DEF LoopTop, session, Shrinks
    <3>2. QED
      BY <1>7, <2>0, <3>1 DEF LoopTop
  <2>2. CASE Shrinks(2, "stream") /\ outcome' = outcome
    BY <1>3, <1>7, <2>0, <2>2 DEF LoopTop
  <2>3. QED
    BY <1>7, <2>1, <2>2 DEF LoopTop
<1>8. CASE StreamInterrupted
  <2>1. \E partial \in {<<>>, <<Note>>} : Push(partial, "close")
    BY <1>8 DEF StreamInterrupted
  <2>2. failures' \in 0..MaxFailures /\ compactions' = compactions /\ pc' \in {"close", "failed"}
    BY <1>2, <2>1
  <2>3. QED
    BY <1>8, <2>2 DEF StreamInterrupted, progressVars
<1>9. CASE StreamOverflows
  <2>1. CASE Shrinks(1, "loop")
    BY <1>3, <1>9, <2>1 DEF StreamOverflows
  <2>2. CASE pc' = "failed" /\ UNCHANGED <<session, failures>>
    BY <1>9, <2>2 DEF StreamOverflows, session
  <2>3. QED
    BY <1>9, <2>1, <2>2 DEF StreamOverflows
<1>10. CASE StreamFails
  BY <1>10 DEF StreamFails, session, progressVars
<1>11. CASE Continue
  <2>1. failures' \in 0..MaxFailures /\ compactions' = compactions /\ pc' \in {"loop", "failed"}
    BY <1>2, <1>11 DEF Continue
  <2>2. QED
    BY <1>11, <2>1 DEF Continue
<1>12. CASE Nudge
  <2>1. failures' \in 0..MaxFailures /\ compactions' = compactions /\ pc' \in {"loop", "failed"}
    BY <1>2, <1>12 DEF Nudge
  <2>2. QED
    BY <1>12, <2>1 DEF Nudge
<1>13. CASE EndReply
  BY <1>5, <1>13 DEF EndReply, session
<1>14. CASE CallsDone \/ StartCall
  BY <1>14 DEF CallsDone, StartCall, session, progressVars
<1>15. CASE InterruptCalls \/ AbandonCall
  <2>1. EndCalls
    BY <1>15 DEF InterruptCalls, AbandonCall
  <2>2. failures' \in 0..MaxFailures /\ compactions' = compactions /\ pc' \in {"close", "failed"}
    BY <1>2, <2>1 DEF EndCalls
  <2>3. outcome' \in {"cancelled", outcome}
    BY <2>1 DEF EndCalls
  <2>4. QED
    BY <1>15, <2>2, <2>3 DEF InterruptCalls, AbandonCall, progressVars
<1>16. CASE RejectCall
  <2>1. failures' \in 0..MaxFailures /\ compactions' = compactions /\ pc' \in {"calls", "failed"}
    BY <1>2, <1>16 DEF RejectCall
  <2>2. QED
    BY <1>16, <2>1 DEF RejectCall, progressVars
<1>17. CASE StopLoop
  <2>1. failures' \in 0..MaxFailures /\ compactions' = compactions /\ pc' \in {"save", "failed"}
    BY <1>2, <1>17 DEF StopLoop
  <2>2. QED
    BY <1>5, <1>17, <2>1 DEF StopLoop, progressVars
<1>18. CASE ExecuteCall
  <2>1. failures' \in 0..MaxFailures /\ compactions' = compactions /\ pc' \in {"calls", "failed"}
    BY <1>2, <1>18 DEF ExecuteCall
  <2>2. QED
    BY <1>18, <2>1 DEF ExecuteCall
<1>19. CASE Close \/ CloseFailed
  BY <1>4, <1>5, <1>19 DEF Close, CloseFailed
<1>20. CASE Save
  BY <1>1, <1>20 DEF Save, turnVars, progressVars
<1>21. CASE Interrupt
  BY <1>21 DEF Interrupt, session, progressVars
<1>22. CASE Crash
  BY <1>5, <1>22 DEF Crash
<1>23. CASE AllTurnsDone \/ UNCHANGED vars
  BY <1>23 DEF AllTurnsDone, vars, session, progressVars
<1>24. ASSUME NEW calls \in CallLists, NEW text \in Texts, Refuses(calls, text)
       PROVE  CountsOK'
  <2>1. \E ms : Push(ms, "close")
    BY <1>24 DEF Refuses
  <2>2. failures' \in 0..MaxFailures /\ compactions' = compactions /\ pc' \in {"close", "failed"}
    BY <1>2, <2>1
  <2>3. QED
    BY <1>24, <2>2 DEF Refuses, progressVars
<1>25. ASSUME NEW calls \in CallLists, NEW text \in Texts, NEW cutOff \in BOOLEAN,
             Responds(calls, text, cutOff)
       PROVE  CountsOK'
  <2>1. \E ms : Push(ms, IF calls = <<>> THEN "reply" ELSE "calls")
    BY <1>25 DEF Responds
  <2>2. /\ failures' \in 0..MaxFailures /\ compactions' = compactions
        /\ pc' \in {"reply", "calls", "failed"}
    BY <1>2, <2>1
  <2>3. QED
    BY <1>25, <2>2 DEF Responds, progressVars
<1>26. QED
  BY <1>6, <1>7, <1>8, <1>9, <1>10, <1>11, <1>12, <1>13, <1>14, <1>15, <1>16, <1>17, <1>18,
     <1>19, <1>20, <1>21, <1>22, <1>23, <1>24, <1>25
  DEF Next, Turn, Stream

\* What holds between any two steps of the loop.
LoopInv == GuardInv /\ CountsOK /\ SessionOK /\ CallsAreAnswered /\ TurnsAreClosed

\* It holds of the first state.
LEMMA InitLoopInv ==
  ASSUME Init PROVE LoopInv
<1>1. GuardInv
  BY EmptySeq, BoundsAssumption
  DEF Init, GuardInv, PendingOK, GuardOK, StreakIsAhead, NoCallYet, NoneExecuted
<1>2. CountsOK
  <2>1. /\ MaxIterations \in Nat /\ MaxTurns \in Nat /\ MaxFailures \in Nat
        /\ MaxCrashes \in Nat /\ MaxCompactions \in Nat
    BY BoundsAssumption
  <2>2. /\ iterations \in 0..MaxIterations /\ turns \in 0..MaxTurns
        /\ failures \in 0..MaxFailures /\ crashes \in 0..MaxCrashes
        /\ compactions \in 0..MaxCompactions
    BY <2>1 DEF Init
  <2>3. {cancelled, recovered, continued, nudged, checked, edited, truncated} \subseteq BOOLEAN
    BY DEF Init
  <2>4. pc = "idle" /\ outcome = "none"
    BY DEF Init
  <2>5. QED
    BY <2>2, <2>3, <2>4 DEF CountsOK
<1>3. SessionOK
  BY EmptySeq DEF Init, SessionOK
<1>4. AllCallsAnswered(<<>>)
  <2>1. DOMAIN <<>> = {}
    OBVIOUS
  <2>2. QED
    BY <2>1 DEF AllCallsAnswered
<1>5. CallsAreAnswered /\ TurnsAreClosed
  BY <1>4 DEF Init, CallsAreAnswered, CarriesOut, TurnsAreClosed, Stopped
<1>6. QED
  BY <1>1, <1>2, <1>3, <1>5 DEF LoopInv

\* Every step keeps it.
LEMMA NextLoopInv ==
  ASSUME LoopInv, [Next]_vars PROVE LoopInv'
<1>1. PendingOK /\ failures \in Nat
  BY BoundsAssumption DEF LoopInv, GuardInv, CountsOK
<1>2. GuardInv' /\ CountsOK' /\ SessionOK'
  BY <1>1, NextGuardInv, NextCountsOK, NextSessionOK DEF LoopInv
<1>3. CallsAreAnswered' /\ TurnsAreClosed'
  BY <1>1, NextCallsAreAnswered, NextTurnsAreClosed DEF LoopInv
<1>4. QED
  BY <1>2, <1>3 DEF LoopInv

\* However responses, refusals, overflows, interrupts, failed writes and crashes follow
\* each other (conversation.rs, transcript.rs): the loop's invariant.
THEOREM LoopInvariance == Spec => []LoopInv
<1>1. Init => LoopInv
  BY InitLoopInv
<1>2. LoopInv /\ [Next]_vars => LoopInv'
  BY NextLoopInv
<1>3. QED
  BY <1>1, <1>2, PTL DEF Spec

\* normalize_messages (transcript.rs), as request_messages uses it: whatever failed writes
\* and crashes left in the transcript, in the request every call has its result right after
\* it, and every result its call.
THEOREM RequestsAreInOrder == Spec => []RequestsAreWellFormed
<1>1. LoopInv => RequestsAreWellFormed
  BY NormalizeCloses DEF LoopInv, SessionOK, Request, Closed, RequestsAreWellFormed
<1>2. QED
  BY LoopInvariance, <1>1, PTL

\* run_turn's promise (conversation.rs): while no write failed, the transcript of a turn
\* that is over answers every call, however the turn ended and however its calls were
\* rejected, denied, stopped or interrupted.
THEOREM CallsGetTheirResults == Spec => []EveryCallGetsAResult
<1>1. LoopInv => EveryCallGetsAResult
  BY DEF LoopInv, CallsAreAnswered, CarriesOut, EveryCallGetsAResult
<1>2. QED
  BY LoopInvariance, <1>1, PTL

\* finish_turn, finish_refused_turn and close_failed_turn (conversation.rs): while no write
\* failed, a stopped turn ends with an assistant message.
THEOREM StoppedTurnsAreClosed == Spec => []StoppedTurnIsClosed
<1>1. LoopInv => StoppedTurnIsClosed
  BY DEF LoopInv, TurnsAreClosed, Stopped, Ends, StoppedTurnIsClosed
<1>2. QED
  BY LoopInvariance, <1>1, PTL

\* Every variable of the turn loop keeps its kind.
THEOREM LoopTypes == Spec => []TypeOK
<1>1. LoopInv => TypeOK
  <2> SUFFICES ASSUME LoopInv PROVE TypeOK
    OBVIOUS
  <2>1. Messages \subseteq [role : {"user", "assistant", "tool", "system"}, ids : Seq(CallIds),
                            blank : BOOLEAN]
    BY DEF Messages, MessageType
  <2>2. {transcript, file} \subseteq
          Seq([role : {"user", "assistant", "tool", "system"}, ids : Seq(CallIds),
               blank : BOOLEAN])
    BY <2>1, SeqMonotonic DEF LoopInv, SessionOK
  <2>3. pending \in Seq([id : CallIds, sig : Signatures])
    BY DEF LoopInv, GuardInv, PendingOK, CallType
  <2>4. QED
    BY <2>2, <2>3 DEF LoopInv, GuardInv, GuardOK, CountsOK, TypeOK
<1>2. QED
  BY LoopInvariance, <1>1, PTL

-----------------------------------------------------------------------------
(* The turn loop: what it says for the user *)

UserPlaces(s) == {i \in DOMAIN s : s[i].role = "user"}

\* A transcript has no more of the user's messages than another one that has a place for
\* each of them.
LEMMA NoMorePrompts ==
  ASSUME NEW S, NEW s \in Seq(S), NEW T, NEW t \in Seq(T), NEW at,
         \A i \in UserPlaces(t) : at[i] \in UserPlaces(s),
         \A i, j \in UserPlaces(t) : at[i] = at[j] => i = j
  PROVE  /\ Prompts(s) \in Nat /\ Prompts(t) \in Nat
         /\ Prompts(t) <= Prompts(s)
<1>1. IsFiniteSet(UserPlaces(s)) /\ IsFiniteSet(UserPlaces(t))
  <2>1. IsFiniteSet(1..Len(s)) /\ IsFiniteSet(1..Len(t))
    BY LenProperties, FS_Interval
  <2>2. UserPlaces(s) \in SUBSET (1..Len(s)) /\ UserPlaces(t) \in SUBSET (1..Len(t))
    BY LenProperties DEF UserPlaces
  <2>3. QED
    BY <2>1, <2>2, FS_Subset
<1>2. Prompts(s) = Cardinality(UserPlaces(s)) /\ Prompts(t) = Cardinality(UserPlaces(t))
  BY DEF Prompts, UserPlaces
<1>3. Prompts(s) \in Nat /\ Prompts(t) \in Nat
  BY <1>1, <1>2, FS_CardinalityType
<1> DEFINE f == [i \in UserPlaces(t) |-> at[i]]
<1>4. f \in Injection(UserPlaces(t), UserPlaces(s))
  <2>1. f \in [UserPlaces(t) -> UserPlaces(s)]
    OBVIOUS
  <2>2. \A i, j \in UserPlaces(t) : f[i] = f[j] => i = j
    OBVIOUS
  <2>3. QED
    BY <2>1, <2>2 DEF Injection, IsInjective
<1>5. Cardinality(UserPlaces(t)) <= Cardinality(UserPlaces(s))
  BY <1>1, <1>4, FS_Injection
<1>6. QED
  BY <1>2, <1>3, <1>5

\* The count is a number, and the empty transcript's is none.
LEMMA PromptsAreCounted ==
  /\ \A s \in Seq(Messages) : Prompts(s) \in Nat
  /\ Prompts(<<>>) = 0
<1>1. ASSUME NEW s \in Seq(Messages) PROVE Prompts(s) \in Nat
  <2> DEFINE at == [i \in UserPlaces(s) |-> i]
  <2>1. /\ \A i \in UserPlaces(s) : at[i] \in UserPlaces(s)
        /\ \A i, j \in UserPlaces(s) : at[i] = at[j] => i = j
    OBVIOUS
  <2> HIDE DEF at
  <2>2. QED
    BY <2>1, NoMorePrompts
<1>2. UserPlaces(<<>>) = {}
  BY EmptySeq, LenProperties DEF UserPlaces
<1>3. QED
  BY <1>1, <1>2, FS_EmptySet DEF Prompts, UserPlaces

\* Messages that are not the user's add none.
LEMMA NoPromptsAdded ==
  ASSUME NEW s \in Seq(Messages), NEW e \in Seq(Messages),
         \A k \in 1..Len(e) : e[k].role # "user"
  PROVE  Prompts(s \o e) <= Prompts(s)
<1>1. PICK n \in Nat : n = Len(s) /\ DOMAIN s = 1..n
  BY LenProperties
<1>2. PICK l \in Nat : l = Len(e)
  BY LenProperties
<1>3. PICK t : t = s \o e
  OBVIOUS
<1>4. /\ t \in Seq(Messages) /\ Len(t) = n + l
      /\ \A i \in 1..(n + l) : t[i] = IF i <= n THEN s[i] ELSE e[i - n]
  BY <1>1, <1>2, <1>3, ConcatProperties
<1>5. DOMAIN t = 1..(n + l)
  BY <1>4, LenProperties
<1>6. ASSUME NEW i \in UserPlaces(t) PROVE i \in UserPlaces(s)
  <2>1. i \in 1..(n + l) /\ t[i].role = "user"
    BY <1>5, <1>6 DEF UserPlaces
  <2>2. CASE i <= n
    BY <1>1, <1>4, <2>1, <2>2 DEF UserPlaces
  <2>3. CASE ~(i <= n)
    <3>1. i - n \in 1..l
      BY <2>1, <2>3
    <3>2. t[i] = e[i - n]
      BY <1>4, <2>1, <2>3
    <3>3. QED
      BY <1>2, <2>1, <3>1, <3>2
  <2>4. QED
    BY <2>2, <2>3
<1> DEFINE at == [i \in UserPlaces(t) |-> i]
<1>7. /\ \A i \in UserPlaces(t) : at[i] \in UserPlaces(s)
      /\ \A i, j \in UserPlaces(t) : at[i] = at[j] => i = j
  BY <1>6
<1> HIDE DEF at
<1>8. QED
  BY <1>3, <1>4, <1>7, NoMorePrompts

\* One more message is one more of the user's, or of another's.
LEMMA OnePromptAdded ==
  ASSUME NEW s \in Seq(Messages), NEW m \in Messages
  PROVE  Prompts(Append(s, m)) = Prompts(s) + (IF m.role = "user" THEN 1 ELSE 0)
<1>1. PICK n \in Nat : n = Len(s) /\ DOMAIN s = 1..n
  BY LenProperties
<1>2. PICK t \in Seq(Messages) : t = Append(s, m)
  BY AppendProperties
<1>3. /\ Len(t) = n + 1 /\ t[n + 1] = m /\ DOMAIN t = 1..(n + 1)
      /\ \A i \in 1..n : t[i] = s[i]
  BY <1>1, <1>2, AppendProperties, LenProperties
<1>4. IsFiniteSet(UserPlaces(s)) /\ Prompts(s) = Cardinality(UserPlaces(s))
  <2>1. IsFiniteSet(1..n) /\ UserPlaces(s) \in SUBSET (1..n)
    BY <1>1, FS_Interval DEF UserPlaces
  <2>2. QED
    BY <2>1, FS_Subset DEF Prompts, UserPlaces
<1>5. Prompts(t) = Cardinality(UserPlaces(t)) /\ Prompts(t) \in Nat /\ Prompts(s) \in Nat
  BY PromptsAreCounted DEF Prompts, UserPlaces
<1>6. CASE m.role = "user"
  <2>1. UserPlaces(t) = UserPlaces(s) \cup {n + 1}
    <3>1. \A i \in 1..(n + 1) : i = n + 1 \/ i \in 1..n
      OBVIOUS
    <3>2. QED
      BY <1>1, <1>3, <1>6, <3>1 DEF UserPlaces
  <2>2. Cardinality(UserPlaces(t)) = Cardinality(UserPlaces(s)) + 1
    <3>1. n + 1 \notin UserPlaces(s)
      BY <1>1 DEF UserPlaces
    <3>2. QED
      BY <1>4, <2>1, <3>1, FS_AddElement
  <2>3. QED
    BY <1>2, <1>4, <1>5, <1>6, <2>2
<1>7. CASE m.role # "user"
  <2>1. UserPlaces(t) = UserPlaces(s)
    <3>1. \A i \in 1..(n + 1) : i = n + 1 \/ i \in 1..n
      OBVIOUS
    <3>2. QED
      BY <1>1, <1>3, <1>7, <3>1 DEF UserPlaces
  <2>2. QED
    BY <1>2, <1>4, <1>5, <1>7, <2>1
<1>8. QED
  BY <1>6, <1>7

\* A part of a transcript, after a summary or by itself, has no more than all of it.
LEMMA NoMoreInAPart ==
  ASSUME NEW s \in Seq(Messages)
  PROVE  /\ \A e \in 0..Len(s) : Prompts(SubSeq(s, 1, e)) <= Prompts(s)
         /\ \A b \in 0..Len(s) :
              Prompts(<<Summary>> \o SubSeq(s, b + 1, Len(s))) <= Prompts(s)
<1>1. PICK n \in Nat : n = Len(s) /\ DOMAIN s = 1..n
  BY LenProperties
<1>2. ASSUME NEW e \in 0..n PROVE Prompts(SubSeq(s, 1, e)) <= Prompts(s)
  <2>1. PICK t : t = SubSeq(s, 1, e)
    OBVIOUS
  <2>2. t \in Seq(Messages) /\ Len(t) = e /\ \A i \in 1..e : t[i] = s[i]
    BY <1>1, <2>1
  <2>3. DOMAIN t = 1..e
    BY <2>2, LenProperties
  <2> DEFINE at == [i \in UserPlaces(t) |-> i]
  <2>4. /\ \A i \in UserPlaces(t) : at[i] \in UserPlaces(s)
        /\ \A i, j \in UserPlaces(t) : at[i] = at[j] => i = j
    BY <1>1, <2>2, <2>3 DEF UserPlaces
  <2> HIDE DEF at
  <2>5. QED
    BY <2>1, <2>2, <2>4, NoMorePrompts
<1>3. ASSUME NEW b \in 0..n
      PROVE  Prompts(<<Summary>> \o SubSeq(s, b + 1, Len(s))) <= Prompts(s)
  <2>1. PICK t : t = <<Summary>> \o SubSeq(s, b + 1, Len(s))
    OBVIOUS
  <2>2. /\ t \in Seq(Messages) /\ Len(t) = 1 + (n - b) /\ t[1] = Summary
        /\ \A i \in 2..(1 + (n - b)) : t[i] = s[b + (i - 1)]
    BY <1>1, <2>1, SummaryAndEnd
  <2>3. DOMAIN t = 1..(1 + (n - b)) /\ Summary.role # "user"
    BY <2>2, LenProperties DEF Summary, Message
  <2>4. ASSUME NEW i \in UserPlaces(t)
        PROVE  b + (i - 1) \in UserPlaces(s)
    <3>1. i \in 2..(1 + (n - b))
      BY <2>2, <2>3 DEF UserPlaces
    <3>2. b + (i - 1) \in 1..n /\ t[i] = s[b + (i - 1)]
      BY <2>2, <3>1
    <3>3. QED
      BY <1>1, <3>2 DEF UserPlaces
  <2> DEFINE at == [i \in UserPlaces(t) |-> b + (i - 1)]
  <2>5. /\ \A i \in UserPlaces(t) : at[i] \in UserPlaces(s)
        /\ \A i, j \in UserPlaces(t) : at[i] = at[j] => i = j
    <3>1. \A i \in UserPlaces(t) : i \in Nat
      BY <2>3 DEF UserPlaces
    <3>2. QED
      BY <2>4, <3>1
  <2> HIDE DEF at
  <2>6. QED
    BY ZenonT(30), <2>1, <2>2, <2>5, NoMorePrompts
<1>4. QED
  BY <1>1, <1>2, <1>3

\* Normalizing a transcript adds none: what it writes itself is results.
LEMMA NormalizedPrompts ==
  ASSUME NEW s \in Seq(Messages)
  PROVE  Prompts(Normalize(s)) <= Prompts(s)
<1>1. PICK n \in Nat : n = Len(s) /\ DOMAIN s = 1..n
  BY LenProperties
<1>2. PICK read : Reads(s, read)
  BY NormalizeReads
<1> DEFINE upto == [k \in 0..n |-> SubSeq(s, 1, k)]
<1>3. \A k \in 0..n : /\ upto[k] = SubSeq(s, 1, k) /\ upto[k] \in Seq(Messages)
                      /\ Prompts(upto[k]) <= Prompts(s)
  <2> SUFFICES ASSUME NEW k \in 0..n
               PROVE  SubSeq(s, 1, k) \in Seq(Messages) /\ Prompts(SubSeq(s, 1, k)) <= Prompts(s)
    OBVIOUS
  <2>1. \A i \in 1..k : s[i] \in Messages
    BY <1>1, ElementOfSeq
  <2>2. QED
    BY <1>1, <2>1, SubSeqProperties, NoMoreInAPart
<1>4. ASSUME NEW k \in 1..n PROVE upto[k] = Append(upto[k - 1], s[k]) /\ s[k] \in Messages
  <2>1. k \in 1..Len(s) /\ 1 \in 1..Len(s) /\ k \in 1..Len(s) /\ k - 1 \in 0..n
    BY <1>1
  <2>2. SubSeq(s, 1, k) = SubSeq(s, 1, k - 1) \o <<s[k]>>
    BY <2>1, SubSeqRecursiveSecond
  <2>3. s[k] \in Messages
    BY <2>1, ElementOfSeq
  <2>4. SubSeq(s, 1, k) = Append(SubSeq(s, 1, k - 1), s[k])
    BY <1>3, <2>1, <2>2, <2>3, AppendIsConcat
  <2>5. QED
    BY SMTT(30), <1>3, <2>1, <2>3, <2>4
<1>5. upto[0] = <<>>
  BY <1>1, <1>3, SubSeqEmpty
<1> HIDE DEF upto
<1>6. \A k \in 0..n : read[k] \in Read /\ read[k].out \in Seq(Messages)
  BY <1>1, <1>2 DEF Reads, Read
<1>7. ASSUME NEW k \in 0..n
      PROVE  /\ read[k].out \o Flush(read[k].open) \in Seq(Messages)
             /\ Prompts(read[k].out \o Flush(read[k].open)) <= Prompts(read[k].out)
  <2>1. read[k].open \in OpenType /\ Distinct(read[k].open.calls)
    BY <1>6 DEF Read
  <2>2. PICK e \in Seq(Messages) : /\ e = Flush(read[k].open)
                                   /\ \A i \in 1..Len(e) : e[i].role = "tool"
    BY <2>1, FlushedCalls
  <2>3. \A i \in 1..Len(e) : e[i].role # "user"
    BY <2>2
  <2>4. QED
    BY <1>6, <2>2, <2>3, NoPromptsAdded, ConcatProperties
<1> DEFINE T == {k \in 0..n : Prompts(read[k].out) <= Prompts(upto[k])}
<1>8. 0 \in T
  <2>1. read[0].out = <<>>
    BY <1>2 DEF Reads
  <2>2. 0 \in 0..n /\ Prompts(read[0].out) = Prompts(upto[0]) /\ Prompts(upto[0]) \in Nat
    BY <1>5, <2>1, PromptsAreCounted
  <2>3. QED
    BY <2>2
<1>9. ASSUME NEW k \in 1..n, k - 1 \in T PROVE k \in T
  <2>1. PICK acc : acc = read[k - 1]
    OBVIOUS
  <2>2. PICK m \in Messages : m = s[k]
    BY <1>4
  <2>3. read[k] = Normalized1(acc, m)
    BY <1>1, <1>2, <2>1, <2>2 DEF Reads
  <2>4. PICK l : l = k - 1 /\ l \in 0..n
    BY <1>1
  <2>5. PICK w \in Seq(Messages) : /\ w = acc.out \o Flush(acc.open)
                                   /\ Prompts(w) <= Prompts(acc.out)
    BY <1>7, <2>1, <2>4
  <2>6. /\ Prompts(acc.out) <= Prompts(upto[l]) /\ acc.out \in Seq(Messages)
        /\ upto[l] \in Seq(Messages)
    BY <1>3, <1>6, <1>9, <2>1, <2>4
  <2>7. Prompts(upto[k]) = Prompts(upto[l]) + (IF m.role = "user" THEN 1 ELSE 0)
    BY <1>4, <2>2, <2>4, <2>6, OnePromptAdded
  <2>8. /\ Prompts(Append(w, m)) = Prompts(w) + (IF m.role = "user" THEN 1 ELSE 0)
        /\ Prompts(Append(acc.out, m)) = Prompts(acc.out) + (IF m.role = "user" THEN 1 ELSE 0)
    BY <2>6, OnePromptAdded
  <2>9. /\ Prompts(w) \in Nat /\ Prompts(acc.out) \in Nat /\ Prompts(upto[l]) \in Nat
        /\ k \in 0..n
    BY <1>1, <2>6, PromptsAreCounted
  <2>10. \/ read[k].out = Append(w, m)
         \/ /\ read[k].out = Append(acc.out, m) \/ read[k].out = acc.out
            /\ m.role # "user"
    <3>1. CASE m.role = "assistant"
      <4>1. read[k] = [out |-> Append(w, m), open |-> Track(m.ids)]
        BY <2>3, <2>5, <3>1, Zenon DEF Normalized1
      <4>2. QED
        BY <4>1
    <3>2. CASE m.role = "tool" /\ m.ids[1] \in SetOf(acc.open.calls) \ acc.open.answered
      BY <2>3, <3>2 DEF Normalized1
    <3>3. CASE m.role = "tool" /\ m.ids[1] \notin SetOf(acc.open.calls) \ acc.open.answered
      BY <2>3, <3>3 DEF Normalized1
    <3>4. CASE m.role \notin {"assistant", "tool"}
      <4>1. m.role # "assistant" /\ m.role # "tool"
        BY <3>4
      <4>2. read[k] = [out |-> Append(w, m), open |-> NoCalls]
        BY <2>3, <2>5, <4>1, Zenon DEF Normalized1
      <4>3. QED
        BY <4>2
    <3>5. QED
      BY <3>1, <3>2, <3>3, <3>4
  <2>11. PICK x \in Nat, y \in Nat, z \in Nat :
           x = Prompts(w) /\ y = Prompts(acc.out) /\ z = Prompts(upto[l])
    BY <2>9
  <2>12. Prompts(read[k].out) <= Prompts(upto[k])
    <3>1. x <= y /\ y <= z
      BY <2>5, <2>6, <2>11
    <3>2. CASE read[k].out = Append(w, m)
      <4>1. Prompts(read[k].out) = x + (IF m.role = "user" THEN 1 ELSE 0)
        BY <2>8, <2>11, <3>2
      <4>2. Prompts(upto[k]) = z + (IF m.role = "user" THEN 1 ELSE 0)
        BY <2>7, <2>11
      <4>3. x + (IF m.role = "user" THEN 1 ELSE 0) <= z + (IF m.role = "user" THEN 1 ELSE 0)
        BY <3>1
      <4>4. QED
        BY <4>1, <4>2, <4>3
    <3>3. CASE /\ read[k].out = Append(acc.out, m) \/ read[k].out = acc.out
               /\ m.role # "user"
      <4>1. Prompts(read[k].out) = y
        <5>1. Prompts(Append(acc.out, m)) = y
          BY <2>8, <2>11, <3>3
        <5>2. QED
          BY <2>11, <3>3, <5>1
      <4>2. Prompts(upto[k]) = z
        BY <2>7, <2>11, <3>3
      <4>3. QED
        BY <3>1, <4>1, <4>2
    <3>4. QED
      BY <2>10, <3>2, <3>3
  <2>13. QED
    BY <2>9, <2>12
<1> HIDE DEF T
<1>10. \A k \in 0..n : k \in T
  BY <1>8, <1>9, UpTo
<1>11. n \in 0..n
  BY <1>1
<1>12. PICK t \in Seq(Messages) : /\ t = read[n].out \o Flush(read[n].open)
                                  /\ Prompts(t) <= Prompts(s)
  <2>1. Prompts(read[n].out) <= Prompts(upto[n]) /\ Prompts(upto[n]) <= Prompts(s)
    BY <1>3, <1>10, <1>11 DEF T
  <2>2. PICK t \in Seq(Messages) : /\ t = read[n].out \o Flush(read[n].open)
                                   /\ Prompts(t) <= Prompts(read[n].out)
    BY <1>7, <1>11
  <2>3. /\ Prompts(t) \in Nat /\ Prompts(read[n].out) \in Nat /\ Prompts(upto[n]) \in Nat
        /\ Prompts(s) \in Nat
    BY <1>3, <1>6, <1>11, PromptsAreCounted
  <2>4. PICK x \in Nat, y \in Nat, z \in Nat, u \in Nat :
          /\ x = Prompts(t) /\ y = Prompts(read[n].out)
          /\ z = Prompts(upto[n]) /\ u = Prompts(s)
    BY <2>3
  <2>5. x <= u
    <3>1. x <= y /\ y <= z /\ z <= u
      BY <2>1, <2>2, <2>4
    <3>2. QED
      BY <3>1
  <2>6. QED
    BY <2>2, <2>4, <2>5
<1>13. PICK e \in 0..Len(t) : DropBlankTail(t) = SubSeq(t, 1, e)
  BY BlankTail
<1>14. Normalize(s) = SubSeq(t, 1, e)
  BY <1>1, <1>2, <1>12, <1>13 DEF Reads
<1>15. Prompts(SubSeq(t, 1, e)) <= Prompts(t) /\ Prompts(t) \in Nat /\ Prompts(s) \in Nat
  BY NoMoreInAPart, PromptsAreCounted
<1>16. Prompts(Normalize(s)) \in Nat
  BY NormalizeCloses, PromptsAreCounted
<1>17. QED
  BY <1>12, <1>14, <1>15, <1>16

\* The session holds at most m of the user's messages.
AtMost(m) == Prompts(transcript) <= m /\ Prompts(file) <= m

\* Writing messages adds no more of the user's than there are among them: none, or one.
LEMMA PushedPrompts ==
  ASSUME SessionOK, NEW m \in Int, AtMost(m), NEW ms \in Seq(Messages), NEW next,
         Push(ms, next)
  PROVE  /\ (\A k \in 1..Len(ms) : ms[k].role # "user") => AtMost(m)'
         /\ ms = <<User>> => AtMost(m + 1)'
<1>1. PICK l \in Nat : l = Len(ms)
  BY LenProperties
<1>2. PICK s \in Seq(Messages), f \in Seq(Messages) : s = transcript /\ f = file
  BY DEF SessionOK
<1>3. PICK e \in Seq(Messages) :
        /\ transcript' = s \o e /\ file' = f \o e
        /\ Len(e) <= l /\ \A k \in 1..Len(e) : k \in 1..l /\ e[k] = ms[k]
  <2>1. CASE transcript' = s \o ms /\ file' = f \o ms
    <3>1. Len(ms) <= l /\ \A k \in 1..Len(ms) : k \in 1..l
      BY <1>1
    <3>2. QED
      BY <2>1, <3>1
  <2>2. ASSUME NEW n \in 0..(l - 1),
               transcript' = s \o SubSeq(ms, 1, n), file' = f \o SubSeq(ms, 1, n)
        PROVE  \E e \in Seq(Messages) :
                 /\ transcript' = s \o e /\ file' = f \o e
                 /\ Len(e) <= l /\ \A k \in 1..Len(e) : k \in 1..l /\ e[k] = ms[k]
    <3>1. PICK e : e = SubSeq(ms, 1, n)
      OBVIOUS
    <3>2. e \in Seq(Messages) /\ Len(e) = n /\ \A k \in 1..n : e[k] = ms[k]
      BY <1>1, <3>1
    <3>3. n <= l /\ \A k \in 1..n : k \in 1..l
      BY <1>1
    <3>4. QED
      BY <2>2, <3>1, <3>2, <3>3
  <2>3. QED
    BY <1>1, <1>2, <2>1, <2>2 DEF Push
<1>4. PICK x \in Nat, y \in Nat : x = Prompts(s) /\ y = Prompts(f) /\ x <= m /\ y <= m
  BY <1>2, PromptsAreCounted DEF AtMost
<1>5. ASSUME \A k \in 1..l : ms[k].role # "user" PROVE AtMost(m)'
  <2>1. \A k \in 1..Len(e) : e[k].role # "user"
    BY <1>3, <1>5
  <2>2. Prompts(s \o e) <= x /\ Prompts(f \o e) <= y
    BY <1>4, <2>1, NoPromptsAdded
  <2>3. s \o e \in Seq(Messages) /\ f \o e \in Seq(Messages)
    BY ConcatProperties
  <2>4. PICK z \in Nat, u \in Nat : z = Prompts(s \o e) /\ u = Prompts(f \o e)
    BY <2>3, PromptsAreCounted
  <2>5. z <= m /\ u <= m
    BY <1>4, <2>2, <2>4
  <2>6. QED
    BY <1>3, <2>4, <2>5 DEF AtMost
<1>6. ASSUME ms = <<User>> PROVE AtMost(m + 1)'
  <2>1. l = 1 /\ ms[1] = User /\ User \in Messages /\ User.role = "user"
    BY <1>1, <1>6, OwnMessages DEF User, Message
  <2>2. CASE Len(e) = 0
    <3>1. e = <<>>
      BY <2>2, EmptySeq
    <3>2. s \o e = s /\ f \o e = f
      BY <3>1
    <3>3. x <= m + 1 /\ y <= m + 1
      BY <1>4
    <3>4. QED
      BY <1>3, <1>4, <3>2, <3>3 DEF AtMost
  <2>3. CASE Len(e) = 1
    <3>1. e[1] = User
      BY <1>3, <2>1, <2>3
    <3>2. e = <<User>>
      BY <2>3, <3>1
    <3>3. s \o e = Append(s, User) /\ f \o e = Append(f, User)
      BY <2>1, <3>2, AppendIsConcat
    <3>4. Prompts(Append(s, User)) = x + 1 /\ Prompts(Append(f, User)) = y + 1
      BY <1>4, <2>1, OnePromptAdded
    <3>5. x + 1 <= m + 1 /\ y + 1 <= m + 1
      BY <1>4
    <3>6. QED
      BY <1>3, <3>3, <3>4, <3>5 DEF AtMost
  <2>4. Len(e) \in 0..1
    <3>1. PICK j \in Nat : j = Len(e) /\ j <= 1
      BY <1>3, <2>1, LenProperties
    <3>2. QED
      BY <3>1
  <2>5. QED
    BY <2>2, <2>3, <2>4
<1>7. QED
  BY <1>1, <1>5, <1>6

\* Shrinking the context adds none.
LEMMA ShrunkPrompts ==
  ASSUME SessionOK, NEW m \in Int, AtMost(m), NEW minRecent \in {1, 2}, NEW next,
         Shrinks(minRecent, next)
  PROVE  AtMost(m)'
<1>1. PICK s \in Seq(Messages), f \in Seq(Messages) : s = transcript /\ f = file
  BY DEF SessionOK
<1>2. PICK t \in Seq(Messages) : t = transcript' /\ Prompts(t) <= Prompts(s)
  <2>1. CASE transcript' = transcript
    <3>1. Prompts(s) <= Prompts(s)
      BY PromptsAreCounted
    <3>2. QED
      BY <1>1, <2>1, <3>1
  <2>2. CASE transcript' \in Compacted(minRecent)
    <3>1. PICK k \in PrefixLen..(Len(transcript) - minRecent) :
            transcript' = <<Summary>> \o SubSeq(transcript, PairSafe(k) + 1, Len(transcript))
      BY <2>2 DEF Compacted
    <3>2. PICK n \in Nat : n = Len(transcript)
      BY <1>1, LenProperties
    <3>3. PrefixLen \in Nat
      BY DEF PrefixLen
    <3>4. k \in PrefixLen..Len(transcript)
      BY <3>2, <3>3
    <3>5. PairSafe(k) \in PrefixLen..k
      BY <1>1, <3>4, BoundaryIsFound
    <3>6. PICK b \in 0..Len(s) : b = PairSafe(k)
      BY <1>1, <3>2, <3>3, <3>4, <3>5
    <3>7. Prompts(<<Summary>> \o SubSeq(s, b + 1, Len(s))) <= Prompts(s)
      BY NoMoreInAPart
    <3>8. QED
      BY <1>1, <3>1, <3>6, <3>7, Shrunk
  <2>3. QED
    BY <2>1, <2>2 DEF Shrinks
<1>3. PICK x \in Nat, y \in Nat, z \in Nat :
        /\ x = Prompts(s) /\ y = Prompts(f) /\ z = Prompts(t)
        /\ x <= m /\ y <= m /\ z <= x
  BY <1>1, <1>2, PromptsAreCounted DEF AtMost
<1>4. z <= m
  BY <1>3
<1>5. file' \in {f, t}
  BY <1>1, <1>2 DEF Shrinks
<1>6. QED
  BY <1>2, <1>3, <1>4, <1>5 DEF AtMost

\* The steps that write a message in the user's place.
Speaks == StartTurn \/ Continue \/ Nudge

\* A result is no message of the user's, and neither is what the model or the runtime says.
LEMMA OthersMessages ==
  /\ \A calls \in Seq(CallType) : \A k \in 1..Len(Results(calls)) :
       Results(calls)[k].role # "user"
  /\ Note.role # "user" /\ Summary.role # "user"
  /\ \A ids, blank : Assistant(ids, blank).role # "user"
  /\ \A id : Result(id).role # "user"
<1>1. /\ Note.role # "user" /\ Summary.role # "user"
      /\ \A ids, blank : Assistant(ids, blank).role # "user"
      /\ \A id : Result(id).role # "user"
  BY DEF Note, Summary, Assistant, Result, Message
<1>2. ASSUME NEW calls \in Seq(CallType), NEW k \in 1..Len(Results(calls))
      PROVE  Results(calls)[k].role # "user"
  <2>1. Results(calls) = [i \in DOMAIN calls |-> Result(calls[i].id)]
    BY DEF Results
  <2>2. Results(calls) \in Seq(Messages)
    BY ResultsOfCalls
  <2>3. k \in DOMAIN Results(calls)
    BY <2>2, LenProperties
  <2>4. Results(calls)[k] = Result(calls[k].id)
    BY <2>1, <2>3
  <2>5. QED
    BY <1>1, <2>4
<1>3. QED
  BY <1>1, <1>2

\* Every step adds at most one of the user's messages, and only a prompt, a continuation or
\* a nudge adds one.
LEMMA NextPrompts ==
  ASSUME SessionOK, PendingOK, NEW m \in Int, AtMost(m), [Next]_vars
  PROVE  AtMost(m)' \/ (Speaks /\ AtMost(m + 1)')
<1>1. PICK s \in Seq(Messages), f \in Seq(Messages) : s = transcript /\ f = file
  BY DEF SessionOK
<1>2. PICK x \in Nat, y \in Nat : x = Prompts(s) /\ y = Prompts(f) /\ x <= m /\ y <= m
  BY <1>1, PromptsAreCounted DEF AtMost
<1>3. ASSUME NEW t \in Seq(Messages), Prompts(t) <= x \/ Prompts(t) <= y
      PROVE  Prompts(t) <= m /\ Prompts(t) <= m + 1
  <2>1. PICK z \in Nat : z = Prompts(t)
    BY PromptsAreCounted
  <2>2. QED
    BY <1>2, <1>3, <2>1
<1>4. /\ Prompts(s) <= m /\ Prompts(f) <= m /\ Prompts(s) <= m + 1 /\ Prompts(f) <= m + 1
  BY <1>2
<1>5. CASE UNCHANGED <<transcript, file>>
  BY <1>1, <1>4, <1>5 DEF AtMost
<1>6. CASE StartTurn
  <2>1. /\ Request \in Seq(Messages) /\ Prompts(Request) <= x
        /\ RepairedFile \in Seq(Messages)
        /\ Prompts(RepairedFile) <= x \/ RepairedFile = f
    BY <1>1, <1>2, NormalizeCloses, NormalizedPrompts DEF Request, RepairedFile
  <2>2. PICK r \in Seq(Messages), g \in Seq(Messages) :
          /\ r = Request /\ g = RepairedFile /\ Prompts(r) <= m /\ Prompts(g) <= m
    BY <1>3, <1>4, <2>1
  <2>3. ASSUME NEW t \in {s, f, r, g}
        PROVE  Prompts(t) <= m + 1 /\ Prompts(Append(t, User)) <= m + 1
    <3>1. t \in Seq(Messages) /\ Prompts(t) <= m
      BY <1>4, <2>2
    <3>2. PICK z \in Nat : z = Prompts(t)
      BY <3>1, PromptsAreCounted
    <3>3. User \in Messages /\ User.role = "user"
      BY OwnMessages DEF User, Message
    <3>4. Prompts(Append(t, User)) = z + 1
      BY <3>1, <3>2, <3>3, OnePromptAdded
    <3>5. z <= m + 1 /\ z + 1 <= m + 1
      BY <3>1, <3>2
    <3>6. QED
      BY <3>2, <3>4, <3>5
  <2>4. transcript' \in {r, Append(r, User)}
    BY <1>6, <2>2 DEF StartTurn
  <2>5. file' \in {Append(g, User), Append(f, User), f, g}
    BY <1>1, <1>6, <2>2 DEF StartTurn
  <2>6. QED
    BY <1>6, <2>3, <2>4, <2>5 DEF AtMost, Speaks
<1>7. CASE LoopTop
  <2>1. CASE UNCHANGED session
    BY <1>5, <2>1 DEF session
  <2>2. CASE Shrinks(2, "stream")
    BY <2>2, ShrunkPrompts
  <2>3. QED
    BY <1>7, <2>1, <2>2 DEF LoopTop
<1>8. CASE StreamInterrupted
  <2>1. PICK partial \in {<<>>, <<Note>>} : Push(partial, "close")
    BY <1>8 DEF StreamInterrupted
  <2>2. \A k \in 1..Len(partial) : partial[k].role # "user"
    BY OthersMessages
  <2>3. QED
    BY <2>1, <2>2, SingleMessages, PushedPrompts
<1>9. CASE StreamOverflows
  <2>1. CASE UNCHANGED session
    BY <1>5, <2>1 DEF session
  <2>2. CASE Shrinks(1, "loop")
    BY <2>2, ShrunkPrompts
  <2>3. QED
    BY <1>9, <2>1, <2>2 DEF StreamOverflows
<1>10. CASE Continue \/ Nudge
  <2>1. Push(<<User>>, "loop")
    BY <1>10 DEF Continue, Nudge
  <2>2. AtMost(m + 1)'
    BY <2>1, SingleMessages, PushedPrompts
  <2>3. QED
    BY <1>10, <2>2 DEF Speaks
<1>11. CASE InterruptCalls \/ AbandonCall \/ StopLoop
  <2>1. PICK next : Push(Results(pending), next)
    BY <1>11 DEF InterruptCalls, AbandonCall, StopLoop, EndCalls
  <2>2. /\ Results(pending) \in Seq(Messages)
        /\ \A k \in 1..Len(Results(pending)) : Results(pending)[k].role # "user"
    BY ResultsOfCalls, OthersMessages DEF PendingOK
  <2>3. PICK ms \in Seq(Messages) : ms = Results(pending)
    BY <2>2
  <2>4. QED
    BY <2>1, <2>2, <2>3, PushedPrompts
<1>12. CASE RejectCall \/ ExecuteCall
  <2>1. Push(<<Result(Head(pending).id)>>, "calls") /\ pending # <<>>
    BY <1>12 DEF RejectCall, ExecuteCall, PendingOK
  <2>2. PICK ms \in Seq(Messages) : ms = <<Result(Head(pending).id)>>
    BY <2>1, FirstAnswered DEF PendingOK
  <2>3. \A k \in 1..Len(ms) : ms[k].role # "user"
    BY <2>2, OthersMessages
  <2>4. QED
    BY <2>1, <2>2, <2>3, PushedPrompts
<1>13. CASE Close \/ CloseFailed
  <2>1. CloseWithNote
    BY <1>13 DEF Close, CloseFailed
  <2>2. CASE UNCHANGED session
    BY <1>5, <2>2 DEF session
  <2>3. CASE transcript' = Append(transcript, Note) /\ file' = Append(file, Note)
    <3>1. Note \in Messages /\ Note.role # "user"
      BY OwnMessages, OthersMessages
    <3>2. Prompts(Append(s, Note)) = x /\ Prompts(Append(f, Note)) = y
      <4>1. Prompts(Append(s, Note)) = x + 0 /\ Prompts(Append(f, Note)) = y + 0
        BY <1>2, <3>1, OnePromptAdded
      <4>2. QED
        BY <4>1
    <3>3. QED
      BY <1>1, <1>2, <2>3, <3>2 DEF AtMost
  <2>4. QED
    BY <2>1, <2>2, <2>3 DEF CloseWithNote
<1>14. CASE Save
  <2>1. transcript' = s /\ file' \in {s, f}
    BY <1>1, <1>14 DEF Save
  <2>2. QED
    BY <1>4, <2>1 DEF AtMost
<1>15. CASE Crash
  <2>1. transcript' = Normalize(f) /\ file' = Normalize(f)
    BY <1>1, <1>15 DEF Crash
  <2>2. Normalize(f) \in Seq(Messages) /\ Prompts(Normalize(f)) <= y
    BY <1>2, NormalizeCloses, NormalizedPrompts
  <2>3. Prompts(Normalize(f)) <= m
    BY <1>3, <2>2
  <2>4. QED
    BY <2>1, <2>3 DEF AtMost
<1>16. CASE StreamFails \/ EndReply \/ CallsDone \/ StartCall \/ Interrupt \/ AllTurnsDone
            \/ UNCHANGED vars
  <2>1. UNCHANGED session
    BY <1>16 DEF StreamFails, EndReply, CallsDone, StartCall, Interrupt, AllTurnsDone, vars
  <2>2. QED
    BY <1>5, <2>1 DEF session
<1>17. ASSUME NEW calls \in CallLists, NEW text \in Texts, Refuses(calls, text)
       PROVE  AtMost(m)'
  <2>1. PICK message : message = IF calls = <<>> /\ text = "none" THEN <<>>
                                 ELSE <<Assistant(Ids(calls), text # "some")>>
    OBVIOUS
  <2>2. Push(message \o Results(calls), "close")
    BY <1>17, <2>1 DEF Refuses
  <2>3. /\ message \in Seq(Messages) /\ Results(calls) \in Seq(Messages)
        /\ calls \in Seq(CallType)
    BY <2>1, ResponseMessages, ResultsOfCalls
  <2>4. \A k \in 1..Len(message) : message[k].role # "user"
    <3>1. CASE message = <<>>
      BY <3>1
    <3>2. CASE message = <<Assistant(Ids(calls), text # "some")>>
      BY <3>2, OthersMessages
    <3>3. QED
      BY <2>1, <3>1, <3>2
  <2>5. PICK r \in Seq(Messages) : /\ r = Results(calls)
                                   /\ \A k \in 1..Len(r) : r[k].role # "user"
    BY <2>3, OthersMessages
  <2>6. PICK a \in Nat, b \in Nat : a = Len(message) /\ b = Len(r)
    BY <2>3, LenProperties
  <2>7. PICK ms \in Seq(Messages) :
          /\ ms = message \o r /\ Len(ms) = a + b
          /\ \A k \in 1..(a + b) : ms[k] = IF k <= a THEN message[k] ELSE r[k - a]
    <3>1. PICK ms : ms = message \o r
      OBVIOUS
    <3>2. /\ ms \in Seq(Messages) /\ Len(ms) = a + b
          /\ \A k \in 1..(a + b) : ms[k] = IF k <= a THEN message[k] ELSE r[k - a]
      BY <2>3, <2>5, <2>6, <3>1, ConcatProperties
    <3>3. QED
      BY <3>1, <3>2
  <2>8. ASSUME NEW k \in 1..(a + b) PROVE ms[k].role # "user"
    <3>1. CASE k <= a
      BY <2>4, <2>6, <2>7, <3>1
    <3>2. CASE ~(k <= a)
      <4>1. k - a \in 1..b
        BY <3>2
      <4>2. QED
        BY <2>5, <2>6, <2>7, <3>2, <4>1
    <3>3. QED
      BY <3>1, <3>2
  <2>9. \A k \in 1..Len(ms) : ms[k].role # "user"
    BY <2>7, <2>8
  <2>10. QED
    BY <2>2, <2>5, <2>7, <2>9, PushedPrompts
<1>18. ASSUME NEW calls \in CallLists, NEW text \in Texts, NEW cutOff \in BOOLEAN,
             Responds(calls, text, cutOff)
       PROVE  AtMost(m)'
  <2>1. PICK message : message = IF calls = <<>> /\ text = "none" THEN Note
                                 ELSE Assistant(Ids(calls), text # "some")
    OBVIOUS
  <2>2. PICK next : Push(<<message>>, next)
    BY <1>18, <2>1 DEF Responds
  <2>3. <<message>> \in Seq(Messages) /\ message.role # "user"
    BY <2>1, ResponseMessages, SingleMessages, OthersMessages
  <2>4. PICK ms \in Seq(Messages) : ms = <<message>>
    BY <2>3
  <2>5. \A k \in 1..Len(ms) : ms[k].role # "user"
    BY <2>3, <2>4
  <2>6. QED
    BY <2>2, <2>4, <2>5, PushedPrompts
<1>19. QED
  BY <1>6, <1>7, <1>8, <1>9, <1>10, <1>11, <1>12, <1>13, <1>14, <1>15, <1>16, <1>17, <1>18
  DEF Next, Turn, Stream

\* A turn's prompt, and one message more for each flag set (one continuation, one nudge and
\* one completion check); between turns, all four of every turn begun.
TurnOver == pc \in {"idle", "save"}
Spoken == (IF continued THEN 1 ELSE 0) + (IF nudged THEN 1 ELSE 0) + (IF checked THEN 1 ELSE 0)
MostPrompts == IF TurnOver THEN 4 * turns ELSE 4 * (turns - 1) + 1 + Spoken
PromptsAreFew == AtMost(MostPrompts) /\ (TurnOver => Spoken = 0)

\* Every step that speaks for the user is counted.
LEMMA NextIsCounted ==
  ASSUME CountsOK, TurnOver => Spoken = 0, [Next]_vars
  PROVE  /\ MostPrompts \in Int
         /\ MostPrompts' \in Int /\ MostPrompts' >= MostPrompts
         /\ Speaks => MostPrompts' >= MostPrompts + 1
         /\ (TurnOver => Spoken = 0)'
<1> DEFINE Counted == /\ MostPrompts' \in Int /\ MostPrompts' >= MostPrompts
                      /\ Speaks => MostPrompts' >= MostPrompts + 1
                      /\ (TurnOver => Spoken = 0)'
<1>1. turns \in Nat /\ Spoken \in 0..3 /\ MostPrompts \in Int
  BY DEF CountsOK, Spoken, MostPrompts, TurnOver
<1> SUFFICES Counted
  BY <1>1
<1>2. FreshTurn => Spoken' = 0
  BY DEF FreshTurn, Spoken
<1>3. CASE StartTurn
  <2>1. /\ TurnOver /\ turns' = turns + 1 /\ Spoken' = Spoken
        /\ pc' \in {"loop", "save"}
    BY <1>3 DEF StartTurn, TurnOver, turnVars, progressVars, Spoken
  <2>2. Spoken' = 0 /\ MostPrompts = 4 * turns
    BY <2>1 DEF MostPrompts
  <2>3. MostPrompts' \in {4 * (turns + 1), 4 * turns + 1 + 0}
    BY <1>1, <2>1, <2>2 DEF MostPrompts
  <2>4. QED
    BY <1>1, <2>2, <2>3
<1>4. CASE Continue \/ Nudge
  <2>1. ~TurnOver /\ turns' = turns /\ pc' \in {"loop", "failed"}
    BY <1>4 DEF Continue, Nudge, Push, TurnOver
  <2>2. Spoken' = Spoken + 1
    <3>1. /\ {continued, nudged, checked} \subseteq BOOLEAN
          /\ \/ ~continued /\ continued' /\ nudged' = nudged /\ checked' = checked
             \/ ~nudged /\ nudged' /\ continued' = continued /\ checked' = checked
             \/ ~checked /\ checked' /\ continued' = continued /\ nudged' = nudged
      BY <1>4 DEF Continue, Nudge, MayContinue, NotYet, CountsOK
    <3>2. QED
      BY <3>1 DEF Spoken
  <2>3. ~TurnOver'
    BY <2>1 DEF TurnOver
  <2>4. MostPrompts' = MostPrompts + 1
    BY <1>1, <2>1, <2>2, <2>3 DEF MostPrompts
  <2>5. QED
    BY <1>1, <2>3, <2>4
<1>5. CASE Speaks
  BY <1>1, <1>3, <1>4, <1>5 DEF Speaks
<1>6. ASSUME turns' = turns,
             \/ Spoken' = Spoken /\ (TurnOver' <=> TurnOver)
             \/ TurnOver' /\ Spoken' = 0
      PROVE  Counted
  <2>1. CASE Spoken' = Spoken /\ (TurnOver' <=> TurnOver)
    <3>1. MostPrompts' = MostPrompts
      BY <1>6, <2>1 DEF MostPrompts
    <3>2. QED
      BY <1>1, <1>5, <2>1, <3>1
  <2>2. CASE TurnOver' /\ Spoken' = 0
    <3>1. MostPrompts' = 4 * turns
      BY <1>6, <2>2 DEF MostPrompts
    <3>2. MostPrompts <= 4 * turns
      BY <1>1 DEF MostPrompts
    <3>3. QED
      BY <1>1, <1>5, <2>2, <3>1, <3>2
  <2>3. QED
    BY <1>6, <2>1, <2>2
<1> HIDE DEF Counted
<1>7. ASSUME NEW next, \E ms : Push(ms, next), next \notin {"idle", "save"}
      PROVE  ~TurnOver'
  BY <1>7 DEF Push, TurnOver
<1>8. ASSUME UNCHANGED progressVars PROVE Spoken' = Spoken
  BY <1>8 DEF progressVars, Spoken
<1>9. CASE LoopTop \/ StreamOverflows
  <2>1. turns' = turns /\ Spoken' = Spoken /\ ~TurnOver /\ ~TurnOver'
    BY <1>9 DEF LoopTop, StreamOverflows, Shrinks, TurnOver, Spoken
  <2>2. QED
    BY <1>6, <2>1
<1>10. CASE StreamInterrupted
  <2>1. ~TurnOver /\ turns' = turns /\ UNCHANGED progressVars /\ \E ms : Push(ms, "close")
    BY <1>10 DEF StreamInterrupted, TurnOver
  <2>2. QED
    BY <1>6, <1>7, <1>8, <2>1
<1>11. CASE InterruptCalls \/ AbandonCall
  <2>1. ~TurnOver /\ turns' = turns /\ UNCHANGED progressVars /\ \E ms : Push(ms, "close")
    BY <1>11 DEF InterruptCalls, AbandonCall, EndCalls, TurnOver
  <2>2. QED
    BY <1>6, <1>7, <1>8, <2>1
<1>12. CASE RejectCall
  <2>1. ~TurnOver /\ turns' = turns /\ UNCHANGED progressVars /\ \E ms : Push(ms, "calls")
    BY <1>12 DEF RejectCall, TurnOver
  <2>2. QED
    BY <1>6, <1>7, <1>8, <2>1
<1>13. CASE ExecuteCall
  <2>1. ~TurnOver /\ turns' = turns /\ Spoken' = Spoken /\ \E ms : Push(ms, "calls")
    BY <1>13 DEF ExecuteCall, TurnOver, Spoken
  <2>2. QED
    BY <1>6, <1>7, <2>1
<1>14. CASE StopLoop
  <2>1. /\ ~TurnOver /\ turns' = turns
        /\ \/ TurnOver' /\ Spoken' = 0
           \/ ~TurnOver' /\ Spoken' = Spoken
    BY <1>2, <1>8, <1>14 DEF StopLoop, TurnOver
  <2>2. QED
    BY <1>6, <2>1
<1>15. CASE EndReply \/ Close \/ CloseFailed \/ Crash
  <2>1. turns' = turns /\ TurnOver' /\ Spoken' = 0
    BY <1>2, <1>15 DEF EndReply, Close, CloseFailed, Crash, TurnOver
  <2>2. QED
    BY <1>6, <2>1
<1>16. CASE Save
  <2>1. turns' = turns /\ (TurnOver' <=> TurnOver) /\ UNCHANGED progressVars
    BY <1>16 DEF Save, TurnOver, turnVars
  <2>2. QED
    BY <1>6, <1>8, <2>1
<1>17. CASE StreamFails \/ CallsDone \/ StartCall
  <2>1. turns' = turns /\ ~TurnOver /\ ~TurnOver' /\ UNCHANGED progressVars
    BY <1>17 DEF StreamFails, CallsDone, StartCall, TurnOver
  <2>2. QED
    BY <1>6, <1>8, <2>1
<1>18. CASE Interrupt \/ AllTurnsDone \/ UNCHANGED vars
  <2>1. turns' = turns /\ (TurnOver' <=> TurnOver) /\ UNCHANGED progressVars
    BY <1>18 DEF Interrupt, AllTurnsDone, vars, TurnOver
  <2>2. QED
    BY <1>6, <1>8, <2>1
<1>19. ASSUME NEW calls \in CallLists, NEW text \in Texts, Refuses(calls, text)
       PROVE  Counted
  <2>1. ~TurnOver /\ turns' = turns /\ UNCHANGED progressVars /\ \E ms : Push(ms, "close")
    BY <1>19 DEF Refuses, TurnOver
  <2>2. QED
    BY <1>6, <1>7, <1>8, <2>1
<1>20. ASSUME NEW calls \in CallLists, NEW text \in Texts, NEW cutOff \in BOOLEAN,
             Responds(calls, text, cutOff)
       PROVE  Counted
  <2>1. /\ ~TurnOver /\ turns' = turns /\ UNCHANGED progressVars
        /\ \E next \in {"reply", "calls"} : \E ms : Push(ms, next)
    BY <1>20 DEF Responds, TurnOver
  <2>2. QED
    BY <1>6, <1>7, <1>8, <2>1
<1>21. QED
  BY <1>1, <1>3, <1>4, <1>9, <1>10, <1>11, <1>12, <1>13, <1>14, <1>15, <1>16, <1>17, <1>18,
     <1>19, <1>20
  DEF Next, Turn, Stream, Counted

\* Every step keeps the count.
LEMMA NextPromptsAreFew ==
  ASSUME CountsOK, SessionOK, PendingOK, PromptsAreFew, [Next]_vars PROVE PromptsAreFew'
<1>1. PICK m \in Int : m = MostPrompts /\ AtMost(m)
  BY NextIsCounted DEF PromptsAreFew
<1>2. PICK n \in Int : n = MostPrompts' /\ n >= m /\ (Speaks => n >= m + 1)
  BY <1>1, NextIsCounted DEF PromptsAreFew
<1>3. transcript' \in Seq(Messages) /\ file' \in Seq(Messages)
  BY NextSessionOK DEF SessionOK
<1>4. PICK x \in Nat, y \in Nat : x = Prompts(transcript') /\ y = Prompts(file')
  BY <1>3, PromptsAreCounted
<1>5. \/ x <= m /\ y <= m
      \/ Speaks /\ x <= m + 1 /\ y <= m + 1
  BY <1>1, <1>4, NextPrompts DEF AtMost
<1>6. x <= n /\ y <= n
  BY <1>2, <1>5
<1>7. AtMost(MostPrompts)'
  BY <1>2, <1>4, <1>6 DEF AtMost
<1>8. QED
  BY <1>7, NextIsCounted DEF PromptsAreFew

\* What holds between any two steps, the user's messages included.
SpokenInv == GuardInv /\ CountsOK /\ SessionOK /\ PromptsAreFew

\* It holds of the first state, and every step keeps it.
LEMMA SpokenInvariance ==
  /\ Init => SpokenInv
  /\ SpokenInv /\ [Next]_vars => SpokenInv'
  /\ SpokenInv => FewAutomaticPrompts
<1>1. Init => SpokenInv
  <2> SUFFICES ASSUME Init PROVE SpokenInv
    OBVIOUS
  <2>1. GuardInv /\ CountsOK /\ SessionOK
    BY InitLoopInv DEF LoopInv
  <2>2. /\ Prompts(transcript) = 0 /\ Prompts(file) = 0 /\ MostPrompts = 0
        /\ Spoken = 0
    BY PromptsAreCounted DEF Init, MostPrompts, TurnOver, Spoken
  <2>3. QED
    BY <2>1, <2>2 DEF SpokenInv, PromptsAreFew, AtMost
<1>2. SpokenInv /\ [Next]_vars => SpokenInv'
  BY NextGuardInv, NextCountsOK, NextSessionOK, NextPromptsAreFew DEF SpokenInv, GuardInv
<1>3. SpokenInv => FewAutomaticPrompts
  <2> SUFFICES ASSUME SpokenInv PROVE FewAutomaticPrompts
    OBVIOUS
  <2>1. turns \in Nat /\ Spoken \in 0..3
    BY DEF SpokenInv, CountsOK, Spoken
  <2>2. PICK m \in Int : m = MostPrompts /\ m <= 4 * turns
    BY <2>1 DEF MostPrompts
  <2>3. PICK x \in Nat : x = Prompts(transcript)
    BY PromptsAreCounted DEF SpokenInv, SessionOK
  <2>4. x <= m
    BY <2>2, <2>3 DEF SpokenInv, PromptsAreFew, AtMost
  <2>5. x <= 4 * turns
    BY <2>1, <2>2, <2>4
  <2>6. QED
    BY <2>3, <2>5 DEF FewAutomaticPrompts
<1>4. QED
  BY <1>1, <1>2, <1>3

\* before_finishing and the continuation of a cut-off reply (conversation.rs): the runtime
\* speaks for the user at most three times in a turn after the prompt, over any number of
\* turns, whatever fails or crashes in between and however the context was shrunk.
THEOREM RuntimeSpeaksRarely == Spec => []FewAutomaticPrompts
<1>1. QED
  BY SpokenInvariance, PTL DEF Spec

-----------------------------------------------------------------------------
(* The turn loop: what a compaction keeps *)

\* The transcript's last message that is no result makes calls.
CallsLast(s) ==
  \E i \in 1..Len(s) : /\ s[i].role = "assistant" /\ s[i].ids # <<>>
                       /\ \A k \in (i + 1)..Len(s) : s[k].role = "tool"
\* A request answers a prompt or the results of calls.
AsksLast(s) == CallsLast(s) \/ (s # <<>> /\ Last(s).role = "user")

AsksTheModel ==
  /\ pc \in {"loop", "stream"} => AsksLast(transcript)
  /\ pc \in CarriesOut => CallsLast(transcript)

\* What ends in a message that is no blank reply loses no tail.
LEMMA NothingDropped ==
  ASSUME NEW s \in Seq(Messages), s # <<>>, ~IsBlankReply(Last(s))
  PROVE  DropBlankTail(s) = s
<1>1. PICK e \in 0..Len(s) : /\ DropBlankTail(s) = SubSeq(s, 1, e)
                             /\ \A k \in (e + 1)..Len(s) : IsBlankReply(s[k])
  BY BlankTail
<1>2. Len(s) \in Nat \ {0}
  BY EmptySeq, LenProperties
<1>3. e = Len(s)
  <2> SUFFICES ASSUME e # Len(s) PROVE FALSE
    OBVIOUS
  <2>1. Len(s) \in (e + 1)..Len(s)
    BY <1>2
  <2>2. QED
    BY <1>1, <2>1 DEF Last
<1>4. QED
  BY <1>1, <1>3, SubSeqFull

\* A concatenation's end, and its last element.
LEMMA EndOfConcat ==
  ASSUME NEW s \in Seq(Messages), NEW t \in Seq(Messages), t # <<>>
  PROVE  /\ s \o t \in Seq(Messages) /\ s \o t # <<>>
         /\ Len(s) + 1 \in 1..Len(s \o t) /\ Len(s \o t) - (Len(s) + 1) = Len(t) - 1
         /\ SubSeq(s \o t, Len(s) + 1, Len(s \o t)) = t
         /\ Last(s \o t) = Last(t)
<1>1. PICK n \in Nat : n = Len(s)
  BY LenProperties
<1>2. PICK m \in Nat : m = Len(t) /\ m > 0
  BY EmptySeq, LenProperties
<1>3. PICK w \in Seq(Messages) : w = s \o t
  BY ConcatProperties
<1>4. /\ Len(w) = n + m
      /\ \A i \in 1..(n + m) : w[i] = IF i <= n THEN s[i] ELSE t[i - n]
  BY <1>1, <1>2, <1>3, ConcatProperties
<1>5. w[n + m] = t[m]
  <2>1. n + m \in 1..(n + m) /\ ~(n + m <= n) /\ (n + m) - n = m
    BY <1>2
  <2>2. QED
    BY <1>4, <2>1
<1>6. SubSeq(w, n + 1, n + m) = SubSeq(t, (n + 1) - n, (n + m) - n)
  <2>1. n + 1 \in n + 1..n + m /\ n + m \in n + 1..n + m
    BY <1>2
  <2>2. QED
    BY <1>1, <1>2, <1>3, <2>1, SubSeqOfConcat2
<1>7. SubSeq(w, n + 1, n + m) = t
  <2>1. (n + 1) - n = 1 /\ (n + m) - n = m
    OBVIOUS
  <2>2. QED
    BY <1>2, <1>6, <2>1, SubSeqFull
<1>8. w # <<>>
  BY <1>2, <1>4, EmptySeq
<1>9. n + 1 \in 1..(n + m) /\ (n + m) - (n + 1) = m - 1
  BY <1>2
<1>10. QED
  BY <1>1, <1>2, <1>3, <1>4, <1>5, <1>7, <1>8, <1>9 DEF Last

(* Two readings that agree from a message on *)

\* The reading a of a transcript and the reading c of what a compaction left of it: from the
\* first message that stays on both put out the same, e, and have the same calls open.
Agree(a, c, base, e) ==
  /\ e \in Seq(Messages) /\ e # <<>>
  /\ a.open = c.open /\ a.out = base \o e /\ c.out = <<Summary>> \o e

\* Once the calls that are open are flushed, what was put out has at least q messages and no
\* blank tail.
Ready(open, e, q) ==
  /\ ~IsBlankReply(Last(e))
  /\ Len(e) >= q \/ (Len(e) + 1 >= q /\ open.calls # <<>> /\ open.answered = {})

Regroups(b, x, g) == (b \o x) \o g = b \o (x \o g)

\* Of three parts, the last two can be put together first.
LEMMA Regrouped ==
  ASSUME NEW b \in Seq(Messages), NEW x \in Seq(Messages), NEW g \in Seq(Messages)
  PROVE  Regroups(b, x, g)
BY ConcatAssociative DEF Regroups

\* What adding synthetic results and then a message comes to, alone and behind what is there.
Added(e, f, m) == (e \o f) \o <<m>>
AddedAlike(base, e, f, m) == Append((base \o e) \o f, m) = base \o Added(e, f, m)

\* Adding the same to both: synthetic results, then a message.
LEMMA AddedToBoth ==
  ASSUME NEW base \in Seq(Messages), NEW e \in Seq(Messages), NEW f \in Seq(Messages),
         NEW m \in Messages
  PROVE  /\ Added(e, f, m) \in Seq(Messages) /\ Added(e, f, m) # <<>>
         /\ Last(Added(e, f, m)) = m /\ Len(Added(e, f, m)) = (Len(e) + Len(f)) + 1
         /\ AddedAlike(base, e, f, m)
<1>1. PICK g \in Seq(Messages) : g = e \o f /\ Len(g) = Len(e) + Len(f)
  BY ConcatProperties
<1>2. PICK single \in Seq(Messages) : single = <<m>> /\ Len(single) = 1 /\ single[1] = m
  <2>1. <<m>> \in Seq(Messages)
    BY SingleMessages
  <2>2. Len(<<m>>) = 1 /\ (<<m>>)[1] = m
    OBVIOUS
  <2>3. QED
    BY <2>1, <2>2
<1>3. (base \o e) \o f = base \o g /\ base \o g \in Seq(Messages)
  <2>1. (base \o e) \o f = base \o g
    <3>1. Regroups(base, e, f)
      BY Regrouped
    <3>2. QED
      BY <1>1, <3>1 DEF Regroups
  <2>2. base \o g \in Seq(Messages)
    BY <1>1, ConcatProperties
  <2>3. QED
    BY <2>1, <2>2
<1>4. Append(base \o g, m) = (base \o g) \o single
  BY <1>2, <1>3, AppendIsConcat
<1>5. (base \o g) \o single = base \o (g \o single)
  BY <1>1, <1>2, ConcatAssociative
<1>6. single # <<>>
  BY <1>2, EmptySeq
<1>7. g \o single \in Seq(Messages) /\ g \o single # <<>> /\ Last(g \o single) = Last(single)
  BY <1>1, <1>2, <1>6, EndOfConcat
<1>8. Len(g \o single) = Len(g) + 1
  BY <1>1, <1>2, ConcatProperties
<1>9. Last(single) = m
  BY <1>2 DEF Last
<1>10. Added(e, f, m) = g \o single
  BY <1>1, <1>2 DEF Added
<1>11. Append((base \o e) \o f, m) = base \o (g \o single)
  BY <1>3, <1>4, <1>5
<1>12. AddedAlike(base, e, f, m)
  BY <1>10, <1>11 DEF AddedAlike
<1>13. QED
  BY <1>1, <1>7, <1>8, <1>9, <1>10, <1>12

\* What is read and what is open.
LEMMA ReadParts ==
  ASSUME NEW a \in Read
  PROVE  /\ a.out \in Seq(Messages) /\ a.open \in OpenType /\ Distinct(a.open.calls)
         /\ Flush(a.open) \in Seq(Messages) /\ a = [out |-> a.out, open |-> a.open]
<1>1. a.out \in Seq(Messages) /\ a.open \in OpenType /\ Distinct(a.open.calls)
      /\ a = [out |-> a.out, open |-> a.open]
  BY DEF Read
<1>2. QED
  BY <1>1, FlushedCalls

\* The calls a message that is no result opens.
Opened(m) == IF m.role = "assistant" THEN Track(m.ids) ELSE NoCalls

\* A message that is no result is added to both, after the same synthetic results.
LEMMA AgreeOnMessage ==
  ASSUME NEW a \in Read, NEW c \in Read, NEW base \in Seq(Messages), NEW e, Agree(a, c, base, e),
         NEW m \in Messages, m.role # "tool"
  PROVE  \E f : /\ Agree(Normalized1(a, m), Normalized1(c, m), base, f)
                /\ Len(f) >= 2 /\ Last(f) = m /\ Normalized1(a, m).open = Opened(m)
<1>1. PICK x \in Seq(Messages) : x = e /\ x # <<>>
  BY DEF Agree
<1>2. PICK g \in Seq(Messages) : g = Flush(a.open) /\ g = Flush(c.open)
  BY ReadParts DEF Agree
<1>3. a.out = base \o x /\ c.out = <<Summary>> \o x
  BY <1>1 DEF Agree
<1>4. PICK one \in Seq(Messages) : one = <<Summary>>
  BY OwnMessages, SingleMessages
<1>5. PICK f : f = Added(x, g, m)
  OBVIOUS
<1>6. /\ f \in Seq(Messages) /\ f # <<>> /\ Last(f) = m /\ Len(f) = (Len(x) + Len(g)) + 1
      /\ Append((base \o x) \o g, m) = base \o f
  <2>1. AddedAlike(base, x, g, m)
    BY AddedToBoth
  <2>2. Append((base \o x) \o g, m) = base \o f
    BY <1>5, <2>1 DEF AddedAlike
  <2>3. QED
    BY <1>5, <2>2, AddedToBoth
<1>7. Append((one \o x) \o g, m) = one \o f
  <2>1. AddedAlike(one, x, g, m)
    BY AddedToBoth
  <2>2. QED
    BY <1>5, <2>1 DEF AddedAlike
<1>8. Len(f) >= 2
  <2>1. Len(x) \in Nat \ {0} /\ Len(g) \in Nat
    BY <1>1, EmptySeq, LenProperties
  <2>2. QED
    BY <1>6, <2>1
<1>9. /\ Normalized1(a, m) = [out |-> base \o f, open |-> Opened(m)]
      /\ Normalized1(c, m) = [out |-> one \o f, open |-> Opened(m)]
  BY <1>2, <1>3, <1>4, <1>6, <1>7 DEF Normalized1, Opened
<1>10. Agree(Normalized1(a, m), Normalized1(c, m), base, f)
  <2>1. /\ Normalized1(a, m).out = base \o f /\ Normalized1(a, m).open = Opened(m)
        /\ Normalized1(c, m).out = one \o f /\ Normalized1(c, m).open = Opened(m)
    BY <1>9
  <2>2. QED
    BY Zenon, <1>4, <1>6, <2>1 DEF Agree
<1>11. Normalized1(a, m).open = Opened(m)
  BY <1>9
<1>12. QED
  BY <1>6, <1>8, <1>10, <1>11

\* A result is added to both or to neither, and leaves something that is no blank reply.
LEMMA AgreeOnResult ==
  ASSUME NEW a \in Read, NEW c \in Read, NEW base \in Seq(Messages), NEW e, Agree(a, c, base, e),
         NEW m \in Messages, m.role = "tool"
  PROVE  \E f : /\ Agree(Normalized1(a, m), Normalized1(c, m), base, f)
                /\ Ready(a.open, e, 2) => Ready(Normalized1(a, m).open, f, 2)
<1>1. PICK x \in Seq(Messages) : x = e /\ x # <<>>
  BY DEF Agree
<1>2. a.open = c.open /\ a.out = base \o x /\ c.out = <<Summary>> \o x
  BY <1>1 DEF Agree
<1>3. CASE m.ids[1] \in SetOf(a.open.calls) \ a.open.answered
  <2>1. PICK one \in Seq(Messages) : one = <<Summary>>
    BY OwnMessages, SingleMessages
  <2>2. PICK none \in Seq(Messages) : none = <<>> /\ Len(none) = 0
    BY EmptySeq
  <2>3. PICK f : f = Added(x, none, m)
    OBVIOUS
  <2>4. /\ f \in Seq(Messages) /\ f # <<>> /\ Last(f) = m /\ Len(f) = (Len(x) + Len(none)) + 1
        /\ Append((base \o x) \o none, m) = base \o f
    <3>1. AddedAlike(base, x, none, m)
      BY AddedToBoth
    <3>2. Append((base \o x) \o none, m) = base \o f
      BY <2>3, <3>1 DEF AddedAlike
    <3>3. QED
      BY <2>3, <3>2, AddedToBoth
  <2>5. Append((one \o x) \o none, m) = one \o f
    <3>1. AddedAlike(one, x, none, m)
      BY AddedToBoth
    <3>2. QED
      BY <2>3, <3>1 DEF AddedAlike
  <2>6. (base \o x) \o none = base \o x /\ (one \o x) \o none = one \o x
    <3>1. base \o x \in Seq(Messages) /\ one \o x \in Seq(Messages)
      BY ConcatProperties
    <3>2. QED
      BY <2>2, <3>1, ConcatEmptySeq
  <2>7. PICK open : open = [a.open EXCEPT !.answered = @ \cup {m.ids[1]}]
    OBVIOUS
  <2>8. /\ Normalized1(a, m) = [out |-> base \o f, open |-> open]
        /\ Normalized1(c, m) = [out |-> one \o f, open |-> open]
    BY <1>2, <1>3, <2>1, <2>4, <2>5, <2>6, <2>7 DEF Normalized1
  <2>9. Len(f) >= 2
    <3>1. Len(x) \in Nat \ {0}
      BY <1>1, EmptySeq, LenProperties
    <3>2. QED
      BY <2>2, <2>4, <3>1
  <2>10. Ready(open, f, 2)
    BY <2>4, <2>9 DEF Ready, IsBlankReply
  <2>11. /\ Normalized1(a, m).out = base \o f /\ Normalized1(a, m).open = open
         /\ Normalized1(c, m).out = one \o f /\ Normalized1(c, m).open = open
    BY <2>8
  <2>12. Agree(Normalized1(a, m), Normalized1(c, m), base, f)
    BY Zenon, <2>1, <2>4, <2>11 DEF Agree
  <2>13. QED
    BY Zenon, <2>10, <2>11, <2>12
<1>4. CASE m.ids[1] \notin SetOf(a.open.calls) \ a.open.answered
  <2>1. Normalized1(a, m) = a /\ Normalized1(c, m) = c
    BY <1>2, <1>4 DEF Normalized1
  <2>2. QED
    BY <2>1
<1>5. QED
  BY <1>3, <1>4

\* The summary is read first.
LEMMA SummaryIsRead ==
  /\ Normalized1([out |-> <<>>, open |-> NoCalls], Summary) = [out |-> <<Summary>>, open |-> NoCalls]
  /\ Flush(NoCalls) = <<>>
<1>1. Flush(NoCalls) = <<>>
  <2>1. PICK f \in Seq(Messages) : /\ f = Flush(NoCalls)
                                   /\ {f[k].ids[1] : k \in 1..Len(f)} = {}
    BY NothingOpen, FlushedCalls
  <2>2. Len(f) \in Nat /\ \A k \in 1..Len(f) : FALSE
    <3>1. Len(f) \in Nat
      BY LenProperties
    <3>2. \A k \in 1..Len(f) : FALSE
      BY Zenon, <2>1
    <3>3. QED
      BY <3>1, <3>2
  <2>3. Len(f) = 0
    BY <2>2
  <2>4. QED
    BY <2>1, <2>3, EmptySeq
<1>2. Append(<<>> \o <<>>, Summary) = <<Summary>>
  <2>1. <<>> \o <<>> = <<>>
    BY SingleMessages, ConcatEmptySeq
  <2>2. Append(<<>>, Summary) = <<Summary>>
    OBVIOUS
  <2>3. QED
    BY <2>1, <2>2
<1>3. Summary.role = "system"
  BY DEF Summary, Message
<1>4. QED
  BY <1>1, <1>2, <1>3 DEF Normalized1, NoCalls

\* The first message that stays: both readings agree from it on.
LEMMA FirstAgrees ==
  ASSUME NEW a \in Read, NEW c, c.out = <<Summary>>, c.open = NoCalls,
         NEW m \in Messages, m.role # "tool"
  PROVE  /\ Agree(Normalized1(a, m), Normalized1(c, m), a.out \o Flush(a.open), <<m>>)
         /\ Normalized1(a, m).open = Opened(m)
         /\ Last(<<m>>) = m /\ Len(<<m>>) = 1
<1>1. PICK base \in Seq(Messages) : base = a.out \o Flush(a.open)
  BY ReadParts, ConcatProperties
<1>2. PICK one \in Seq(Messages) : one = <<Summary>>
  BY OwnMessages, SingleMessages
<1>3. one \o Flush(NoCalls) = one
  BY SummaryIsRead, ConcatEmptySeq
<1>4. PICK f : f = <<m>>
  OBVIOUS
<1>5. Append(base, m) = base \o f /\ Append(one, m) = one \o f
  BY <1>4, AppendIsConcat
<1>6. /\ Normalized1(a, m) = [out |-> base \o f, open |-> Opened(m)]
      /\ Normalized1(c, m) = [out |-> one \o f, open |-> Opened(m)]
  BY <1>1, <1>2, <1>3, <1>5 DEF Normalized1, Opened
<1>7. f \in Seq(Messages)
  BY <1>4, SingleMessages
<1>8. Len(f) = 1 /\ f[1] = m
  BY <1>4
<1>9. f # <<>> /\ Last(f) = m
  <2>1. f # <<>>
    <3>1. Len(f) # 0 /\ Len(<<>>) = 0
      BY <1>8
    <3>2. QED
      BY Zenon, <3>1
  <2>2. Last(f) = m
    BY <1>8 DEF Last
  <2>3. QED
    BY <2>1, <2>2
<1>10. /\ Normalized1(a, m).out = base \o f /\ Normalized1(a, m).open = Opened(m)
       /\ Normalized1(c, m).out = one \o f /\ Normalized1(c, m).open = Opened(m)
  BY <1>6
<1>11. Agree(Normalized1(a, m), Normalized1(c, m), base, f)
  BY Zenon, <1>2, <1>7, <1>9, <1>10 DEF Agree
<1>12. QED
  BY <1>1, <1>4, <1>8, <1>9, <1>10, <1>11

\* What both requests end in.
BothEndIn(a, c, base, q) ==
  \E z \in Seq(Messages) :
    /\ z # <<>> /\ Len(z) >= q
    /\ DropBlankTail(a.out \o Flush(a.open)) = base \o z
    /\ DropBlankTail(c.out \o Flush(c.open)) = <<Summary>> \o z

\* What is ready at the end of the readings is the rest of both requests.
LEMMA ReadyAtTheEnd ==
  ASSUME NEW a \in Read, NEW c \in Read, NEW base \in Seq(Messages), NEW e, Agree(a, c, base, e),
         NEW q \in {1, 2}, Ready(a.open, e, q)
  PROVE  BothEndIn(a, c, base, q)
<1>1. PICK x \in Seq(Messages) : x = e /\ x # <<>>
  BY DEF Agree
<1>2. PICK open \in OpenType : open = a.open /\ open = c.open /\ Distinct(open.calls)
  BY ReadParts DEF Agree
<1>3. PICK g \in Seq(Messages) : g = Flush(open)
  BY <1>2, FlushedCalls
<1>4. PICK one \in Seq(Messages) : one = <<Summary>>
  BY OwnMessages, SingleMessages
<1>5. a.out = base \o x /\ c.out = one \o x
  BY <1>1, <1>4 DEF Agree
<1>6. PICK z \in Seq(Messages) : z = x \o g /\ Len(z) = Len(x) + Len(g)
  BY ConcatProperties
<1>7. Len(x) \in Nat \ {0} /\ Len(g) \in Nat
  BY <1>1, EmptySeq, LenProperties
<1>8. z # <<>>
  <2>1. Len(z) # 0 /\ Len(<<>>) = 0
    BY <1>6, <1>7
  <2>2. QED
    BY Zenon, <2>1
<1>9. ~IsBlankReply(Last(z))
  <2>1. CASE g = <<>>
    <3>1. z = x
      BY <1>6, <2>1, ConcatEmptySeq
    <3>2. QED
      BY <1>1, <3>1 DEF Ready
  <2>2. CASE g # <<>>
    <3>1. Last(z) = Last(g)
      BY <1>6, <2>2, EndOfConcat
    <3>2. Len(g) \in 1..Len(g)
      BY <1>7, <2>2, EmptySeq
    <3>3. Last(g).role = "tool"
      BY <1>2, <1>3, <3>2, FlushedCalls DEF Last
    <3>4. QED
      BY <3>1, <3>3 DEF IsBlankReply
  <2>3. QED
    BY <2>1, <2>2
<1>10. Len(z) >= q
  <2>1. CASE Len(x) >= q
    BY <1>6, <1>7, <2>1
  <2>2. CASE Len(x) + 1 >= q /\ open.calls # <<>> /\ open.answered = {}
    <3>1. open.calls \in Seq(CallIds)
      BY DEF OpenType
    <3>2. 1 \in 1..Len(open.calls)
      BY <2>2, <3>1, EmptySeq, LenProperties
    <3>3. open.calls[1] \in ElementsOf(open.calls) \ open.answered
      BY <2>2, <3>2 DEF ElementsOf
    <3>4. PICK k \in 1..Len(g) : TRUE
      <4>1. {g[k].ids[1] : k \in 1..Len(g)} = ElementsOf(open.calls) \ open.answered
        <5>1. {Flush(open)[k].ids[1] : k \in 1..Len(Flush(open))} =
                ElementsOf(open.calls) \ open.answered
          BY <1>2, FlushedCalls
        <5>2. QED
          BY <1>3, <5>1
      <4>2. \E k \in 1..Len(g) : g[k].ids[1] = open.calls[1]
        BY Zenon, <3>3, <4>1
      <4>3. QED
        BY <4>2
    <3>5. QED
      BY <1>6, <1>7, <2>2, <3>4
  <2>3. QED
    BY <1>1, <1>2, <2>1, <2>2 DEF Ready
<1>11. ASSUME NEW b \in Seq(Messages)
       PROVE  DropBlankTail((b \o x) \o g) = b \o z
  <2>1. (b \o x) \o g = b \o z
    <3>1. Regroups(b, x, g)
      BY Regrouped
    <3>2. QED
      BY <1>6, <3>1 DEF Regroups
  <2>2. b \o z \in Seq(Messages) /\ b \o z # <<>> /\ Last(b \o z) = Last(z)
    BY <1>8, EndOfConcat
  <2>3. QED
    BY <1>9, <2>1, <2>2, NothingDropped
<1>12. DropBlankTail(a.out \o Flush(a.open)) = base \o z
  BY <1>2, <1>3, <1>5, <1>11
<1>13. DropBlankTail(c.out \o Flush(c.open)) = <<Summary>> \o z
  BY <1>2, <1>3, <1>4, <1>5, <1>11
<1>14. QED
  BY <1>8, <1>10, <1>12, <1>13 DEF BothEndIn

\* What holds at i, and at every number up to l when it holds at the one before.
LEMMA OnFrom ==
  ASSUME NEW i \in Nat, NEW l \in Nat, NEW T, i \in T, \A k \in (i + 1)..l : k - 1 \in T => k \in T
  PROVE  \A k \in i..l : k \in T
<1> DEFINE U == {k \in Nat : k < i \/ k \in T}
<1>1. 0 \in U
  OBVIOUS
<1>2. ASSUME NEW k \in 1..l, k - 1 \in U PROVE k \in U
  <2>1. CASE k < i
    BY <2>1
  <2>2. CASE k = i
    BY <2>2
  <2>3. CASE k > i
    <3>1. k \in (i + 1)..l /\ ~(k - 1 < i)
      BY <2>3
    <3>2. k - 1 \in T
      BY <1>2, <3>1
    <3>3. QED
      BY <3>1, <3>2
  <2>4. QED
    BY <2>1, <2>2, <2>3
<1> HIDE DEF U
<1>3. \A k \in 0..l : k \in U
  BY <1>1, <1>2, UpTo
<1>4. QED
  BY <1>3 DEF U

\* The readings r and u of the l messages ms that stay, from the first one on: of the whole
\* transcript, and of the one that begins with the summary.
Beside(r, u, ms, l) ==
  /\ r[0] \in Read /\ u[0].out = <<Summary>> /\ u[0].open = NoCalls
  /\ \A d \in 1..l : /\ ms[d] \in Messages /\ r[d] \in Read /\ u[d] \in Read
                     /\ r[d] = Normalized1(r[d - 1], ms[d])
                     /\ u[d] = Normalized1(u[d - 1], ms[d])
  /\ ms[1].role # "tool"
Before(r) == r[0].out \o Flush(r[0].open)

\* They agree at the first message, on what is open for it too.
LEMMA BesideFirst ==
  ASSUME NEW l \in Nat, l > 0, NEW r, NEW u, NEW ms, Beside(r, u, ms, l)
  PROVE  /\ Agree(r[1], u[1], Before(r), <<ms[1]>>) /\ r[1].open = Opened(ms[1])
         /\ Last(<<ms[1]>>) = ms[1] /\ Len(<<ms[1]>>) = 1
<1>1. 1 \in 1..l /\ 1 - 1 = 0
  OBVIOUS
<1>2. PICK m \in Messages : m = ms[1] /\ m.role # "tool"
  BY <1>1 DEF Beside
<1>3. PICK a \in Read : a = r[0]
  BY DEF Beside
<1>4. PICK c : c = u[0] /\ c.out = <<Summary>> /\ c.open = NoCalls
  BY DEF Beside
<1>5. r[1] = Normalized1(a, m) /\ u[1] = Normalized1(c, m)
  BY <1>1, <1>2, <1>3, <1>4 DEF Beside
<1>6. /\ Agree(Normalized1(a, m), Normalized1(c, m), a.out \o Flush(a.open), <<m>>)
      /\ Normalized1(a, m).open = Opened(m)
      /\ Last(<<m>>) = m /\ Len(<<m>>) = 1
  BY <1>2, <1>4, FirstAgrees
<1>7. QED
  BY <1>2, <1>3, <1>5, <1>6 DEF Before

\* They agree all the way.
LEMMA BesideAgree ==
  ASSUME NEW l \in Nat, l > 0, NEW r, NEW u, NEW ms, Beside(r, u, ms, l)
  PROVE  /\ Before(r) \in Seq(Messages)
         /\ \A d \in 1..l : \E e : Agree(r[d], u[d], Before(r), e)
<1>1. PICK base \in Seq(Messages) : base = Before(r)
  BY ReadParts, ConcatProperties DEF Beside, Before
<1> DEFINE T == {d \in 1..l : \E e : Agree(r[d], u[d], base, e)}
<1>2. 1 \in T
  <2>1. 1 \in 1..l
    OBVIOUS
  <2>2. QED
    BY <1>1, <2>1, BesideFirst
<1>3. ASSUME NEW d \in (1 + 1)..l, d - 1 \in T PROVE d \in T
  <2>1. d \in 1..l /\ d - 1 \in 1..l
    OBVIOUS
  <2>2. PICK a \in Read, c \in Read, m \in Messages :
          a = r[d - 1] /\ c = u[d - 1] /\ m = ms[d]
          /\ r[d] = Normalized1(a, m) /\ u[d] = Normalized1(c, m)
    BY <2>1 DEF Beside
  <2>3. PICK e : Agree(a, c, base, e)
    BY <1>3, <2>2
  <2>4. \E f : Agree(Normalized1(a, m), Normalized1(c, m), base, f)
    <3>1. CASE m.role # "tool"
      BY <2>3, <3>1, AgreeOnMessage
    <3>2. CASE m.role = "tool"
      BY <2>3, <3>2, AgreeOnResult
    <3>3. QED
      BY <3>1, <3>2
  <2>5. QED
    BY <2>1, <2>2, <2>4
<1> HIDE DEF T
<1>4. \A d \in 1..l : d \in T
  BY <1>2, <1>3, OnFrom
<1>5. QED
  BY <1>1, <1>4 DEF T

\* Calls that are made are open.
LEMMA MadeCalls ==
  ASSUME NEW m \in Messages, m.role = "assistant", m.ids # <<>>
  PROVE  Opened(m).calls # <<>> /\ Opened(m).answered = {}
<1>1. PICK ids \in Seq(CallIds) : ids = m.ids
  BY DEF Messages, MessageType
<1>2. Opened(m) = Track(ids)
  BY <1>1 DEF Opened
<1>3. PICK calls \in Seq(CallIds) : /\ calls = Track(ids).calls
                                    /\ ElementsOf(calls) = ElementsOf(ids)
  BY TrackedCalls DEF OpenType
<1>4. Track(ids).answered = {}
  BY TrackedCalls
<1>5. calls # <<>>
  <2> SUFFICES ASSUME calls = <<>> PROVE FALSE
    OBVIOUS
  <2>1. Len(calls) = 0
    BY EmptySeq
  <2>2. ElementsOf(calls) = {}
    BY <2>1 DEF ElementsOf
  <2>3. 1 \in 1..Len(ids)
    BY <1>1, EmptySeq, LenProperties
  <2>4. ids[1] \in ElementsOf(ids)
    BY <2>3 DEF ElementsOf
  <2>5. QED
    BY <1>3, <2>2, <2>4
<1>6. QED
  BY <1>2, <1>3, <1>4, <1>5

\* When the last message that is no result makes calls, two messages at least are ready.
LEMMA BesideCalls ==
  ASSUME NEW l \in Nat, NEW r, NEW u, NEW ms, Beside(r, u, ms, l),
         NEW i \in 1..l, ms[i].role = "assistant", ms[i].ids # <<>>,
         \A d \in (i + 1)..l : ms[d].role = "tool"
  PROVE  \E e : Agree(r[l], u[l], Before(r), e) /\ Ready(r[l].open, e, 2)
<1>0. l > 0 /\ i \in Nat
  OBVIOUS
<1>1. PICK base \in Seq(Messages) : base = Before(r)
  BY <1>0, BesideAgree
<1> DEFINE T == {d \in i..l : \E e : Agree(r[d], u[d], base, e) /\ Ready(r[d].open, e, 2)}
<1>2. i \in T
  <2>1. PICK m \in Messages : m = ms[i] /\ m.role = "assistant" /\ m.ids # <<>>
    BY DEF Beside
  <2>2. ~IsBlankReply(m)
    BY <2>1 DEF IsBlankReply
  <2>3. CASE i = 1
    <3>1. PICK e : e = <<m>>
      OBVIOUS
    <3>2. /\ Agree(r[i], u[i], base, e) /\ r[i].open = Opened(m)
          /\ Last(e) = m /\ Len(e) = 1
      BY <1>0, <1>1, <2>1, <2>3, <3>1, BesideFirst
    <3>3. Opened(m).calls # <<>> /\ Opened(m).answered = {}
      BY <2>1, MadeCalls
    <3>4. Len(e) + 1 >= 2
      BY <3>2
    <3>5. Ready(r[i].open, e, 2)
      BY Zenon, <2>2, <3>2, <3>3, <3>4 DEF Ready
    <3>6. QED
      BY <3>2, <3>5
  <2>4. CASE i # 1
    <3>1. i - 1 \in 1..l
      BY <2>4
    <3>2. PICK a \in Read, c \in Read : a = r[i - 1] /\ c = u[i - 1]
      BY <3>1 DEF Beside
    <3>3. PICK e : Agree(a, c, base, e)
      BY <1>0, <1>1, <3>1, <3>2, BesideAgree
    <3>4. r[i] = Normalized1(a, m) /\ u[i] = Normalized1(c, m)
      BY <2>1, <3>2 DEF Beside
    <3>5. PICK f : /\ Agree(Normalized1(a, m), Normalized1(c, m), base, f)
                   /\ Len(f) >= 2 /\ Last(f) = m
      BY <2>1, <3>3, AgreeOnMessage
    <3>6. Ready(r[i].open, f, 2)
      BY Zenon, <2>2, <3>5 DEF Ready
    <3>7. QED
      BY <3>4, <3>5, <3>6
  <2>5. QED
    BY <2>3, <2>4
<1>3. ASSUME NEW d \in (i + 1)..l, d - 1 \in T PROVE d \in T
  <2>1. d \in 1..l /\ d - 1 \in 1..l /\ d \in i..l
    OBVIOUS
  <2>2. PICK a \in Read, c \in Read, m \in Messages :
          a = r[d - 1] /\ c = u[d - 1] /\ m = ms[d]
          /\ r[d] = Normalized1(a, m) /\ u[d] = Normalized1(c, m)
    BY <2>1 DEF Beside
  <2>3. PICK e : Agree(a, c, base, e) /\ Ready(a.open, e, 2)
    BY <1>3, <2>2
  <2>4. m.role = "tool"
    BY <2>2
  <2>5. PICK f : /\ Agree(Normalized1(a, m), Normalized1(c, m), base, f)
                 /\ Ready(Normalized1(a, m).open, f, 2)
    BY <2>3, <2>4, AgreeOnResult
  <2>6. QED
    BY <2>1, <2>2, <2>5
<1> HIDE DEF T
<1>4. \A d \in i..l : d \in T
  BY <1>0, <1>2, <1>3, OnFrom
<1>5. l \in i..l
  OBVIOUS
<1>6. QED
  BY <1>1, <1>4, <1>5 DEF T

\* When the last message is the user's, it is ready, and another one if two stay.
LEMMA BesidePrompt ==
  ASSUME NEW l \in Nat, NEW r, NEW u, NEW ms, Beside(r, u, ms, l),
         NEW q \in {1, 2}, l >= q, ms[l].role = "user"
  PROVE  \E e : Agree(r[l], u[l], Before(r), e) /\ Ready(r[l].open, e, q)
<1>0. l > 0 /\ l \in 1..l
  OBVIOUS
<1>1. PICK base \in Seq(Messages) : base = Before(r)
  BY <1>0, BesideAgree
<1>2. PICK m \in Messages : m = ms[l] /\ m.role = "user"
  BY <1>0 DEF Beside
<1>3. ~IsBlankReply(m)
  BY <1>2 DEF IsBlankReply
<1>4. CASE l = 1
  <2>1. PICK e : e = <<m>>
    OBVIOUS
  <2>2. Agree(r[l], u[l], base, e) /\ Last(e) = m /\ Len(e) = 1
    BY <1>0, <1>1, <1>2, <1>4, <2>1, BesideFirst
  <2>3. Len(e) >= q
    BY <1>4, <2>2
  <2>4. Ready(r[l].open, e, q)
    BY Zenon, <1>3, <2>2, <2>3 DEF Ready
  <2>5. QED
    BY <1>1, <2>2, <2>4
<1>5. CASE l # 1
  <2>1. l - 1 \in 1..l
    BY <1>0, <1>5
  <2>2. PICK a \in Read, c \in Read : a = r[l - 1] /\ c = u[l - 1]
    BY <2>1 DEF Beside
  <2>3. PICK e : Agree(a, c, base, e)
    BY <1>0, <1>1, <2>1, <2>2, BesideAgree
  <2>4. r[l] = Normalized1(a, m) /\ u[l] = Normalized1(c, m)
    BY <1>0, <1>2, <2>2 DEF Beside
  <2>5. PICK f : /\ Agree(Normalized1(a, m), Normalized1(c, m), base, f)
                 /\ Len(f) >= 2 /\ Last(f) = m
    BY <1>2, <2>3, AgreeOnMessage
  <2>6. Len(f) >= q
    <3>1. f \in Seq(Messages)
      BY <2>5 DEF Agree
    <3>2. Len(f) \in Nat
      BY <3>1, LenProperties
    <3>3. QED
      BY <2>5, <3>2
  <2>7. Ready(r[l].open, f, q)
    BY Zenon, <1>3, <2>5, <2>6 DEF Ready
  <2>8. QED
    BY <1>1, <2>4, <2>5, <2>7
<1>6. QED
  BY <1>4, <1>5

\* The messages that stay are read beside each other.
LEMMA ReadBeside ==
  ASSUME NEW s \in Seq(Messages), NEW b \in Nat, NEW l \in Nat, l > 0, Len(s) = b + l,
         s[b + 1].role # "tool",
         NEW t \in Seq(Messages), Len(t) = 1 + l, t[1] = Summary,
         \A i \in 2..(1 + l) : t[i] = s[b + (i - 1)],
         NEW f, Reads(s, f), NEW g, Reads(t, g)
  PROVE  LET r == [d \in 0..l |-> f[b + d]]
             u == [d \in 0..l |-> g[1 + d]]
             ms == [d \in 1..l |-> s[b + d]]
         IN  Beside(r, u, ms, l)
<1>1. PICK r : r = [d \in 0..l |-> f[b + d]]
  OBVIOUS
<1>2. PICK u : u = [d \in 0..l |-> g[1 + d]]
  OBVIOUS
<1>3. PICK ms : ms = [d \in 1..l |-> s[b + d]]
  OBVIOUS
<1>4. \A d \in 0..l : r[d] = f[b + d] /\ u[d] = g[1 + d]
  BY <1>1, <1>2
<1>5. \A d \in 1..l : ms[d] = s[b + d]
  BY <1>3
<1>6. r[0] \in Read
  <2>1. 0 \in 0..l /\ b + 0 = b /\ b \in 0..Len(s)
    OBVIOUS
  <2>2. r[0] = f[b]
    BY <1>4, <2>1
  <2>3. QED
    BY <2>1, <2>2 DEF Reads
<1>7. u[0].out = <<Summary>> /\ u[0].open = NoCalls
  <2>1. 0 \in 0..l /\ 1 + 0 = 1 /\ 1 \in 1..Len(t) /\ 1 - 1 = 0
    OBVIOUS
  <2>2. u[0] = g[1]
    BY <1>4, <2>1
  <2>3. g[1] = Normalized1(g[0], Summary)
    BY <2>1 DEF Reads
  <2>4. g[0] = [out |-> <<>>, open |-> NoCalls]
    BY DEF Reads
  <2>5. g[1] = [out |-> <<Summary>>, open |-> NoCalls]
    BY <2>3, <2>4, SummaryIsRead
  <2>6. QED
    BY <2>2, <2>5
<1>8. ASSUME NEW d \in 1..l
      PROVE  /\ ms[d] \in Messages /\ r[d] \in Read /\ u[d] \in Read
             /\ r[d] = Normalized1(r[d - 1], ms[d])
             /\ u[d] = Normalized1(u[d - 1], ms[d])
  <2>1. /\ d \in 0..l /\ d - 1 \in 0..l
        /\ b + d \in 1..Len(s) /\ b + d \in 0..Len(s) /\ (b + d) - 1 = b + (d - 1)
        /\ 1 + d \in 1..Len(t) /\ 1 + d \in 0..Len(t) /\ (1 + d) - 1 = 1 + (d - 1)
        /\ 1 + d \in 2..(1 + l) /\ b + ((1 + d) - 1) = b + d
    OBVIOUS
  <2>2. s[b + d] \in Messages
    BY <2>1, ElementOfSeq
  <2>3. t[1 + d] = s[b + d]
    BY <2>1
  <2>4. /\ f[b + d] \in Read /\ f[b + d] = Normalized1(f[b + (d - 1)], s[b + d])
        /\ g[1 + d] \in Read /\ g[1 + d] = Normalized1(g[1 + (d - 1)], t[1 + d])
    BY <2>1 DEF Reads
  <2>5. /\ r[d] = f[b + d] /\ r[d - 1] = f[b + (d - 1)]
        /\ u[d] = g[1 + d] /\ u[d - 1] = g[1 + (d - 1)]
    BY <1>4, <2>1
  <2>6. QED
    BY <1>5, <2>2, <2>3, <2>4, <2>5
<1>9. ms[1].role # "tool"
  <2>1. 1 \in 1..l
    OBVIOUS
  <2>2. QED
    BY <1>5, <2>1
<1>10. Beside(r, u, ms, l)
  BY <1>6, <1>7, <1>8, <1>9 DEF Beside
<1>11. QED
  BY <1>1, <1>2, <1>3, <1>10

\* What a compaction leaves of a transcript that asks the model is read as the summary and
\* an end of what was read before, of at least q messages when it keeps as many.
LEMMA RestIsKept ==
  ASSUME NEW s \in Seq(Messages), AsksLast(s),
         NEW b \in Nat, NEW q \in {1, 2}, b + q <= Len(s), s[b + 1].role # "tool"
  PROVE  LET before == Normalize(s)
             after == Normalize(<<Summary>> \o SubSeq(s, b + 1, Len(s)))
         IN  \E n \in 1..Len(before) :
               /\ after = <<Summary>> \o SubSeq(before, n, Len(before))
               /\ Len(before) - n >= q - 1
<1>0. PICK n \in Nat : n = Len(s)
  BY LenProperties
<1>1. PICK l \in Nat : l = n - b
  <2>1. n - b \in Nat
    BY <1>0
  <2>2. QED
    BY <2>1
<1>2. Len(s) = b + l /\ l > 0 /\ l >= q /\ b \in 0..Len(s) /\ l \in 1..l
  BY <1>0, <1>1
<1>3. PICK t : t = <<Summary>> \o SubSeq(s, b + 1, Len(s))
  OBVIOUS
<1>4. /\ t \in Seq(Messages) /\ Len(t) = 1 + l /\ t[1] = Summary
      /\ \A i \in 2..(1 + l) : t[i] = s[b + (i - 1)]
  <2>1. Len(s) - b = l
    BY <1>0, <1>1
  <2>2. QED
    BY <1>2, <1>3, <2>1, SummaryAndEnd
<1>5. PICK f : Reads(s, f)
  BY NormalizeReads
<1>6. PICK g : Reads(t, g)
  BY <1>4, NormalizeReads
<1>7. PICK r : r = [d \in 0..l |-> f[b + d]]
  OBVIOUS
<1>8. PICK u : u = [d \in 0..l |-> g[1 + d]]
  OBVIOUS
<1>9. PICK ms : ms = [d \in 1..l |-> s[b + d]]
  OBVIOUS
<1>10. Beside(r, u, ms, l)
  BY <1>2, <1>4, <1>5, <1>6, <1>7, <1>8, <1>9, ReadBeside
<1>11. PICK base \in Seq(Messages) : base = Before(r)
  BY <1>2, <1>10, BesideAgree
<1>12. \E e : Agree(r[l], u[l], base, e) /\ Ready(r[l].open, e, q)
  <2>1. CASE CallsLast(s)
    <3>1. PICK i \in 1..Len(s) : /\ s[i].role = "assistant" /\ s[i].ids # <<>>
                                 /\ \A k \in (i + 1)..Len(s) : s[k].role = "tool"
      BY <2>1 DEF CallsLast
    <3>2. i >= b + 1
      <4> SUFFICES ASSUME ~(i >= b + 1) PROVE FALSE
        OBVIOUS
      <4>1. b + 1 \in (i + 1)..Len(s)
        BY <1>2
      <4>2. QED
        BY <3>1, <4>1
    <3>3. PICK j \in 1..l : j = i - b
      BY <1>2, <3>2
    <3>4. b + j = i
      BY <3>3
    <3>5. ms[j] = s[i]
      BY <1>9, <3>4
    <3>6. ASSUME NEW d \in (j + 1)..l PROVE ms[d].role = "tool"
      <4>1. d \in 1..l /\ b + d \in (i + 1)..Len(s)
        BY <1>2, <3>4
      <4>2. ms[d] = s[b + d]
        BY <1>9, <4>1
      <4>3. QED
        BY <3>1, <4>1, <4>2
    <3>7. PICK e : Agree(r[l], u[l], base, e) /\ Ready(r[l].open, e, 2)
      BY <1>10, <1>11, <3>1, <3>5, <3>6, BesideCalls
    <3>8. Ready(r[l].open, e, q)
      <4>1. e \in Seq(Messages)
        BY <3>7 DEF Agree
      <4>2. Len(e) \in Nat
        BY <4>1, LenProperties
      <4>3. Len(e) >= 2 => Len(e) >= q
        BY <4>2
      <4>4. Len(e) + 1 >= 2 => Len(e) + 1 >= q
        BY <4>2
      <4>5. QED
        BY Zenon, <3>7, <4>3, <4>4 DEF Ready
    <3>9. QED
      BY <3>7, <3>8
  <2>2. CASE s # <<>> /\ Last(s).role = "user"
    <3>1. ms[l] = s[b + l]
      BY <1>2, <1>9
    <3>2. ms[l].role = "user"
      BY <1>2, <2>2, <3>1 DEF Last
    <3>3. QED
      BY <1>2, <1>10, <1>11, <3>2, BesidePrompt
  <2>3. QED
    BY <2>1, <2>2 DEF AsksLast
<1>13. PICK e : Agree(r[l], u[l], base, e) /\ Ready(r[l].open, e, q)
  BY <1>12
<1>14. PICK a \in Read, c \in Read : a = r[l] /\ c = u[l]
  BY <1>2, <1>10 DEF Beside
<1>15. PICK z \in Seq(Messages) :
         /\ z # <<>> /\ Len(z) >= q
         /\ DropBlankTail(a.out \o Flush(a.open)) = base \o z
         /\ DropBlankTail(c.out \o Flush(c.open)) = <<Summary>> \o z
  <2>1. Agree(a, c, base, e) /\ Ready(a.open, e, q)
    BY <1>13, <1>14
  <2>2. BothEndIn(a, c, base, q)
    BY <2>1, ReadyAtTheEnd
  <2>3. QED
    BY <2>2 DEF BothEndIn
<1>16. a = f[Len(s)] /\ c = g[Len(t)]
  <2>1. l \in 0..l
    OBVIOUS
  <2>2. r[l] = f[b + l] /\ u[l] = g[1 + l]
    BY <1>7, <1>8, <2>1
  <2>3. QED
    BY <1>2, <1>4, <1>14, <2>2
<1>17. PICK before : before = base \o z
  OBVIOUS
<1>18. Normalize(s) = before /\ Normalize(t) = <<Summary>> \o z
  BY <1>5, <1>6, <1>15, <1>16, <1>17 DEF Reads
<1>19. /\ Len(base) + 1 \in 1..Len(before) /\ Len(before) - (Len(base) + 1) = Len(z) - 1
       /\ SubSeq(before, Len(base) + 1, Len(before)) = z
  BY <1>15, <1>17, EndOfConcat
<1>20. Len(before) - (Len(base) + 1) >= q - 1
  <2>1. Len(z) \in Nat
    BY LenProperties
  <2>2. QED
    BY <1>15, <1>19, <2>1
<1>21. QED
  BY <1>3, <1>18, <1>19, <1>20

(* The loop's compactions *)

\* A message added at the end of a transcript.
LEMMA AskedByAppend ==
  ASSUME NEW s \in Seq(Messages), NEW m \in Messages
  PROVE  LET t == s \o <<m>>
         IN  /\ m.role = "user" => AsksLast(t)
             /\ m.role = "assistant" /\ m.ids # <<>> => CallsLast(t)
             /\ m.role = "tool" /\ CallsLast(s) => CallsLast(t)
<1>1. PICK n \in Nat : n = Len(s)
  BY LenProperties
<1>2. PICK t : t = Append(s, m)
  OBVIOUS
<1>3. t = s \o <<m>>
  BY <1>2, AppendIsConcat
<1>4. /\ t \in Seq(Messages) /\ t # <<>> /\ Len(t) = n + 1
      /\ \A i \in 1..n : t[i] = s[i]
      /\ t[n + 1] = m
  BY <1>1, <1>2, AppendProperties
<1>5. Last(t) = m
  BY <1>4 DEF Last
<1>6. m.role = "user" => AsksLast(t)
  BY <1>4, <1>5 DEF AsksLast
<1>7. ASSUME m.role = "assistant", m.ids # <<>> PROVE CallsLast(t)
  <2>1. n + 1 \in 1..Len(t) /\ \A k \in ((n + 1) + 1)..Len(t) : FALSE
    BY <1>4
  <2>2. QED
    BY <1>4, <1>7, <2>1 DEF CallsLast
<1>8. ASSUME m.role = "tool", CallsLast(s) PROVE CallsLast(t)
  <2>1. PICK i \in 1..n : /\ s[i].role = "assistant" /\ s[i].ids # <<>>
                          /\ \A k \in (i + 1)..n : s[k].role = "tool"
    BY <1>1, <1>8 DEF CallsLast
  <2>2. i \in 1..Len(t) /\ t[i] = s[i]
    BY <1>4
  <2>3. ASSUME NEW k \in (i + 1)..Len(t) PROVE t[k].role = "tool"
    <3>1. (k \in (i + 1)..n /\ k \in 1..n) \/ k = n + 1
      BY <1>4
    <3>2. QED
      BY <1>4, <1>8, <2>1, <3>1
  <2>4. QED
    BY <2>1, <2>2, <2>3 DEF CallsLast
<1>9. QED
  BY <1>3, <1>6, <1>7, <1>8

\* What a compaction leaves: the messages from a boundary on that is not in front of a result
\* and has minRecent messages behind it.
LEMMA CompactedAt ==
  ASSUME transcript \in Seq(Messages), NEW minRecent \in {1, 2},
         transcript' \in Compacted(minRecent)
  PROVE  \E b \in Nat : /\ b + minRecent <= Len(transcript)
                        /\ transcript[b + 1].role # "tool"
                        /\ transcript' = <<Summary>> \o SubSeq(transcript, b + 1, Len(transcript))
<1>1. PICK n \in Nat : n = Len(transcript)
  BY LenProperties
<1>2. PICK p \in Nat : p = PrefixLen
  BY DEF PrefixLen
<1>3. PICK k \in p..(n - minRecent) :
        /\ transcript' = <<Summary>> \o SubSeq(transcript, PairSafe(k) + 1, Len(transcript))
        /\ PairSafe(k) # p
  BY <1>1, <1>2 DEF Compacted
<1>4. k \in PrefixLen..Len(transcript)
  BY <1>1, <1>2, <1>3
<1>5. /\ PairSafe(k) \in PrefixLen..k
      /\ PairSafe(k) = PrefixLen \/ transcript[PairSafe(k) + 1].role # "tool"
  BY <1>4, BoundaryIsFound
<1>6. PICK b \in p..k : b = PairSafe(k) /\ transcript[b + 1].role # "tool"
  BY <1>2, <1>3, <1>5
<1>7. b \in Nat /\ b + minRecent <= n
  BY <1>2, <1>3, <1>6
<1>8. QED
  BY <1>1, <1>3, <1>6, <1>7

\* What asks the model still asks it when it was compacted.
LEMMA CompactedAsks ==
  ASSUME NEW s \in Seq(Messages), AsksLast(s), NEW b \in Nat, b + 1 <= Len(s),
         s[b + 1].role # "tool"
  PROVE  AsksLast(<<Summary>> \o SubSeq(s, b + 1, Len(s)))
<1>1. PICK n \in Nat : n = Len(s) /\ b + 1 <= n
  BY LenProperties
<1>2. PICK l \in Nat : l = n - b
  <2>1. n - b \in Nat
    BY <1>1
  <2>2. QED
    BY <2>1
<1>3. n = b + l /\ l > 0 /\ b \in 0..n /\ n - b = l
  BY <1>1, <1>2
<1>4. PICK t : t = <<Summary>> \o SubSeq(s, b + 1, Len(s))
  OBVIOUS
<1>5. t \in Seq(Messages) /\ Len(t) = 1 + l /\ \A i \in 2..(1 + l) : t[i] = s[b + (i - 1)]
  <2>1. b \in 0..Len(s) /\ Len(s) - b = l
    BY <1>1, <1>3
  <2>2. QED
    BY <1>4, <2>1, SummaryAndEnd
<1>6. CASE CallsLast(s)
  <2>1. PICK i \in 1..n : /\ s[i].role = "assistant" /\ s[i].ids # <<>>
                          /\ \A k \in (i + 1)..n : s[k].role = "tool"
    BY <1>1, <1>6 DEF CallsLast
  <2>2. i >= b + 1
    <3> SUFFICES ASSUME ~(i >= b + 1) PROVE FALSE
      OBVIOUS
    <3>1. b + 1 \in (i + 1)..n
      BY <1>1
    <3>2. QED
      BY <2>1, <3>1
  <2>3. PICK j \in 2..(1 + l) : j = (i - b) + 1
    <3>1. (i - b) + 1 \in 2..(1 + l)
      BY <1>3, <2>2
    <3>2. QED
      BY <3>1
  <2>4. b + (j - 1) = i
    BY <2>3
  <2>5. j \in 1..Len(t) /\ t[j] = s[i]
    <3>1. t[j] = s[b + (j - 1)]
      BY <1>5
    <3>2. j \in 1..(1 + l)
      OBVIOUS
    <3>3. QED
      BY <1>5, <2>4, <3>1, <3>2
  <2>6. ASSUME NEW k \in (j + 1)..Len(t) PROVE t[k].role = "tool"
    <3>1. k \in 2..(1 + l) /\ b + (k - 1) \in (i + 1)..n
      BY <1>3, <1>5, <2>4
    <3>2. t[k] = s[b + (k - 1)]
      BY <1>5, <3>1
    <3>3. QED
      BY <2>1, <3>1, <3>2
  <2>7. CallsLast(t)
    BY <2>1, <2>5, <2>6 DEF CallsLast
  <2>8. QED
    BY <1>4, <2>7 DEF AsksLast
<1>7. CASE s # <<>> /\ Last(s).role = "user"
  <2>1. 1 + l \in 2..(1 + l) /\ b + ((1 + l) - 1) = n
    BY <1>3
  <2>2. t[1 + l] = s[n]
    BY <1>5, <2>1
  <2>3. Last(t) = Last(s)
    BY <1>1, <1>5, <2>2 DEF Last
  <2>4. t # <<>>
    <3>1. Len(t) # 0 /\ Len(<<>>) = 0
      BY <1>3, <1>5
    <3>2. QED
      BY Zenon, <3>1
  <2>5. QED
    BY <1>4, <1>7, <2>3, <2>4 DEF AsksLast
<1>8. QED
  BY <1>6, <1>7 DEF AsksLast

\* A request, and what it asks the model for, is there before the context is shrunk; calls
\* that are carried out are the last.
LEMMA ShrunkAsks ==
  ASSUME transcript \in Seq(Messages), AsksLast(transcript), NEW minRecent \in {1, 2}, NEW next,
         Shrinks(minRecent, next)
  PROVE  AsksLast(transcript')
<1>1. CASE transcript' = transcript
  BY <1>1
<1>2. CASE transcript' \in Compacted(minRecent)
  <2>1. PICK b \in Nat : /\ b + minRecent <= Len(transcript)
                         /\ transcript[b + 1].role # "tool"
                         /\ transcript' = <<Summary>> \o SubSeq(transcript, b + 1, Len(transcript))
    BY <1>2, CompactedAt
  <2>2. b + 1 <= Len(transcript)
    <3>1. PICK n \in Nat : n = Len(transcript)
      BY LenProperties
    <3>2. QED
      BY <2>1, <3>1
  <2>3. QED
    BY <2>1, <2>2, CompactedAsks
<1>3. QED
  BY <1>1, <1>2 DEF Shrinks

\* Every step keeps it: a prompt, a response with calls and each result that is added.
LEMMA NextAsks ==
  ASSUME SessionOK, PendingOK, AsksTheModel, [Next]_vars PROVE AsksTheModel'
<1> SUFFICES /\ pc' \in {"loop", "stream"} => AsksLast(transcript')
             /\ pc' \in CarriesOut => CallsLast(transcript')
  BY DEF AsksTheModel
<1> USE DEF CarriesOut
<1>1. PICK s \in Seq(Messages) : s = transcript
  BY DEF SessionOK
<1>2. /\ pc \in {"loop", "stream"} => AsksLast(s)
      /\ pc \in CarriesOut => CallsLast(s)
  BY <1>1 DEF AsksTheModel
<1>3. ASSUME NEW ms \in Seq(Messages), NEW next, Push(ms, next), pc' # "failed"
      PROVE  transcript' = s \o ms /\ pc' = next
  BY <1>1, <1>3, Pushed DEF SessionOK
<1>4. CASE StartTurn
  <2>1. PICK r \in Seq(Messages) : r = Request
    BY <1>1, NormalizeCloses DEF Request
  <2>2. pc' = "save" \/ (pc' = "loop" /\ transcript' = Append(r, User))
    BY <1>4, <2>1 DEF StartTurn
  <2>3. Append(r, User) = r \o <<User>> /\ User \in Messages /\ User.role = "user"
    BY AppendIsConcat, OwnMessages DEF User, Message
  <2>4. AsksLast(r \o <<User>>)
    BY <2>3, AskedByAppend
  <2>5. QED
    BY <2>2, <2>3, <2>4
<1>5. CASE LoopTop
  <2>1. pc = "loop"
    BY <1>5 DEF LoopTop
  <2>2. CASE UNCHANGED session
    <3>1. pc' \in {"close", "failed", "stream"} /\ transcript' = s
      BY <1>1, <1>5, <2>2 DEF LoopTop, session, Shrinks
    <3>2. QED
      BY <1>2, <2>1, <3>1
  <2>3. CASE Shrinks(2, "stream")
    <3>1. AsksLast(transcript')
      BY <1>1, <1>2, <2>1, <2>3, ShrunkAsks
    <3>2. pc' \in {"stream", "failed"}
      BY <2>3 DEF Shrinks
    <3>3. QED
      BY <3>1, <3>2
  <2>4. QED
    BY <1>5, <2>2, <2>3 DEF LoopTop
<1>6. CASE StreamOverflows
  <2>1. pc = "stream"
    BY <1>6 DEF StreamOverflows
  <2>2. CASE pc' = "failed"
    BY <2>2
  <2>3. CASE Shrinks(1, "loop")
    <3>1. AsksLast(transcript')
      BY <1>1, <1>2, <2>1, <2>3, ShrunkAsks
    <3>2. pc' \in {"loop", "failed"}
      BY <2>3 DEF Shrinks
    <3>3. QED
      BY <3>1, <3>2
  <2>4. QED
    BY <1>6, <2>2, <2>3 DEF StreamOverflows
<1>7. CASE Continue \/ Nudge
  <2>1. Push(<<User>>, "loop")
    BY <1>7 DEF Continue, Nudge
  <2>2. pc' # "failed" => transcript' = s \o <<User>> /\ pc' = "loop"
    BY <1>3, <2>1, SingleMessages
  <2>3. User \in Messages /\ User.role = "user"
    BY OwnMessages DEF User, Message
  <2>4. AsksLast(s \o <<User>>)
    BY <2>3, AskedByAppend
  <2>5. QED
    BY <2>2, <2>4
<1>8. CASE RejectCall \/ ExecuteCall
  <2>1. /\ Push(<<Result(Head(pending).id)>>, "calls") /\ pending # <<>> /\ pc \in CarriesOut
    BY <1>8 DEF RejectCall, ExecuteCall, PendingOK
  <2>2. PICK left \in Seq(CallType) : left = pending /\ left # <<>>
    BY <2>1 DEF PendingOK
  <2>3. PICK m \in Messages : m = Result(Head(left).id) /\ m.role = "tool"
    <3>1. Head(left) \in CallType
      BY <2>2, FirstTaken
    <3>2. Head(left).id \in CallIds
      BY <3>1 DEF CallType
    <3>3. QED
      BY <3>2, OwnMessages
  <2>4. <<m>> \in Seq(Messages)
    BY SingleMessages
  <2>5. Push(<<m>>, "calls")
    BY <2>1, <2>2, <2>3
  <2>6. pc' # "failed" => transcript' = s \o <<m>> /\ pc' = "calls"
    BY <1>3, <2>4, <2>5
  <2>7. CallsLast(s \o <<m>>)
    BY <1>2, <2>1, <2>3, AskedByAppend
  <2>8. QED
    BY <2>6, <2>7
<1>9. CASE CallsDone
  <2>1. pc = "calls" /\ pc' = "loop" /\ transcript' = s
    BY <1>1, <1>9 DEF CallsDone, session
  <2>2. QED
    BY <1>2, <2>1 DEF AsksLast
<1>10. CASE StartCall
  <2>1. pc = "calls" /\ pc' = "execute" /\ transcript' = s
    BY <1>1, <1>10 DEF StartCall, session
  <2>2. QED
    BY <1>2, <2>1
<1>11. CASE Interrupt \/ AllTurnsDone \/ UNCHANGED vars
  <2>1. pc' = pc /\ transcript' = s
    BY <1>1, <1>11 DEF Interrupt, AllTurnsDone, vars, session
  <2>2. QED
    BY <1>2, <2>1
<1>12. CASE StreamInterrupted \/ InterruptCalls \/ AbandonCall \/ StopLoop
  <2>1. pc' \in {"close", "save", "failed"}
    BY <1>12 DEF StreamInterrupted, InterruptCalls, AbandonCall, StopLoop, EndCalls, Push
  <2>2. QED
    BY <2>1
<1>13. CASE StreamFails \/ EndReply \/ Close \/ CloseFailed \/ Save \/ Crash
  <2>1. pc' \in {"failed", "save", "idle"}
    BY <1>13 DEF StreamFails, EndReply, Close, CloseFailed, Save, Crash
  <2>2. QED
    BY <2>1
<1>14. ASSUME NEW calls \in CallLists, NEW text \in Texts, Refuses(calls, text)
       PROVE  pc' \in {"close", "failed"}
  BY <1>14 DEF Refuses, Push
<1>15. ASSUME NEW calls \in CallLists, NEW text \in Texts, NEW cutOff \in BOOLEAN,
              Responds(calls, text, cutOff)
       PROVE  /\ pc' \in {"loop", "stream"} => AsksLast(transcript')
              /\ pc' \in CarriesOut => CallsLast(transcript')
  <2>1. CASE calls = <<>>
    <3>1. pc' \in {"reply", "failed"}
      BY <1>15, <2>1 DEF Responds, Push
    <3>2. QED
      BY <3>1
  <2>2. CASE calls # <<>>
    <3>1. PICK m \in Messages : m = Assistant(Ids(calls), text # "some")
      BY ResponseMessages
    <3>2. Push(<<m>>, "calls")
      BY <1>15, <2>2, <3>1 DEF Responds
    <3>3. <<m>> \in Seq(Messages)
      BY SingleMessages
    <3>4. pc' # "failed" => transcript' = s \o <<m>> /\ pc' = "calls"
      BY <1>3, <3>2, <3>3
    <3>5. m.role = "assistant" /\ m.ids = Ids(calls)
      BY <3>1 DEF Assistant, Message
    <3>6. Ids(calls) # <<>>
      <4>1. calls \in Seq(CallType)
        BY ResponseMessages
      <4>2. PICK ids \in Seq(CallIds) : ids = Ids(calls) /\ Len(ids) = Len(calls)
        BY <4>1, ResultsOfCalls
      <4>3. Len(calls) # 0
        BY <2>2, <4>1, EmptySeq
      <4>4. QED
        BY <4>2, <4>3, EmptySeq
    <3>7. CallsLast(s \o <<m>>)
      BY <3>5, <3>6, AskedByAppend
    <3>8. pc' \in {"calls", "failed"}
      BY <3>4
    <3>9. QED
      BY <3>4, <3>7, <3>8
  <2>3. QED
    BY <2>1, <2>2
<1>16. QED
  BY <1>4, <1>5, <1>6, <1>7, <1>8, <1>9, <1>10, <1>11, <1>12, <1>13, <1>14, <1>15
  DEF Next, Turn, Stream

\* Only the top of the loop and an overflow compact.
LEMMA OnlyShrinkingCompacts ==
  ASSUME [Next]_vars
  PROVE  \/ compactions' = compactions
         \/ pc = "loop" /\ Shrinks(2, "stream")
         \/ pc = "stream" /\ Shrinks(1, "loop")
<1>1. ASSUME NEW ms, NEW next, Push(ms, next) PROVE compactions' = compactions
  BY <1>1 DEF Push
<1>2. CASE LoopTop
  BY <1>2 DEF LoopTop, session
<1>3. CASE StreamOverflows
  BY <1>3 DEF StreamOverflows, session
<1>4. CASE StreamInterrupted \/ Continue \/ Nudge \/ InterruptCalls \/ AbandonCall
           \/ StopLoop \/ RejectCall \/ ExecuteCall
  BY <1>1, <1>4 DEF StreamInterrupted, Continue, Nudge, InterruptCalls, AbandonCall, StopLoop,
     RejectCall, ExecuteCall, EndCalls
<1>5. CASE Close \/ CloseFailed
  BY <1>5 DEF Close, CloseFailed, CloseWithNote, session
<1>6. CASE StartTurn \/ StreamFails \/ EndReply \/ CallsDone \/ StartCall \/ Save
           \/ Interrupt \/ Crash \/ AllTurnsDone \/ UNCHANGED vars
  BY <1>6 DEF StartTurn, StreamFails, EndReply, CallsDone, StartCall, Save, Interrupt, Crash,
     AllTurnsDone, vars, session
<1>7. ASSUME NEW calls, NEW text, Refuses(calls, text) PROVE compactions' = compactions
  BY <1>1, <1>7 DEF Refuses
<1>8. ASSUME NEW calls, NEW text, NEW cutOff, Responds(calls, text, cutOff)
      PROVE  compactions' = compactions
  BY <1>1, <1>8 DEF Responds
<1>9. QED
  BY <1>2, <1>3, <1>4, <1>5, <1>6, <1>7, <1>8 DEF Next, Turn, Stream

\* compact_session_with_policy and pair_safe_boundary (compact.rs), with normalize_messages
\* (transcript.rs): whatever failed writes and crashes left in the transcript, the next
\* request after a compaction is the summary and an end of the request before, of the
\* messages that had to be kept at least.
THEOREM CompactionsKeepTheRest == Spec => CompactionKeepsTheRest
<1>1. Init => AsksTheModel
  BY DEF Init, AsksTheModel, CarriesOut
<1>2. LoopInv /\ AsksTheModel /\ [Next]_vars => AsksTheModel'
  BY NextAsks DEF LoopInv, GuardInv
<1>3. LoopInv /\ AsksTheModel /\ [Next]_vars =>
        [compactions' > compactions =>
           LET before == Request
               after == Normalize(transcript')
           IN  \E n \in 1..Len(before) :
                 /\ after = <<Summary>> \o SubSeq(before, n, Len(before))
                 /\ Len(before) - n >= IF pc = "loop" THEN 1 ELSE 0]_vars
  <2> SUFFICES ASSUME LoopInv, AsksTheModel, [Next]_vars, compactions' > compactions
               PROVE  \E n \in 1..Len(Request) :
                        /\ Normalize(transcript') =
                             <<Summary>> \o SubSeq(Request, n, Len(Request))
                        /\ Len(Request) - n >= IF pc = "loop" THEN 1 ELSE 0
    OBVIOUS
  <2>1. compactions' # compactions
    <3>1. compactions \in Nat
      BY BoundsAssumption DEF LoopInv, CountsOK
    <3>2. QED
      BY <3>1
  <2>2. PICK q \in {1, 2} : /\ q - 1 = IF pc = "loop" THEN 1 ELSE 0
                            /\ pc \in {"loop", "stream"}
                            /\ \E next : Shrinks(q, next)
    <3>1. CASE pc = "loop" /\ Shrinks(2, "stream")
      BY <3>1
    <3>2. CASE pc = "stream" /\ Shrinks(1, "loop")
      BY <3>2
    <3>3. QED
      BY <2>1, <3>1, <3>2, OnlyShrinkingCompacts
  <2>3. PICK s \in Seq(Messages) : s = transcript /\ AsksLast(s)
    BY <2>2 DEF LoopInv, SessionOK, AsksTheModel
  <2>4. transcript' \in Compacted(q)
    BY <2>1, <2>2 DEF Shrinks
  <2>5. PICK b \in Nat : /\ b + q <= Len(s)
                         /\ s[b + 1].role # "tool"
                         /\ transcript' = <<Summary>> \o SubSeq(s, b + 1, Len(s))
    BY <2>3, <2>4, CompactedAt
  <2>6. PICK after : after = <<Summary>> \o SubSeq(s, b + 1, Len(s))
    OBVIOUS
  <2>7. PICK before : before = Normalize(s)
    OBVIOUS
  <2>8. \E n \in 1..Len(before) :
          /\ Normalize(after) = <<Summary>> \o SubSeq(before, n, Len(before))
          /\ Len(before) - n >= q - 1
    BY <2>3, <2>5, <2>6, <2>7, RestIsKept
  <2>9. transcript' = after /\ Request = before
    BY <2>3, <2>5, <2>6, <2>7 DEF Request
  <2>10. QED
    BY <2>2, <2>8, <2>9
<1>4. QED
  BY LoopInvariance, <1>1, <1>2, <1>3, PTL DEF Spec, CompactionKeepsTheRest
=============================================================================
