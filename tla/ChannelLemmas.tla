------------------------- MODULE ChannelLemmas -------------------------
(* What the proofs use of a channel, modelled as a sequence: receiving takes *)
(* its first element and keeps the order of the rest, sending adds one; and   *)
(* of a function's values: there are no more of them than of its arguments.    *)
EXTENDS Integers, Sequences, SequenceTheorems, FiniteSetTheorems, WellFoundedInduction, TLAPS

\* Receiving from the channel: its first element, and the rest in order.
LEMMA FirstTaken ==
  ASSUME NEW S, NEW s \in Seq(S), s # <<>>
  PROVE  /\ Head(s) \in S /\ Head(s) = s[1] /\ 1 \in 1..Len(s)
         /\ Tail(s) \in Seq(S)
         /\ \A k \in 1..Len(Tail(s)) : k + 1 \in 1..Len(s) /\ Tail(s)[k] = s[k + 1]
<1>1. Len(s) \in Nat \ {0}
  BY EmptySeq
<1>2. Len(Tail(s)) = Len(s) - 1
  BY HeadTailProperties
<1>3. Head(s) = s[1]
  BY HeadTailOfSubSeq, SubSeqFull, <1>1
<1>4. QED
  BY HeadTailProperties, <1>1, <1>2, <1>3

\* Sending to a channel, or numbering one more request.
LEMMA LastAdded ==
  ASSUME NEW S, NEW s \in Seq(S), NEW e \in S
  PROVE  /\ Append(s, e) \in Seq(S) /\ Len(Append(s, e)) = Len(s) + 1
         /\ \A k \in 1..Len(Append(s, e)) :
              \/ k = Len(s) + 1 /\ Append(s, e)[k] = e
              \/ k \in 1..Len(s) /\ Append(s, e)[k] = s[k]
         /\ Len(s) \in Nat
<1>1. /\ Append(s, e) \in Seq(S) /\ Len(Append(s, e)) = Len(s) + 1
      /\ \A i \in 1..Len(s) : Append(s, e)[i] = s[i]
      /\ Append(s, e)[Len(s) + 1] = e
  BY AppendProperties
<1>2. Len(s) \in Nat
  BY LenProperties
<1>3. \A k \in 1..(Len(s) + 1) : k = Len(s) + 1 \/ k \in 1..Len(s)
  BY <1>2
<1>4. \A k \in 1..Len(Append(s, e)) :
        \/ k = Len(s) + 1 /\ Append(s, e)[k] = e
        \/ k \in 1..Len(s) /\ Append(s, e)[k] = s[k]
  BY <1>1, <1>3
<1>5. QED
  BY <1>1, <1>2, <1>4

\* A function has at most as many values as arguments.
LEMMA FewValues ==
  ASSUME NEW S, IsFiniteSet(S), NEW f, f = [x \in S |-> f[x]]
  PROVE  LET values == {f[x] : x \in S}
         IN  IsFiniteSet(values) /\ Cardinality(values) <= Cardinality(S)
<1> DEFINE values == {f[x] : x \in S}
<1>1. f \in Surjection(S, values)
  BY DEF Surjection
<1>2. QED
  BY <1>1, FS_Surjection
-----------------------------------------------------------------------------
(* Recursive functions: a first step and every next one *)

\* The first of a set of numbers.
LEMMA FirstOfNumbers ==
  ASSUME NEW T \in SUBSET Nat, T # {}
  PROVE  \E n \in T : \A m \in T : n <= m
<1>1. PICK n \in T : \A m \in T : <<m, n>> \notin OpToRel(<, Nat)
  BY NatLessThanWellFounded, WFMin
<1>2. \A m \in T : n <= m
  <2> SUFFICES ASSUME NEW m \in T PROVE n <= m
    OBVIOUS
  <2>1. m \in Nat /\ n \in Nat
    OBVIOUS
  <2>2. ~(m < n)
    BY <1>1, <2>1 DEF OpToRel
  <2>3. QED
    BY <2>1, <2>2
<1>3. QED
  BY <1>2

\* What holds of 0 and of every number after one it holds of, up to n.
LEMMA UpTo ==
  ASSUME NEW n \in Nat, NEW T, 0 \in T, \A k \in 1..n : k - 1 \in T => k \in T
  PROVE  \A k \in 0..n : k \in T
<1> SUFFICES ASSUME {k \in 0..n : k \notin T} # {} PROVE FALSE
  OBVIOUS
<1>1. {k \in 0..n : k \notin T} \in SUBSET Nat
  OBVIOUS
<1>2. PICK k \in {m \in 0..n : m \notin T} : \A m \in {m \in 0..n : m \notin T} : k <= m
  BY <1>1, FirstOfNumbers
<1>3. k \in 1..n /\ k - 1 \in 0..n /\ k - 1 < k
  BY <1>2
<1>4. k - 1 \in T
  BY <1>2, <1>3
<1>5. QED
  BY <1>2, <1>3, <1>4

Steps(n, A) == [A \X (1..n) -> A]
Stepped(n, A, first, step) ==
  {f \in [0..n -> A] : /\ f[0] = first
                      /\ \A k \in 1..n : f[k] = step[<<f[k - 1], k>>]}

\* A function that is defined step by step exists, and its values are of the kind the
\* steps keep.
LEMMA StepByStep ==
  ASSUME NEW n \in Nat, NEW A, NEW first \in A, NEW step \in Steps(n, A)
  PROVE  Stepped(n, A, first, step) # {}
<1>0. step \in [A \X (1..n) -> A]
  BY DEF Steps
<1> DEFINE Upto(k) == {f \in [0..k -> A] :
                         /\ f[0] = first
                         /\ \A i \in 1..k : f[i] = step[<<f[i - 1], i>>]}
           T == {k \in 0..n : Upto(k) # {}}
<1>1. 0 \in T
  <2>1. [i \in 0..0 |-> first] \in Upto(0)
    OBVIOUS
  <2>2. QED
    BY <2>1
<1>2. ASSUME NEW k \in 1..n, k - 1 \in T PROVE k \in T
  <2>1. PICK f \in Upto(k - 1) : TRUE
    BY <1>2
  <2> DEFINE g == [i \in 0..k |-> IF i = k THEN step[<<f[k - 1], k>>] ELSE f[i]]
  <2>2. /\ f \in [0..(k - 1) -> A] /\ f[0] = first
        /\ \A i \in 1..(k - 1) : f[i] = step[<<f[i - 1], i>>]
    BY <2>1
  <2>3. f[k - 1] \in A
    BY <2>2
  <2>4. <<f[k - 1], k>> \in A \X (1..n)
    BY <2>3
  <2>5. step[<<f[k - 1], k>>] \in A
    BY <1>0, <2>4
  <2>6. g \in [0..k -> A] /\ g[0] = first
    BY <2>2, <2>5
  <2>7. ASSUME NEW i \in 1..k PROVE g[i] = step[<<g[i - 1], i>>]
    <3>1. g[i - 1] = f[i - 1]
      OBVIOUS
    <3>2. CASE i = k
      <4>1. g[k] = step[<<f[k - 1], k>>]
        OBVIOUS
      <4>2. QED
        BY <3>1, <3>2, <4>1
    <3>3. CASE i # k
      <4>1. g[i] = f[i] /\ i \in 1..(k - 1)
        BY <3>3
      <4>2. QED
        BY <2>2, <3>1, <4>1
    <3>4. QED
      BY <3>2, <3>3
  <2>8. g \in Upto(k)
    BY <2>6, <2>7
  <2> HIDE DEF Upto, g
  <2>9. Upto(k) # {} /\ k \in 0..n
    BY <2>8
  <2>10. QED
    BY <2>9
<1> HIDE DEF T
<1>3. \A k \in 0..n : k \in T
  BY <1>1, <1>2, UpTo
<1>4. n \in T
  BY <1>3
<1>5. QED
  BY <1>4 DEF T, Stepped
=========================================================================
