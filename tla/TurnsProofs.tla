-------------------------- MODULE TurnsProofs --------------------------
(* What a turn may do, for any calls and limits: the permissions' types, that  *)
(* what the user allowed runs and runs no more often than it was allowed, and  *)
(* that a turn runs in the chosen mode; and what MCTurns checks of these and   *)
(* of the turn loop.                                                           *)
EXTENDS MCTurns, TurnLoopProofs

-----------------------------------------------------------------------------
(* Grants *)

Asked == {AskedSubject(c) : c \in ToolCalls}

\* A recorded grant is the last, and grants are only lost with it, never gained.
LEMMA GrantsRecorded ==
  ASSUME NEW s \in Seq(Asked), Len(s) <= MaxGrants, NEW e \in Asked
  PROVE  /\ WithGrant(s, e) \in Seq(Asked) /\ Len(WithGrant(s, e)) \in 1..MaxGrants
         /\ WithGrant(s, e)[Len(WithGrant(s, e))] = e
         /\ \A x : Count(WithGrant(s, e), x) <= Count(s, x) + (IF x = e THEN 1 ELSE 0)
<1> DEFINE all == Append(s, e)
<1>1. /\ all \in Seq(Asked) /\ all # <<>> /\ Len(all) = Len(s) + 1
      /\ all[Len(all)] = e /\ Len(s) \in Nat
  BY AppendProperties, LenProperties
<1>2. \A x : Count(all, x) <= Count(s, x) + (IF x = e THEN 1 ELSE 0)
  BY CountOfAppend
<1> HIDE DEF all
<1>3. CASE Len(all) > MaxGrants
  <2>1. WithGrant(s, e) = Tail(all)
    BY <1>3 DEF WithGrant, all
  <2>2. /\ Tail(all) \in Seq(Asked) /\ Len(Tail(all)) = Len(all) - 1
        /\ \A i \in 1..Len(Tail(all)) : Tail(all)[i] = all[i + 1]
    BY <1>1, HeadTailProperties
  <2>3. Len(Tail(all)) \in 1..MaxGrants
    BY <1>1, <1>3, <2>2, PermBoundsAssumption
  <2>4. Tail(all)[Len(Tail(all))] = e
    BY <1>1, <2>2, <2>3, PermBoundsAssumption
  <2>5. \A x : Count(Tail(all), x) <= Count(all, x) - (IF x = all[1] THEN 1 ELSE 0)
    <3>1. 1 \in 1..Len(all)
      BY <1>1
    <3>2. \A i \in 1..Len(Tail(all)) : Tail(all)[i] = IF i < 1 THEN all[i] ELSE all[i + 1]
      BY <2>2
    <3>3. QED
      BY <1>1, <2>2, <3>1, <3>2, CountWithoutOne
  <2>6. \A x : Count(all, x) \in Nat /\ Count(Tail(all), x) \in Nat /\ Count(s, x) \in Nat
    BY <1>1, <2>2, CountIsANumber
  <2>7. \A x : Count(Tail(all), x) <= Count(s, x) + (IF x = e THEN 1 ELSE 0)
    <3> SUFFICES ASSUME NEW x
                 PROVE  Count(Tail(all), x) <= Count(s, x) + (IF x = e THEN 1 ELSE 0)
      OBVIOUS
    <3>1. Count(Tail(all), x) <= Count(all, x)
      BY <2>5, <2>6
    <3>2. QED
      BY <1>2, <2>6, <3>1
  <2>8. QED
    BY <2>1, <2>2, <2>3, <2>4, <2>7
<1>4. CASE ~(Len(all) > MaxGrants)
  <2>1. WithGrant(s, e) = all
    BY <1>4 DEF WithGrant, all
  <2>2. Len(all) \in 1..MaxGrants
    BY <1>1, <1>4, PermBoundsAssumption
  <2>3. QED
    BY <1>1, <1>2, <2>1, <2>2
<1>5. QED
  BY <1>3, <1>4

\* A grant that is used up is one less, and no other is lost.
LEMMA GrantsUsedUp ==
  ASSUME policy.grants \in Seq(Asked), Len(policy.grants) <= MaxGrants,
         NEW e, Granted(e)
  PROVE  /\ Consumed(e) \in Seq(Asked) /\ Len(Consumed(e)) <= MaxGrants
         /\ \A x : Count(Consumed(e), x) <= Count(policy.grants, x) - (IF x = e THEN 1 ELSE 0)
<1> DEFINE s == policy.grants
           first == CHOOSE i \in DOMAIN s : s[i] = e /\ \A j \in 1..(i - 1) : s[j] # e
           before == SubSeq(s, 1, first - 1)
           after == SubSeq(s, first + 1, Len(s))
<1>1. Len(s) \in Nat /\ DOMAIN s = 1..Len(s)
  BY LenProperties
<1>2. first \in 1..Len(s) /\ s[first] = e
  <2>1. \E i \in DOMAIN s : s[i] = e
    BY DEF Granted
  <2>2. Places(s, e) \in SUBSET Nat /\ Places(s, e) # {}
    BY <1>1, <2>1 DEF Places
  <2>3. PICK i \in Places(s, e) : \A m \in Places(s, e) : i <= m
    BY <2>2, FirstOfNumbers
  <2>4. i \in DOMAIN s /\ s[i] = e /\ \A j \in 1..(i - 1) : s[j] # e
    BY <1>1, <2>3 DEF Places
  <2>5. QED
    BY <1>1, <2>4
<1>3. Consumed(e) = before \o after
  BY DEF Consumed
<1> HIDE DEF first
<1>4. \A i \in 1..Len(s) : s[i] \in Asked
  BY ElementOfSeq
<1>5. /\ before \in Seq(Asked) /\ Len(before) = first - 1
      /\ \A i \in 1..(first - 1) : before[i] = s[i]
  <2>1. \A i \in 1..(first - 1) : s[i] \in Asked
    BY <1>1, <1>2, <1>4
  <2>2. /\ before \in Seq(Asked)
        /\ Len(before) = IF 1 <= first - 1 THEN (first - 1) - 1 + 1 ELSE 0
        /\ \A i \in 1..((first - 1) - 1 + 1) : before[i] = s[1 + i - 1]
    BY <1>1, <1>2, <2>1, SubSeqProperties
  <2>3. QED
    BY <1>1, <1>2, <2>2
<1>6. /\ after \in Seq(Asked) /\ Len(after) = Len(s) - first
      /\ \A i \in 1..(Len(s) - first) : after[i] = s[first + i]
  <2>1. \A i \in (first + 1)..Len(s) : s[i] \in Asked
    BY <1>1, <1>2, <1>4
  <2>2. /\ after \in Seq(Asked)
        /\ Len(after) = IF first + 1 <= Len(s) THEN Len(s) - (first + 1) + 1 ELSE 0
        /\ \A i \in 1..(Len(s) - (first + 1) + 1) : after[i] = s[first + 1 + i - 1]
    BY <1>1, <1>2, <2>1, SubSeqProperties
  <2>3. QED
    BY <1>1, <1>2, <2>2
<1> HIDE DEF before, after
<1>7. /\ before \o after \in Seq(Asked) /\ Len(before \o after) = Len(before) + Len(after)
      /\ \A i \in 1..(Len(before) + Len(after)) : (before \o after)[i] =
           IF i <= Len(before) THEN before[i] ELSE after[i - Len(before)]
  BY <1>5, <1>6, ConcatProperties
<1>8. Len(before \o after) = Len(s) - 1
  BY <1>1, <1>2, <1>5, <1>6, <1>7
<1>9. \A i \in 1..Len(before \o after) :
        (before \o after)[i] = IF i < first THEN s[i] ELSE s[i + 1]
  <2> SUFFICES ASSUME NEW i \in 1..Len(before \o after)
               PROVE  (before \o after)[i] = IF i < first THEN s[i] ELSE s[i + 1]
    OBVIOUS
  <2>1. i \in 1..(Len(s) - 1) /\ i \in 1..(Len(before) + Len(after))
    BY <1>7, <1>8
  <2>2. CASE i < first
    BY <1>1, <1>2, <1>5, <1>7, <2>1, <2>2
  <2>3. CASE ~(i < first)
    <3>1. (before \o after)[i] = after[i - Len(before)] /\ i - Len(before) = i - first + 1
      BY <1>1, <1>2, <1>5, <1>7, <2>1, <2>3
    <3>2. i - first + 1 \in 1..(Len(s) - first)
      BY <1>1, <1>2, <2>1, <2>3
    <3>3. after[i - first + 1] = s[first + (i - first + 1)]
      BY <1>6, <3>2
    <3>4. first + (i - first + 1) = i + 1
      BY <1>1, <1>2, <2>1
    <3>5. QED
      BY <2>3, <3>1, <3>3, <3>4
  <2>4. QED
    BY <2>2, <2>3
<1>10. \A x : Count(before \o after, x) <= Count(s, x) - (IF x = e THEN 1 ELSE 0)
  <2> HIDE DEF s
  <2> SUFFICES ASSUME NEW x
               PROVE  Count(before \o after, x) <= Count(s, x) - (IF x = e THEN 1 ELSE 0)
    OBVIOUS
  <2>1. s \in Seq(Asked)
    BY DEF s
  <2>2. Count(before \o after, x) <= Count(s, x) - (IF x = s[first] THEN 1 ELSE 0)
    BY <1>2, <1>7, <1>8, <1>9, <2>1, CountWithoutOne
  <2>3. QED
    BY <1>2, <2>2
<1>11. QED
  BY <1>1, <1>3, <1>7, <1>8, <1>10, PermBoundsAssumption

-----------------------------------------------------------------------------
(* The permissions' invariant *)

PolicyOK ==
  /\ policy \in [mode : Modes, grants : Seq(Asked), planTools : BOOLEAN]
  /\ Len(policy.grants) <= MaxGrants

StagesOK ==
  /\ rules \subseteq {"deny", "ask", "allow"} /\ fullAccess \in BOOLEAN
  /\ approvedScopes \subseteq {<<c.tool, c.scope>> : c \in ToolCalls}
  /\ stage \in {"between", "idle", "asking", "allowed", "refused"}
  /\ current \in [call : ToolCalls, byRuntime : BOOLEAN, asker : {"nobody", "hook", "policy"}]
  /\ unspent \in [ToolCalls -> Int] /\ permSteps \in 0..MaxPermSteps
  /\ current.byRuntime => current.call = ProjectCall

ModesOK ==
  /\ userMode \in Modes /\ planMode \in BOOLEAN /\ previousMode \in Modes \cup {NoMode}
  /\ chosenMode \in Modes /\ changedInPlan \in BOOLEAN

\* Outside of plan mode the mode is the chosen one; plan mode remembers it, and is
\* read-only until /permissions changes the mode in it. A turn's policy has both.
ModesAgree ==
  /\ changedInPlan => planMode
  /\ ~planMode => userMode = chosenMode /\ previousMode = NoMode
  /\ planMode => previousMode = chosenMode
  /\ planMode /\ ~changedInPlan => userMode = ReadOnly
  /\ stage # "between" => policy.mode = userMode /\ policy.planTools = planMode

\* Every grant is an answer that has not been used; of a call whose arguments read
\* otherwise once parsed no grant is ever found.
GrantsArePaid ==
  \A c \in ToolCalls :
    /\ unspent[c] >= 0
    /\ c.enforced /\ c.plain => Count(policy.grants, AskedSubject(c)) <= unspent[c]

\* The user is asked only about a call that the policy would ask about, or a hook did.
AskedForAReason ==
  stage = "asking" =>
    /\ ~current.byRuntime /\ current.asker # "nobody"
    /\ current.asker = "policy" => Verdict(current.call, "none") = "ask"
    /\ current.asker = "hook" =>
         Verdict(current.call, "none") # "deny" \/ policy.mode = ReadOnly

LastGrantIs(c) ==
  /\ Len(policy.grants) >= 1 /\ policy.grants[Len(policy.grants)] = AskedSubject(c)
  /\ unspent[c] >= 1

\* What was let through is still, or has the grant of its own answer.
AllowedIsBacked ==
  stage = "allowed" /\ ~current.byRuntime =>
    \/ Verdict(current.call, "none") = "allow"
    \/ Verdict(current.call, "none") = "ask" /\ LastGrantIs(current.call)
    \/ /\ Verdict(current.call, "none") = "deny"
       /\ current.asker = "hook" /\ policy.mode = ReadOnly

PermInv ==
  /\ PolicyOK /\ StagesOK /\ ModesOK /\ ModesAgree /\ GrantsArePaid
  /\ AskedForAReason /\ AllowedIsBacked /\ ApprovedCallsRun

\* Two of the modes.
LEMMA ModesDiffer == WorkspaceWrite # ReadOnly
<1>1. 1 # 0
  OBVIOUS
<1>2. QED
  BY <1>1 DEF WorkspaceWrite, ReadOnly

\* Without a current call the model keeps one of no account.
LEMMA NoCurrentType ==
  /\ NoCurrent \in [call : ToolCalls, byRuntime : BOOLEAN, asker : {"nobody", "hook", "policy"}]
  /\ ~NoCurrent.byRuntime
BY ToolCallsAssumption DEF NoCurrent

\* What a call needs is a mode, and a verdict is one of three.
LEMMA VerdictType ==
  ASSUME StagesOK, NEW c \in ToolCalls, NEW hook
  PROVE  Required(c) \in Modes /\ Verdict(c, hook) \in {"allow", "ask", "deny"}
<1>1. c.static \in Modes /\ c.needs \in Modes
  BY ToolCallsAssumption DEF ToolCall
<1>2. QED
  BY <1>1 DEF Required, Verdict

\* What a hook can add to the policy's own verdict.
LEMMA VerdictWithHook ==
  ASSUME PolicyOK, StagesOK, NEW c \in ToolCalls, NEW hook \in {"none", "ask", "deny"}
  PROVE  /\ Verdict(c, hook) = "allow" => hook = "none"
         /\ Verdict(c, hook) = "ask" /\ hook # "ask" => hook = "none"
         /\ Verdict(c, hook) = "ask" =>
              Verdict(c, "none") # "deny" \/ policy.mode = ReadOnly
<1>1. Required(c) \in Modes /\ policy.mode \in Modes
  BY VerdictType DEF PolicyOK
<1>2. Verdict(c, "deny") = "deny"
  BY DEF Verdict
<1>3. Verdict(c, "ask") \in {"ask", "deny"}
  BY DEF Verdict
<1>4. Verdict(c, "none") = "deny" /\ policy.mode # ReadOnly => Ruled("deny", c)
  BY <1>1 DEF Verdict, Modes, ReadOnly, WorkspaceWrite, DangerFullAccess
<1>5. Ruled("deny", c) => Verdict(c, hook) = "deny"
  BY DEF Verdict
<1>6. QED
  BY <1>2, <1>3, <1>4, <1>5

\* The same rules, approvals and mode give the same verdict.
LEMMA VerdictKept ==
  ASSUME rules' = rules, approvedScopes' = approvedScopes, policy'.mode = policy.mode
  PROVE  \A c, hook : Verdict(c, hook)' = Verdict(c, hook)
BY DEF Verdict, Ruled, Required, SessionApproved

\* Approving what a call reaches takes nothing from its verdict, but in
\* read-only mode.
LEMMA ApprovalOnlyHelps ==
  ASSUME PolicyOK, StagesOK, NEW c \in ToolCalls,
         rules' = rules, policy'.mode = policy.mode,
         \/ approvedScopes' = approvedScopes
         \/ c.scope # "" /\ approvedScopes' = approvedScopes \cup {<<c.tool, c.scope>>}
  PROVE  /\ Verdict(c, "none") = "ask" => Verdict(c, "none")' \in {"ask", "allow"}
         /\ Verdict(c, "none") = "allow" =>
              Verdict(c, "none")' = "allow" \/ policy.mode = ReadOnly
         /\ Verdict(c, "none")' \in {"allow", "ask", "deny"}
<1>1. CASE approvedScopes' = approvedScopes
  BY <1>1, VerdictKept, VerdictType
<1>2. CASE c.scope # "" /\ approvedScopes' = approvedScopes \cup {<<c.tool, c.scope>>}
  <2>1. c.static \in Modes /\ c.needs \in Modes /\ policy.mode \in Modes
    BY ToolCallsAssumption DEF ToolCall, PolicyOK
  <2>2. SessionApproved(c)'
    BY <1>2 DEF SessionApproved
  <2>3. \A kind : Ruled(kind, c)' = Ruled(kind, c)
    BY DEF Ruled
  <2>4. Verdict(c, "none")' =
          IF Ruled("deny", c) THEN "deny"
          ELSE IF Ruled("ask", c) THEN "ask"
          ELSE IF Ruled("allow", c) \/ policy.mode >= Required(c)' \/ policy.mode # ReadOnly
               THEN "allow"
          ELSE IF policy.mode = WorkspaceWrite /\ Required(c)' = DangerFullAccess THEN "ask"
          ELSE "deny"
    BY <2>2, <2>3 DEF Verdict
  <2>5. Verdict(c, "none") =
          IF Ruled("deny", c) THEN "deny"
          ELSE IF Ruled("ask", c) THEN "ask"
          ELSE IF Ruled("allow", c) \/ policy.mode >= Required(c) THEN "allow"
          ELSE IF SessionApproved(c) /\ policy.mode # ReadOnly THEN "allow"
          ELSE IF policy.mode = WorkspaceWrite /\ Required(c) = DangerFullAccess THEN "ask"
          ELSE "deny"
    BY DEF Verdict
  <2>6. Verdict(c, "none") = "ask" => Verdict(c, "none")' \in {"ask", "allow"}
    <3>1. policy.mode = WorkspaceWrite => policy.mode # ReadOnly
      BY ModesDiffer
    <3>2. QED
      BY <2>4, <2>5, <3>1
  <2>7. Verdict(c, "none") = "allow" =>
          Verdict(c, "none")' = "allow" \/ policy.mode = ReadOnly
    BY <2>4, <2>5
  <2>8. QED
    BY <2>4, <2>6, <2>7
<1>3. QED
  BY <1>1, <1>2


\* The grant a call uses up is gone from the policy, which is otherwise the same.
LEMMA GrantIsSpent ==
  ASSUME PolicyOK, NEW e, Spends(e)
  PROVE  /\ PolicyOK' /\ policy'.mode = policy.mode /\ policy'.planTools = policy.planTools
         /\ \A x : Count(policy'.grants, x) <=
                     Count(policy.grants, x) - (IF x = e THEN 1 ELSE 0)
<1>1. policy.grants \in Seq(Asked) /\ Len(policy.grants) <= MaxGrants /\ Granted(e)
  BY DEF PolicyOK, Spends
<1>2. policy' = [policy EXCEPT !.grants = Consumed(e)]
  BY DEF Spends
<1>3. /\ policy'.grants = Consumed(e)
      /\ policy'.mode = policy.mode /\ policy'.planTools = policy.planTools
  BY <1>2 DEF PolicyOK
<1>4. /\ Consumed(e) \in Seq(Asked) /\ Len(Consumed(e)) <= MaxGrants
      /\ \A x : Count(Consumed(e), x) <= Count(policy.grants, x) - (IF x = e THEN 1 ELSE 0)
  BY <1>1, GrantsUsedUp
<1>5. policy' \in [mode : Modes, grants : Seq(Asked), planTools : BOOLEAN]
  BY <1>2, <1>4 DEF PolicyOK
<1>6. QED
  BY <1>3, <1>4, <1>5 DEF PolicyOK

\* The grant an answer leaves is the last one, which is all that changes in the policy.
LEMMA GrantIsGiven ==
  ASSUME PolicyOK, NEW e \in Asked,
         policy' = [policy EXCEPT !.grants = WithGrant(@, e)]
  PROVE  /\ PolicyOK' /\ policy'.mode = policy.mode /\ policy'.planTools = policy.planTools
         /\ Len(policy'.grants) >= 1 /\ policy'.grants[Len(policy'.grants)] = e
         /\ \A x : Count(policy'.grants, x) <=
                     Count(policy.grants, x) + (IF x = e THEN 1 ELSE 0)
<1>1. policy.grants \in Seq(Asked) /\ Len(policy.grants) <= MaxGrants
  BY DEF PolicyOK
<1> DEFINE given == WithGrant(policy.grants, e)
<1>2. /\ given \in Seq(Asked) /\ Len(given) \in 1..MaxGrants /\ given[Len(given)] = e
      /\ \A x : Count(given, x) <= Count(policy.grants, x) + (IF x = e THEN 1 ELSE 0)
  BY <1>1, GrantsRecorded
<1>3. policy' = [policy EXCEPT !.grants = given]
  OBVIOUS
<1> HIDE DEF given
<1>4. /\ policy'.grants = given
      /\ policy'.mode = policy.mode /\ policy'.planTools = policy.planTools
  BY <1>3 DEF PolicyOK
<1>5. policy' \in [mode : Modes, grants : Seq(Asked), planTools : BOOLEAN]
  BY <1>2, <1>3 DEF PolicyOK
<1>6. Len(given) >= 1 /\ Len(given) <= MaxGrants
  BY <1>2, PermBoundsAssumption
<1>7. QED
  BY <1>2, <1>4, <1>5, <1>6 DEF PolicyOK

\* A new policy has no grants.
LEMMA PolicyIsNew ==
  ASSUME NEW mode \in Modes, NEW planTools \in BOOLEAN,
         policy' = NewPolicy(mode, planTools)
  PROVE  /\ PolicyOK' /\ policy'.mode = mode /\ policy'.planTools = planTools
         /\ \A x : Count(policy'.grants, x) = 0
<1>1. policy'.grants = <<>> /\ policy'.mode = mode /\ policy'.planTools = planTools
  BY DEF NewPolicy
<1>2. <<>> \in Seq(Asked) /\ Len(<<>>) = 0
  BY EmptySeq
<1>3. \A x : Count(<<>>, x) = 0
  <2>1. \A x : Places(<<>>, x) = {}
    BY <1>2 DEF Places
  <2>2. QED
    BY <2>1, FS_EmptySet DEF Count
<1>4. PolicyOK'
  BY <1>1, <1>2, PermBoundsAssumption DEF PolicyOK, NewPolicy
<1>5. QED
  BY <1>1, <1>3, <1>4

\* What the user is asked about is granted as it was sent.
LEMMA AskedIsAsked ==
  ASSUME StagesOK PROVE AskedSubject(current.call) \in Asked
BY DEF StagesOK, Asked

-----------------------------------------------------------------------------
(* Every step keeps it *)

\* The policy stays one of its kind, with at most MAX_PENDING_GRANTS grants.
LEMMA NextPolicyOK ==
  ASSUME PolicyOK, StagesOK, ModesOK, [PermNext]_permVars
  PROVE  PolicyOK'
<1>1. ASSUME NEW c \in ToolCalls, NEW hook \in {"none", "ask", "deny"}, CallTool(c, hook)
      PROVE  PolicyOK'
  <2>1. policy' = policy
    BY <1>1 DEF CallTool, Commands
  <2>2. QED
    BY <2>1 DEF PolicyOK
<1>2. ASSUME NEW answer \in {"once", "session", "deny"}, UserAnswers(answer)
      PROVE  PolicyOK'
  <2>1. CASE answer = "deny"
    BY <1>2, <2>1 DEF UserAnswers, PolicyOK
  <2>2. CASE answer # "deny"
    BY <1>2, <2>2, AskedIsAsked, GrantIsGiven DEF UserAnswers
  <2>3. QED
    BY <2>1, <2>2
<1>3. CASE InterruptedFirst
  <2>1. policy' = policy
    BY <1>3 DEF InterruptedFirst, Commands
  <2>2. QED
    BY <2>1 DEF PolicyOK
<1>4. CASE ExecutorRefuses
  <2>1. policy' = policy
    BY <1>4 DEF ExecutorRefuses, Commands
  <2>2. QED
    BY <2>1 DEF PolicyOK
<1>5. CASE ToolChecks
  <2>1. policy' = policy \/ Spends(ToolSubject(current.call))
    BY <1>5 DEF ToolChecks
  <2>2. QED
    BY <2>1, GrantIsSpent DEF PolicyOK
<1>6. ASSUME NEW hook \in {"none", "ask", "deny"}, ProjectCheck(hook)
      PROVE  PolicyOK'
  <2>1. policy' = policy \/ Spends(AskedSubject(ProjectCall))
    BY <1>6 DEF ProjectCheck
  <2>2. QED
    BY <2>1, GrantIsSpent DEF PolicyOK
<1>7. ASSUME NEW rebuild \in BOOLEAN, PrepareTurn(rebuild)
      PROVE  PolicyOK'
  <2>1. policy' = policy \/ policy' = NewPolicy(userMode, planMode)
    BY <1>7 DEF PrepareTurn
  <2>2. userMode \in Modes /\ planMode \in BOOLEAN
    BY DEF ModesOK
  <2>3. QED
    BY <2>1, <2>2, PolicyIsNew DEF PolicyOK
<1>8. CASE TurnIsOver
  <2>1. policy' = policy
    BY <1>8 DEF TurnIsOver, Commands
  <2>2. QED
    BY <2>1 DEF PolicyOK
<1>9. CASE PlanOn
  <2>1. policy' = policy
    BY <1>9 DEF PlanOn, Commands
  <2>2. QED
    BY <2>1 DEF PolicyOK
<1>10. CASE PlanOff
  <2>1. policy' = policy
    BY <1>10 DEF PlanOff, Commands
  <2>2. QED
    BY <2>1 DEF PolicyOK
<1>11. ASSUME NEW mode \in Modes, SetMode(mode)
      PROVE  PolicyOK'
  <2>1. policy' = policy \/ policy' = NewPolicy(mode, FALSE)
    BY <1>11 DEF SetMode, RebuildPolicy
  <2>2. QED
    BY <2>1, PolicyIsNew DEF PolicyOK
<1>12. ASSUME NEW mode \in Modes, PermissionsCommand(mode)
      PROVE  PolicyOK'
  <2>1. policy' = policy \/ policy' = NewPolicy(mode, FALSE)
    BY <1>12 DEF PermissionsCommand, RebuildPolicy
  <2>2. QED
    BY <2>1, PolicyIsNew DEF PolicyOK
<1>13. CASE UNCHANGED permVars
  <2>1. policy' = policy
    BY <1>13 DEF permVars
  <2>2. QED
    BY <2>1 DEF PolicyOK
<1>14. QED
  BY <1>1, <1>2, <1>3, <1>4, <1>5, <1>6, <1>7, <1>8, <1>9, <1>10, <1>11, <1>12, <1>13 DEF PermNext, PermRests

\* The rest of the turn and of its history keeps its kind.
LEMMA NextStagesOK ==
  ASSUME StagesOK, ModesOK, [PermNext]_permVars
  PROVE  StagesOK'
<1> USE NoCurrentType, ToolCallsAssumption, PermBoundsAssumption DEF StagesOK
<1>1. ASSUME NEW c \in ToolCalls, NEW hook \in {"none", "ask", "deny"}, CallTool(c, hook)
      PROVE  StagesOK'
  <2>1. Verdict(c, hook) \in {"allow", "ask", "deny"}
    BY VerdictType
  <2>2. stage' \in {"allowed", "asking", "idle"}
    BY <1>1, <2>1 DEF CallTool
  <2>3. /\ UNCHANGED <<settings, approvedScopes, unspent>> /\ permSteps' = permSteps + 1
        /\ permSteps < MaxPermSteps
        /\ \/ current' = NoCurrent
           \/ \E asker \in {"nobody", "hook", "policy"} :
                current' = [call |-> c, byRuntime |-> FALSE, asker |-> asker]
    BY <1>1 DEF CallTool
  <2>4. /\ current' \in [call : ToolCalls, byRuntime : BOOLEAN,
                      asker : {"nobody", "hook", "policy"}]
        /\ ~current'.byRuntime
    <3>1. CASE current' = NoCurrent
      BY <3>1
    <3>2. CASE current' # NoCurrent
      <4>1. PICK asker \in {"nobody", "hook", "policy"} :
              current' = [call |-> c, byRuntime |-> FALSE, asker |-> asker]
        BY <2>3, <3>2
      <4>2. QED
        BY <4>1
    <3>3. QED
      BY <3>1, <3>2
  <2>5. QED
    BY <2>2, <2>3, <2>4 DEF settings
<1>2. ASSUME NEW answer \in {"once", "session", "deny"}, UserAnswers(answer)
      PROVE  StagesOK'
  <2>1. CASE answer = "deny"
    BY <1>2, <2>1 DEF UserAnswers, settings
  <2>2. CASE answer # "deny"
    <3> DEFINE c == current.call
    <3>1. c \in ToolCalls /\ unspent[c] \in Int
      OBVIOUS
    <3>2. unspent' = [unspent EXCEPT ![c] = unspent[c] + 1]
      BY <1>2, <2>2 DEF UserAnswers
    <3>3. unspent' \in [ToolCalls -> Int]
      BY <3>1, <3>2
    <3>4. approvedScopes' \subseteq {<<d.tool, d.scope>> : d \in ToolCalls}
      <4>1. \/ approvedScopes' = approvedScopes
            \/ approvedScopes' = approvedScopes \cup {<<c.tool, c.scope>>}
        BY <1>2, <2>2 DEF UserAnswers
      <4>2. QED
        BY <3>1, <4>1
    <3>5. QED
      BY <1>2, <2>2, <3>3, <3>4 DEF UserAnswers, settings
  <2>3. QED
    BY <2>1, <2>2
<1>3. CASE InterruptedFirst
  BY <1>3 DEF InterruptedFirst, Commands, permVars, settings, choiceVars
<1>4. CASE ExecutorRefuses
  BY <1>4 DEF ExecutorRefuses, Commands, permVars, settings, choiceVars
<1>5. CASE ToolChecks
  <2> DEFINE c == current.call
  <2>1. c \in ToolCalls /\ unspent[c] \in Int
    OBVIOUS
  <2>2. unspent' = unspent \/ unspent' = [unspent EXCEPT ![c] = unspent[c] - 1]
    BY <1>5 DEF ToolChecks
  <2>3. unspent' \in [ToolCalls -> Int]
    BY <2>1, <2>2
  <2>4. /\ stage' \in {"refused", "idle"} /\ (current' = current \/ current' = NoCurrent)
        /\ UNCHANGED <<settings, approvedScopes, permSteps>>
    BY <1>5 DEF ToolChecks
  <2>5. QED
    BY <2>3, <2>4 DEF settings
<1>6. ASSUME NEW hook \in {"none", "ask", "deny"}, ProjectCheck(hook)
      PROVE  StagesOK'
  BY <1>6 DEF ProjectCheck, Commands, permVars, settings, choiceVars
<1>7. ASSUME NEW rebuild \in BOOLEAN, PrepareTurn(rebuild)
      PROVE  StagesOK'
  BY <1>7 DEF PrepareTurn, Commands, permVars, settings, choiceVars
<1>8. CASE TurnIsOver
  BY <1>8 DEF TurnIsOver, Commands, permVars, settings, choiceVars
<1>9. CASE PlanOn
  BY <1>9 DEF PlanOn, Commands, permVars, settings, choiceVars
<1>10. CASE PlanOff
  BY <1>10 DEF PlanOff, Commands, permVars, settings, choiceVars
<1>11. ASSUME NEW mode \in Modes, SetMode(mode)
      PROVE  StagesOK'
  BY <1>11 DEF SetMode, Commands, permVars, settings, choiceVars
<1>12. ASSUME NEW mode \in Modes, PermissionsCommand(mode)
      PROVE  StagesOK'
  BY <1>12 DEF PermissionsCommand, Commands, permVars, settings, choiceVars
<1>13. CASE UNCHANGED permVars
  BY <1>13 DEF permVars, settings, choiceVars
<1>14. QED
  BY <1>1, <1>2, <1>3, <1>4, <1>5, <1>6, <1>7, <1>8, <1>9, <1>10, <1>11, <1>12, <1>13 DEF PermNext, PermRests

\* So do the modes.
LEMMA NextModesOK ==
  ASSUME ModesOK, [PermNext]_permVars
  PROVE  ModesOK'
<1> USE DEF ModesOK, Modes, ReadOnly, WorkspaceWrite, DangerFullAccess, NoMode
<1>1. ASSUME NEW c \in ToolCalls, NEW hook \in {"none", "ask", "deny"}, CallTool(c, hook)
      PROVE  ModesOK'
  BY <1>1 DEF CallTool, Commands, permVars, settings, choiceVars
<1>2. ASSUME NEW answer \in {"once", "session", "deny"}, UserAnswers(answer)
      PROVE  ModesOK'
  BY <1>2 DEF UserAnswers, Commands, permVars, settings, choiceVars
<1>3. CASE InterruptedFirst
  BY <1>3 DEF InterruptedFirst, Commands, permVars, settings, choiceVars
<1>4. CASE ExecutorRefuses
  BY <1>4 DEF ExecutorRefuses, Commands, permVars, settings, choiceVars
<1>5. CASE ToolChecks
  BY <1>5 DEF ToolChecks, Commands, permVars, settings, choiceVars
<1>6. ASSUME NEW hook \in {"none", "ask", "deny"}, ProjectCheck(hook)
      PROVE  ModesOK'
  BY <1>6 DEF ProjectCheck, Commands, permVars, settings, choiceVars
<1>7. ASSUME NEW rebuild \in BOOLEAN, PrepareTurn(rebuild)
      PROVE  ModesOK'
  BY <1>7 DEF PrepareTurn, Commands, permVars, settings, choiceVars
<1>8. CASE TurnIsOver
  BY <1>8 DEF TurnIsOver, Commands, permVars, settings, choiceVars
<1>9. CASE PlanOn
  BY <1>9 DEF PlanOn, Commands, permVars, settings, choiceVars
<1>10. CASE PlanOff
  BY <1>10 DEF PlanOff, Commands, Remembered
<1>11. ASSUME NEW mode \in Modes, SetMode(mode)
      PROVE  ModesOK'
  BY <1>11 DEF SetMode, Commands, permVars, settings, choiceVars
<1>12. ASSUME NEW mode \in Modes, PermissionsCommand(mode)
      PROVE  ModesOK'
  BY <1>12 DEF PermissionsCommand, Commands, permVars, settings, choiceVars
<1>13. CASE UNCHANGED permVars
  BY <1>13 DEF permVars, settings, choiceVars
<1>14. QED
  BY <1>1, <1>2, <1>3, <1>4, <1>5, <1>6, <1>7, <1>8, <1>9, <1>10, <1>11, <1>12, <1>13 DEF PermNext, PermRests

\* However plan mode, /permissions and failed rebuilds follow each other.
LEMMA NextModesAgree ==
  ASSUME PolicyOK, StagesOK, ModesOK, ModesAgree, [PermNext]_permVars
  PROVE  ModesAgree'
<1>1. ASSUME NEW c \in ToolCalls, NEW hook \in {"none", "ask", "deny"}, CallTool(c, hook)
      PROVE  ModesAgree'
  <2>1. policy'.mode = policy.mode /\ policy'.planTools = policy.planTools
    BY <1>1 DEF CallTool
  <2>2. /\ stage # "between"
        /\ UNCHANGED <<userMode, planMode, previousMode, chosenMode, changedInPlan>>
    BY <1>1 DEF CallTool, choiceVars
  <2>3. QED
    BY <2>1, <2>2 DEF ModesAgree
<1>2. ASSUME NEW answer \in {"once", "session", "deny"}, UserAnswers(answer)
      PROVE  ModesAgree'
  <2>1. policy'.mode = policy.mode /\ policy'.planTools = policy.planTools
    <3>1. CASE answer = "deny"
      BY <1>2, <3>1 DEF UserAnswers
    <3>2. CASE answer # "deny"
      BY <1>2, <3>2, AskedIsAsked, GrantIsGiven DEF UserAnswers
    <3>3. QED
      BY <3>1, <3>2
  <2>2. /\ stage # "between"
        /\ UNCHANGED <<userMode, planMode, previousMode, chosenMode, changedInPlan>>
    BY <1>2 DEF UserAnswers, choiceVars
  <2>3. QED
    BY <2>1, <2>2 DEF ModesAgree
<1>3. CASE InterruptedFirst
  <2>1. policy'.mode = policy.mode /\ policy'.planTools = policy.planTools
    BY <1>3 DEF InterruptedFirst
  <2>2. /\ stage # "between"
        /\ UNCHANGED <<userMode, planMode, previousMode, chosenMode, changedInPlan>>
    BY <1>3 DEF InterruptedFirst, choiceVars
  <2>3. QED
    BY <2>1, <2>2 DEF ModesAgree
<1>4. CASE ExecutorRefuses
  <2>1. policy'.mode = policy.mode /\ policy'.planTools = policy.planTools
    BY <1>4 DEF ExecutorRefuses
  <2>2. /\ stage # "between"
        /\ UNCHANGED <<userMode, planMode, previousMode, chosenMode, changedInPlan>>
    BY <1>4 DEF ExecutorRefuses, choiceVars
  <2>3. QED
    BY <2>1, <2>2 DEF ModesAgree
<1>5. CASE ToolChecks
  <2>1. policy'.mode = policy.mode /\ policy'.planTools = policy.planTools
    <3>1. policy' = policy \/ Spends(ToolSubject(current.call))
      BY <1>5 DEF ToolChecks
    <3>2. QED
      BY <3>1, GrantIsSpent
  <2>2. /\ stage # "between"
        /\ UNCHANGED <<userMode, planMode, previousMode, chosenMode, changedInPlan>>
    BY <1>5 DEF ToolChecks, choiceVars
  <2>3. QED
    BY <2>1, <2>2 DEF ModesAgree
<1>6. ASSUME NEW hook \in {"none", "ask", "deny"}, ProjectCheck(hook)
      PROVE  ModesAgree'
  <2>1. policy'.mode = policy.mode /\ policy'.planTools = policy.planTools
    <3>1. policy' = policy \/ Spends(AskedSubject(ProjectCall))
      BY <1>6 DEF ProjectCheck
    <3>2. QED
      BY <3>1, GrantIsSpent
  <2>2. /\ stage # "between"
        /\ UNCHANGED <<userMode, planMode, previousMode, chosenMode, changedInPlan>>
    BY <1>6 DEF ProjectCheck, choiceVars
  <2>3. QED
    BY <2>1, <2>2 DEF ModesAgree
<1>7. ASSUME NEW rebuild \in BOOLEAN, PrepareTurn(rebuild)
      PROVE  ModesAgree'
  <2>1. /\ UNCHANGED <<userMode, planMode, previousMode, chosenMode, changedInPlan>>
        /\ (NeedsRebuild => rebuild)
        /\ policy' = IF rebuild THEN NewPolicy(userMode, planMode) ELSE policy
    BY <1>7 DEF PrepareTurn, choiceVars
  <2>2. policy'.mode = userMode /\ policy'.planTools = planMode
    BY <2>1 DEF NeedsRebuild, NewPolicy
  <2>3. QED
    BY <2>1, <2>2 DEF ModesAgree
<1>8. CASE TurnIsOver
  BY <1>8 DEF TurnIsOver, choiceVars, ModesAgree
<1>9. CASE PlanOn
  BY <1>9 DEF PlanOn, Commands, ModesAgree, ModesOK, Modes, ReadOnly, WorkspaceWrite,
    DangerFullAccess, NoMode
<1>10. CASE PlanOff
  BY <1>10 DEF PlanOff, Remembered, Commands, ModesAgree, ModesOK, Modes, ReadOnly, WorkspaceWrite,
    DangerFullAccess, NoMode
<1>11. ASSUME NEW mode \in Modes, SetMode(mode)
      PROVE  ModesAgree'
  BY <1>11 DEF SetMode, Commands, ModesAgree, ModesOK, Modes, ReadOnly, WorkspaceWrite,
    DangerFullAccess, NoMode
<1>12. ASSUME NEW mode \in Modes, PermissionsCommand(mode)
      PROVE  ModesAgree'
  BY <1>12 DEF PermissionsCommand, Commands, ModesAgree, ModesOK, Modes, ReadOnly, WorkspaceWrite,
    DangerFullAccess, NoMode
<1>13. CASE UNCHANGED permVars
  BY <1>13 DEF permVars, choiceVars, ModesAgree
<1>14. QED
  BY <1>1, <1>2, <1>3, <1>4, <1>5, <1>6, <1>7, <1>8, <1>9, <1>10, <1>11, <1>12, <1>13 DEF PermNext, PermRests

\* Of a call whose arguments read otherwise once parsed, no grant is ever found.
LEMMA OnlyAskedIsGranted ==
  ASSUME PolicyOK, NEW c \in ToolCalls, Granted(ToolSubject(c))
  PROVE  c.plain
<1>1. PICK i \in DOMAIN policy.grants : policy.grants[i] = ToolSubject(c)
  BY DEF Granted
<1>2. policy.grants \in Seq(Asked)
  BY DEF PolicyOK
<1>3. ToolSubject(c) \in Asked
  BY <1>1, <1>2, ElementOfSeq, LenProperties
<1>4. PICK d \in ToolCalls : ToolSubject(c) = AskedSubject(d)
  BY <1>3 DEF Asked
<1>5. CASE ~c.plain
  <2>1. <<c, "as parsed">> = <<d, "as sent">>
    BY <1>4, <1>5 DEF ToolSubject, AskedSubject
  <2>2. QED
    BY <2>1
<1>6. QED
  BY <1>5

\* Fewer grants for the same answers are paid.
LEMMA StillPaid ==
  ASSUME PolicyOK, StagesOK, GrantsArePaid, unspent' = unspent,
         policy'.grants \in Seq(Asked),
         \A x : Count(policy'.grants, x) <= Count(policy.grants, x)
  PROVE  GrantsArePaid'
<1>1. policy.grants \in Seq(Asked) /\ unspent \in [ToolCalls -> Int]
  BY DEF PolicyOK, StagesOK
<1>2. \A x : Count(policy'.grants, x) \in Nat /\ Count(policy.grants, x) \in Nat
  BY <1>1, CountIsANumber
<1>3. ASSUME NEW c \in ToolCalls
      PROVE  /\ unspent'[c] >= 0
             /\ c.enforced /\ c.plain => Count(policy'.grants, AskedSubject(c)) <= unspent'[c]
  BY <1>1, <1>2 DEF GrantsArePaid
<1>4. QED
  BY <1>3 DEF GrantsArePaid, AskedSubject, Count, Places

\* An answer pays for the grant it leaves.
LEMMA PaidByTheAnswer ==
  ASSUME PolicyOK, PolicyOK', StagesOK, GrantsArePaid, NEW a \in ToolCalls,
         \A c \in ToolCalls : unspent'[c] = unspent[c] + (IF c = a THEN 1 ELSE 0),
         \A x : Count(policy'.grants, x) <=
                  Count(policy.grants, x) + (IF x = AskedSubject(a) THEN 1 ELSE 0)
  PROVE  GrantsArePaid'
<1>1. policy.grants \in Seq(Asked) /\ policy'.grants \in Seq(Asked)
      /\ unspent \in [ToolCalls -> Int]
  BY DEF PolicyOK, StagesOK
<1>2. \A x : Count(policy'.grants, x) \in Nat /\ Count(policy.grants, x) \in Nat
  BY <1>1, CountIsANumber
<1>3. ASSUME NEW c \in ToolCalls
      PROVE  /\ unspent'[c] >= 0
             /\ c.enforced /\ c.plain => Count(policy'.grants, AskedSubject(c)) <= unspent'[c]
  <2>1. unspent'[c] = unspent[c] + (IF c = a THEN 1 ELSE 0) /\ unspent[c] \in Int
    BY <1>1
  <2>2. Count(policy'.grants, AskedSubject(c)) <=
          Count(policy.grants, AskedSubject(c)) + (IF c = a THEN 1 ELSE 0)
    BY DEF AskedSubject
  <2>3. QED
    BY <1>2, <2>1, <2>2 DEF GrantsArePaid
<1>4. QED
  BY <1>3 DEF GrantsArePaid, AskedSubject, Count, Places

\* Every grant stays paid for, and no run is without an answer.
LEMMA NextGrantsArePaid ==
  ASSUME PolicyOK, StagesOK, ModesOK, GrantsArePaid, AllowedIsBacked, [PermNext]_permVars
  PROVE  GrantsArePaid'
<1>1. ASSUME NEW c \in ToolCalls, NEW hook \in {"none", "ask", "deny"}, CallTool(c, hook)
      PROVE  GrantsArePaid'
  <2>1. UNCHANGED <<policy, unspent>>
    BY <1>1 DEF CallTool, Commands
  <2>2. QED
    BY <2>1 DEF GrantsArePaid, Count, Places, AskedSubject
<1>2. ASSUME NEW answer \in {"once", "session", "deny"}, UserAnswers(answer)
      PROVE  GrantsArePaid'
  <2>1. CASE answer = "deny"
    <3>1. UNCHANGED <<policy, unspent>>
      BY <1>2, <2>1 DEF UserAnswers
    <3>2. QED
      BY <3>1 DEF GrantsArePaid, Count, Places, AskedSubject
  <2>2. CASE answer # "deny"
    <3> DEFINE a == current.call
    <3>1. a \in ToolCalls /\ unspent \in [ToolCalls -> Int] /\ AskedSubject(a) \in Asked
      BY AskedIsAsked DEF StagesOK
    <3>2. /\ unspent' = [unspent EXCEPT ![a] = unspent[a] + 1]
          /\ policy' = [policy EXCEPT !.grants = WithGrant(@, AskedSubject(a))]
      BY <1>2, <2>2 DEF UserAnswers
    <3> HIDE DEF a
    <3>3. \A x : Count(policy'.grants, x) <=
                  Count(policy.grants, x) + (IF x = AskedSubject(a) THEN 1 ELSE 0)
      BY <3>1, <3>2, GrantIsGiven
    <3>4. \A c \in ToolCalls : unspent'[c] = unspent[c] + (IF c = a THEN 1 ELSE 0)
      BY <3>1, <3>2
    <3>5. PolicyOK'
      BY <3>1, <3>2, GrantIsGiven
    <3>6. QED
      BY <3>1, <3>3, <3>4, <3>5, PaidByTheAnswer
  <2>3. QED
    BY <2>1, <2>2
<1>3. CASE InterruptedFirst
  <2>1. UNCHANGED <<policy, unspent>>
    BY <1>3 DEF InterruptedFirst, Commands
  <2>2. QED
    BY <2>1 DEF GrantsArePaid, Count, Places, AskedSubject
<1>4. CASE ExecutorRefuses
  <2>1. UNCHANGED <<policy, unspent>>
    BY <1>4 DEF ExecutorRefuses, Commands
  <2>2. QED
    BY <2>1 DEF GrantsArePaid, Count, Places, AskedSubject
<1>5. CASE ToolChecks
  <2> DEFINE a == current.call
  <2>1. a \in ToolCalls /\ unspent \in [ToolCalls -> Int]
    BY DEF StagesOK
  <2>2. CASE /\ a.enforced /\ Verdict(a, "none") = "ask" /\ Granted(ToolSubject(a))
    <3>1. Spends(ToolSubject(a)) /\ unspent' = [unspent EXCEPT ![a] = unspent[a] - 1]
      BY <1>5, <2>2 DEF ToolChecks
    <3>2. a.plain /\ ToolSubject(a) = AskedSubject(a)
      BY <2>1, <2>2, OnlyAskedIsGranted DEF ToolSubject
    <3> HIDE DEF a
    <3>3. \A x : Count(policy'.grants, x) <=
                  Count(policy.grants, x) - (IF x = AskedSubject(a) THEN 1 ELSE 0)
      BY <3>1, <3>2, GrantIsSpent
    <3>4. \A c \in ToolCalls : unspent'[c] = unspent[c] - (IF c = a THEN 1 ELSE 0)
      BY <2>1, <3>1
    <3>5. policy.grants \in Seq(Asked) /\ policy'.grants \in Seq(Asked)
      BY <3>1, GrantIsSpent DEF PolicyOK
    <3>6. \A x : Count(policy'.grants, x) \in Nat /\ Count(policy.grants, x) \in Nat
      BY <3>5, CountIsANumber
    <3> SUFFICES ASSUME NEW c \in ToolCalls
                 PROVE  /\ unspent'[c] >= 0
                        /\ c.enforced /\ c.plain =>
                             Count(policy'.grants, AskedSubject(c)) <= unspent'[c]
      BY DEF GrantsArePaid, AskedSubject, Count, Places
    <3>7. CASE c = a
      <4>1. Count(policy.grants, AskedSubject(a)) <= unspent[a]
        BY <2>1, <2>2, <3>2 DEF GrantsArePaid, a
      <4>2. Count(policy'.grants, AskedSubject(a)) <= Count(policy.grants, AskedSubject(a)) - 1
        BY <3>3
      <4>3. QED
        BY <2>1, <3>4, <3>6, <3>7, <4>1, <4>2
    <3>8. CASE c # a
      <4>1. AskedSubject(c) # AskedSubject(a)
        BY <3>8 DEF AskedSubject
      <4>2. Count(policy'.grants, AskedSubject(c)) <= Count(policy.grants, AskedSubject(c)) - 0
        BY <3>3, <4>1
      <4>3. unspent'[c] = unspent[c] - 0
        BY <3>4, <3>8
      <4>4. QED
        BY <2>1, <3>6, <4>2, <4>3 DEF GrantsArePaid
    <3>9. QED
      BY <3>7, <3>8
  <2>3. CASE a.enforced /\ ~(Verdict(a, "none") = "ask" /\ Granted(ToolSubject(a)))
    <3>1. UNCHANGED <<policy, unspent>>
      BY <1>5, <2>3 DEF ToolChecks
    <3>2. QED
      BY <3>1 DEF GrantsArePaid, Count, Places, AskedSubject
  <2>4. CASE ~a.enforced
    <3>1. /\ policy' = policy
          /\ unspent' = IF Verdict(a, "none") = "ask" THEN [unspent EXCEPT ![a] = unspent[a] - 1]
                        ELSE unspent
      BY <1>5, <2>4 DEF ToolChecks
    <3>2. Verdict(a, "none") = "ask" => unspent[a] >= 1
      <4>1. ~current.byRuntime
        BY <2>4, ToolCallsAssumption DEF StagesOK
      <4>2. QED
        BY <1>5, <4>1 DEF ToolChecks, AllowedIsBacked, LastGrantIs
    <3> HIDE DEF a
    <3>3. /\ unspent'[a] = IF Verdict(a, "none") = "ask" THEN unspent[a] - 1 ELSE unspent[a]
          /\ \A c \in ToolCalls : c # a => unspent'[c] = unspent[c]
      BY <2>1, <3>1
    <3>4. unspent'[a] >= 0
      BY <2>1, <3>2, <3>3 DEF GrantsArePaid
    <3>5. QED
      BY <2>4, <3>1, <3>3, <3>4 DEF GrantsArePaid, Count, Places, AskedSubject
  <2>5. QED
    BY <2>2, <2>3, <2>4
<1>6. ASSUME NEW hook \in {"none", "ask", "deny"}, ProjectCheck(hook)
      PROVE  GrantsArePaid'
  <2>1. policy' = policy \/ Spends(AskedSubject(ProjectCall))
    BY <1>6 DEF ProjectCheck
  <2>2. unspent' = unspent
    BY <1>6 DEF ProjectCheck
  <2>3. policy.grants \in Seq(Asked)
    BY DEF PolicyOK
  <2>4. /\ policy'.grants \in Seq(Asked)
        /\ \A x : Count(policy'.grants, x) <= Count(policy.grants, x)
    <3>1. CASE policy' = policy
      BY <2>3, <3>1, CountIsANumber
    <3>2. CASE Spends(AskedSubject(ProjectCall))
      <4>1. /\ policy'.grants \in Seq(Asked)
            /\ \A x : Count(policy'.grants, x) <=
                  Count(policy.grants, x) - (IF x = AskedSubject(ProjectCall) THEN 1 ELSE 0)
        BY <3>2, GrantIsSpent DEF PolicyOK
      <4>2. \A x : Count(policy'.grants, x) \in Nat /\ Count(policy.grants, x) \in Nat
        BY <2>3, <4>1, CountIsANumber
      <4>3. QED
        BY <4>1, <4>2
    <3>3. QED
      BY <2>1, <3>1, <3>2
  <2>5. QED
    BY <2>2, <2>4, StillPaid
<1>7. ASSUME NEW rebuild \in BOOLEAN, PrepareTurn(rebuild)
      PROVE  GrantsArePaid'
  <2>1. policy' = policy \/ policy' = NewPolicy(userMode, planMode)
    BY <1>7 DEF PrepareTurn
  <2>2. unspent' = unspent
    BY <1>7 DEF PrepareTurn, Commands
  <2>3. policy.grants \in Seq(Asked) /\ userMode \in Modes /\ planMode \in BOOLEAN
    BY DEF PolicyOK, ModesOK
  <2>4. /\ policy'.grants \in Seq(Asked)
        /\ \A x : Count(policy'.grants, x) <= Count(policy.grants, x)
    <3>1. CASE policy' = policy
      BY <2>3, <3>1, CountIsANumber
    <3>2. CASE policy' = NewPolicy(userMode, planMode)
      <4>1. /\ policy'.grants \in Seq(Asked)
            /\ \A x : Count(policy'.grants, x) = 0
        BY <2>3, <3>2, PolicyIsNew DEF PolicyOK
      <4>2. \A x : Count(policy.grants, x) \in Nat
        BY <2>3, CountIsANumber
      <4>3. QED
        BY <4>1, <4>2
    <3>3. QED
      BY <2>1, <3>1, <3>2
  <2>5. QED
    BY <2>2, <2>4, StillPaid
<1>8. CASE TurnIsOver
  <2>1. UNCHANGED <<policy, unspent>>
    BY <1>8 DEF TurnIsOver, Commands
  <2>2. QED
    BY <2>1 DEF GrantsArePaid, Count, Places, AskedSubject
<1>9. CASE PlanOn
  <2>1. UNCHANGED <<policy, unspent>>
    BY <1>9 DEF PlanOn, Commands
  <2>2. QED
    BY <2>1 DEF GrantsArePaid, Count, Places, AskedSubject
<1>10. CASE PlanOff
  <2>1. UNCHANGED <<policy, unspent>>
    BY <1>10 DEF PlanOff, Commands
  <2>2. QED
    BY <2>1 DEF GrantsArePaid, Count, Places, AskedSubject
<1>11. ASSUME NEW mode \in Modes, SetMode(mode)
      PROVE  GrantsArePaid'
  <2>1. policy' = policy \/ policy' = NewPolicy(mode, FALSE)
    BY <1>11 DEF SetMode, RebuildPolicy
  <2>2. unspent' = unspent
    BY <1>11 DEF SetMode, Commands
  <2>3. policy.grants \in Seq(Asked) /\ mode \in Modes /\ FALSE \in BOOLEAN
    BY DEF PolicyOK, ModesOK
  <2>4. /\ policy'.grants \in Seq(Asked)
        /\ \A x : Count(policy'.grants, x) <= Count(policy.grants, x)
    <3>1. CASE policy' = policy
      BY <2>3, <3>1, CountIsANumber
    <3>2. CASE policy' = NewPolicy(mode, FALSE)
      <4>1. /\ policy'.grants \in Seq(Asked)
            /\ \A x : Count(policy'.grants, x) = 0
        BY <2>3, <3>2, PolicyIsNew DEF PolicyOK
      <4>2. \A x : Count(policy.grants, x) \in Nat
        BY <2>3, CountIsANumber
      <4>3. QED
        BY <4>1, <4>2
    <3>3. QED
      BY <2>1, <3>1, <3>2
  <2>5. QED
    BY <2>2, <2>4, StillPaid
<1>12. ASSUME NEW mode \in Modes, PermissionsCommand(mode)
      PROVE  GrantsArePaid'
  <2>1. policy' = policy \/ policy' = NewPolicy(mode, FALSE)
    BY <1>12 DEF PermissionsCommand, RebuildPolicy
  <2>2. unspent' = unspent
    BY <1>12 DEF PermissionsCommand, Commands
  <2>3. policy.grants \in Seq(Asked) /\ mode \in Modes /\ FALSE \in BOOLEAN
    BY DEF PolicyOK, ModesOK
  <2>4. /\ policy'.grants \in Seq(Asked)
        /\ \A x : Count(policy'.grants, x) <= Count(policy.grants, x)
    <3>1. CASE policy' = policy
      BY <2>3, <3>1, CountIsANumber
    <3>2. CASE policy' = NewPolicy(mode, FALSE)
      <4>1. /\ policy'.grants \in Seq(Asked)
            /\ \A x : Count(policy'.grants, x) = 0
        BY <2>3, <3>2, PolicyIsNew DEF PolicyOK
      <4>2. \A x : Count(policy.grants, x) \in Nat
        BY <2>3, CountIsANumber
      <4>3. QED
        BY <4>1, <4>2
    <3>3. QED
      BY <2>1, <3>1, <3>2
  <2>5. QED
    BY <2>2, <2>4, StillPaid
<1>13. CASE UNCHANGED permVars
  <2>1. UNCHANGED <<policy, unspent>>
    BY <1>13 DEF permVars
  <2>2. QED
    BY <2>1 DEF GrantsArePaid, Count, Places, AskedSubject
<1>14. QED
  BY <1>1, <1>2, <1>3, <1>4, <1>5, <1>6, <1>7, <1>8, <1>9, <1>10, <1>11, <1>12, <1>13 DEF PermNext, PermRests

\* The user is asked for a reason.
LEMMA NextAskedForAReason ==
  ASSUME PolicyOK, StagesOK, AskedForAReason, [PermNext]_permVars
  PROVE  AskedForAReason'
<1>1. ASSUME NEW c \in ToolCalls, NEW hook \in {"none", "ask", "deny"}, CallTool(c, hook)
      PROVE  AskedForAReason'
  <2>1. Verdict(c, hook) \in {"allow", "ask", "deny"}
    BY VerdictType
  <2>2. CASE Verdict(c, hook) = "ask"
    <3>1. /\ current' = [call |-> c, byRuntime |-> FALSE,
                         asker |-> IF hook = "ask" THEN "hook" ELSE "policy"]
          /\ UNCHANGED <<rules, approvedScopes, policy>>
      BY <1>1, <2>2 DEF CallTool, settings
    <3>2. \A d, h : Verdict(d, h)' = Verdict(d, h)
      BY <3>1, VerdictKept
    <3>3. /\ hook # "ask" => hook = "none"
          /\ Verdict(c, "none") # "deny" \/ policy.mode = ReadOnly
      BY <2>2, VerdictWithHook
    <3>4. /\ current'.call = c /\ ~current'.byRuntime
          /\ current'.asker = IF hook = "ask" THEN "hook" ELSE "policy"
      BY <3>1
    <3>5. Verdict(current.call, "none")' = Verdict(c, "none")
      BY <3>2, <3>4
    <3>6. QED
      BY <2>2, <3>1, <3>3, <3>4, <3>5 DEF AskedForAReason
  <2>3. CASE Verdict(c, hook) # "ask"
    <3>1. stage' # "asking"
      BY <1>1, <2>1, <2>3 DEF CallTool
    <3>2. QED
      BY <3>1 DEF AskedForAReason
  <2>4. QED
    BY <2>2, <2>3
<1>2. ASSUME NEW answer \in {"once", "session", "deny"}, UserAnswers(answer)
      PROVE  AskedForAReason'
  <2>1. stage' # "asking"
    BY <1>2 DEF UserAnswers
  <2>2. QED
    BY <2>1 DEF AskedForAReason
<1>3. CASE InterruptedFirst
  <2>1. stage' # "asking"
    BY <1>3 DEF InterruptedFirst
  <2>2. QED
    BY <2>1 DEF AskedForAReason
<1>4. CASE ExecutorRefuses
  <2>1. stage' # "asking"
    BY <1>4 DEF ExecutorRefuses
  <2>2. QED
    BY <2>1 DEF AskedForAReason
<1>5. CASE ToolChecks
  <2>1. stage' # "asking"
    BY <1>5 DEF ToolChecks
  <2>2. QED
    BY <2>1 DEF AskedForAReason
<1>6. ASSUME NEW hook \in {"none", "ask", "deny"}, ProjectCheck(hook)
      PROVE  AskedForAReason'
  <2>1. stage' # "asking"
    BY <1>6 DEF ProjectCheck
  <2>2. QED
    BY <2>1 DEF AskedForAReason
<1>7. ASSUME NEW rebuild \in BOOLEAN, PrepareTurn(rebuild)
      PROVE  AskedForAReason'
  <2>1. stage' # "asking"
    BY <1>7 DEF PrepareTurn
  <2>2. QED
    BY <2>1 DEF AskedForAReason
<1>8. CASE TurnIsOver
  <2>1. stage' # "asking"
    BY <1>8 DEF TurnIsOver
  <2>2. QED
    BY <2>1 DEF AskedForAReason
<1>9. CASE PlanOn
  <2>1. stage' # "asking"
    BY <1>9 DEF PlanOn, Commands
  <2>2. QED
    BY <2>1 DEF AskedForAReason
<1>10. CASE PlanOff
  <2>1. stage' # "asking"
    BY <1>10 DEF PlanOff, Commands
  <2>2. QED
    BY <2>1 DEF AskedForAReason
<1>11. ASSUME NEW mode \in Modes, SetMode(mode)
      PROVE  AskedForAReason'
  <2>1. stage' # "asking"
    BY <1>11 DEF SetMode, Commands
  <2>2. QED
    BY <2>1 DEF AskedForAReason
<1>12. ASSUME NEW mode \in Modes, PermissionsCommand(mode)
      PROVE  AskedForAReason'
  <2>1. stage' # "asking"
    BY <1>12 DEF PermissionsCommand, Commands
  <2>2. QED
    BY <2>1 DEF AskedForAReason
<1>13. CASE UNCHANGED permVars
  <2>1. UNCHANGED <<rules, approvedScopes, policy, stage, current>>
    BY <1>13 DEF permVars, settings
  <2>2. \A d, h : Verdict(d, h)' = Verdict(d, h)
    BY <2>1, VerdictKept
  <2>3. QED
    BY <2>1, <2>2 DEF AskedForAReason
<1>14. QED
  BY <1>1, <1>2, <1>3, <1>4, <1>5, <1>6, <1>7, <1>8, <1>9, <1>10, <1>11, <1>12, <1>13 DEF PermNext, PermRests

\* What was let through stays let through until its tool has checked it.
LEMMA NextAllowedIsBacked ==
  ASSUME PolicyOK, StagesOK, GrantsArePaid, AskedForAReason, AllowedIsBacked, [PermNext]_permVars
  PROVE  AllowedIsBacked'
<1>1. ASSUME NEW c \in ToolCalls, NEW hook \in {"none", "ask", "deny"}, CallTool(c, hook)
      PROVE  AllowedIsBacked'
  <2>1. Verdict(c, hook) \in {"allow", "ask", "deny"}
    BY VerdictType
  <2>2. CASE Verdict(c, hook) = "allow"
    <3>1. current'.call = c /\ UNCHANGED <<rules, approvedScopes, policy>>
      BY <1>1, <2>2 DEF CallTool, settings
    <3>2. \A d, h : Verdict(d, h)' = Verdict(d, h)
      BY <3>1, VerdictKept
    <3>3. hook = "none"
      BY <2>2, VerdictWithHook
    <3>4. Verdict(current.call, "none")' = "allow"
      BY <2>2, <3>1, <3>2, <3>3
    <3>5. QED
      BY <3>4 DEF AllowedIsBacked
  <2>3. CASE Verdict(c, hook) # "allow"
    <3>1. stage' # "allowed"
      BY <1>1, <2>1, <2>3 DEF CallTool
    <3>2. QED
      BY <3>1 DEF AllowedIsBacked
  <2>4. QED
    BY <2>2, <2>3
<1>2. ASSUME NEW answer \in {"once", "session", "deny"}, UserAnswers(answer)
      PROVE  AllowedIsBacked'
  <2>1. CASE answer = "deny"
    <3>1. stage' # "allowed"
      BY <1>2, <2>1 DEF UserAnswers
    <3>2. QED
      BY <3>1 DEF AllowedIsBacked
  <2>2. CASE answer # "deny"
    <3>0. PICK a \in ToolCalls : a = current.call
      BY DEF StagesOK
    <3>1. /\ a \in ToolCalls /\ unspent \in [ToolCalls -> Int] /\ AskedSubject(a) \in Asked
          /\ current.asker \in {"nobody", "hook", "policy"}
      BY <3>0, AskedIsAsked DEF StagesOK
    <3>2. /\ unspent' = [unspent EXCEPT ![a] = unspent[a] + 1]
          /\ policy' = [policy EXCEPT !.grants = WithGrant(@, AskedSubject(a))]
          /\ current' = current /\ rules' = rules /\ stage = "asking"
          /\ \/ approvedScopes' = approvedScopes
             \/ a.scope # "" /\ approvedScopes' = approvedScopes \cup {<<a.tool, a.scope>>}
      BY <1>2, <2>2, <3>0 DEF UserAnswers, settings
    <3>3. /\ policy'.mode = policy.mode
          /\ Len(policy'.grants) >= 1
          /\ policy'.grants[Len(policy'.grants)] = AskedSubject(a)
      BY <3>1, <3>2, GrantIsGiven
    <3>4. unspent'[a] >= 1
      <4>1. unspent[a] >= 0 /\ unspent[a] \in Int
        BY <3>1 DEF GrantsArePaid
      <4>2. unspent'[a] = unspent[a] + 1
        BY <3>1, <3>2
      <4>3. QED
        BY <4>1, <4>2
    <3>5. /\ Verdict(a, "none") = "ask" => Verdict(a, "none")' \in {"ask", "allow"}
          /\ Verdict(a, "none") = "allow" =>
               Verdict(a, "none")' = "allow" \/ policy.mode = ReadOnly
          /\ Verdict(a, "none")' \in {"allow", "ask", "deny"}
          /\ Verdict(a, "none") \in {"allow", "ask", "deny"}
      <4>1. Verdict(a, "none") \in {"allow", "ask", "deny"}
        BY <3>1, VerdictType
      <4>2. QED
        BY <3>1, <3>2, <3>3, <4>1, ApprovalOnlyHelps
    <3>6. /\ Verdict(current.call, "none")' = Verdict(a, "none")'
          /\ Verdict(current.call, "none") = Verdict(a, "none")
          /\ LastGrantIs(current.call)'
      <4>1. current'.call = a /\ current.call = a
        BY <3>0, <3>2
      <4>2. /\ Len(policy'.grants) >= 1 /\ policy'.grants[Len(policy'.grants)] = AskedSubject(a)
            /\ unspent'[a] >= 1
        BY <3>3, <3>4
      <4>3. LastGrantIs(current.call)'
        BY <4>1, <4>2 DEF LastGrantIs, AskedSubject
      <4>4. QED
        BY <4>1, <4>3
    <3>7. /\ current.asker = "policy" => Verdict(a, "none") = "ask"
          /\ current.asker = "hook" => Verdict(a, "none") # "deny" \/ policy.mode = ReadOnly
          /\ current.asker # "nobody"
      BY <3>0, <3>2 DEF AskedForAReason
    <3>8. \/ Verdict(a, "none")' = "allow"
          \/ Verdict(a, "none")' = "ask"
          \/ Verdict(a, "none")' = "deny" /\ current.asker = "hook" /\ policy.mode = ReadOnly
      BY <3>1, <3>5, <3>7
    <3>9. QED
      BY <3>2, <3>3, <3>6, <3>8 DEF AllowedIsBacked
  <2>3. QED
    BY <2>1, <2>2
<1>3. CASE InterruptedFirst
  <2>1. stage' # "allowed"
    BY <1>3 DEF InterruptedFirst
  <2>2. QED
    BY <2>1 DEF AllowedIsBacked
<1>4. CASE ExecutorRefuses
  <2>1. stage' # "allowed"
    BY <1>4 DEF ExecutorRefuses
  <2>2. QED
    BY <2>1 DEF AllowedIsBacked
<1>5. CASE ToolChecks
  <2>1. stage' # "allowed"
    BY <1>5 DEF ToolChecks
  <2>2. QED
    BY <2>1 DEF AllowedIsBacked
<1>6. ASSUME NEW hook \in {"none", "ask", "deny"}, ProjectCheck(hook)
      PROVE  AllowedIsBacked'
  <2>1. current'.byRuntime
    BY <1>6 DEF ProjectCheck
  <2>2. QED
    BY <2>1 DEF AllowedIsBacked
<1>7. ASSUME NEW rebuild \in BOOLEAN, PrepareTurn(rebuild)
      PROVE  AllowedIsBacked'
  <2>1. stage' # "allowed"
    BY <1>7 DEF PrepareTurn
  <2>2. QED
    BY <2>1 DEF AllowedIsBacked
<1>8. CASE TurnIsOver
  <2>1. stage' # "allowed"
    BY <1>8 DEF TurnIsOver
  <2>2. QED
    BY <2>1 DEF AllowedIsBacked
<1>9. CASE PlanOn
  <2>1. stage' # "allowed"
    BY <1>9 DEF PlanOn, Commands
  <2>2. QED
    BY <2>1 DEF AllowedIsBacked
<1>10. CASE PlanOff
  <2>1. stage' # "allowed"
    BY <1>10 DEF PlanOff, Commands
  <2>2. QED
    BY <2>1 DEF AllowedIsBacked
<1>11. ASSUME NEW mode \in Modes, SetMode(mode)
      PROVE  AllowedIsBacked'
  <2>1. stage' # "allowed"
    BY <1>11 DEF SetMode, Commands
  <2>2. QED
    BY <2>1 DEF AllowedIsBacked
<1>12. ASSUME NEW mode \in Modes, PermissionsCommand(mode)
      PROVE  AllowedIsBacked'
  <2>1. stage' # "allowed"
    BY <1>12 DEF PermissionsCommand, Commands
  <2>2. QED
    BY <2>1 DEF AllowedIsBacked
<1>13. CASE UNCHANGED permVars
  <2>1. UNCHANGED <<rules, approvedScopes, policy, stage, current, unspent>>
    BY <1>13 DEF permVars, settings
  <2>2. \A d, h : Verdict(d, h)' = Verdict(d, h)
    BY <2>1, VerdictKept
  <2>3. QED
    BY <2>1, <2>2 DEF AllowedIsBacked, LastGrantIs, AskedSubject
<1>14. QED
  BY <1>1, <1>2, <1>3, <1>4, <1>5, <1>6, <1>7, <1>8, <1>9, <1>10, <1>11, <1>12, <1>13 DEF PermNext, PermRests

\* A call is refused only for one of the three reasons.
LEMMA NextApprovedCallsRun ==
  ASSUME PolicyOK, StagesOK, AllowedIsBacked, ApprovedCallsRun, [PermNext]_permVars
  PROVE  ApprovedCallsRun'
<1>1. ASSUME NEW c \in ToolCalls, NEW hook \in {"none", "ask", "deny"}, CallTool(c, hook)
      PROVE  ApprovedCallsRun'
  <2>1. Verdict(c, hook) \in {"allow", "ask", "deny"}
    BY VerdictType
  <2>2. stage' # "refused"
    BY <1>1, <2>1 DEF CallTool
  <2>3. QED
    BY <2>2 DEF ApprovedCallsRun
<1>2. ASSUME NEW answer \in {"once", "session", "deny"}, UserAnswers(answer)
      PROVE  ApprovedCallsRun'
  <2>1. stage' # "refused"
    BY <1>2 DEF UserAnswers
  <2>2. QED
    BY <2>1 DEF ApprovedCallsRun
<1>3. CASE InterruptedFirst
  <2>1. stage' # "refused"
    BY <1>3 DEF InterruptedFirst
  <2>2. QED
    BY <2>1 DEF ApprovedCallsRun
<1>4. CASE ExecutorRefuses
  <2>1. stage' # "refused"
    BY <1>4 DEF ExecutorRefuses
  <2>2. QED
    BY <2>1 DEF ApprovedCallsRun
<1>5. CASE ToolChecks
  <2> DEFINE a == current.call
  <2>1. CASE /\ stage' = "refused" /\ ~current.byRuntime /\ a.plain
    <3>1. /\ a.enforced /\ Verdict(a, "none") # "allow" /\ stage = "allowed"
          /\ ~(Verdict(a, "none") = "ask" /\ Granted(ToolSubject(a)))
          /\ policy' = policy /\ current' = current
      BY <1>5, <2>1 DEF ToolChecks
    <3>2. LastGrantIs(a) => Granted(ToolSubject(a))
      <4>1. policy.grants \in Seq(Asked)
        BY DEF PolicyOK
      <4>2. Len(policy.grants) \in Nat /\ DOMAIN policy.grants = 1..Len(policy.grants)
        BY <4>1, LenProperties
      <4>3. QED
        BY <2>1, <4>2 DEF LastGrantIs, Granted, ToolSubject
    <3>3. current.asker = "hook" /\ policy.mode = ReadOnly
      BY <2>1, <3>1, <3>2 DEF AllowedIsBacked
    <3>4. QED
      BY <3>1, <3>3 DEF ApprovedCallsRun
  <2>2. CASE stage' = "refused" /\ (current.byRuntime \/ ~a.plain)
    <3>1. current' = current
      BY <1>5, <2>2 DEF ToolChecks
    <3>2. QED
      BY <2>2, <3>1 DEF ApprovedCallsRun
  <2>3. CASE stage' # "refused"
    BY <2>3 DEF ApprovedCallsRun
  <2>4. QED
    BY <2>1, <2>2, <2>3
<1>6. ASSUME NEW hook \in {"none", "ask", "deny"}, ProjectCheck(hook)
      PROVE  ApprovedCallsRun'
  <2>1. stage' # "refused"
    BY <1>6 DEF ProjectCheck
  <2>2. QED
    BY <2>1 DEF ApprovedCallsRun
<1>7. ASSUME NEW rebuild \in BOOLEAN, PrepareTurn(rebuild)
      PROVE  ApprovedCallsRun'
  <2>1. stage' # "refused"
    BY <1>7 DEF PrepareTurn
  <2>2. QED
    BY <2>1 DEF ApprovedCallsRun
<1>8. CASE TurnIsOver
  <2>1. stage' # "refused"
    BY <1>8 DEF TurnIsOver
  <2>2. QED
    BY <2>1 DEF ApprovedCallsRun
<1>9. CASE PlanOn
  <2>1. stage' # "refused"
    BY <1>9 DEF PlanOn, Commands
  <2>2. QED
    BY <2>1 DEF ApprovedCallsRun
<1>10. CASE PlanOff
  <2>1. stage' # "refused"
    BY <1>10 DEF PlanOff, Commands
  <2>2. QED
    BY <2>1 DEF ApprovedCallsRun
<1>11. ASSUME NEW mode \in Modes, SetMode(mode)
      PROVE  ApprovedCallsRun'
  <2>1. stage' # "refused"
    BY <1>11 DEF SetMode, Commands
  <2>2. QED
    BY <2>1 DEF ApprovedCallsRun
<1>12. ASSUME NEW mode \in Modes, PermissionsCommand(mode)
      PROVE  ApprovedCallsRun'
  <2>1. stage' # "refused"
    BY <1>12 DEF PermissionsCommand, Commands
  <2>2. QED
    BY <2>1 DEF ApprovedCallsRun
<1>13. CASE UNCHANGED permVars
  BY <1>13 DEF permVars, ApprovedCallsRun
<1>14. QED
  BY <1>1, <1>2, <1>3, <1>4, <1>5, <1>6, <1>7, <1>8, <1>9, <1>10, <1>11, <1>12, <1>13 DEF PermNext, PermRests


-----------------------------------------------------------------------------
(* The permissions' theorems *)

\* The first state has the invariant.
LEMMA InitPermInv == PermInit => PermInv
<1> SUFFICES ASSUME PermInit PROVE PermInv
  OBVIOUS
<1>1. rules \subseteq {"deny", "ask", "allow"}
  <2>1. rules \in SUBSET {"ask", "allow"} \/ rules = {"deny"}
    BY DEF PermInit
  <2>2. QED
    BY <2>1
<1>2. /\ userMode \in Modes /\ planMode = FALSE /\ previousMode = NoMode
      /\ fullAccess = (userMode = DangerFullAccess)
      /\ policy = NewPolicy(userMode, FALSE) /\ approvedScopes = {}
      /\ stage = "between" /\ current = NoCurrent
      /\ chosenMode = userMode /\ changedInPlan = FALSE
      /\ unspent = [c \in ToolCalls |-> 0] /\ permSteps = 0
  BY DEF PermInit
<1>3. <<>> \in Seq(Asked) /\ Len(<<>>) = 0
  BY EmptySeq
<1>4. policy.grants = <<>> /\ policy.mode = userMode
  BY <1>2 DEF NewPolicy
<1>5. PolicyOK
  BY <1>2, <1>3, <1>4, PermBoundsAssumption DEF NewPolicy, PolicyOK
<1>6. StagesOK
  BY <1>1, <1>2, NoCurrentType, PermBoundsAssumption DEF StagesOK
<1>7. ModesOK /\ ModesAgree
  BY <1>2 DEF ModesOK, ModesAgree
<1>8. GrantsArePaid
  <2>1. \A x : Count(policy.grants, x) = 0
    <3>1. \A x : Places(<<>>, x) = {}
      BY <1>3 DEF Places
    <3>2. QED
      BY <1>4, <3>1, FS_EmptySet DEF Count
  <2>2. \A c \in ToolCalls : unspent[c] = 0
    BY <1>2
  <2>3. QED
    BY <2>1, <2>2 DEF GrantsArePaid
<1>9. AskedForAReason /\ AllowedIsBacked /\ ApprovedCallsRun
  BY <1>2 DEF AskedForAReason, AllowedIsBacked, ApprovedCallsRun
<1>10. QED
  BY <1>5, <1>6, <1>7, <1>8, <1>9 DEF PermInv

\* However calls, answers, checks and commands follow each other (conversation.rs,
\* permissions.rs, permission_enforcer.rs): the permissions' invariant.
THEOREM PermInvariance == PermSpec => []PermInv
<1>1. PermInv /\ [PermNext]_permVars => PermInv'
  BY NextPolicyOK, NextStagesOK, NextModesOK, NextModesAgree, NextGrantsArePaid,
     NextAskedForAReason, NextAllowedIsBacked, NextApprovedCallsRun DEF PermInv
<1>2. QED
  BY InitPermInv, <1>1, PTL DEF PermSpec

\* PermissionPolicy's two checks of a call agree: what the loop and the user let through,
\* the tool's own check refuses only for a reason the property names.
THEOREM ApprovedCallsAreRun == PermSpec => []ApprovedCallsRun
<1>1. PermInv => ApprovedCallsRun
  BY DEF PermInv
<1>2. QED
  BY PermInvariance, <1>1, PTL

\* PendingGrants: however grants are recorded, dropped at the limit, left over and used
\* up, a call that must be asked about runs at most once for each answer that allowed it.
THEOREM RunsAreAllowed == PermSpec => []RunsWereAllowed
<1>1. PermInv => RunsWereAllowed
  BY DEF PermInv, GrantsArePaid, RunsWereAllowed
<1>2. QED
  BY PermInvariance, <1>1, PTL

\* LiveCli's mode and plan mode, and prepare_turn_runtime: a turn runs in the mode chosen
\* last, read-only in plan mode.
THEOREM TurnsRunAsChosen == PermSpec => []TurnsRunInTheChosenMode
<1>1. PermInv => TurnsRunInTheChosenMode
  <2> SUFFICES ASSUME PermInv, stage # "between"
               PROVE  /\ policy.mode = userMode /\ policy.planTools = planMode
                      /\ ~changedInPlan => userMode = (IF planMode THEN ReadOnly ELSE chosenMode)
    BY DEF TurnsRunInTheChosenMode
  <2>1. policy.mode = userMode /\ policy.planTools = planMode
    BY DEF PermInv, ModesAgree
  <2>2. CASE planMode
    BY <2>1, <2>2 DEF PermInv, ModesAgree
  <2>3. CASE ~planMode
    BY <2>1, <2>3 DEF PermInv, ModesAgree
  <2>4. QED
    BY <2>2, <2>3
<1>2. QED
  BY PermInvariance, <1>1, PTL

\* Every variable of the permissions keeps its kind: the grants never exceed
\* MAX_PENDING_GRANTS, and only what a call reaches is approved for the session.
THEOREM PermTypes == PermSpec => []PermTypeOK
<1>1. PermInv => PermTypeOK
  <2> SUFFICES ASSUME PermInv PROVE PermTypeOK
    OBVIOUS
  <2>1. PolicyOK /\ StagesOK /\ ModesOK
    BY DEF PermInv
  <2>2. policy.grants \in Seq(Subjects) /\ Len(policy.grants) <= MaxGrants
    <3>1. policy.grants \in Seq(Asked) /\ Asked \subseteq Subjects
      BY <2>1 DEF PolicyOK, Asked, Subjects
    <3>2. QED
      BY <2>1, <3>1, SeqMonotonic DEF PolicyOK
  <2>3. policy.mode \in Modes /\ policy.planTools \in BOOLEAN
    BY <2>1 DEF PolicyOK
  <2>4. current.call \in ToolCalls
    BY <2>1 DEF StagesOK
  <2>5. QED
    BY <2>1, <2>2, <2>3, <2>4 DEF StagesOK, ModesOK, PermTypeOK
<1>2. QED
  BY PermInvariance, <1>1, PTL

-----------------------------------------------------------------------------
(* The run of the loop and the permissions *)

\* The run of the loop and the permissions: whichever of the two runs, every variable of
\* both keeps its kind.
THEOREM TurnsTypes == TurnOrPermSpec => []TurnTypesOK
<1>1. TurnOrPermInit => Init /\ PermInit
  BY DEF TurnOrPermInit
<1>2. [TurnOrPermNext]_turnAndPermVars => [Next]_vars
  BY DEF TurnOrPermNext, turnAndPermVars, OnlyLoop, OnlyPermissions, Next, Turn, Stream
<1>3. [TurnOrPermNext]_turnAndPermVars => [PermNext]_permVars
  BY DEF TurnOrPermNext, turnAndPermVars, OnlyLoop, OnlyPermissions, PermNext
<1>4. TurnOrPermSpec => Spec /\ PermSpec
  BY <1>1, <1>2, <1>3, PTL DEF TurnOrPermSpec, Spec, PermSpec
<1>5. TypeOK /\ PermTypeOK => TurnTypesOK
  BY DEF TurnTypesOK
<1>6. QED
  BY <1>4, <1>5, LoopTypes, PermTypes, PTL
==========================================================================
