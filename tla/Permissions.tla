--------------------------- MODULE Permissions ---------------------------
(* Which tool calls run: PermissionPolicy (runtime/src/permissions.rs) as it is   *)
(* asked twice of every call, by the turn loop with the user at hand              *)
(* (execute_tool_use) and by the tool's own check without (PermissionEnforcer),    *)
(* the one-shot grants and session approvals that carry the user's answer from     *)
(* the first to the second, the checks of the project the runtime starts by        *)
(* itself, and the permission mode with plan mode, from the commands that change   *)
(* it to the policy a turn runs under. Rules, commands and paths are reduced to    *)
(* what they decide of a call; a call's reasons and remedies are left out.         *)
EXTENDS Integers, Sequences, FiniteSets

CONSTANTS
  ToolCalls,       \* the calls of the model, see ToolCall
  ProjectCall,     \* the bash call a project check makes
  MaxGrants,       \* MAX_PENDING_GRANTS
  MaxPermSteps     \* bound: calls, project checks and commands that change the mode

\* PermissionMode, in its order. Prompt and Allow cannot be chosen (normalize_permission_mode).
ReadOnly == 0
WorkspaceWrite == 1
DangerFullAccess == 2
Modes == ReadOnly..DangerFullAccess
NoMode == -1

\* What a call is to the policy: its tool; whether the tool checks it too (built-in tools
\* that enforce do, MCP and plugin tools do not); the tool's own mode and the mode its
\* input needs; what an answer for the session would approve ("" if nothing can be); and
\* whether its arguments read the same when the tool has parsed them.
ToolCall == [tool : STRING, enforced : BOOLEAN, static : Modes, needs : Modes,
             scope : STRING, plain : BOOLEAN]

ASSUME ToolCallsAssumption ==
  /\ ToolCalls \subseteq ToolCall /\ ProjectCall \in ToolCalls
  /\ ProjectCall.tool = "bash" /\ ProjectCall.enforced /\ ProjectCall.plain
ASSUME PermBoundsAssumption == MaxGrants \in Nat \ {0} /\ MaxPermSteps \in Nat

VARIABLES
  rules,        \* the kinds of permissions.* rules that match a bash call
  fullAccess,   \* full_access_allowed: the engine was started with full access
  approvedScopes, \* SessionApprovals, of the whole process
  userMode,     \* LiveCli::permission_mode
  planMode,     \* LiveCli::plan_mode
  previousMode, \* PlanModeMemory::previous_mode
  policy,       \* the runtime's PermissionPolicy (mode, grants) and whether it has plan mode's tools
  stage,        \* between turns, idle in a turn, or how far the current call is
  current,      \* the current call: itself, who asked for it and what made it ask
  chosenMode,   \* history: the mode the user chose last, outside of plan mode's own
  changedInPlan, \* history: /permissions changed the mode during plan mode
  unspent,      \* history: answers that allowed each call less the runs that needed one
  permSteps     \* how many calls, checks and commands there were

settings == <<rules, fullAccess>>
choiceVars == <<userMode, planMode, previousMode, chosenMode, changedInPlan>>
permVars == <<settings, approvedScopes, policy, stage, current, unspent, permSteps, choiceVars>>

NewPolicy(mode, planTools) == [mode |-> mode, grants |-> <<>>, planTools |-> planTools]
NoCurrent == [call |-> ProjectCall, byRuntime |-> FALSE, asker |-> "nobody"]

\* A deny rule decides, whatever else matches.
PermInit ==
  /\ rules \in (SUBSET {"ask", "allow"}) \cup {{"deny"}}
  /\ approvedScopes = {}
  /\ userMode \in Modes /\ planMode = FALSE /\ previousMode = NoMode
  /\ fullAccess = (userMode = DangerFullAccess)
  /\ policy = NewPolicy(userMode, FALSE)
  /\ stage = "between" /\ current = NoCurrent
  /\ chosenMode = userMode /\ changedInPlan = FALSE
  /\ unspent = [c \in ToolCalls |-> 0]
  /\ permSteps = 0

-----------------------------------------------------------------------------
(* The policy *)

Ruled(kind, c) == c.tool = "bash" /\ kind \in rules

\* assess: an approved fetch or search needs no more than its tool; an approved command
\* still needs full access, and is let through by its approval below.
SessionApproved(c) == c.scope # "" /\ <<c.tool, c.scope>> \in approvedScopes
Required(c) ==
  IF c.tool \in {"WebFetch", "WebSearch"} /\ SessionApproved(c) THEN c.static ELSE c.needs

\* authorize_with_floor, up to prompt_or_deny. A hook's allow changes nothing: what it
\* lets through, the rest lets through too.
Verdict(c, hook) ==
  IF Ruled("deny", c) \/ hook = "deny" THEN "deny"
  ELSE IF hook = "ask" \/ Ruled("ask", c) THEN "ask"
  ELSE IF Ruled("allow", c) \/ policy.mode >= Required(c) THEN "allow"
  ELSE IF SessionApproved(c) /\ policy.mode # ReadOnly THEN "allow"
  ELSE IF policy.mode = WorkspaceWrite /\ Required(c) = DangerFullAccess THEN "ask"
  ELSE "deny"

\* grant_subject as the loop sees the arguments, and as the tool does: text with no known
\* field is its own subject, and is not the same once it was parsed and written again.
AskedSubject(c) == <<c, "as sent">>
ToolSubject(c) == IF c.plain THEN AskedSubject(c) ELSE <<c, "as parsed">>

\* PendingGrants::record: beyond the limit the oldest grant goes.
WithGrant_KeepsOldest(grants, subject) ==
  LET all == Append(grants, subject)
  IN IF Len(all) > MaxGrants THEN SubSeq(all, 1, MaxGrants) ELSE all
WithGrant(grants, subject) ==
  LET all == Append(grants, subject)
  IN IF Len(all) > MaxGrants THEN Tail(all) ELSE all

\* PendingGrants::consume: the first of the call's grants is removed.
Granted(subject) == \E i \in DOMAIN policy.grants : policy.grants[i] = subject
Consumed_Kept(subject) == policy.grants
Consumed(subject) ==
  LET first == CHOOSE i \in DOMAIN policy.grants :
        policy.grants[i] = subject /\ \A j \in 1..(i - 1) : policy.grants[j] # subject
  IN SubSeq(policy.grants, 1, first - 1) \o SubSeq(policy.grants, first + 1, Len(policy.grants))

\* prompt_or_deny with nobody to ask: a grant is used up, or the call is denied.
Spends(subject) == Granted(subject) /\ policy' = [policy EXCEPT !.grants = Consumed(subject)]

-----------------------------------------------------------------------------
(* A call *)

\* The model calls a tool: its hook, then the loop's authorize_with_context.
CallTool(c, hook) ==
  /\ stage \in {"idle", "refused"} /\ permSteps < MaxPermSteps
  /\ permSteps' = permSteps + 1
  /\ stage' = (CASE Verdict(c, hook) = "allow" -> "allowed"
                 [] Verdict(c, hook) = "ask" -> "asking"
                 [] Verdict(c, hook) = "deny" -> "idle")
  /\ current' = IF Verdict(c, hook) = "deny" THEN NoCurrent
                ELSE [call |-> c, byRuntime |-> FALSE,
                      asker |-> IF Verdict(c, hook) = "allow" THEN "nobody"
                                ELSE IF hook = "ask" THEN "hook" ELSE "policy"]
  /\ UNCHANGED <<settings, approvedScopes, policy, unspent, choiceVars>>

\* The user's answer in prompt_or_deny. Both ways to allow leave a grant; one for the
\* session, and any for a fetch, also approves what the call reaches.
UserAnswers(answer) ==
  LET c == current.call IN
  /\ stage = "asking"
  /\ IF answer = "deny"
     THEN /\ stage' = "idle" /\ current' = NoCurrent
          /\ UNCHANGED <<policy, approvedScopes, unspent>>
     ELSE /\ stage' = "allowed"
          /\ policy' = [policy EXCEPT !.grants = WithGrant(@, AskedSubject(c))]
          /\ approvedScopes' = approvedScopes \cup
               IF c.scope # "" /\ (answer = "session" \/ c.tool = "WebFetch")
               THEN {<<c.tool, c.scope>>} ELSE {}
          /\ unspent' = [unspent EXCEPT ![c] = @ + 1]
          /\ UNCHANGED current
  /\ UNCHANGED <<settings, permSteps, choiceVars>>

\* The turn was interrupted while the call waited for its hook or the user: it does not run.
InterruptedFirst ==
  /\ stage = "allowed" /\ ~current.byRuntime
  /\ stage' = "idle" /\ current' = NoCurrent
  /\ UNCHANGED <<settings, approvedScopes, policy, unspent, permSteps, choiceVars>>

\* The executor refuses the call before the tool's own check: the tool is not offered
\* (plan mode's list has none that change anything) or its arguments do not parse.
ExecutorRefuses ==
  /\ stage = "allowed"
  /\ stage' = "idle" /\ current' = NoCurrent
  /\ UNCHANGED <<settings, approvedScopes, policy, unspent, permSteps, choiceVars>>

\* PermissionEnforcer::check and check_with_required_mode: the policy again, without the
\* hook and without the user. What a call needs by its own classification is what assess
\* found.
ToolChecks ==
  LET c == current.call
      verdict == Verdict(c, "none")
      passes == verdict = "allow" \/ (verdict = "ask" /\ Granted(ToolSubject(c)))
  IN
  /\ stage = "allowed" /\ ~policy.planTools
  /\ IF ~c.enforced THEN UNCHANGED policy
     ELSE IF verdict = "ask" /\ passes THEN Spends(ToolSubject(c))
     ELSE UNCHANGED policy
  /\ IF c.enforced /\ ~passes
     THEN stage' = "refused" /\ UNCHANGED <<current, unspent>>
     ELSE /\ stage' = "idle" /\ current' = NoCurrent
          /\ unspent' = IF verdict = "ask" THEN [unspent EXCEPT ![c] = @ - 1] ELSE unspent
  /\ UNCHANGED <<settings, approvedScopes, permSteps, choiceVars>>

\* run_project_check: the runtime's own bash call, when a hook and the policy let it run
\* without asking. The policy, asked without the user, uses up a grant it finds.
ProjectCheck(hook) ==
  LET verdict == Verdict(ProjectCall, hook) IN
  /\ stage \in {"idle", "refused"} /\ permSteps < MaxPermSteps
  /\ permSteps' = permSteps + 1
  /\ \/ verdict = "allow" /\ UNCHANGED policy
     \/ verdict = "ask" /\ Spends(AskedSubject(ProjectCall))
  /\ stage' = "allowed"
  /\ current' = [call |-> ProjectCall, byRuntime |-> TRUE, asker |-> "nobody"]
  /\ UNCHANGED <<settings, approvedScopes, unspent, choiceVars>>

-----------------------------------------------------------------------------
(* Turns and modes *)

\* prepare_turn_runtime: the runtime, and its policy with it, is built anew when the mode
\* or the tools changed, or something else did (the model, the MCP servers).
NeedsRebuild == policy.mode # userMode \/ policy.planTools # planMode
PrepareTurn(rebuild) ==
  /\ stage = "between" /\ (NeedsRebuild => rebuild)
  /\ stage' = "idle"
  /\ policy' = IF rebuild THEN NewPolicy(userMode, planMode) ELSE policy
  /\ UNCHANGED <<settings, approvedScopes, current, unspent, permSteps, choiceVars>>

TurnIsOver ==
  /\ stage \in {"idle", "refused"}
  /\ stage' = "between" /\ current' = NoCurrent
  /\ UNCHANGED <<settings, approvedScopes, policy, unspent, permSteps, choiceVars>>

Commands ==
  /\ stage = "between" /\ permSteps < MaxPermSteps
  /\ permSteps' = permSteps + 1
  /\ UNCHANGED <<settings, approvedScopes, stage, current, unspent>>

\* rebuild_runtime may fail, after the mode was changed; the next turn tries again.
RebuildPolicy(mode) == policy' \in {policy, NewPolicy(mode, FALSE)}

\* PlanModeMemory::exit.
Remembered == IF previousMode = NoMode THEN userMode ELSE previousMode

\* Plan mode on: set_permission_mode and /plan.
PlanOn ==
  /\ Commands /\ ~planMode
  /\ planMode' = TRUE /\ previousMode' = userMode /\ userMode' = ReadOnly
  /\ UNCHANGED <<policy, chosenMode, changedInPlan>>
PlanOff ==
  /\ Commands /\ planMode
  /\ planMode' = FALSE /\ previousMode' = NoMode /\ userMode' = Remembered
  /\ changedInPlan' = FALSE
  /\ UNCHANGED <<policy, chosenMode>>

SetMode_StaysInPlan(mode) ==
  /\ Commands /\ userMode # mode /\ (mode = DangerFullAccess => fullAccess)
  /\ userMode' = mode
  /\ RebuildPolicy(mode)
  /\ chosenMode' = mode /\ changedInPlan' = FALSE
  /\ UNCHANGED <<planMode, previousMode>>

\* A mode picked in the status bar leaves plan mode first.
SetMode(mode) ==
  LET before == IF planMode THEN Remembered ELSE userMode IN
  /\ Commands /\ (mode = DangerFullAccess => fullAccess)
  /\ planMode' = FALSE
  /\ previousMode' = IF planMode THEN NoMode ELSE previousMode
  /\ userMode' = mode
  /\ IF before = mode THEN UNCHANGED policy ELSE RebuildPolicy(mode)
  /\ chosenMode' = mode /\ changedInPlan' = FALSE

\* /permissions does not leave plan mode.
PermissionsCommand(mode) ==
  /\ Commands /\ userMode # mode
  /\ userMode' = mode
  /\ RebuildPolicy(mode)
  /\ chosenMode' = IF planMode THEN chosenMode ELSE mode
  /\ changedInPlan' = planMode
  /\ UNCHANGED <<planMode, previousMode>>

\* Every call is made: the session may be left alone.
PermRests == stage = "between" /\ UNCHANGED permVars

PermNext ==
  \/ \E c \in ToolCalls, hook \in {"none", "ask", "deny"} : CallTool(c, hook)
  \/ \E answer \in {"once", "session", "deny"} : UserAnswers(answer)
  \/ InterruptedFirst
  \/ ExecutorRefuses
  \/ ToolChecks
  \/ \E hook \in {"none", "ask", "deny"} : ProjectCheck(hook)
  \/ \E rebuild \in BOOLEAN : PrepareTurn(rebuild)
  \/ TurnIsOver
  \/ PlanOn
  \/ PlanOff
  \/ \E mode \in Modes : SetMode(mode)
  \/ \E mode \in Modes : PermissionsCommand(mode)
  \/ PermRests

PermSpec == PermInit /\ [][PermNext]_permVars

-----------------------------------------------------------------------------
(* Properties *)

Subjects == {AskedSubject(c) : c \in ToolCalls} \cup {ToolSubject(c) : c \in ToolCalls}
PermTypeOK ==
  /\ rules \subseteq {"deny", "ask", "allow"} /\ fullAccess \in BOOLEAN
  /\ approvedScopes \subseteq {<<c.tool, c.scope>> : c \in ToolCalls}
  /\ userMode \in Modes /\ planMode \in BOOLEAN /\ previousMode \in Modes \cup {NoMode}
  /\ policy.mode \in Modes /\ policy.planTools \in BOOLEAN
  /\ policy.grants \in Seq(Subjects) /\ Len(policy.grants) <= MaxGrants
  /\ stage \in {"between", "idle", "asking", "allowed", "refused"}
  /\ current.call \in ToolCalls
  /\ chosenMode \in Modes /\ changedInPlan \in BOOLEAN
  /\ unspent \in [ToolCalls -> Int] /\ permSteps \in 0..MaxPermSteps

\* An approved call is not denied a second time: whatever was granted and left over before
\* it, the tool's own check lets through what the loop and the user let through. It does
\* not for arguments that read otherwise once parsed, nor in read-only mode for a call
\* only a hook asked about; and a project check let through by a grant left over by
\* another call needs a second one.
ApprovedCallsRun ==
  stage = "refused" =>
    \/ current.byRuntime
    \/ ~current.call.plain
    \/ current.asker = "hook" /\ policy.mode = ReadOnly

\* What the policy asks about runs at most once for each time the user allowed it, although
\* a call that was allowed and then did not run leaves its grant to later ones.
RunsWereAllowed == \A c \in ToolCalls : unspent[c] >= 0

\* A turn runs in the mode the user chose last, read-only in plan mode, whichever commands,
\* failed rebuilds and plan modes came in between. /permissions during plan mode is the
\* exception: it neither leaves plan mode nor outlives it.
TurnsRunInTheChosenMode ==
  stage # "between" =>
    /\ policy.mode = userMode /\ policy.planTools = planMode
    /\ ~changedInPlan => userMode = (IF planMode THEN ReadOnly ELSE chosenMode)
==========================================================================
