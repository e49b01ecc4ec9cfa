# A TLA+ model of Neuron's engine

Neuron is a coding agent: a Rust command-line program whose engine runs prompts as turns of
model requests and tool calls, and user interfaces (a terminal UI, a desktop app) that talk to
the engine over channels or JSON lines. This directory holds TLA+ modules for the parts in which
threads, processes, failures and orders of events are hard to get right, the TLC runs that check
them, and TLAPS proofs. Files are named without their directory: those of
`rust/crates/rusty-claude-cli/src` (`engine.rs`, `executor.rs`, `session_mgmt.rs`, ...), of
`rust/crates/runtime/src` (`conversation.rs`, `session.rs`, `checkpoints.rs`, `mcp_stdio.rs`,
`permissions.rs`, ...), of `rust/crates/api/src` (`retry.rs`, the providers) and of
`ui/neuron-client/src` (`host.ts`, `session.ts`, `remote.ts`).

## Inventory

| Component | State it keeps | Operations | What is hard | Properties | Module |
|---|---|---|---|---|---|
| Engine threads (`engine.rs`, `repl_loop.rs`, the monitor in `main.rs`) | `Shared`: interrupts, running turn's token, pending answer, closing; the command queue | forward a command, interrupt, run a prompt, sign in, ask, answer, shut down | three kinds of threads, check-then-act across locks, panics | an interrupt, shutdown or answer reaches what it is for and nothing else; every prompt ends | `Engine`, `PromptLedger`, `EngineTurns` |
| Permission prompts (`executor.rs`) | next request number, the replies channel | ask, receive, give up | late replies, interrupts, a panic between turns | a call runs on its own approval only | `PermissionPrompts` |
| Permissions (`permissions.rs`, `permission_enforcer.rs`) | mode, plan mode, grants, session approvals | decide a call twice, record and spend a grant, change the mode | a decision carried from one check to another; settings changed in steps | an approved call runs, and only it; a turn runs in the chosen mode | `Permissions` |
| Turn loop (`conversation.rs`), with compaction (`compact.rs`, `context_manager.rs`) and transcript repair (`transcript.rs`) | transcript, turn progress, loop guard | request, call tools, continue, compact, end, save | many endings in the middle of calls, interrupts, failed writes | calls and results paired, turns closed, turns end, compaction keeps the end | `TurnLoop`, `EngineTurns` |
| Model API client (`api_client.rs`, `retry.rs`, providers) | retry progress, what was shown | send, stream, wait, resend, fall back | errors at every step, Retry-After, text already shown | bounded attempts and waits, one reply shown | `ModelCall` |
| MCP servers (`mcp_stdio.rs`) | child process per server | discover, list, call, reset, abandon | timeouts, late and repeated replies | a reply is for its call; a call is sent once | `McpServer`, `McpCalls` |
| Session store (`session.rs`) | messages, the file, its rotated copies | push, snapshot, rotate, load | crashes and failed writes between any two steps | nothing acknowledged is lost, nothing removed comes back | `SessionStore` |
| Session list and lock (`session_mgmt.rs`, `session_control.rs`) | files of a directory, OS locks | open, switch, clear, delete, discard | several processes | one writer per session | `SessionLock` |
| Checkpoints (`checkpoints.rs`) | saved files per prompt | begin, save, finish, rewind, discard | a rewind of several steps, each of which may fail | files and chat go back together or it is reported | `Checkpoints` |
| UI session and host (`host.ts`, `session.ts`, `remote.ts`) | the log of frames, a fold of it, sockets | record, replay, reduce, restart the engine | restarts and reconnections while events arrive | a client sees the log in order, once; the session is true of its engine | `EngineHost`, `SharedLog` |
| Accounts (`credentials.rs`, `auth.rs`, `engine_account.rs`) | keychain, credentials file, retired vault | log in and out, look up, store a profile, migrate | three places, threads and processes, failed deletions | a lookup finds the last login | `Accounts` |
| Worker boot, tools, plugins, lanes and tasks, rendering | | | mostly data, I/O or small sequential registries | | not modelled |

How they interact. The UI sends `EngineCommand`s to the *command thread* (`forward_commands`) and
`PermissionReply`s to a channel of their own. The command thread queues most commands for the
*engine thread* (`serve`), and reaches into a running turn through `Shared` for interrupts, answers
and the shutdown. The engine thread runs a prompt with `ConversationRuntime::run_turn` (the turn
loop), which calls the model through the API client, decides each tool call by the permission
policy, asks for approvals through `ChannelPermissionPrompter` and for answers through
`ask_the_ui`, both waiting on the engine thread itself, and calls MCP servers through their
manager; each prompt's turn also has an *interrupt monitor* thread. Each prompt opens a checkpoint.
The turn loop pushes every message into the session, which appends it to its file; a snapshot
replaces the file when the turn ends; a lock keeps other processes off it. A host in between records
the engine's events for its clients and restarts the engine.

## Modules

Definitions keep the source's names where there is one; `PROJECT.json` maps each to its lines. An
operator named `X_Variant` is `X` with one plausible mistake; it is used by nothing but the
experiments that show each property can fail. A module's abstract specification is a module of its
own: `PromptLedger`, `McpCalls` and `SharedLog` say what a user of the component may rely on.

### Engine and PromptLedger

`Engine.tla` has one action per locked region, atomic access or channel operation.

- `cmd` is the command thread's place in `forward_commands`; the channel from the UI is the choice
  of the next `Receive...` action. A `Submit` is taken as an answer (`take_answer`) and sent in two
  steps, as the code releases the lock in between; `Shutdown` is four steps.
- `presses`, `queuedPrompts`, `early` are `Interrupts`; `turn` is `Shared::turn` (the token's
  owner: a prompt, or the sign-in); `answer` and `reply` are a question's sender and what its
  channel holds. `Shared::interrupt` holds both locks and is one action.
- `pc` is the engine thread: `Take` (`serve`), `RefusePrompt` (signed out), `ForPrompt`, `Prepare`,
  `Watch` and `Recheck` (the two halves of `RunningTurn::watch`), the turn (`Completes`, `Stops`,
  `Panics`, `CallTool` and the question's actions), `JoinMonitor`, `DropRunning`, `Finish`.
- `monitor` and `permit` are the watcher of each prompt's turn and the one press tokio's `Notify`
  keeps; its `select!` is biased to the press.
- `fate`, `pressed` and `interrupted` are history.

`PromptLedger.tla` is what the UI may rely on: prompts start in the order they were sent, one at a
time, each ends once, and a text is taken as an answer only while a turn that could have asked
runs. `LedgerSpec` states that `Engine` implements it, with `fate` mapped to itself.
`InterruptReachesItsTurn` includes the turn's hooks, `InterruptReachesNoOther` that an early
interrupt is kept only while a prompt is queued.

### TurnLoop (MCTurnLoop, MCTurns)

`run_turn` and `run_turn_loop`, with `transcript.rs` as the operator `Normalize`. A message is its
role, the ids it calls or answers, and whether its text is blank. The provider's response, what a
hook, an approval or a tool says, a failed write, an interrupt and a crash are choices. A failed
write leaves the messages before it (`Push`). `Request` is what the provider would be sent; the
notes are only reworded by `request_messages`, which the roles do not show.

Whether the context is too large is a choice too: the loop may compact before a request (`LoopTop`)
and must recover after an overflow (`StreamOverflows`). `Compacted` takes the boundary the code
takes (`PairSafe`), keeps the summary and the latest messages, and its save may fail. `file` is
what a load would read; `Save` is the engine's save after the turn; `Crash` reloads
`Normalize(file)`, as `begin_checkpoint`'s load repairs it. `CompactionKeepsTheRest` says that
the next request is the summary and an end of the one before, with no result lost at the cut.

### EngineTurns (MCEngineTurns)

The composition of the two. In `Engine` a running turn ends, stops at its token or calls the question
tool whenever it likes; in `EngineTurns` the engine thread does what `TurnLoop` does
(`Loop == INSTANCE TurnLoop`), and `LoopStep` is tied to the engine's token: a step that polls the
token sees it as the command thread and the monitor left it, while a tool that asks is not stopped
by it. `ImplementsEngine` says that the pair keeps all of `Engine`, its fairness included. So the
assumption `Engine` makes, that a turn whose token is cancelled stops, is not assumed here but
follows from the loop. `NothingStartsOnceInterrupted` and `PromptsFinish` are about both modules: the
press, which another thread carries, and the requests and calls of the loop. The first speaks of a
call's start, not only of its being taken up: one whose hook or approval was waiting when the user
pressed does not run either (`conversation.rs:1183`), unless it is the question tool and its
question was asked before. A panic in a turn is
left to `Engine`. `MCEngineTurns` also runs the loop alone with longer turns.

### PermissionPrompts

The prompter over several turns: numbering (`numbered_after`, `last_id`), the drain of stale
replies at a turn's start, the wait with its poll of the token, and `execute_tool_use`'s last look
at the token. The user answers each request at most once, at any later time. A request is named by
its place in the history, its number is what the code compares, so that a number used twice shows.

### Permissions

A call is what the policy tells apart: its tool, its tool's mode and the mode its input needs, what
an answer for the session would approve, whether its tool checks it a second time, and whether its
arguments read the same once parsed. `CallTool` is `execute_tool_use` up to the decision
(`Verdict`); `UserAnswers` the prompt; `ToolChecks` the tool's own `PermissionEnforcer`, which has
no user and relies on the grant the first check recorded. `ProjectCheck` is the command the runtime
runs by itself. `PlanOn`, `PlanOff`, `SetMode`, `PermissionsCommand` change the user's mode, and
`PrepareTurn` builds the policy the next turn runs under.

### ModelCall

One call of the model from `stream_with_cancellation`: attempts, the errors of a connection
(`Refused`, with Retry-After and lack of capacity), the stream's events, its end in the right or the
wrong place, the wait before it is sent again, the request without deferred tools, the fallback to
a whole reply, interrupts. `progress` is `RetryProgress` for the stream and for the whole reply;
`shown` is the text the user saw, from which a discarded attempt must be marked.

### McpServer and McpCalls

The manager of one server: `PrepareServer` and `StartServer` (`ensure_ready`), the handshake, a
call, a listing with its pages, and after a failure `Reset`, `Abandon` or another try. The server
answers late, twice, or stops at any point. `McpCalls` is the promise: a call is written to a
server at most once and its result is an answer to that very call; `CallsSpec` states that
`McpServer` implements it.

### SessionStore

One action per file-system operation of `push_message`, `persist_snapshot`, the rotation and its
cleanup. A message is its number; `Torn` is a line that is no record. `AppendRecord` writes a record
without its newline, `AppendFails` may leave a part of it, `Crash` may tear it, and a file whose last
line has no newline gets one before the next append. `Newest` is what a restart continues.

### SessionLock

Runs (processes) over one session: open the lock file, lock it, load, take turns, switch away,
clear, delete, end, discard an unused session, continue after a placeholder. The lock is on the file
that was opened: `UnlinkLock` after `DropLock` lets a second run hold a lock on a file that is
no longer there while a third one locks the new file. `NoTurnIsLost` says that no run saves over
another's turn.

### Checkpoints

`begin_turn`, `before_file_change`, `before_shell_command`, `finish_turn` and `rewind`. A file is its
content; a checkpoint holds what each changed file was and, for a file a shell command changed, that it
did. A rewind is as many actions as it has steps that can fail or be the last before a crash: cut the
chat, protect the files as they are, restore each, remove the later checkpoints, report. The chat in
memory and that of the file are two (`chat`, `savedChat`), and so are their counts of compactions:
a prompt and an answer are appended to the file, and only a save (`Persists`: after a compaction, a
turn or a rewind) writes all messages with the count. Each save may fail, before or after the file
is replaced; a compaction of the turn's own (`prepare_context`, `recover_from_context_overflow`)
whose save failed ends its turn, with memory compacted. A restart has what the file has (`Reloads`).
`RestoresOrReportsTheRest` compares the files with what they were at the prompt and with the
report; `CutsAtItsPrompt` and `CheckpointsFitTheChat` compare chat and checkpoints.

### EngineHost and SharedLog

`session` is the reducer's state (phase, connection, busy, the permission card), `log` what a
client is sent when it connects, `engines` the processes with the events they have not delivered.
`HostRestart` closes an engine, stops listening to it and starts the next one (`HostReplaces`);
clients leave and connect again at any time. `SharedLog` is what a client may see: the log's frames,
in order, each once; `SharedLogSpec` states that `EngineHost` implements it.

### Accounts

`keychain`, `credFile` and `vault` hold a token and whose profile is stored with it. Each actor
(the engine thread's `/login` and `/logout`, the background readers of the account, a `neuron`
command in another terminal) has a job; looking up, saving and clearing are one action per
place, as in `CredentialStore`. Clearing a place has three outcomes: it is empty, it keeps its login
with a warning, or it keeps it and nobody is told, which `unremoved` records.
`LoginFoundIsTheLast` says that a lookup finds the last login, or none after a logout that cleared
every place, and that no login keeps another's profile.

### MCTurns, MCSessions and MCWaits

Components that share no state are checked in one run each: `MCTurns` (TurnLoop, Permissions),
`MCSessions` (SessionStore, Checkpoints, SessionLock, EngineHost, Accounts) and `MCWaits`
(PermissionPrompts, McpServer, ModelCall). The variable `part` is chosen at the start and says
which component runs; the others stay as they are. This is the union of their state spaces, not a
composition.

## Runs

| Run | Bounds | Distinct states | Shows |
|---|---|---|---|
| `Engine` | 2 prompts, 2 questions, 1 other command, 2 interrupts | 1.6 million | the safety properties and `LedgerSpec` |
| `EngineTurns` | 1 prompt, 1 question, 1 interrupt; a turn of at most 2 requests with no or one call and 1 failed write, or (the loop alone) of at most 4 requests with no or two calls | 106 thousand | `ImplementsEngine`; an interrupt reaches the loop; every turn ends; few automatic prompts |
| `EngineLive` | 2 prompts, 1 question, 1 other, 1 interrupt | 179 thousand | an interrupted turn finishes; a shutdown stops the engine |
| `EngineSecondInterrupt` | 2, 1, 1, 2 | violation | finding 1 |
| `EngineLostSubmit` | 2, 1, 1, 2 | violation | finding 2 |
| `Turns` | TurnLoop: 2 turns of at most 2 requests, threshold 2, 1 compaction, 1 failed write, 1 crash. Permissions: 4 steps, 2 grants kept | 1.6 million | well-formed requests, every call answered, stopped turns closed, repeated calls stop, compaction keeps the end; approved calls run and only they, in the chosen mode |
| `TurnLoopStopped` | 2 turns of at most 4 requests | violation | finding 4 |
| `TurnLoopBlank` | 2 turns of at most 2 requests | violation | finding 5 |
| `Sessions` | Store: 4 messages, files of 2 lines, 1 rotated file, 1 edit, 2 failed writes, 2 crashes. Checkpoints: 2 files, 2 kept, 2 turns, 2 changes, 2 edits of the user, 2 faults. Lock: 3 runs, 2 turns. Host: 2 disruptions, 1 submit, 1 request, 1 answer. Accounts: 1 login, 1 reader, 1 mishap | 880 thousand | the properties of the five parts, and `SharedLogSpec` |
| `CheckpointsHidden` | 1 file, 3 changes in 1 turn | violation | finding 6 |
| `Waits` | Prompts: 3 turns, 3 requests, 1 panic. Server: 2 calls, 1 listing of 2 pages, 1 fault. Model: 2 calls, 2 retries, budgets 2 and 4 | 516 thousand | own approval until a panic, a server kept in step, bounded retries, one reply shown, `CallsSpec`; every wait ends |
| `PermissionPromptsAfterPanic` | 2, 2, 1 | violation | finding 3 |

Why these bounds are enough for the cases that matter. Two prompts give an interrupt, a question or
an answer a wrong turn to reach; two interrupts are the first and the second press; two questions
make an answer stale. In `EngineTurns` one prompt suffices, as what two prompts do to each other is
`Engine`'s. Three requests over three turns include a late reply within a turn, across a turn, and
across a panic. The turn loop's threshold is 3 in the code and 2 in the runs, which lets a response
with two calls pass it; its calls are none, two, and two with one id. The code keeps 32 grants; with
two, four steps push one out. A session file of two lines rotates after two messages, so four
messages rotate it twice, with a limit of one rotated file. Two checkpoints of two files are the
least in which a rewind passes over one, and pruning removes one; two faults are a compaction
whose save fails and a crash. Three runs are needed for the
lock's worst order: one unlinks, one holds the old file, one opens a new one. Two disruptions are a restart
and a lost connection, or two restarts that overlap. Two calls to a server let the first one's late
reply meet the second; two retries and two budgets let either limit be the first. One login after
an older one, a reader and another process are three parties to one store. Every bound is a constant
whose comment says "bound"; the other constants (`Threshold`, `MaxIterations`, `RotateAfter`,
`MaxRotated`, `CpLimit`, `MaxGrants`, `MaxRetries`, the budgets) are the code's own.

`Sessions` has `CONSTRAINT Claimed`: the states after one of the defects its properties exempt (see
Exemptions) are not explored, since nothing is claimed of them. No run with a liveness property has a
constraint. `SYMMETRY FilesAlike` permutes the two files of the checkpoints, which no definition tells
apart; the run has no liveness property (`SharedLogSpec` is a safety property).

Deadlock is checked in every run. The states in which a component may stop (`Terminated`,
`Finished`, `AllTurnsDone`, `CpRests`, `McpFinished`, ...) loop explicitly.

### Fairness

Only steps that the program owes are fair.

- `Engine`: the command thread once it has received a command, the engine thread, and each
  monitor; `Stops` is among them, as a stream, a tool or a sign-in whose token is cancelled returns
  (each of them polls the token or selects on it). Receiving a command, a turn's own end, a panic and
  a tool call are the environment's and not fair: no liveness property relies on the user or the
  model.
- `EngineTurns`: the same three threads, where the engine thread's steps in a turn are the loop's:
  a stream, hook, approval or tool returns. That a cancelled turn stops is not assumed.
  `PromptsFinish` has a premise, that the user does not leave a question waiting for ever.
- `PermissionPrompts`: the engine thread's steps; no reply and no interrupt.
- `McpServer`: the manager's steps, whose timeouts end every wait; no step of the server.
- `ModelCall`: the call's steps: a deadline or an idle timeout ends each wait for the provider. A stream
  brings each kind of event once; that it goes on for ever is left out.
- In `MCWaits` one weak fairness on `OwedStep` stands for the three, as only one of them runs.

## Exemptions

What the code does in these cases is modelled, and the properties say what holds outside of them. No
doc or test of the repository promises more, except where a line is named.

- `SessionLock` (`exposed`): a failed `/clear` drops the lock before the engine is rebuilt
  (`engine.rs:2352`), and a placeholder is removed after its lock was dropped (`engine.rs:2400`),
  against `session_mgmt.rs:166-173`.
- `SessionStore` (`halfUndone`) and `Checkpoints` (`strays`): a rewind cut short after the chat was
  cut, by a crash (`checkpoints.rs:1060`), a failed removal (`checkpoints.rs:1247`) or a save that
  failed once its snapshot had replaced the file (`checkpoints.rs:1671`). And, of the checkpoints, a
  compaction whose save failed (`conversation.rs:1331`, `1350`): the turns after it are in the old
  file, their checkpoints have the new count, and when the process dies before another save the
  next compaction gives that count again. `check_conversation` (`checkpoints.rs:1095`) compares the
  count, the length and the role only, so it offers checkpoints of another chat and a rewind cuts
  there. Until such a crash, and after it as long as no such checkpoint was made, both properties
  hold. `gaps`: files whose copy
  failed, or whose copies a rewind of the chat alone removed with later checkpoints. `strays` also
  covers a record whose file stayed: `remove_record` (`checkpoints.rs:1196`) forgets a pruned record
  before it removes its file, and when that fails the next prune takes the record after it, whose
  file does go. After a restart the older record is back with that gap behind it, and a rewind to
  it neither restores nor reports the files that changed only under the missing record, against
  `checkpoints.rs:59-62`.
- `EngineHost`: `session.ts:103` says the session is busy only while a turn runs (`BusyHasATurn`);
  a restart stops listening to the engine whose `turn_finished` would have cleared it, so
  `BusyUntilARestart` is what is checked. Two restarts that overlap (`host.ts:119-128`,
  `overlapped`) leave an engine the host still hears. A permission card shown before a restart is
  still there after it.
- `McpServer`: `mcp_stdio.rs:529-530` says a listing is retried once with a fresh process
  (`StartedTwiceAtMost`); `ensure_ready` tries again within each try (`mcp_stdio.rs:545`), so a
  listing starts a server up to four times (`StartsAreBounded`).
- `ModelCall`: `retry.rs:54` calls the progress shared by every request; the fallback's request has
  its own, and the request without deferred tools is sent without asking `can_resend`. Text
  shown before the provider calls a request too large is not marked when it is sent again
  (`unmarked`, `api_client.rs:722`).
- `Permissions`: `permission_enforcer.rs:48-50` says an approved call is not denied a second time;
  it is when its grant's subject is the raw text of arguments that read otherwise once parsed, or
  when a hook asked about it in read-only mode. A project check may spend a grant another call left
  (`conversation.rs:1535`). `/permissions` during plan mode neither leaves it nor outlives it
  (`engine.rs:2302`, against the comment at `engine.rs:1690`).
- `Accounts`: a keychain that refuses a new login keeps the old one, which lookups find first
  (`shadowed`; `save`'s doc, `credentials.rs:534-535`, says other copies are removed). A login or
  logout between another's lookup and its save is written over (`overtaken`): `remember_profile`
  checks and saves in two steps (`engine_account.rs:213`), `refresh_stored_metadata` saves without a
  check (`auth.rs:599`), so `neuron auth status` may bring back a login that was signed out. A place
  that could not be cleared keeps its login and nobody is told (`unremoved`): `clear` returns a
  warning for a keychain that failed, not for one that is unavailable (`credentials.rs:574`), though
  its doc says "warnings for anything that could not be removed" (`credentials.rs:569-570`), so
  `/logout` says it is done and lookups find the login. A new login the server rejects clears the
  old one too (`auth.rs:334`) and drops every warning (`auth.rs:335`).

## Findings

1. *A second interrupt may not quit.* `EngineExit::ForceQuit` (`engine.rs:107`) and `for_prompt`
   (`engine.rs:1110`) say that a second interrupt during a turn quits. Presses are kept in one
   `Notify` permit and one `early` flag, so two that come before the monitor takes the first are
   one. The turn is cancelled; the program does not quit.
2. *A Submit may be lost.* A text taken as the answer to a question (`engine.rs:1184`) is sent
   after the lock was released; if the asker has timed out with its turn cancelled and withdraws,
   the text neither answers nor runs, and no `TurnFinished` comes for it.
3. *After a panic, an approval may reach another call.* `last_permission_id` (`engine.rs:1925`) is
   not assigned when the turn panics, so the next turn's requests have the same numbers, and an
   answer that arrives after the drain decides one of them, which `numbered_after` promises cannot
   be (`executor.rs:152`).
4. *A prompt right after tool results.* A turn the loop guard stopped ends in tool results
   (`conversation.rs:1071`) and gets no closing note, which `request_messages` says some providers
   refuse (`conversation.rs:1984`).
5. *Two prompts in a row.* A reply of white space ends a turn as an answer
   (`conversation.rs:2498`) and is dropped from the next request (`transcript.rs:82`), against
   `conversation.rs:1633` and the tests' `assert_alternates`.
6. *A rewind writes a file that should be gone.* A shell command creates a file, a tool edits it, a
   shell command deletes it again: `finish_turn` compares the turn's first and last scan
   (`checkpoints.rs:995`), which agree, so the file's copy counts as the state before the prompt. A
   rewind writes it and reports nothing, against `checkpoints.rs:59-62`.

## Proofs

Every theorem holds for any values of the constants: the proofs assume the modules' own bounds
assumptions only (`BoundsAssumption`, `LoopAssumption`, `McpBoundsAssumption`, `ModelCallAssumption`, ...:
the bounds are natural numbers, sets of calls, runs and engines are what their comments say).
Each inductive invariant is a conjunction of named parts; a part has a lemma for
`Part /\ [Next]_vars => Part'` with a step per action, and TLC checked each invariant on its run's
instance before it was proved. Where a specification has many similar actions, a lemma first puts
each into one of a few shapes (`StepShapes`, `CallMoves`, `GuardMoves`, `RunsMove`, `StoreMoves`,
`HostStepKinds`) and the parts are proved of the shapes.

`ChannelLemmas` has what several proofs use: what taking the first and adding the last does to a
channel, that a function has at most as many values as arguments, and, for the recursive
functions that read a list from its first element to its last, that such a function exists and
satisfies its equations (`StepByStep`, by a least counterexample, `UpTo`): the library's induction
theorems cannot be cited.

**EngineProofs** (`Engine`, `EngineTurns`, `MCEngineTurns`): `TypeOK`, `ShutdownReachesTurn`,
`PendingQuestionHasAsker`, `AnswersAreForTheirQuestion`, from `IInv`; then, for any number of prompts,
`LedgerSpec`, so that `Engine` implements `PromptLedger`, `InterruptReachesItsTurn` and
`InterruptReachesNoOther`; then what holds of the engine together with its turn loop.

- `TypeInv`, with what `TypeOK` lacks to be inductive: a queued `Submit` carries a prompt, a busy
  engine thread has a turn, a tool call has a question left.
- `ShutdownInv`. A turn that was watched is in `turn` (`WatchedTurn`); after `stop_turn` it is
  cancelled and aborted or the engine thread is still before its own check of `closing`
  (`TurnStopped`). `ShutdownReachesTurn` alone is not inductive: it does not say that the turn
  `stop_turn` cancels is the one that runs.
- `QuestionInv`. The pending question is the one the engine thread asked last and waits for;
  the sender the command thread holds is of an asked question that is no longer pending; once
  there is a reply the question is not pending; an answer the command thread holds, and the reply, are for the
  question whose sender they use. `AnswersAreForTheirQuestion` needs all of it: the reply's
  question is known only from the sender it was sent through.
- `OrderInv`: a prompt is at one place at a time (channel, queue, command thread, engine thread), as
  its fate says, and the queue is in the order of sending. The ledger's `Start` needs it: the
  prompt the engine takes is the oldest only because all older ones were taken.
- `InterruptInv`: `queuedPrompts` is the number of waiting prompts, the locks hold the turn that runs,
  and a press is found where its prompt's progress puts it (`early` while it waits, the token
  once it is watched, the monitor's permit until it wakes). Both properties are about the end of
  that way; neither says where a press is before.
- The engine with its loop: every step of `EngineTurns` is a step of `Engine` or a stutter
  (`LoopKeepsTheEngine`), and a step of `TurnLoop` or a stutter (`EngineKeepsTheLoop`), so what is
  proved of either holds of the pair. From the first follows `NothingStartsOnceInterrupted`
  (`InterruptsReachTheLoop`): the token has the press by `InterruptReachesItsTurn`, and every step of
  the loop that starts something looks at it, the call's own start after its hook and approval
  included; a tool that asks does not look while it waits, but is itself the call the loop executes
  (`AskingExecutes`). `LoopSpeaksRarely` is
  `RuntimeSpeaksRarely` of the two instances of the loop (`LoopFacts`, `LongerFacts`). The assumptions
  `LoopAssumption` and `LongerAssumption` are the loop's own, of the instances' constants.

**WaitsProofs** (`PermissionPrompts`, `McpServer`, `ModelCall`, `MCWaits`).

- `PermissionPrompts`: types and `OwnApprovalUntilAPanic`. The invariant says that every reply in the
  channel carries the number its request was shown with, that until a panic `nextId` counts all
  requests shown so far (so a request's number is its place), and that an approval is the current
  request's.
- `McpServer`: types, `StartsAreBounded`, `KeptServerIsInSync`, and `CallsSpec`: the manager implements
  `McpCalls` for a server that repeats and delays replies. While nobody waits the process owes
  nothing and its unread replies are strays (`NothingIsOwed`); while somebody waits, one request is out,
  unread or answered, and nothing before its own reply has its id (`OneRequestIsOut`); a reply with
  a call's id is there only once that call was answered (`ReplyMeansServed`). The refinement needs
  the last part: the code matches a reply by its id alone.
- `ModelCall`: types, `OneReplyShown`, `RetriesStayInTheirLimits`. The budget is the hard part:
  `WaitsAreBudgeted` relates the time waited to the attempts spent, for the stream's progress and
  for the whole reply's.
- In the specification the run checks: `WaitsTypesOK`, `RetriesAreBounded`, and the promises of
  the three parts (`WaitsKeepTheirPromises`).

**TurnsProofs** (`Permissions`, `MCTurns`).

- `Permissions`: types, `ApprovedCallsRun`, `RunsWereAllowed`, `TurnsRunInTheChosenMode`. A run must
  be paid for by an answer (`GrantsArePaid`), for which the grants of the policy, the grant the call
  holds and the calls allowed for the session are counted together, and a call that was let through has
  the last grant of its subject when its tool looks for one (`AllowedIsBacked`).
- In the specification the run checks: `TurnTypesOK`, with the types of `TurnLoopProofs`.

**TurnLoopProofs** (`TurnLoop`).

- The guard: `RepeatedCallsStop`. A run of identical calls is never longer than the guard's streak plus
  the calls still pending in front of it (`StreakIsAhead`).
- The transcript: `RequestsAreWellFormed`, `EveryCallGetsAResult`, `StoppedTurnIsClosed` and
  types. The first is mostly about `Normalize`, which reads any list of messages, also one that
  failed writes or a crash left half done. The proof carries an invariant of the reading
  (`Read`: what was put out has no stray result and every call but the open ones is answered) from one
  message to the next.
- The prompts: `FewAutomaticPrompts` (`RuntimeSpeaksRarely`). The bound is on the transcript, which
  repairs and compactions rewrite, and not on a counter, so each step must be shown to add at most one
  user message, and only where a turn starts, continues, is nudged or checked
  (`NextIsCounted`); normalizing and compacting add none. The bound holds between turns only because
  within one it is the earlier turns' four, the prompt, and one for each flag set (`PromptsAreFew`).
- The compactions: `CompactionKeepsTheRest` (`CompactionsKeepTheRest`). It relates `Normalize` of two
  lists, so the two are read side by side from the first message both have (`Beside`): the same is put
  out for both and the same calls are open (`Agree`), as that message is no result
  (`BoundaryIsFound`). The requests would still differ if a blank reply were dropped from the end of
  one; that none is there when the loop compacts is an invariant of its own (`AsksTheModel`: what the
  loop sends ends in a user message or in calls and their results).

**StoreProofs** (`SessionStore`, `Accounts`).

- `SessionStore`: types, `NothingAcknowledgedIsLost`, `NothingComesBack` and `ChangesAreWhole`,
  from `StoreInv`. First what `Loaded` gives: the empty list of no lines, a message more for one
  more record, nothing for a torn line, and a file of whole records as it is. Then each step is of
  one of eight kinds (`StoreMoves`), told apart by what they do to what a restart would find. The
  invariant says what must be found at each write (`MustBeFound`: before its snapshot is written a
  rewind still needs the messages it removed, as its failure puts them back); that the record to
  be appended is newer than all the file has, so that a message that came back after a failed push
  is not followed by an older one (`InOrder`); and that an append never goes on with an open line
  (`WritesFit`).
- `Accounts`: types and `LoginFoundIsTheLast`, from `AcInv`. The property says what is found now;
  nothing in it speaks of a reader that looked a login up and has yet to store it, or of a login
  that stored one copy and not the next. `AcInv` adds that one process signs in or out at a time
  (`OneSigns`), that a login or logout that changed the store has marked every reader that looked
  it up before (`ReadersAreMarked`), that the login an unmarked reader looked up is the one still
  found, and what it stored is in front of the vault (`LookedUpIsFound`), and that what a login
  has stored and a logout has cleared stays so while it goes on (`SignedInOrOut`). A store by a
  marked reader is one of the three defects `AcClaimed` leaves out (`overtaken`).

**CheckpointsProofs** (`Checkpoints`): types, `CutsAtItsPrompt`, `CheckpointsFitTheChat` and
`RestoresOrReportsTheRest`, for any files, turns, changes, faults and number of checkpoints kept. The
properties look at one moment of a rewind, so none is inductive: what they rest on is what the
store knew when the rewind began.

- Chat (`CpInvChat`): list and folder have the same records, and record files that were left behind are
  older than all of them (`DiskFits`); since a record was made without a compaction after it, the chat
  has only grown (`ChatFits`), and the file's chat too if the record has the file's count, which may
  be an older one (`FileFits`: what a crash goes back to); a rewind uses the record it was given (`RewindFits`).
- Files (`CpInvFiles`): what no record knows of has not changed (`Explains`): between two records a
  file no record between them knows of has one content (`Links`), from the last such record to now
  too (`Reaches`), and a copy is of the file as its prompt found it, unless a shell command changed
  it first (`OldCopies`). From this follows that the plan of a rewind covers every file that differs
  or says so (`PlanRestores`), and, as a rewind of several steps removes and adds records while its
  plan is carried out, that what is left of the plan is known to a record that stays long enough
  (`PlanIsExplained`). The proof found the gap that a pruned record's file leaves (see Exemptions).

**SessionsProofs** (`SessionLock`, `EngineHost`, and these with `Accounts`, `SessionStore` and
`Checkpoints` in `MCSessions`).

- `SessionLock`: types and `NoTurnIsLost`. The property alone says nothing of a run that has yet to
  open the file. `LockInv` adds who holds which lock file and at which place (`LocksAreHeld`,
  `OneHolder`: a lock file has one holder, but there may be several lock files); that the run that makes the session
  is alone until the file is there (`MadeOnce`, `MakerIsAtThePath`); and that while the file is there no
  lock file was unlinked, so that whoever may lock has the one at the path open (`FileIsKept`).
- `EngineHost`: types, `SharedLogSpec` and `HostTellsTheTruth`. The frames on the way to a client are
  the log's last steps in their order, so a client that follows is at the place before them
  (`LinkOK`); this is the refinement. What the host says is true follows from what the engine
  still has to deliver (`EngineIsKnown`), for the one engine listened to until restarts overlap
  (`HostKnows`), and busy is the engine's work or an end on its way (`HostWorks`).
- `LockIsAPart`, `HostIsAPart`, `AccountsIsAPart`, `StoreIsAPart` and `CheckpointsAreAPart`: a behaviour of
  `SessionsSpec` is one of each part, as the parts share no variable, so the theorems hold in the
  specification the run checks (`SessionsTypesOK` among them).

Only model-checked:

- Liveness (`WaitsEnd`, `PromptsFinish`, `InterruptedTurnFinishes`, `ShutdownStopsEngine` and the
  fair part of `ImplementsEngine`): fairness and `ENABLED` are beyond the installed provers.

## Not modelled

- Engine: the watchdog five seconds after a force quit; the UI's closed events channel; the
  `ListModels` and `ListBranches` shortcuts during a turn, which change no state; a panic while
  signed out; the line REPL.
- Turn loop: token counts (too large is a choice), tracing, the words of notes and summaries,
  `/compact` as a command.
- Permissions: which commands and paths need which mode, rules for tools other than bash,
  sub-agents' policies, hooks' processes.
- Model call: request and response formats, the error details shown with a failure, the token
  count before the fallback. Only a gateway reports lack of capacity; the deadline of the first token
  does not run while the call waits.
- MCP: several servers at once (each has its own state), the HTTP transports, the contents of tools.
- Session store: prompt-history records, forks, the old JSON format; two rotations in one
  millisecond; a power loss, as the code calls no fsync.
- Session list: presence files, order and columns of the list, aliases.
- Checkpoints: symbolic links, directories, size limits, diffs and git views.
- Host: the other kinds of events, drafts, several sessions, tokens of the socket.
- Accounts: the device sign-in's polling, `NEURON_TOKEN`, the account cache and its event (a read of
  the old login may fill it after a new login, `engine_account.rs:34`), keychain reads that fail, two
  processes writing the file's temporary copy at once.
- Worker boot (`worker_boot.rs`): a registry under one lock that classifies the text of a worker's
  screen; what could be wrong is which words it recognises. Two divergences were read there: a ready
  screen makes a finished or failed worker ready again, though `observe_completion` calls its state
  terminal, and a running cue clears `prompt_in_flight` without an event.
- Tools, plugins, lanes, tasks and recovery, rendering: data, I/O or small sequential registries.

## Plan

1. Compositions: `PermissionPrompts` and `Permissions` in the loop's `ExecuteCall`; `EngineHost` over
   `PromptLedger`.
2. The device sign-in of `device_login.rs`, and `worker_boot.rs` if it gains a second actor.
