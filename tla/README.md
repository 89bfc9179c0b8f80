# Verification of the ody-code agent core

TLA+ models, TLC runs and TLAPS proofs for the core of ody-code: the part of
`packages/agent-core` that decides who may talk to the model and when, which
tools may run together, what outlives a turn, and what a session remembers
after its process died. Source paths below are relative to
`packages/agent-core/src` unless they begin with `packages/` or `apps/`.

`PROJECT.json` lists every component, run, hazard, theorem, the lines each
definition models (`map`) and, for every property, a plausible bug that breaks
it (`mutants`; the mutated definitions stand next to the originals in the
modules).

## 1. The system

ody-code is a coding agent: an application (`apps/ody-code`, a terminal
interface) talks through `packages/node-sdk` and an RPC layer to sessions of the
agent core, which talks to model providers through `packages/kosong`, to files
and processes through `packages/kaos`, and to MCP servers through
`packages/mcp-host`. Everything in the core runs in one Node.js process, so
*interleaving happens at awaits only*: a function runs undisturbed to its next
await, then anything else may run. The process may be killed between any two
steps, and a session can be resumed from its files.

| part | state | operations | talks to | what makes it correct |
|---|---|---|---|---|
| turn flow (`agent/turn/index.ts`, `loop/run-turn.ts`, `loop/turn-step.ts`) | `activeTurn`, `turnId`, `steerBuffer`, the workers and their abort signals | prompt, steer, cancel, restore…, turn worker, goal drive | goal store, hooks, step loop, background tasks, cron | one running turn; a cancel reaches it; old workers do not disturb new ones; no input lost |
| tool batch (`loop/tool-call.ts`) | the position in the batch, decisions, results | prepare, authorize, dispatch, start, grace timeout, record results | scheduler, hooks, tools, context | conflicting tools never overlap; nothing starts after an abort; every call gets its result; the batch ends |
| tool scheduler (`loop/tool-scheduler.ts`) | `activeTasks`, `queuedTasks` | add, start, finish | batch | exclusion, provider order, no lost wake-up |
| tool-call deduplication (`agent/turn/tool-dedup.ts`) | the calls seen, a deferred result for each | check a call, finalize its result | batch | a repetition gets the original's result and never waits for ever |
| tool accesses (`loop/tool-access.ts`) | – | conflict | scheduler | conflict = a common file and a writer |
| background tasks (`agent/background`, `tools/background`) | live tasks, ghosts, write queues, notification keys, task files | register, settle, stop, wait, suppress, announce, reconcile | turn flow (steer), context, disk | each end decided once, durable before it is announced, announced exactly once, also across a crash |
| record log (`agent/records`) | pending records, flush promise, sticky error, the file | append, flush, rewrite, read, replay | disk, every component's restore | the file is a beginning of what happened; nothing stays in memory only; every replay succeeds |
| context memory (`agent/context`) | history, open steps, pending tool results, deferred messages, one per mode | append, loop events, undo, compaction, mode switch | turn flow, records, background | the history is always acceptable to a provider; no message lost |
| compaction (`agent/compaction`) | the running compaction, its budget per turn | begin, worker, cancel, block the turn | context, turn flow | a summary replaces exactly what was summarised |
| goal store (`session/goal.ts`, `writeMetadata` of `session/index.ts`) | the goal object, the chain of writes of `state.json`, what the application was shown | create, replace, pause, resume, block, complete, cancel, budget, account | turn flow (the drive that spends it), tools, user, disk | the file and the application end up with the goal in memory; every end is recorded, as far as its write succeeds; no turn over the budget; a drive ends |
| cron (`agent/cron`, `tools/cron`) | tasks, cursors, write queues, a file per task | create, delete, tick, fire, expire, close, load | turn flow (steer), disk | each due time is delivered once, coalesced, none passed over, also across restarts |
| MCP host (`packages/mcp-host`, `agent/tool/index.ts`) | per server: the attempt, status, client and tools; the tools an agent offers | connect, reconnect, close, time out, shut down, attach | servers, tool manager | no client left open; no dead tool offered; the status settles at the truth |
| subagents (`session/subagent-host.ts`) | children and their abort links | spawn, resume, cancel | turn flow of parent and child | a child ends with its parent's call, its result is its own |
| checkpoints (`session/checkpoint`) | backups, index | save, restore, recover | disk | a restore returns what was saved |

Permission, modes, injection, usage, configuration, plugins, skills, hooks,
providers, the applications and the rest are listed in `PROJECT.json`
(`components`) with the reason they are not modelled.

What is hard to test, at its lines, is in `hazards`. The kinds are few:
two workers of the turn flow alive together; state read before an await and
used after it; results that arrive in another order than they are recorded;
stops that race ends; attempts that overlap and answer late; a crash between a
change and its file, or in the middle of a line; queues whose last look misses
what arrives next.

## 2. Modules

### Selection, ToolAccess, ToolScheduler, ConflictOrder
`Selection` says what a filter keeps of a sequence, by the place that each kept
member gets (`Rank`, `Keeping`): a form without recursion, which `ToolAccess` and
`ContextMemory` use and the proofs can reason about. `ToolAccess` translates the
conflict test as operators; a path is the sequence of its segments (an empty
segment is a doubled or trailing separator) and `Fold` is the lower-casing of a
name. `ToolScheduler` has one action per operation of the class: `add`, `settle`
(the result promise resolves) and `finish` (the `.finally` callback one microtask
later). The two arrays are kept in the order of the task numbers by the code, so
each is a set of numbers. `ConflictOrder` is the promise without arrays or
callbacks: a task starts once every earlier task it conflicts with has settled.

### ToolBatch
`runToolCallBatch` and all it calls, one action per stretch between two awaits,
on top of the scheduler, whose state and operations it extends. Hooks,
permission and validation are the choice of a decision (`Resolved`, `Runnable`,
with or without stopping the batch); a tool's body is `running` until it ends or
the grace timer gives it up (`orphaned`). `Abort` may happen at any time. The
deduplicator is part of it: `checkSameStep` in the preparation remembers a call or
finds the one it repeats (`original`), `finalizeResult` hands an original's result
to its repetitions and makes a repetition wait for it (`resolved`). Whether the
turn stops behind the batch is left out: it is one flag that nothing here reads.

### TurnFlow
The life of turn workers. `pc` names the await a worker is at: the UserPromptSubmit
hook (`prompt`), MCP and the goal reminder (`load`), the model and its tools
(`step`), the Stop hook (`stopHook`), and the three writes of `state.json` a goal
drive awaits (`count`, `park`, `overBudget`). Turn ids are only compared with the
latest, so `latest` remembers the worker that allocated last. `goal` is the status
only ("off" in an agent without a goal store, such as a subagent); `UserGoal` and
`ModelGoal` change it under the workers. `phase` covers the replay of a resumed
session.

### BackgroundTasks
`BackgroundManager` with the tools that call it, its files and `Agent.resume`.
The continuation behind an awaited write is the `then` of its entry in the write
queue; a caller's `pc` is its place in `stop`. The context is one partition of
`ContextMemory`, reduced to announcements: `history` is their sequence, and every
one comes in through `appendMessages`, which defers it while a tool call waits for
its result (`pending`: a call of a running turn, "live", or one that a crash cut
off from its result, "left", which no result ever ends). `undoOrClear` forgets the
call and throws away what waited for it (`dropped`). `recorded` and `saved` are
what the records on disk make of history, pending call and deferred messages;
`Crash` drops the memory, replays them, and starts the resume.

### RecordLog
`FileSystemAgentRecordPersistence` and `AgentRecords.replay`. Records are
numbers; the file is a sequence of lines and a tail without newline. A write
that is cut off leaves a prefix of its batch and, with `TornWrites`, a part of
a line.

### ContextMemory
What the model is told: the partitions of the modes (`ContextMemory`, the switch
in `Agent`, entering and leaving in `SessionMode`) and the worker of
`FullCompaction`. Operations of a partition and of the memory are operators, so
that one definition serves twice: `Logged(Op)` applies an operation to `live`
and to `disk`, the memory that a replay of the records builds. The two differ in
three ways: the switch at a turn's end is not logged, an event that throws is
logged before it throws, and a mode is set before its entering is logged (or
fails, and is not logged at all). Messages, steps and
calls are numbers of one sequence; a user message keeps the role that `undo`
looks at (a prompt, an injected reminder, any other notice). A turn goes from
`load` (before a step) to `step` (the model answers), `calls` (its calls are
recorded), `results`, and back. `undo` and the projection both keep some messages
of a history in their order (`Keeping`). The handlers of undo, clear, /compact and
the switches of modes do not ask whether a turn runs, so these happen at any moment,
in the middle of a step too. `enter` is two actions with its await on `onEnter`
between them: `enterMode` sets the mode, and `entered` logs it and switches the
partition without looking whether the mode is still its own, or `enterFails` takes
the catch path; `entering` counts the calls that wait.

Three variables remember what has happened that the code does not handle; each of
these things is a hazard in `PROJECT.json`, and a property that needs its absence
says so. `intact` is lost by a crash in the middle of an exchange, two turns alive
together, a notice in the middle of an answer, and a summary applied under an open
step. `stepsKept` is lost by an undo or a clear under an open step. `overtaken` is
set when a mode is entered or left while an enter waits for its `onEnter`.

### GoalStore
The goal of a session, its file, and the drive that spends it. The code changes
a goal object in place, turns the metadata into text in the same frame, and
chains the writes of the texts; what an operation does behind its await (show the
goal, record its end, run the turn it has counted) it does when its own write is
done. So `writes` is the chain, each entry with its text and the operation that
waits for it, and `Written` does all that this operation does behind the await,
with the object as it is by then (`objects[g]` lives as long as somebody holds it).
The user calls at any time; the agent is one turn at a time (`pc`, `turn`), and
takes every way round the loop of `driveGoal`: launched, continued, taken up
behind an ordinary turn. `owing` is the set of goals of whose end there is no
`goal.clear` record, and `excused` those of them that are gone and will never get
one. A goal gets there in three ways: the write of its removal failed (`clearInternal`
throws at `session/goal.ts:633`, before the record at 634); it was overwritten by
a `createGoal` that does not look again behind its await; it was not in the file
when the process died. `TurnFlow` keeps of all this only the status of the goal and its two
workers alive together; `GoalStore` keeps the counts, the file and the texts, and
one worker.

### Cron, CronExpression
`Cron` has one action for the whole `tick`, which is synchronous: every due task is
fired in one round, the tasks whose fire throws stay as they were. Files are
written behind a queue per task that neither the fire nor the tool waits for;
`stop` waits for what is queued at that moment. An expression is the set of times
it stands for; `CronExpression` is the search that finds the next of them
(`nextRunWithinMinutes`), as a recursive function over minutes of a calendar
whose lengths are constants. `covered` counts how many fires stood for each time,
and `excuses` the losses that may repeat one.

### McpConnections
The entry of one server: attempts to connect, each at one of its awaits (`at`), the
clients they open, what the entry holds, and what the agent's tool manager offers
from it. An attempt and its client have the same number. Everything a late
answer may do hangs on `isCurrent`, which is translated as it stands.

Each `MC…` module gives these modules small constants. Every module has a type
invariant `TypeOK`. That of `TurnFlow` is also a property of its run; all of them
are proved (section 4).

## 3. Runs

| run | asks | bounds, and why they are enough |
|---|---|---|
| `tool_scheduler` | exclusion, no stranded task, refinement of `ConflictOrder` (which includes the order); and `ConflictIsSharedFile`: the prefix test means what it should | 4 tasks (two can wait behind two), 5 kinds of access lists (none, all, read, write under another spelling, recursive search). The conflict test is evaluated in the initial state, for paths of up to two names in two cases, empty segments, every operation, recursive or not: a prefix, an equal path and a sibling all occur |
| `tool_batch` | `NoConflictingBodies`, `NothingLeftBehind`, `AbortEndsBatch`, `BatchEnds` | 3 calls that access nothing or write one file: a call can run, wait and be prepared at once, and an original can have two repetitions or a call between it and its repetition; finer accesses are the scheduler's run |
| `turn_flow` | one running turn, cancels, no clobbering, unwinding | 2 workers alive together, 1 waiting steer, an agent with or without goals. Every property relates one worker to the active turn, and the other worker stands for whoever came after it; a third adds no kind of step |
| `turn_flow_resumed_goal` | expected violation, see below | the same |
| `background` | one announcement, silence, every end announced, stops and waits come back | 1 task, 2 stoppers, 1 waiter, 2 crashes (so that a resumed process dies as well); an announcement can meet an open call, be held back by one that a crash cut off, be recorded so, and be dropped. Every property is about one task; tasks meet only at the limit on running tasks, which is one guard |
| `record_log` | the file is a prefix, nothing is left behind, no crash loses a synced record | 5 records, 2 crashes, with migrations |
| `record_log_torn` | expected violation | 3 records, 2 crashes, torn lines |
| `context` | every request acceptable, the records replayable, no message lost but by what removes it, the switch settles, deferred messages arrive | 2 turns alive together, 2 modes (a switch from one mode straight to another, with the exit inside `enterMode`, is left to the theorems, which hold for any modes), 5 messages, steps and calls (a prompt, a step, two calls and a deferred message; or an exchange and its summary), 2 interventions of the user or the machine, each at any moment (a switch and an abort, an undo in a step, a second enter or an exit in the await of the first; a crash behind any of them) |
| `context_resume` | expected violation | 1 turn, 6 messages, steps and calls, 1 intervention: the undo or the clear |
| `goal` | the file and the application end up with the goal in memory, every end is recorded or has one of three excuses, no turn over the budget, a drive ends | 3 goal objects (one being replaced, one overwriting it, one more), 2 writes at once (the agent's and the user's), turn budget 1 and counts to 2, 1 crash |
| `cron` | each time once, none passed over, what is gone stays gone, the list tells the truth, due tasks are delivered; and the search for the next run | a recurring task with 3 times in 5 (jitter can push the last behind the clock, at most 2 are coalesced, the last finds it stale) and a one-shot with an early jitter, 1 close and 1 fault: a crash, a lost write or a clock set back. The search: every expression over a calendar of 2 months, of one and two days of 2 hours of 2 minutes, from every minute of a year |
| `mcp` | no client left open, no dead tool, the truth settles, attempts end | 5 attempts: more than can be alive in different awaits; the proofs below hold for any number |

Deadlock is checked in the runs of `ToolScheduler`, `ToolBatch` and `TurnFlow`. The
others stop when tasks, records, messages, attempts, time or crashes are used up;
for them the liveness properties ask what a deadlock would break.

Exceptions the properties make, each of them for something the code does:
`AnnouncedOnce` excepts a task a write of whose file has failed (`unsafe`): the
code swallows that failure, and the next process may announce the task again as
lost. `SyncedIsReadable` excepts the rewrite after a migration, which truncates the
file first, so that a crash before its write loses the records. `CoveredOnce`
allows one repetition for each write of the task that was lost and each cursor that
lay in the future of the clock and was ignored; `ListTellsTheTick` excepts a task
whose cursor was ignored so, which is allowed only at that price.
`DiskFollowsMemory` and `ShownIsTrue` except the time after a failed write or a
crash until the next operation has told everything (`missed`). `EveryGoalClosed`
excepts the goals of `excused`, so it says that no goal ends without a record in
any but those three ways. `EveryEndAnnounced` excepts an announcement that waits for
the result of a call which a crash cut off: no result comes, and the announcement
is stuck until the user undoes or clears, which throws it away; only the next
process announces it then. `ResumableWhenIntact` asks for `intact` and
`stepsKept`, `AnsweredWhenSent` for `intact` only. `SwitchSettles` excepts a history in
which an enter was overtaken in its await: mode and partition then stay apart
until the session is resumed.
`OfferedIsLive` excepts the time in which the next attempt awaits the close of the
old client, when the old tools are still listed.

### Fairness
Actions that only the event loop, a timer or the disk delay are weakly fair:
continuations run, hooks and the model answer or fail, writes end, the grace
timers fire. Weak fairness is enough because none of these, once possible, is
made impossible by another step for ever. Nothing is assumed of tools (`BatchEnds`
takes "every tool that runs ends" as its antecedent: it asks whether the batch
adds a deadlock of its own; `AbortEndsBatch` needs no such thing), of background
tasks, of users, of timeouts of waits, or of crashes. In
`BackgroundTasks` it is assumed that the calls of a running turn end (`toolResult`,
but no call that a crash cut off), and that some later turn runs a step
(`flushSteerBuffer`): a steer that arrives while the Stop hook of the last turn is
awaited stays in the buffer until one does (`agent/turn/index.ts:616`). In
`ContextMemory` the steps of a turn are fair, which includes that tools end:
`DeferredArrive` is about messages that wait for their results. In `GoalStore`
only writes are fair; `PursuitEnds` takes turns that end as its antecedent. In
`Cron` the round of the scheduler is strongly fair, because the agent is idle only
now and then: the timer ticks every second as long as the session lives, so it
meets an idle agent if the agent is idle again and again; a turn ends, a file
operation settles, a fire throws at most for a while. In `McpConnections` only the
manager's own steps are fair, a close that settles and the timer of an attempt;
the server owes nothing.

### What the violations show
* `turn_flow_resumed_goal`: a worker launched while the goal is paused releases
  the active turn when its turn ends (`agent/turn/index.ts:480`) and then, if
  the goal was resumed meanwhile, drives it while the agent looks idle: a
  prompt starts a second worker, a cancel does not reach the first.
  `SingleInFlightUnlessTakenUp` shows that this is the only way.
* `record_log_torn`: the first append after a resume completes a cut-off line
  to a corrupt one in the middle of the file, which no later replay accepts.
* `context_resume`: the user undoes in the middle of a step, which closes it
  (`agent/context/index.ts:112`; a clear does so at 68); the next event of the
  step is logged (186), then throws, and every replay of the records throws on it
  again. A summary of /compact that arrives under an open step does the same.
  `ResumableWhenIntact` shows that it does not happen where no step was undone or
  cleared under its turn and none of the four things that end `intact` occurred.

## 4. Proofs

`ToolBatch_proofs` proves of the scheduler, for every number of tasks and any sets of
accesses (assumption: `MaxTasks \in Nat`), type correctness, `NoConflictingActive`,
`NoStrandedTask`, `NoOvertaking`, and that the scheduler implements
`ConflictOrder`. None of the three safety properties is inductive alone:
`SchedulerIInv` is their conjunction with the types and `Partition` (a task is
queued or started, a queued one has not settled, and a task that is neither active
nor queued has settled). `Partition` is what lets "not blocked by anything active
or queued" mean "everything earlier that conflicts has settled" in the refinement.
The argument uses one fact about accesses, that `conflict` is symmetric.

Of the batch it proves, for every number of calls and any declared accesses
(assumptions: a response has at least one call, for an empty one returns at once,
and declaring nothing is a possible declaration, which is what a resolved task
declares), type correctness, `NoConflictingBodies`, `NothingLeftBehind`, and that
a batch is a behaviour of the scheduler. It is the composition argument: every
step of the batch is one step of the scheduler or leaves its variables alone
(`DrivesScheduler`), so the scheduler's invariant and its refinement of
`ConflictOrder` hold of the batch and are not proved again. The invariant adds
how far the batch is (`Progressed`: what has been added, and which results were
seen, follows from `pc` and `index`), what it has recorded (`InOrder`: as long as
nothing threw, the transcript is the calls and results up to there in the
provider's order), and `BodiesHeld`, the heart: a running tool holds the
scheduler until its result settles, and one that was given up on holds nothing any
more, but then the batch is aborted and starts no tool. `NoConflictingBodies` is
about tools at work, which may outlive their task, so the exclusion of active
tasks alone does not give it.

What a conflict means is proved for all paths (`ConflictMeansSharedFile`): the
test compares two normal forms and looks at no file, but it says yes exactly when
one access writes and there is a file that both reach, because two beginnings of
one path are the same or one begins with the other. With `NoConflictingBodies` it
gives `FilesExclusive`: no file is written by a tool while another tool that
reaches it is at work. A file is here what has a normal form. That two spellings
of one file have the same normal form is the part of `ConflictIsSharedFile` that
is only checked.

`TurnFlow_proofs` proves, for any sets of workers and steers (assumption: a worker
is neither `None` nor `Resuming`), type correctness,
`SingleInFlightUnlessTakenUp`, `ActiveIsLatest`, `NeverClobbered` and
`CancelStopsTurn`. So two workers, the bound of the run, hide nothing. The lemma
`WorkerShape` reduces the steps of a worker to five things they may do to the
active turn (stay, end, end a turn outside a drive, take up a goal, drive on); the
invariant is then shown for these and for the callers' operations. It adds three
facts to the properties: nothing is alive during a replay (`Phases`), the active
turn was not cancelled (`ActiveRuns`), and the worker of the latest turn, outside
a drive, is the active one if any is (`LatestIsActive`). The last is the
heart: `runOneTurn` releases the active turn when its own turn is the *latest*,
without asking whether it is the active one, and `LatestIsActive` is why that
takes it from nobody else.

`McpConnections_proofs` proves, for any number of attempts (assumption: `None` and
`Auth` are values of their own), type correctness, `NoClientLeftBehind`,
`OfferedIsLive` and `SettledIsTrue`. The first of them is inductive only with the
knowledge of what each attempt is doing. The invariant adds: attempts that have
not begun await nothing and opened nothing (`LaterUnborn`); a client whose tools
are still being listed is not `ready` (`NotReadyYet`); nothing is offered
before the tool manager listens (`OffersListening`); and, the heart, one
statement for each place the *latest* attempt can be at (`EntryFollowsAttempt`):
while it closes its predecessor's client the entry holds none, while it starts the
entry holds its client, while it fails the entry holds none and the failure is
decided, and once it has settled the entry says what was found. Older attempts
need no such statement, because `isCurrent` lets them do one thing only, close
their own client.

`BackgroundTasks_proofs` proves, for any tasks, callers, limits and crashes
(assumption: the marks in a queued write are values of their own), type
correctness, `SilencedIsSilent` and `AnnouncedOnce`. So one task and two crashes,
the bounds of the run, hide nothing. An announcement is a pair of a task and an end, on
its way through four places: being built, steered, deferred behind a call of a
running turn, in the history. `OnePlace` says that it is in one of them at most,
once, and survives a flush of the whole steer buffer in any order (a count of its
elements shows that such a sequence repeats none). It leaves out what waits behind
a call that a crash cut off: it never enters the history of this process.
`KeysTell` says that what is announced is *the* end of its task: the one in memory
and, unless a write of the task failed, the one in its file. It needs what the queued writes of a task may hold (`Snapshots`: once a write
tells the end, all later ones do) and that the file is never ahead of them
(`FileBehind`); so the next process finds in the file the end that was announced
and not "lost". Both also carry the silence of a task: it is set only while the
task runs, and what is written of a task that is not silenced is not.

`RecordLog_proofs` proves, for any number of records and crashes, type
correctness and `LogIsPrefix`, with torn lines and migrations. The invariant is
`NothingMissing`: as long as nothing failed, what the file yields, the batch and
the queue are, one behind the other, exactly what was logged; where the file is about
to be emptied, batch and queue alone are. It needs that a drain that is over holds
no batch and leaves no queue (`DrainShape`), and that nothing drains before the
replay (`ReplayIsQuiet`). `SyncedSurvives` proves `SyncedIsReadable` for an
installation in which a write is cut off between lines (`~ TornWrites`, as in the
run `record_log`). The hypothesis cannot be dropped: with torn lines a
synced record is lost inside the corrupt line of `record_log_torn`.

`GoalStore_proofs` proves, for any number of goals, queued writes, turns, budgets and
crashes (assumptions: the bounds are natural numbers, one write can be queued, and
`None` and `Torn` are values of their own), type correctness, `DiskFollowsMemory`,
`ShownIsTrue`, `EveryGoalClosed` and `TurnsWithinBudget`. The first three say
what is true when the chain of writes is empty; the invariant says what the chain
is still going to make true: its last text is the goal in memory (`LastIsMemory`),
its last operation that shows anything shows the goal or that there is none
(`LastShowsMemory`), and a goal whose end is not recorded is the current one, has its record ahead of it
in the chain, or is excused (`OwedIsRecorded`). `TurnsWithinBudget` follows from no state alone: the budget is
looked at and the turn counted in one frame, behind which only the current goal's
object is changed. The rest of the invariant is about the ends of
this: goals that operations hold exist (`Held`), a session that is being resumed
knows only the file's goal (`OnlyFromDisk`), the agent awaits one write at a time.

`Cron_proofs` proves, for any tasks, schedules, jitter, caps, clocks and faults,
type correctness, `CoveredOnce`, `NoneSkipped`, `GoneStaysGone` and
`ListTellsTheTick`; the bounds of the run on times and tasks hide nothing. The
invariant is a conjunction per task (`TaskInv`). A time that was delivered as often
as it has excuses for must be barred wherever a later tick could start from: by the
cursor in memory (`StoreBars`), and by the write that decides what the next session
reads (`FileBars`: the last one queued or, while the session closes, the last one
that it waits for; the file itself when there is none). In the other direction
every cursor, in memory, in the queue or in the file, has passed only what was
delivered (`CursorsCover`), which rests on a lemma about `countCoalesced`: with the
cap or without, what one tick delivers is a contiguous beginning of what is due, so
the greatest of it may be the new cursor. `RemovalIsLast` is why a removed file is
not written again.

`ContextMemory_proofs` proves, for any modes, turns, messages and interventions
(assumptions: "normal" is a mode, `None` is neither a mode nor a turn, the bounds
are natural numbers), type correctness, `AnsweredWhenSent`, `ResumableWhenIntact`,
`MessagesKept` and `SwitchSettles`. The memory and the replay of its records drift
apart when a turn's end switches the partition or an enter waits, so no invariant
can say that they are equal. Every fact is stated of *any* memory (`Sound`,
`Follows`, `Target`) and used twice, of `live` and of `disk`; an operation that is
logged is treated once. `Sound` and `Aimed` hold always. `Aimed` is about the
partition that is in use once the deferred switch is applied: for the replay it is
that of its mode, and for the memory that of the session's mode, or the normal one
while a mode is being entered, unless an enter was overtaken; this gives
`SwitchSettles`. `Followed` holds while the history is intact and ties both
memories to the one turn that is alive: they agree on whether its step is open, and
if no step was undone or cleared it is, so that the next event finds it in the replay
too; this gives `ResumableWhenIntact`. Each history is a sequence of exchanges that
are over, and in the active partition the last may be open, where what is still
missing is what the turn has called and not yet recorded, in this order (`Answers`,
`Awaits`), or nothing, once the step was undone or cleared (`Awaited`): the results
that come then are orphans, which are not sent. While the turn calls tools in an open step, its message is the
last one (`EndsWith`), which is why a call is added to the right message and a
result lands behind its call. Five lemmas carry `Answers` through the operations:
a message may be appended or flushed when nothing is missing (`AnswersJoined`),
the missing results arrive from the front (`ResultAnswers`, `CallAnswers`), what
is left behind a summary keeps its exchanges (`AnswersBehind`), and a selection
that keeps all results of the calls it keeps keeps their distances (`AnswersKept`,
which is about `Rank`). What is sent before a step is then a history in which
nothing is missing. `stepsKept` cannot be dropped from `ResumableWhenIntact`: the
run `context_resume` shows an undo in a step that makes the records unreplayable.

Only model-checked:
* liveness, which the prover cannot do under fairness, as it cannot do `ENABLED`:
  `CancelledWorkerEnds`, `DeferredArrive` and the other temporal properties of
  the runs that are neither an action property nor a refinement;
* `ConflictIsSharedFile`, as far as it compares `normalizePath` with a reference
  that filters by recursion, over bounded paths;
* `NextRunIsEarliest`, a recursive search over a calendar that is summed by a
  fold: both would need induction over data.

## 5. Not modelled

Provider protocols, the bodies of tools, text building, configuration, parsing,
the terminal interface and telemetry: input and output, or pure text. That is
most of the repository's lines; the share of them that `map` covers is small
because the parts with behaviour over time are.

In the modelled components: usage windows, turn events, output buffers of
background tasks, blob offloading, token counts, the retries and the budget of
compaction, plan and design files; token and wall-clock budgets of a goal (the
turn budget goes the same way); the parsing of cron expressions and the hours that
daylight saving time repeats or leaves out; the reminders about repeated tool
calls; MCP's protocol and OAuth flow, and tools of two servers with one name.

Not modelled yet, although they have behaviour of their own: subagents
(`session/subagent-host.ts`: a child prompted and then awaited, with a cancel in
between), checkpoints (`session/checkpoint`), and the shutdown of a session over
all its components.

## 6. Plan

1. Subagents: spawn, resume and cancel over the turn flow of parent and child.
2. Context memory, further: undo of several prompts, micro-compaction, the
   budget and retries of compaction.
3. Checkpoints: the files saved before a turn, their index, and the restore.
