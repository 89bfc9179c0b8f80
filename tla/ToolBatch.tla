------------------------------ MODULE ToolBatch -----------------------------
(***************************************************************************)
(* runToolCallBatch: the life of the tool calls of one provider response   *)
(* (packages/agent-core/src/loop/tool-call.ts), composed with the          *)
(* scheduler it adds its tasks to.                                         *)
(*                                                                         *)
(* The batch prepares its calls one after the other (hooks, permission,    *)
(* the tool.call event), adds a task for each, then awaits the tasks in    *)
(* provider order and records a tool.result for each.  Tools run from the  *)
(* moment their task is started, while later calls are still prepared.     *)
(* The abort signal may fire between any two of these steps.  A call that  *)
(* repeats an earlier one of the response (tool and arguments) does not    *)
(* run: its result is the earlier call's (agent/turn/tool-dedup.ts, which  *)
(* the turn flow hooks into preparation and finalization).  Whether the    *)
(* turn is to stop behind the batch is left out.                           *)
(*                                                                         *)
(* pc names the await the batch is at.  Every step of an async function    *)
(* between two awaits is one action.                                       *)
(***************************************************************************)
EXTENDS Sequences, ToolScheduler   \* MaxTasks: the calls of the response

\* A response without calls returns at once; a resolved task declares nothing.
ASSUME BatchAssumption == MaxTasks \in Nat \ {0} /\ {} \in AccessLists

VARIABLES
    pc,            \* where runToolCallBatch is
    index,         \* the call being prepared, then the result being awaited
    prepared,      \* what prepareToolCall has decided for the call at hand
    runnable,      \* the added calls whose task runs a tool
    stoppedAt,     \* the call that stopped the batch, 0 if none did
    aborted,       \* step.signal.aborted
    body,          \* the execute promise of each call's tool
    transcript,    \* the events dispatched, in order
    original,      \* original[c]: the call whose tool and arguments c repeats, or c
    registered,    \* the calls that checkSameStep has seen
    resolved       \* the originals whose deferred holds a result

batchVars == <<pc, index, prepared, runnable, stoppedAt, aborted,
               body, transcript, original, registered, resolved>>
dedup == <<original, registered, resolved>>
vars == <<accesses, activeTasks, queuedTasks, settled, batchVars>>

Call == 1..MaxTasks
Over == {"returned", "threw"}

\* Resolved tasks hold no resource; Nothing is the state between two calls.
Resolved(stops) == [kind |-> "resolved", declared |-> {}, stops |-> stops]
Runnable(declared, stops) ==
    [kind |-> "runnable", declared |-> declared, stops |-> stops]
Nothing == Resolved(FALSE)

TypeOK ==
    /\ SchedulerTypeOK
    /\ pc \in {"prepare", "authorize", "dispatch", "add", "drain", "settle"} \cup Over
    /\ index \in Call
    /\ prepared \in [kind : {"resolved", "runnable"},
                     declared : AccessLists, stops : BOOLEAN]
    /\ runnable \subseteq Call
    /\ stoppedAt \in Call \cup {0}
    /\ aborted \in BOOLEAN
    /\ body \in [Call -> {"none", "running", "orphaned", "ended"}]
    /\ transcript \in Seq({"call", "result"} \X Call)
    /\ original \in [Call -> Call]
    /\ registered \subseteq Call /\ resolved \subseteq registered

Init ==
    /\ SchedulerInit
    /\ pc = "prepare" /\ index = 1 /\ prepared = Nothing
    /\ runnable = {} /\ stoppedAt = 0 /\ aborted = FALSE
    /\ body = [c \in Call |-> "none"]
    /\ transcript = <<>>
    /\ original = [c \in Call |-> c] /\ registered = {} /\ resolved = {}

schedulerUnchanged == UNCHANGED <<accesses, activeTasks, queuedTasks, settled>>

-----------------------------------------------------------------------------
\* Preparation, in provider order.

Decide(decision, next) ==
    /\ prepared' = decision
    /\ pc' = next
    /\ schedulerUnchanged
    /\ UNCHANGED <<index, runnable, stoppedAt, aborted, body, transcript>>

\* checkSameStep: the call repeats one that was remembered, or is remembered.
Originals == {c \in registered : original[c] = c}
checkSameStep(first) ==
    /\ registered' = registered \cup {index}
    /\ original' = [original EXCEPT ![index] = first]
    /\ UNCHANGED resolved

\* A repetition gets a placeholder as its result, at once.
PrepareRepetition ==
    /\ pc = "prepare" /\ stoppedAt = 0
    /\ Decide(Nothing, "dispatch")
    /\ \E first \in Originals : checkSameStep(first)

\* Preflight, the prepareToolExecution hook and resolveExecution.  A rejected
\* call does not reach the hook; a failed one does not look at the signal; a call
\* whose execution was resolved does.
Prepare ==
    /\ pc = "prepare" /\ stoppedAt = 0
    /\ \/ Decide(Nothing, "dispatch") /\ UNCHANGED dedup
       \/ /\ checkSameStep(index)
          /\ \/ \E stops \in BOOLEAN : Decide(Resolved(stops), "dispatch")
             \/ ~ aborted /\ \E declared \in AccessLists, stops \in BOOLEAN :
                                Decide(Runnable(declared, stops), "authorize")

\* prepareSkippedToolCall: the calls behind one that stopped the batch.
PrepareSkipped ==
    /\ pc = "prepare" /\ stoppedAt # 0
    /\ Decide(Nothing, "dispatch") /\ UNCHANGED dedup

\* The authorizeToolExecution hook, then the second look at the signal.
Authorize ==
    /\ pc = "authorize" /\ UNCHANGED dedup
    /\ \/ ~ aborted /\ Decide(prepared, "dispatch")
       \/ ~ aborted /\ \E stops \in BOOLEAN : Decide(Resolved(stops), "dispatch")
       \/ aborted /\ Decide(Nothing, "dispatch")

\* An event is recorded, or its dispatch throws and the finally block runs.
Dispatch(event, next) ==
    \/ transcript' = Append(transcript, event) /\ pc' = next
    \/ UNCHANGED transcript /\ pc' = "settle"

DispatchToolCall ==
    /\ pc = "dispatch"
    /\ Dispatch(<<"call", index>>, "add")
    /\ schedulerUnchanged
    /\ UNCHANGED <<index, prepared, runnable, stoppedAt, aborted, body, dedup>>

\* Mutant: execute is called without the last look at the signal.
StartBodies_IgnoresAbort(tools) ==
    body' = [c \in Call |->
                IF c \in tools /\ c \in activeTasks' \ activeTasks
                  THEN "running" ELSE body[c]]

\* runRunnableToolCall runs in the same turn of the event loop as start: it
\* looks at the signal once more before it calls execute.
StartBodies(tools) ==
    body' = [c \in Call |->
                IF c \in tools /\ c \in activeTasks' \ activeTasks /\ ~ aborted
                  THEN "running" ELSE body[c]]

afterAdd == IF index < MaxTasks THEN <<index + 1, "prepare">> ELSE <<1, "drain">>

AddTask ==
    /\ pc = "add"
    /\ add(prepared.declared)
    /\ runnable' = runnable \cup {c \in {index} : prepared.kind = "runnable"}
    /\ StartBodies(runnable')
    /\ stoppedAt' = IF prepared.stops THEN index ELSE stoppedAt
    /\ prepared' = Nothing
    /\ index' = afterAdd[1] /\ pc' = afterAdd[2]
    /\ UNCHANGED <<aborted, transcript, dedup>>

-----------------------------------------------------------------------------
\* Mutant: the original's result is not handed over.
finalizeResult_NotResolved ==
    /\ original[index] # index => original[index] \in resolved
    /\ UNCHANGED <<original, registered, resolved>>

\* finalizeResult: an original hands its result to its repetitions, a
\* repetition waits for that.
finalizeResult ==
    /\ original[index] # index => original[index] \in resolved
    /\ resolved' = resolved \cup ({index} \cap Originals)
    /\ UNCHANGED <<original, registered>>

\* Results, in provider order: the task's result is awaited, finalized and
\* recorded.
DispatchToolResult ==
    /\ pc = "drain" /\ index \in settled
    /\ finalizeResult
    /\ Dispatch(<<"result", index>>, IF index < MaxTasks THEN "drain" ELSE "returned")
    /\ index' = IF index < MaxTasks /\ pc' = "drain" THEN index + 1 ELSE index
    /\ schedulerUnchanged
    /\ UNCHANGED <<prepared, runnable, stoppedAt, aborted, body>>

\* Mutant: the error is passed on while tools still run.
AllSettled_NotAwaited ==
    /\ pc = "settle"
    /\ pc' = "threw"
    /\ schedulerUnchanged
    /\ UNCHANGED <<index, prepared, runnable, stoppedAt, aborted, body, transcript, dedup>>

\* The finally block: Promise.allSettled over the tasks that were added.
AllSettled ==
    /\ pc = "settle" /\ settled = Added
    /\ pc' = "threw"
    /\ schedulerUnchanged
    /\ UNCHANGED <<index, prepared, runnable, stoppedAt, aborted, body, transcript, dedup>>

-----------------------------------------------------------------------------
\* The tools and their tasks.

bodyOnly(c, state) ==
    /\ body' = [body EXCEPT ![c] = state]
    /\ UNCHANGED <<pc, index, prepared, runnable, stoppedAt, aborted, transcript, dedup>>

\* The execute promise settles, whether or not anyone still awaits it.
ToolEnds(c) ==
    /\ body[c] \in {"running", "orphaned"}
    /\ bodyOnly(c, "ended")
    /\ schedulerUnchanged

\* The result promise of a resolved or aborted task, or of a tool that ended.
ResultSettles(c) ==
    /\ settle(c)
    /\ body[c] \in {"none", "ended"}
    /\ UNCHANGED batchVars

\* Mutant: the grace timer is never armed.
GraceTimeout_NotArmed(c) == FALSE

\* raceExecuteWithGraceTimeout: two seconds after the abort the race is decided
\* against a tool that is still running, and the tool is left to itself.
GraceTimeout(c) ==
    /\ aborted /\ body[c] = "running"
    /\ settle(c)
    /\ bodyOnly(c, "orphaned")

Release(c) ==
    /\ finish(c)
    /\ StartBodies(runnable)
    /\ UNCHANGED <<pc, index, prepared, runnable, stoppedAt, aborted, transcript, dedup>>

Abort ==
    /\ ~ aborted /\ pc \notin Over
    /\ aborted' = TRUE
    /\ schedulerUnchanged
    /\ UNCHANGED <<pc, index, prepared, runnable, stoppedAt, body, transcript, dedup>>

BatchOver == pc \in Over /\ UNCHANGED vars

\* What the batch itself does, and what happens to one of its tasks.
BatchStep ==
    \/ Prepare \/ PrepareRepetition \/ PrepareSkipped \/ Authorize \/ DispatchToolCall \/ AddTask
    \/ DispatchToolResult \/ AllSettled
TaskStep(c) == ResultSettles(c) \/ GraceTimeout(c) \/ Release(c)

Next ==
    \/ BatchStep
    \/ \E c \in Call : ToolEnds(c) \/ TaskStep(c)
    \/ Abort \/ BatchOver

Spec == Init /\ [][Next]_vars

\* What the event loop and the timers provide: the function resumes once what
\* it awaits is there (hooks and dispatch return), queued microtasks run, and
\* the grace timer fires.  A tool need never end.
Progress == WF_vars(BatchStep) /\ \A c \in Call : WF_vars(TaskStep(c))

FairSpec == Spec /\ Progress

-----------------------------------------------------------------------------
AtWork == {c \in Call : body[c] \in {"running", "orphaned"}}

\* Two tools that are at work at the same time never declared conflicting
\* accesses, not even a tool the grace timeout gave up on while it still writes
\* and a queued call that the timeout lets go.
NoConflictingBodies ==
    \A c, d \in AtWork : c # d => ~ conflict(accesses[c], accesses[d])

\* What a batch records when nothing throws: its calls, then their results.
Event(i) == IF i <= MaxTasks THEN <<"call", i>> ELSE <<"result", i - MaxTasks>>

\* When the batch hands control back, no tool of it runs except those the abort
\* gave up on, no queued call can start any more, and unless an event could not
\* be recorded every tool.call has its one tool.result, in the provider's order.
NothingLeftBehind ==
    pc \in Over =>
        /\ settled = Added /\ queuedTasks = {}
        /\ \A c \in AtWork : aborted /\ body[c] = "orphaned"
        /\ pc = "returned" => transcript = [i \in 1 .. 2 * MaxTasks |-> Event(i)]

\* After an abort the batch ends even when no tool ever does.
AbortEndsBatch == aborted ~> pc \in Over

\* When tools end, so does the batch: no call waits forever for its turn.
ToolsEnd == \A c \in Call : (body[c] = "running") ~> (body[c] # "running")
BatchEnds == ToolsEnd => <>(pc \in Over)

=============================================================================
