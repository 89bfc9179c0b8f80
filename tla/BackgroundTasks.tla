--------------------------- MODULE BackgroundTasks ---------------------------
(***************************************************************************)
(* BackgroundManager: tasks that outlive the turn that started them        *)
(* (packages/agent-core/src/agent/background, tools/background, and the    *)
(* part of Agent.resume that restores them).                               *)
(*                                                                         *)
(* A task is registered as running, ends by itself or is stopped, and its  *)
(* end is announced to the model once, as a message in the context.  Each  *)
(* change of a task is written to <task>.json through a queue per task;    *)
(* what follows a write in the code (a continuation after `await           *)
(* persistLive`) is the `then` of its entry in the queue.                  *)
(*                                                                         *)
(* The process may die between any two steps: the memory is lost, the task *)
(* files and a prefix of the context's records stay.  Agent.resume then    *)
(* replays the records, marks the tasks that were running as lost, and     *)
(* announces every end that the context does not mention.                  *)
(*                                                                         *)
(* The context takes no message between a tool call and its result: an     *)
(* announcement that comes then is deferred.  If the process dies there,   *)
(* the result never comes.  One partition of the context is modelled.      *)
(***************************************************************************)
EXTENDS Naturals, Sequences, FiniteSets

CONSTANTS
    Task,              \* ids; an id is used once
    Caller,            \* callers of stop, and of TaskStop (a bound)
    Waiter,            \* callers of wait (a bound)
    MaxRunningTasks,   \* config: background.maxRunningTasks
    MaxCrashes         \* how often the process dies (a bound)

ASSUME BoundsAssumption ==
    /\ MaxRunningTasks \in Nat
    /\ MaxCrashes \in Nat

None == "none"
ASSUME TaskAssumption ==
    /\ None \notin Task
    /\ {"nothing", "settle"} \cap Caller = {}     \* a write's `then` is told by its value

VARIABLES
    phase,        \* "live", or where Agent.resume is
    tasks,        \* the map of live tasks
    ghosts,       \* tasks loaded from disk
    disk,         \* the task files
    writes,       \* per task, the snapshots still to be written
    caller,       \* where each call of stop is
    waiting,      \* the task whose waiters hold this call of wait
    scheduled,    \* scheduledNotificationKeys
    building,     \* notifications that wait for the task's output
    steered,      \* notifications in the turn's steerBuffer
    history,      \* notifications that came into the context: deliveredNotificationKeys
    pending,      \* pendingToolResultIds: empty, of a live turn, or left by a crash
    deferred,     \* notifications that wait for the results
    recorded,     \* what the records on disk make of the context: how much of the
    saved,        \*   history, and what of the two others
    dropped,      \* history: tasks whose announcement this process threw away
    crashes,
    unsafe        \* tasks a write of whose file has failed (no variable of the code)

memory == <<tasks, ghosts, writes, caller, waiting, scheduled, building, steered>>
context == <<history, pending, deferred, dropped>>
records == <<recorded, saved>>
vars == <<phase, memory, disk, context, records, crashes, unsafe>>

Outcomes == {"completed", "failed", "timed_out", "killed"}
Terminal == Outcomes \cup {"lost"}
Status == {"running"} \cup Terminal

Info == [status : Status, suppressed : BOOLEAN]
Entry ==
    [kind : {"process", "agent"},        \* a question ends like an agent
     status : {"running"} \cup Outcomes, suppressed : BOOLEAN, aborted : BOOLEAN,
     alive : BOOLEAN,                     \* its process or subagent
     terminalFired : BOOLEAN]
Absent == [status |-> "absent"]          \* an empty slot of a map
Key == Task \X Terminal
Then == {"nothing", "settle"} \cup Caller
Idle == [pc |-> "idle", task |-> None]
CallerState == [pc : {"idle", "suppress", "stop", "grace", "force"}, task : Task \cup {None}]

Exchange == {"none", "live", "left"}
Saved == [pending : Exchange, deferred : Seq(Key)]

Elements(s) == {s[i] : i \in DOMAIN s}
TasksIn(s) == {s[i][1] : i \in DOMAIN s}
Live(t) == tasks[t] # Absent
Ended(t) == tasks[t].status \in Terminal

TypeOK ==
    /\ phase \in {"live", "reconcile", "restore"}
    /\ tasks \in [Task -> Entry \cup {Absent}]
    /\ ghosts \in [Task -> Info \cup {Absent}]
    /\ disk \in [Task -> Info \cup {Absent}]
    /\ writes \in [Task -> Seq([info : Info, then : Then])]
    /\ caller \in [Caller -> CallerState]
    /\ waiting \in [Waiter -> Task \cup {None}]
    /\ scheduled \subseteq Key /\ building \subseteq Key /\ steered \subseteq Key
    /\ history \in Seq(Key)
    /\ pending \in Exchange /\ deferred \in Seq(Key)
    /\ recorded \in 0 .. Len(history) /\ saved \in Saved
    /\ dropped \subseteq Task
    /\ crashes \in 0 .. MaxCrashes
    /\ unsafe \subseteq Task

EmptyMemory ==
    /\ tasks' = [t \in Task |-> Absent]
    /\ writes' = [t \in Task |-> <<>>]
    /\ caller' = [c \in Caller |-> Idle]
    /\ waiting' = [w \in Waiter |-> None]
    /\ scheduled' = {} /\ building' = {} /\ steered' = {}

Init ==
    /\ phase = "live"
    /\ tasks = [t \in Task |-> Absent] /\ ghosts = [t \in Task |-> Absent]
    /\ disk = [t \in Task |-> Absent]
    /\ writes = [t \in Task |-> <<>>]
    /\ caller = [c \in Caller |-> Idle] /\ waiting = [w \in Waiter |-> None]
    /\ scheduled = {} /\ building = {} /\ steered = {}
    /\ history = <<>> /\ pending = "none" /\ deferred = <<>> /\ dropped = {}
    /\ recorded = 0 /\ saved = [pending |-> "none", deferred |-> <<>>]
    /\ crashes = 0 /\ unsafe = {}

-----------------------------------------------------------------------------
\* Writing task files.

toInfo(entry) == [status |-> entry.status, suppressed |-> entry.suppressed]

\* The queue takes a snapshot of the task as it is after the change.
persistLive(t, entry, then) ==
    /\ tasks' = [tasks EXCEPT ![t] = entry]
    /\ writes' = [writes EXCEPT ![t] = Append(@, [info |-> toInfo(entry), then |-> then])]

Suppressed(t) ==
    \/ Live(t) /\ tasks[t].suppressed
    \/ ghosts[t] # Absent /\ ghosts[t].suppressed

\* buildBackgroundTaskNotificationContext up to its await.
Schedule(key) ==
    IF Suppressed(key[1]) \/ key \in scheduled \/ key \in Elements(history)
      THEN UNCHANGED <<scheduled, building>>
      ELSE scheduled' = scheduled \cup {key} /\ building' = building \cup {key}

resolveWaiters(t) == waiting' = [w \in Waiter |-> IF waiting[w] = t THEN None ELSE waiting[w]]

\* What follows the write of a settlement: fireTerminalEffects, resolveWaiters.
fireTerminalEffects(t) ==
    /\ IF tasks[t].terminalFired
         THEN UNCHANGED <<tasks, scheduled, building>>
         ELSE /\ tasks' = [tasks EXCEPT ![t].terminalFired = TRUE]
              /\ Schedule(<<t, tasks[t].status>>)
    /\ resolveWaiters(t)

\* The oldest write of t ends, or fails unnoticed, and its continuation runs.
WriteDone(t) ==
    /\ phase = "live"
    /\ writes[t] # <<>>
    /\ LET w == Head(writes[t])
       IN  /\ \/ disk' = [disk EXCEPT ![t] = w.info] /\ UNCHANGED unsafe
              \/ unsafe' = unsafe \cup {t} /\ UNCHANGED disk
           /\ writes' = [writes EXCEPT ![t] = Tail(@)]
           /\ CASE w.then = "settle" -> fireTerminalEffects(t) /\ UNCHANGED caller
                [] w.then \in Caller ->
                     /\ caller' = [caller EXCEPT ![w.then].pc = "stop"]
                     /\ UNCHANGED <<tasks, waiting, scheduled, building>>
                [] OTHER -> UNCHANGED <<tasks, caller, waiting, scheduled, building>>
    /\ UNCHANGED <<phase, ghosts, steered, context, records, crashes>>

-----------------------------------------------------------------------------
\* The life of a task.

runningTasks == {t \in Task : tasks[t].status = "running"}

assertCanRegister == Cardinality(runningTasks) < MaxRunningTasks

\* An id is random: nothing that is left of an earlier task has it.
Fresh(t) ==
    /\ ~ Live(t) /\ ghosts[t] = Absent /\ disk[t] = Absent
    /\ t \notin TasksIn(history) \cup TasksIn(deferred) \cup TasksIn(saved.deferred) \cup dropped

registerTask(t) ==
    /\ phase = "live"
    /\ Fresh(t)
    /\ assertCanRegister
    /\ \E kind \in {"process", "agent"} :
          persistLive(t, [kind |-> kind, status |-> "running", suppressed |-> FALSE,
                          aborted |-> FALSE, alive |-> TRUE, terminalFired |-> FALSE], "nothing")
    /\ UNCHANGED <<phase, ghosts, disk, caller, waiting, scheduled, building, steered,
                   context, records, crashes, unsafe>>

\* The first settlement wins; killing what was killed only writes it again.
settleTask(t, entry, outcome) ==
    /\ IF entry.status \in Terminal
         THEN IF entry.status = "killed" /\ outcome = "killed"
                THEN persistLive(t, entry, "settle")
                ELSE tasks' = [tasks EXCEPT ![t] = entry] /\ UNCHANGED writes
         ELSE persistLive(t, [entry EXCEPT !.status = outcome], "settle")
    /\ UNCHANGED <<scheduled, building>>

\* How a task that is over reports itself: an exited process by its signal and
\* exit code, an agent by its result, its error, or its deadline.
Reports(entry) ==
    IF entry.kind = "process"
      THEN IF entry.aborted THEN {"killed"} ELSE {"completed", "failed"}
      ELSE {"completed", "failed", "timed_out"} \cup (IF entry.aborted THEN {"killed"} ELSE {})

TaskOver(t) ==
    /\ phase = "live"
    /\ Live(t) /\ tasks[t].alive
    /\ \E outcome \in Reports(tasks[t]) :
          settleTask(t, [tasks[t] EXCEPT !.alive = FALSE], outcome)
    /\ UNCHANGED <<phase, ghosts, disk, caller, waiting, steered, context, records, crashes, unsafe>>

-----------------------------------------------------------------------------
\* Stopping a task.

At(c, pc, t) == caller' = [caller EXCEPT ![c] = [pc |-> pc, task |-> t]]

\* stop up to its race between the end of the task and the grace timer.
Stop(c, t) ==
    /\ IF tasks[t].status \in Terminal
         THEN caller' = [caller EXCEPT ![c] = Idle] /\ UNCHANGED tasks
         ELSE /\ tasks' = [tasks EXCEPT ![t].aborted = TRUE]
              /\ At(c, "grace", t)
    /\ UNCHANGED writes

\* Called over RPC, by stopAll, or by the timeout of a command.
stop(c, t) ==
    /\ phase = "live"
    /\ caller[c].pc = "idle" /\ Live(t)
    /\ Stop(c, t)
    /\ UNCHANGED <<phase, ghosts, disk, waiting, scheduled, building, steered,
                   context, records, crashes, unsafe>>

\* Mutant: the tool silences a task without looking at its status.
CanSilence_Always(t) == TRUE

CanSilence(t) == t \in runningTasks

\* The TaskStop tool: suppressTerminalNotification, then stop.
TaskStop(c, t) ==
    /\ phase = "live"
    /\ caller[c].pc = "idle" /\ Live(t) /\ CanSilence(t)
    /\ IF tasks[t].suppressed
         THEN Stop(c, t)
         ELSE /\ persistLive(t, [tasks[t] EXCEPT !.suppressed = TRUE], c)
              /\ At(c, "suppress", t)
    /\ UNCHANGED <<phase, ghosts, disk, waiting, scheduled, building, steered,
                   context, records, crashes, unsafe>>

StopSilenced(c) ==
    /\ caller[c].pc = "stop"
    /\ Stop(c, caller[c].task)
    /\ UNCHANGED <<scheduled, building>>

\* The task has ended, or the grace period is over: SIGKILL, if it is a process.
GraceOver(c) ==
    /\ caller[c].pc = "grace"
    /\ IF Ended(caller[c].task)
         THEN caller' = [caller EXCEPT ![c] = Idle]
         ELSE At(c, "force", caller[c].task)
    /\ UNCHANGED <<tasks, writes, scheduled, building>>

\* Mutant: stop gives up after the force stop.
Forced_GivesUp(c) ==
    /\ caller[c].pc = "force"
    /\ caller' = [caller EXCEPT ![c] = Idle]
    /\ UNCHANGED <<tasks, writes, scheduled, building>>

\* forceStop has returned, or thrown; whatever has not ended by now is killed.
Forced(c) ==
    /\ caller[c].pc = "force"
    /\ caller' = [caller EXCEPT ![c] = Idle]
    /\ IF Ended(caller[c].task)
         THEN UNCHANGED <<tasks, writes, scheduled, building>>
         ELSE settleTask(caller[c].task, tasks[caller[c].task], "killed")

StopProceeds(c) ==
    /\ phase = "live"
    /\ StopSilenced(c) \/ GraceOver(c) \/ Forced(c)
    /\ UNCHANGED <<phase, ghosts, disk, waiting, steered, context, records, crashes, unsafe>>

-----------------------------------------------------------------------------
\* wait, as TaskOutput calls it: until the task ends or a timeout.

wait(w, t) ==
    /\ phase = "live"
    /\ waiting[w] = None /\ Live(t) /\ ~ Ended(t)
    /\ waiting' = [waiting EXCEPT ![w] = t]
    /\ UNCHANGED <<phase, tasks, ghosts, disk, writes, caller, scheduled, building, steered,
                   context, records, crashes, unsafe>>

WaitTimeout(w) ==
    /\ phase = "live"
    /\ waiting[w] # None
    /\ waiting' = [waiting EXCEPT ![w] = None]
    /\ UNCHANGED <<phase, tasks, ghosts, disk, writes, caller, scheduled, building, steered,
                   context, records, crashes, unsafe>>

-----------------------------------------------------------------------------
\* The context.

\* appendMessage, of one message after the other.
appendMessages(s) ==
    /\ IF pending = "none" THEN history' = history \o s /\ UNCHANGED deferred
                           ELSE deferred' = deferred \o s /\ UNCHANGED history
    /\ UNCHANGED <<pending, dropped>>

\* The records reach the disk in order: now all, and the messages s behind them.
Record(s) ==
    IF pending = "none"
      THEN recorded' = Len(history) + Len(s) /\ saved' = [pending |-> "none", deferred |-> <<>>]
      ELSE recorded' = Len(history) /\ saved' = [pending |-> pending, deferred |-> deferred \o s]

flushRecords == Record(<<>>) /\ UNCHANGED <<phase, memory, disk, context, crashes, unsafe>>

\* A call of a tool opens the exchange, the last result closes it; a result is
\* not the one that an earlier process still owed.
toolCall ==
    /\ phase = "live" /\ pending = "none"
    /\ pending' = "live"
    /\ UNCHANGED <<phase, memory, disk, history, deferred, dropped, records, crashes, unsafe>>

toolResult ==
    /\ phase = "live" /\ pending = "live"
    /\ pending' = "none"
    /\ history' = history \o deferred /\ deferred' = <<>>
    /\ UNCHANGED <<phase, memory, disk, dropped, records, crashes, unsafe>>

\* The user undoes or clears: the exchange is forgotten with all that waits for it.
undoOrClear ==
    /\ phase = "live" /\ pending # "none"
    /\ pending' = "none" /\ deferred' = <<>>
    /\ dropped' = dropped \cup TasksIn(deferred)
    /\ UNCHANGED <<phase, memory, disk, history, records, crashes, unsafe>>

-----------------------------------------------------------------------------
\* Announcing an end.

\* The output is there: an idle agent takes the notification up at once, a busy
\* one keeps it in its steerBuffer.
notifyBackgroundTask(key) ==
    /\ phase = "live"
    /\ key \in building
    /\ building' = building \ {key}
    /\ IF Suppressed(key[1])
         THEN UNCHANGED <<steered, context>>
         ELSE \/ appendMessages(<<key>>) /\ UNCHANGED steered
              \/ steered' = steered \cup {key} /\ UNCHANGED context
    /\ UNCHANGED <<phase, tasks, ghosts, disk, writes, caller, waiting, scheduled, records, crashes, unsafe>>

\* A turn begins a step: its steers go into the context, in some order.  What is
\* written of their records may end with any of them.
flushSteerBuffer ==
    /\ phase = "live" /\ steered # {}
    /\ \E s \in [1 .. Cardinality(steered) -> steered] :
          /\ Elements(s) = steered
          /\ appendMessages(s)
          /\ UNCHANGED records \/ \E n \in DOMAIN s : Record(SubSeq(s, 1, n))
    /\ steered' = {}
    /\ UNCHANGED <<phase, tasks, ghosts, disk, writes, caller, waiting, scheduled, building,
                   crashes, unsafe>>

-----------------------------------------------------------------------------
\* Dying and resuming.  Between a crash and the end of resume nothing else runs.

Crash ==
    /\ crashes < MaxCrashes
    /\ crashes' = crashes + 1
    /\ phase' = "reconcile"
    /\ EmptyMemory
    /\ ghosts' = disk                               \* loadFromDisk
    /\ history' = SubSeq(history, 1, recorded)      \* records.replay
    /\ pending' = IF saved.pending = "none" THEN "none" ELSE "left"
    /\ deferred' = saved.deferred
    /\ dropped' = {}
    /\ UNCHANGED <<disk, records, unsafe>>

Running(t) == ghosts[t].status = "running"

markLoadedTasksLost(t) ==
    /\ phase = "reconcile" /\ Running(t)
    /\ ghosts' = [ghosts EXCEPT ![t].status = "lost"]
    /\ disk' = [disk EXCEPT ![t] = ghosts'[t]]
    /\ UNCHANGED <<phase, tasks, writes, caller, waiting, scheduled, building, steered,
                   context, records, crashes, unsafe>>

AllMarked ==
    /\ phase = "reconcile" /\ \A t \in Task : ~ Running(t)
    /\ phase' = "restore"
    /\ UNCHANGED <<memory, disk, context, records, crashes, unsafe>>

\* Mutant: reconcile announces what the context already holds.
ToRestore_All ==
    {t \in Task :
       /\ ghosts[t] # Absent /\ ~ Suppressed(t)
       /\ <<t, ghosts[t].status>> \notin scheduled}

\* Mutant: only the tasks that were cut off are announced.
ToRestore_LostOnly ==
    {t \in Task :
       /\ ghosts[t].status = "lost" /\ ~ Suppressed(t)
       /\ <<t, ghosts[t].status>> \notin scheduled \cup Elements(history)}

ToRestore ==
    {t \in Task :
       /\ ghosts[t] # Absent /\ ~ Suppressed(t)
       /\ <<t, ghosts[t].status>> \notin scheduled \cup Elements(history)}

restoreBackgroundTaskNotification(t) ==
    /\ phase = "restore" /\ t \in ToRestore
    /\ scheduled' = scheduled \cup {<<t, ghosts[t].status>>}
    /\ appendMessages(<< <<t, ghosts[t].status>> >>)
    /\ UNCHANGED <<phase, tasks, ghosts, disk, writes, caller, waiting, building, steered,
                   records, crashes, unsafe>>

Resumed ==
    /\ phase = "restore" /\ ToRestore = {}
    /\ phase' = "live"
    /\ UNCHANGED <<memory, disk, context, records, crashes, unsafe>>

Resume == AllMarked \/ Resumed
    \/ \E t \in Task : markLoadedTasksLost(t) \/ restoreBackgroundTaskNotification(t)

-----------------------------------------------------------------------------
Next ==
    \/ \E t \in Task : registerTask(t) \/ TaskOver(t) \/ WriteDone(t)
    \/ \E c \in Caller, t \in Task : stop(c, t) \/ TaskStop(c, t)
    \/ \E c \in Caller : StopProceeds(c)
    \/ \E w \in Waiter : WaitTimeout(w) \/ \E t \in Task : wait(w, t)
    \/ \E key \in Key : notifyBackgroundTask(key)
    \/ toolCall \/ toolResult \/ undoOrClear
    \/ flushSteerBuffer \/ flushRecords
    \/ Crash \/ Resume

Spec == Init /\ [][Next]_vars

\* Writes end, timers fire, outputs are read, calls of tools end, a later step
\* takes up what was steered, a resume goes on.  No task need ever end, no wait ever time out.
FairSpec ==
    /\ Spec
    /\ \A t \in Task : WF_vars(WriteDone(t))
    /\ \A c \in Caller : WF_vars(StopProceeds(c))
    /\ \A key \in Key : WF_vars(notifyBackgroundTask(key))
    /\ WF_vars(toolResult) /\ WF_vars(flushSteerBuffer)
    /\ WF_vars(Resume)

-----------------------------------------------------------------------------
Announced == Elements(history) \cup Elements(deferred) \cup steered

\* The model is never told of two ends of one task, however the end races with a
\* stop and whenever the process dies: neither twice, nor as completed and lost.
\* (A write that fails is swallowed, and then the next process finds the task lost.)
AnnouncedOnce ==
    \A i, j \in DOMAIN history :
        history[i][1] = history[j][1] /\ history[i][1] \notin unsafe => i = j

\* A task that the model itself stopped is not announced to it.
SilencedIsSilent == \A key \in Announced : ~ Suppressed(key[1])

\* Every end in a task file that nobody silenced comes into the context, with two
\* exceptions.  A call that a crash cut off from its result holds back whatever
\* comes after it, and the user's undo or clear throws away what is held back; only
\* the next process announces that again (appendMessage, undo, clear, reconcile).
HeldBack(t) == pending = "left" /\ t \in TasksIn(deferred)
EveryEndAnnounced ==
    \A t \in Task :
        (disk[t].status \in Terminal /\ ~ disk[t].suppressed)
            ~> t \in TasksIn(history) \cup dropped \/ HeldBack(t)

\* Whoever waits for the end of a task comes back: a stop, with the task ended
\* even if it ignores it, and a wait for a task that has ended, without its
\* timeout (stop, wait, resolveWaiters).
StopEnds ==
    \A c \in Caller, t \in Task :
        (caller[c] = [pc |-> "grace", task |-> t])
            ~> (caller[c].pc = "idle" /\ t \notin runningTasks)
WaiterWoken ==
    \A w \in Waiter, t \in Task : (waiting[w] = t /\ Ended(t)) ~> waiting[w] # t
CallersComeBack == StopEnds /\ WaiterWoken

=============================================================================
