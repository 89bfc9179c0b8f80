--------------------------------- MODULE Cron ---------------------------------
(***************************************************************************)
(* The scheduled prompts of an agent: the store and the files of the cron  *)
(* tasks (packages/agent-core/src/agent/cron/manager.ts, tools/cron/       *)
(* session-store.ts), the scheduler that looks for due tasks once a second *)
(* (tools/cron/scheduler.ts, tick) and the jitter (tools/cron/jitter.ts).  *)
(*                                                                         *)
(* The store and the scheduler's cursors are memory; every change of a     *)
(* task is queued, per id, to be written to the task's own file, and the   *)
(* fire does not wait for it.  A resumed session starts from the files.    *)
(*                                                                         *)
(* Time is counted in steps, an expression is the set of times it stands   *)
(* for (computeNextCronRun is modelled in CronExpression), and a fire has  *)
(* happened when the turn flow has taken the prompt (TurnFlow models what  *)
(* becomes of it).                                                         *)
(***************************************************************************)
EXTENDS Integers, Sequences, FiniteSetsExt

CONSTANTS
    Ids, None,
    Recurring,     \* the tasks that are created with recurring: true
    Schedule,      \* Schedule[id]: the ideal times of the task's expression
    Share,         \* Share[id]: the fraction the id is hashed to, in quarters
    JitterPart,    \* a recurring fire is late by at most this part of the period,
    JitterMax,     \* and at most by this
    RoundMarks,    \* the times (:00 and :30) at which a one-shot may be early,
    OneShotMax,    \* at most by this
    StaleAge, MaxCoalesce, MaxJobs,
    MaxTime,       \* the clock stops there (a bound)
    MaxQueue,      \* how many writes of a task wait when a tick runs (a bound)
    MaxFaults,     \* how many crashes, failed writes and clock changes (a bound)
    MaxCloses      \* how often the session is closed (a bound)

Times == 0 .. MaxTime

ASSUME CronAssumption ==
    /\ Recurring \subseteq Ids
    /\ Schedule \in [Ids -> SUBSET Times]
    /\ Share \in [Ids -> 0 .. 3]
    /\ JitterPart \in Nat \ {0, 1} /\ JitterMax \in Nat /\ OneShotMax \in Nat
    /\ StaleAge \in Nat /\ MaxCoalesce \in Nat \ {0} /\ MaxJobs \in Nat
    /\ MaxTime \in Nat /\ MaxQueue \in Nat /\ MaxFaults \in Nat /\ MaxCloses \in Nat

VARIABLES
    now,           \* the wall clock
    phase,         \* "live", "closing" (stop awaits the writes), "dead"
    busy,          \* turn.hasActiveTurn
    store,         \* store[id]: the task in memory, or None
    lastSeenAt,    \* the scheduler's cursors
    seeded,        \* seededFromDisk
    file,          \* file[id]: the task in <session>/cron/<id>.json, or None
    queue,         \* queue[id]: the writes that wait; None removes the file
    awaited,       \* how many of them the closing session waits for
    used,          \* the ids given out (no variable of the code)
    covered,       \* covered[id][t]: how many fires stood for the ideal time t (no variable)
    excuses,       \* excuses[id]: how often the task's cursor was lost (no variable)
    gone,          \* the ids whose file was removed (no variable)
    faults, closes

scheduler == <<lastSeenAt, seeded>>
disk == <<file, queue, awaited, gone>>
history == <<covered, excuses>>
vars == <<now, phase, busy, store, scheduler, disk, used, history, faults, closes>>

Task == [createdAt : Times, lastFiredAt : Times \cup {None}]

ASSUME NoneAssumption == None \notin Times /\ None \notin Task

TypeOK ==
    /\ now \in Times /\ phase \in {"live", "closing", "dead"} /\ busy \in BOOLEAN
    /\ store \in [Ids -> Task \cup {None}] /\ file \in [Ids -> Task \cup {None}]
    /\ lastSeenAt \in [Ids -> Times \cup {None}]
    /\ used \subseteq Ids /\ seeded \subseteq used /\ gone \subseteq used
    /\ queue \in [Ids -> Seq(Task \cup {None})]
    /\ awaited \in [Ids -> Nat] /\ \A id \in Ids : awaited[id] <= Len(queue[id])
    /\ DOMAIN covered = Ids /\ \A id \in Ids : covered[id] \in [Schedule[id] -> Nat]
    /\ excuses \in [Ids -> Nat]
    /\ faults \in 0 .. MaxFaults /\ closes \in 0 .. MaxCloses

Init ==
    /\ now = 0 /\ phase = "live" /\ busy = FALSE
    /\ store = [id \in Ids |-> None] /\ lastSeenAt = store /\ file = store
    /\ seeded = {} /\ used = {} /\ gone = {}
    /\ queue = [id \in Ids |-> <<>>]
    /\ awaited = [id \in Ids |-> 0]
    /\ covered = [id \in Ids |-> [t \in Schedule[id] |-> 0]]
    /\ excuses = [id \in Ids |-> 0]
    /\ faults = 0 /\ closes = 0

-----------------------------------------------------------------------------
\* Fire times.

least(a, b) == IF a <= b THEN a ELSE b

computeNextCronRun ==
    [id \in Ids |-> [from \in Times |->
        LET later == {t \in Schedule[id] : t > from}
        IN  IF later = {} THEN None ELSE Min(later)]]

\* A task without a later run counts as one with a long period.
jitteredNextCronRunMs ==
    [id \in Ids |-> [ideal \in Schedule[id] |->
        LET next == computeNextCronRun[id][ideal]
            period == IF next = None THEN JitterMax * JitterPart ELSE next - ideal
        IN  ideal + (least(period \div JitterPart, JitterMax) * Share[id]) \div 4]]

oneShotJitteredNextCronRunMs(id, createdAt, ideal) ==
    LET shifted == ideal - (OneShotMax * Share[id]) \div 4
    IN  IF ideal \in RoundMarks /\ shifted >= createdAt THEN shifted ELSE ideal

computeJitteredNext(id, base) ==
    LET ideal == computeNextCronRun[id][base]
    IN  CASE ideal = None -> None
          [] ideal # None /\ id \in Recurring -> jitteredNextCronRunMs[id][ideal]
          [] ideal # None /\ id \notin Recurring ->
                oneShotJitteredNextCronRunMs(id, store[id].createdAt, ideal)

baseFrom(id, cursor) ==
    IF cursor # None /\ cursor > store[id].createdAt THEN cursor ELSE store[id].createdAt

\* The fires since `base` whose delivery is due: all of them at once, but at
\* most MaxCoalesce.
countCoalesced(id, base) ==
    LET due == {t \in Schedule[id] : t > base /\ jitteredNextCronRunMs[id][t] <= now}
        run == {t \in due : \A u \in Schedule[id] : u > base /\ u < t => u \in due}
    IN  {t \in run : Cardinality({u \in run : u < t}) < MaxCoalesce}

-----------------------------------------------------------------------------
\* The scheduler.

persisted(id) == store[id].lastFiredAt # None /\ store[id].lastFiredAt <= now

\* The cursor of a task in a tick: the first tick that sees the task takes it
\* from the record, unless it lies in the future.
seenByTick(id) ==
    IF id \notin seeded /\ lastSeenAt[id] = None /\ persisted(id)
    THEN store[id].lastFiredAt
    ELSE lastSeenAt[id]

baseOf(id) == baseFrom(id, seenByTick(id))

nextFireAt(id) == computeJitteredNext(id, baseOf(id))

\* Mutant: a task is fired only at the time itself.
Due_Exactly(id) == store[id] # None /\ nextFireAt(id) = now

Due(id) == store[id] # None /\ nextFireAt(id) # None /\ nextFireAt(id) <= now

\* Mutant: the cursor of the record is not consulted.
nextFireFor_NoCursor(id) == computeJitteredNext(id, baseFrom(id, lastSeenAt[id]))

\* What CronList shows.
nextFireFor(id) ==
    LET cursor == IF lastSeenAt[id] # None THEN lastSeenAt[id]
                  ELSE IF persisted(id) THEN store[id].lastFiredAt ELSE None
    IN  computeJitteredNext(id, baseFrom(id, cursor))

\* isStale
isStale(id) == id \in Recurring /\ now - store[id].createdAt >= StaleAge

delivered(id) ==
    IF id \in Recurring THEN countCoalesced(id, baseOf(id))
    ELSE {computeNextCronRun[id][baseOf(id)]}

\* Mutant: the cursor advances to the clock.
advancedTo_Now(id) == now

advancedTo(id) == Max(delivered(id))

removedByFire(id) == id \notin Recurring \/ isStale(id)

\* Mutant: the cursor of a task that the fire removed is written, too.
fireWrites_Resurrect(id) ==
    (IF removedByFire(id) THEN <<None>> ELSE <<>>)
        \o (IF id \in Recurring THEN <<[store[id] EXCEPT !.lastFiredAt = advancedTo(id)]>> ELSE <<>>)

\* removeTasks or, when the store still has the task, advanceCursor.
fireWrites(id) ==
    IF removedByFire(id) THEN <<None>>
    ELSE <<[store[id] EXCEPT !.lastFiredAt = advancedTo(id)]>>

\* One round of the scheduler.  `thrown`: the tasks whose onFire throws, which
\* leaves them as they were.  The agent is idle when the round begins; the first
\* fire makes it busy, and the prompts of the others are buffered.
tick(thrown) ==
    LET tasks == {id \in Ids : store[id] # None}
        fired == {id \in tasks : Due(id)} \ thrown
        fires == [id \in fired |-> delivered(id)]
        ignored == {id \in tasks \ seeded : store[id].lastFiredAt # None /\ ~persisted(id)}
    IN  /\ phase = "live" /\ ~busy /\ tasks # {}
        /\ \A id \in Ids : Len(queue[id]) <= MaxQueue
        /\ busy' = (fired # {})
        /\ store' = [id \in Ids |->
                        IF id \notin fired THEN store[id]
                        ELSE IF removedByFire(id) THEN None
                        ELSE [store[id] EXCEPT !.lastFiredAt = advancedTo(id)]]
        /\ lastSeenAt' = [id \in Ids |->
                        IF id \notin tasks THEN lastSeenAt[id]
                        ELSE IF id \notin fired THEN seenByTick(id)
                        ELSE IF id \in Recurring THEN advancedTo(id) ELSE None]
        /\ seeded' = (seeded \cup tasks) \ (fired \ Recurring)
        /\ queue' = [id \in Ids |->
                        IF id \in fired THEN queue[id] \o fireWrites(id) ELSE queue[id]]
        /\ covered' = [id \in Ids |-> [t \in Schedule[id] |->
                        IF id \in fired /\ t \in fires[id]
                        THEN covered[id][t] + 1 ELSE covered[id][t]]]
        /\ excuses' = [id \in Ids |-> IF id \in ignored THEN excuses[id] + 1 ELSE excuses[id]]
        /\ UNCHANGED <<now, phase, file, awaited, gone, used, faults, closes>>

-----------------------------------------------------------------------------
\* The tools, in a turn.

\* CronCreate, which looks at the number of tasks when it executes.
addTask(id) ==
    /\ busy /\ phase # "dead" /\ id \notin used
    /\ Cardinality({i \in Ids : store[i] # None}) < MaxJobs
    /\ used' = used \cup {id}
    /\ store' = [store EXCEPT ![id] = [createdAt |-> now, lastFiredAt |-> None]]
    /\ queue' = [queue EXCEPT ![id] = Append(@, store'[id])]
    /\ UNCHANGED <<now, phase, busy, scheduler, file, awaited, gone, history,
                   faults, closes>>

\* CronDelete
removeTasks(id) ==
    /\ busy /\ phase # "dead" /\ store[id] # None
    /\ store' = [store EXCEPT ![id] = None]
    /\ queue' = [queue EXCEPT ![id] = Append(@, None)]
    /\ UNCHANGED <<now, phase, busy, scheduler, file, awaited, gone, used, history,
                   faults, closes>>

turn(starts) ==
    /\ phase # "dead" /\ busy # starts /\ busy' = starts
    /\ UNCHANGED <<now, phase, store, scheduler, disk, used, history, faults, closes>>

-----------------------------------------------------------------------------
\* The files.

written(id) ==
    /\ queue[id] # <<>> /\ phase # "dead"
    /\ queue' = [queue EXCEPT ![id] = Tail(@)]
    /\ awaited' = [awaited EXCEPT ![id] = IF @ > 0 THEN @ - 1 ELSE 0]

\* A file is replaced by rename or unlinked: in one step.
persistEnqueue(id) ==
    /\ written(id)
    /\ file' = [file EXCEPT ![id] = Head(queue[id])]
    /\ gone' = IF Head(queue[id]) = None THEN gone \cup {id} ELSE gone
    /\ UNCHANGED <<now, phase, busy, store, scheduler, used, history, faults, closes>>

\* A write that fails is logged and forgotten.
persistFails(id) ==
    /\ faults < MaxFaults /\ faults' = faults + 1
    /\ written(id)
    /\ excuses' = [excuses EXCEPT ![id] = @ + 1]
    /\ UNCHANGED <<now, phase, busy, store, scheduler, file, gone, used, covered, closes>>

-----------------------------------------------------------------------------
\* The session's end and its resumption.

\* stop: the scheduler forgets its cursors, and the session waits for the writes
\* that are queued at this moment.
stop ==
    /\ phase = "live" /\ closes < MaxCloses /\ closes' = closes + 1
    /\ phase' = "closing"
    /\ lastSeenAt' = [id \in Ids |-> None] /\ seeded' = {}
    /\ awaited' = [id \in Ids |-> Len(queue[id])]
    /\ UNCHANGED <<now, busy, store, file, queue, gone, used, history, faults>>

process_ends ==
    /\ phase' = "dead" /\ busy' = FALSE
    /\ store' = [id \in Ids |-> None] /\ lastSeenAt' = store' /\ seeded' = {}
    /\ queue' = [id \in Ids |-> <<>>]
    /\ awaited' = [id \in Ids |-> 0]
    /\ UNCHANGED <<now, file, gone, used, covered, closes>>

\* Mutant: the writes are not waited for.
closed_NotFlushed ==
    /\ phase = "closing"
    /\ process_ends
    /\ UNCHANGED <<excuses, faults>>

\* flushPersist has returned.  A turn that went on may have queued more, which
\* is lost.
closed ==
    /\ phase = "closing" /\ \A id \in Ids : awaited[id] = 0
    /\ process_ends
    /\ UNCHANGED <<excuses, faults>>

crash ==
    /\ phase # "dead" /\ faults < MaxFaults /\ faults' = faults + 1
    /\ excuses' = [id \in Ids |-> IF queue[id] # <<>> THEN excuses[id] + 1 ELSE excuses[id]]
    /\ process_ends

\* The constructor and, behind the replay, loadFromDisk.
loadFromDisk ==
    /\ phase = "dead"
    /\ phase' = "live"
    /\ store' = file
    /\ UNCHANGED <<now, busy, scheduler, disk, used, history, faults, closes>>

Pass ==
    /\ now < MaxTime /\ now' = now + 1
    /\ UNCHANGED <<phase, busy, store, scheduler, disk, used, history, faults, closes>>

\* The wall clock is set back.
SetBack ==
    /\ faults < MaxFaults /\ faults' = faults + 1
    /\ \E t \in Times : t < now /\ now' = t
    /\ UNCHANGED <<phase, busy, store, scheduler, disk, used, history, closes>>

Next ==
    \/ \E thrown \in SUBSET {id \in Ids : Due(id)} : tick(thrown)
    \/ \E id \in Ids : addTask(id) \/ removeTasks(id)
    \/ \E starts \in BOOLEAN : turn(starts)
    \/ \E id \in Ids : persistEnqueue(id) \/ persistFails(id)
    \/ stop \/ closed \/ crash \/ loadFromDisk
    \/ Pass \/ SetBack

Spec == Init /\ [][Next]_vars

\* The timer of the scheduler does not stop while the session lives, so that it
\* meets the agent idle if the agent is idle again and again; turns end
\* (TurnFlow), file operations settle, and a fire that throws throws at most
\* for a while.
FairSpec ==
    /\ Spec
    /\ SF_vars(tick({}))
    /\ WF_vars(turn(FALSE))
    /\ WF_vars(\E id \in Ids : persistEnqueue(id))

-----------------------------------------------------------------------------
\* Properties.

\* No ideal time of a task is delivered twice, not in another session either:
\* only a write of the task that was lost, or a record that lies in the future of
\* the clock and is ignored, can repeat a fire, and each of them only once.
CoveredOnce ==
    \A id \in Ids : \A t \in Schedule[id] : covered[id][t] <= 1 + excuses[id]

\* A cursor never passes an ideal time that was not delivered: neither the
\* scheduler's nor the one that a resumed session will start from; also not when
\* a round stops at the cap on coalesced fires.
NoneSkipped ==
    \A id \in Ids : \A t \in Schedule[id] :
        covered[id][t] = 0 =>
            /\ (store[id] # None /\ store[id].createdAt < t /\ lastSeenAt[id] # None)
                  => lastSeenAt[id] < t
            /\ (file[id] # None /\ file[id].createdAt < t /\ file[id].lastFiredAt # None)
                  => file[id].lastFiredAt < t

\* A task whose file was removed (it was deleted, it was a one-shot that fired,
\* it was stale) does not come back.
GoneStaysGone ==
    \A id \in gone : store[id] = None /\ file[id] = None

\* What CronList shows as the next fire of a task is what the scheduler will
\* do, on the first tick of a resumed session, too; except when that tick found
\* the record's cursor in the future and ignored it, at the price of a repeat.
ListTellsTheTick ==
    \A id \in Ids :
        store[id] # None /\ phase = "live" =>
            \/ nextFireFor(id) = nextFireAt(id)
            \/ id \in seeded /\ lastSeenAt[id] = None /\ excuses[id] > 0

\* A task that is due does not stay due: it is delivered (or deleted, or the
\* session ends, or the clock is set back), and a recurring task that is stale is
\* delivered only once more.
DueIsDelivered ==
    \A id \in Ids :
        []<>~(phase = "live" /\ store[id] # None /\ nextFireAt(id) \in 0 .. now)

=============================================================================
