------------------------------ MODULE GoalStore ------------------------------
(***************************************************************************)
(* The goal of a session (packages/agent-core/src/session/goal.ts), the    *)
(* file it is kept in (writeMetadata of session/index.ts) and the goal     *)
(* drive that spends it (agent/turn/index.ts, turnWorker and driveGoal).   *)
(*                                                                         *)
(* The goal is an object of the session's metadata that every operation    *)
(* changes in place, before its first await; the metadata is turned into   *)
(* text in the same frame, and the writes of the texts are chained.  What  *)
(* an operation does behind its await, it does when its own write is done, *)
(* with the object as it is then: so an entry of the chain carries the     *)
(* operation that waits for it.                                            *)
(*                                                                         *)
(* The user, over rpc, and the agent (one turn at a time: its accounting,  *)
(* its tools, its drive) call the operations at any time.  Objectives and  *)
(* reasons are left out.                                                   *)
(***************************************************************************)
EXTENDS Integers, Sequences, SequencesExt, FiniteSets

CONSTANTS
    None, Torn,
    Budgets,       \* the turn budgets that may be set
    MaxGoals,      \* how many goals are remembered at once (a bound)
    MaxWrites,     \* how many writes wait at once (a bound on callers, too)
    MaxCount,      \* turnsUsed stays there (a bound)
    MaxCrashes     \* how often the process dies (a bound)

ASSUME BoundsAssumption ==
    /\ Budgets \subseteq Nat
    /\ MaxGoals \in Nat /\ MaxWrites \in Nat \ {0} /\ MaxCount \in Nat
    /\ MaxCrashes \in Nat

VARIABLES
    objects,       \* objects[g]: the goal object g, None when nobody holds it
    current,       \* metadata.custom.goal: which object, or None
    disk,          \* the goal in state.json, or None; Torn when a write was cut
    writes,        \* writeMetadataPromise: the texts to write, with who awaits them
    phase,         \* "live", "resuming" (normalizeMetadata awaits), "dead", "unreadable"
    pc,            \* the agent: "idle", "turn", "ended" (a tool ended the turn), "await"
    turn,          \* its turn: whether a drive runs it, whether it was launched while a goal
                   \* was paused or blocked, and where the agent goes on after the write it awaits
    owing,         \* history: the goals of whose end there is no goal.clear record
    excused,       \* history: those of them that are gone, and never get it: the write
                   \* of their removal failed, another goal overwrote them, or the
                   \* process died
    shown,         \* the last onGoalUpdated
    missed,        \* a failed write or a crash kept it from being told (no variable)
    crashes

memory == <<objects, current>>
told == <<owing, excused, shown, missed>>
agent == <<pc, turn>>
vars == <<memory, disk, writes, phase, agent, told, crashes>>

Status == {"active", "paused", "blocked"}
Goals == 1 .. MaxGoals
Limit == Budgets \cup {None}

Goal == [status : Status \cup {"complete"}, turns : 0 .. MaxCount, turnBudget : Limit]
Text == [id : Goals, goal : {g \in Goal : g.status # "complete"}] \cup {None}
Word == [id : Goals, status : Status \cup {"complete"}] \cup {None}
Operation ==
    [who : {"user", "agent", "session"},
     kind : {"status", "create", "budget", "count", "usage", "clear", "replace", "nothing"},
     goal : Goals \cup {None}]
Turn == [drive : BOOLEAN, resumable : BOOLEAN, after : {"idle", "turn", "ended", None}]

ASSUME ValuesAssumption ==
    /\ None \notin Goals /\ None \notin Status \cup {"complete", "idle", "turn", "ended"}
    /\ None \notin Goal /\ None \notin [id : Goals, goal : Goal]
    /\ Torn \notin Text

TypeOK ==
    /\ objects \in [Goals -> Goal \cup {None}]
    /\ current \in Goals \cup {None}
    /\ disk \in Text \cup {Torn}
    /\ writes \in Seq([text : Text, op : Operation]) /\ Len(writes) <= MaxWrites
    /\ phase \in {"live", "resuming", "dead", "unreadable"}
    /\ pc \in {"idle", "turn", "ended", "await"} /\ turn \in Turn
    /\ shown \in Word
    /\ owing \subseteq Goals /\ excused \subseteq Goals
    /\ missed \in BOOLEAN /\ crashes \in 0 .. MaxCrashes

NoTurn == [drive |-> FALSE, resumable |-> FALSE, after |-> None]

Init ==
    /\ objects = [g \in Goals |-> None] /\ current = None /\ disk = None /\ writes = <<>>
    /\ phase = "live" /\ pc = "idle" /\ turn = NoTurn
    /\ owing = {} /\ excused = {} /\ shown = None /\ missed = FALSE
    /\ crashes = 0

-----------------------------------------------------------------------------
\* Goals.

readState == IF current = None THEN [status |-> None] ELSE objects[current]

\* Mutant: a budget is reached when it is exceeded.
computeBudgetReport_Exceeded(state) ==
    state.turnBudget # None /\ state.turns > state.turnBudget

\* overBudget.
computeBudgetReport(state) ==
    state.turnBudget # None /\ state.turns >= state.turnBudget

\* The clock that applyStatus starts and stops is left out.
applyStatus(state, status) == [state EXCEPT !.status = status]

atMost(n) == IF n > MaxCount THEN MaxCount ELSE n

-----------------------------------------------------------------------------
\* writeState: the metadata's text joins the chain, and `op` waits for it.

textOf(objs, g) == IF g = None THEN None ELSE [id |-> g, goal |-> objs[g]]

Enqueue(objs, g, op) ==
    writes' = Append(writes, [text |-> textOf(objs, g), op |-> op])

\* An operation that awaits its write: who called it, what it does behind the
\* await, and the object it holds.
Op(who, kind, g) == [who |-> who, kind |-> kind, goal |-> g]

\* Mutant: the metadata is turned into text before the change.
Store_TextFirst(who, kind, state) ==
    /\ objects' = [objects EXCEPT ![current] = state]
    /\ UNCHANGED current
    /\ Enqueue(objects, current, Op(who, kind, current))

\* A change of the current goal's object and the write of it.
Store(who, kind, state) ==
    /\ objects' = [objects EXCEPT ![current] = state]
    /\ UNCHANGED current
    /\ Enqueue(objects', current, Op(who, kind, current))

Clear(who, kind) ==
    /\ current' = None
    /\ UNCHANGED objects
    /\ Enqueue(objects, None, Op(who, kind, current))

-----------------------------------------------------------------------------
\* The operations, up to their first await.

MayCall == phase = "live" /\ Len(writes) < MaxWrites

NewGoal == [status |-> "active", turns |-> 0, turnBudget |-> None]

Replacing(waiting) == {i \in DOMAIN waiting : waiting[i].op.kind = "replace"}

\* A goal gets an id that occurs nowhere.
Fresh == {g \in Goals :
            /\ objects[g] = None /\ g \notin owing
            /\ \A word \in {disk, shown} \cup {writes[i].text : i \in DOMAIN writes} :
                  word \notin {None, Torn} => word.id # g}

MayCreate == Cardinality(Fresh) > Cardinality(Replacing(writes))

\* The end of createGoal: it does not look again whether there is a goal, and
\* overwrites one that was created while it waited.
StoreNew(who, objs, waiting) ==
    LET g == CHOOSE h \in Fresh : TRUE
    IN  /\ objects' = [objs EXCEPT ![g] = NewGoal]
        /\ current' = g
        /\ writes' = Append(waiting, [text |-> [id |-> g, goal |-> NewGoal],
                                      op |-> Op(who, "create", g)])

\* With `replace` where a goal exists; without it, the call throws there.
createGoal(who) ==
    /\ MayCreate
    /\ IF current # None
         THEN Clear(who, "replace") /\ UNCHANGED owing
         ELSE StoreNew(who, objects, writes) /\ owing' = owing \cup {current'}
    /\ UNCHANGED shown

resumeGoal(who) ==
    /\ readState.status \in {"paused", "blocked"}
    /\ Store(who, "status", applyStatus(readState, "active"))
    /\ UNCHANGED <<owing, shown>>

\* pauseGoal, pauseActiveGoal, pauseOnInterrupt and markBlocked, where they do
\* not return or throw at once.
stopGoal(who, status) ==
    /\ readState.status = "active"
    /\ Store(who, "status", applyStatus(readState, status))
    /\ UNCHANGED <<owing, shown>>

setBudgetLimits(who, turns) ==
    /\ current # None
    /\ Store(who, "budget", [readState EXCEPT !.turnBudget = turns])
    /\ UNCHANGED <<owing, shown>>

cancelGoal(who) ==
    /\ current # None
    /\ Clear(who, "clear")
    /\ UNCHANGED <<owing, shown>>

\* Success is recorded and shown at once; in the same frame the goal is cleared.
markComplete(who) ==
    /\ readState.status = "active"
    /\ objects' = [objects EXCEPT ![current] = applyStatus(readState, "complete")]
    /\ current' = None
    /\ Enqueue(objects', None, Op(who, "clear", current))
    /\ shown' = [id |-> current, status |-> "complete"]
    /\ UNCHANGED owing

\* The tokens themselves are left out.
recordTokenUsage(who) ==
    /\ readState.status = "active"
    /\ Store(who, "usage", readState)
    /\ UNCHANGED <<owing, shown>>

\* Mutant: the turn is announced, but not counted.
incrementTurn_NotCounted(who) ==
    /\ readState.status = "active"
    /\ Store(who, "count", readState)
    /\ UNCHANGED <<owing, shown>>

incrementTurn(who) ==
    /\ readState.status = "active"
    /\ Store(who, "count", [readState EXCEPT !.turns = atMost(@ + 1)])
    /\ UNCHANGED <<owing, shown>>

-----------------------------------------------------------------------------
\* The callers.

storeRest == <<disk, phase, excused, missed, crashes>>

\* The commands of the user, over rpc.
UserCall ==
    /\ MayCall
    /\ \/ createGoal("user")
       \/ stopGoal("user", "paused")
       \/ resumeGoal("user")
       \/ cancelGoal("user")
    /\ UNCHANGED <<agent, storeRest>>

\* The agent calls an operation and goes on at `after` when it has returned.
Awaits(t, after) == pc' = "await" /\ turn' = [t EXCEPT !.after = after]
Idles == /\ pc' = "idle" /\ turn' = NoTurn
         /\ UNCHANGED <<memory, writes, owing, shown>>

\* driveGoal from the top of its loop, for a goal that is active: a goal over its
\* budget is blocked, otherwise the turn is counted and then run.
driveGoal ==
    IF computeBudgetReport(readState)
      THEN stopGoal("agent", "blocked") /\ Awaits(NoTurn, "idle")
      ELSE incrementTurn("agent") /\ Awaits([NoTurn EXCEPT !.drive = TRUE], "turn")

turnWorker ==
    /\ MayCall /\ pc = "idle"
    /\ IF readState.status = "active"
         THEN driveGoal
         ELSE /\ pc' = "turn"
              /\ turn' = [NoTurn EXCEPT !.resumable = readState.status \in {"paused", "blocked"}]
              /\ UNCHANGED <<memory, writes, owing, shown>>
    /\ UNCHANGED storeRest

\* In a turn: the usage of a step, UpdateGoal, CreateGoal, SetGoalBudget.
InTurn ==
    /\ MayCall /\ pc = "turn"
    /\ \/ /\ \/ recordTokenUsage("agent")
             \/ resumeGoal("agent")
             \/ createGoal("agent")
             \/ \E b \in Budgets : setBudgetLimits("agent", b)
          /\ Awaits(turn, "turn")
       \/ /\ \/ markComplete("agent")
             \/ \E s \in {"paused", "blocked"} : stopGoal("agent", s)
          /\ Awaits(turn, "ended")
    /\ UNCHANGED storeRest

\* How a turn of a drive ends: the loop of driveGoal behind runOneTurn.
EndDriven(end) ==
    IF readState.status # "active" THEN Idles
    ELSE CASE end \in {"cancelled", "rateLimited"} ->
                stopGoal("agent", "paused") /\ Awaits(NoTurn, "idle")
           [] end \in {"failed", "blockedByHook"} \/ computeBudgetReport(readState) ->
                stopGoal("agent", "blocked") /\ Awaits(NoTurn, "idle")
           [] OTHER -> driveGoal

\* A goal that was resumed during an ordinary turn is taken up behind it.
EndOrdinary(end) ==
    IF /\ turn.resumable
       /\ readState.status = "active"
       /\ end \in {"completed", "blockedByHook"}
      THEN driveGoal
      ELSE Idles

EndTurn ==
    /\ MayCall /\ pc \in {"turn", "ended"}
    /\ \E end \in {"completed", "cancelled", "rateLimited", "failed", "blockedByHook"} :
          IF turn.drive THEN EndDriven(end) ELSE EndOrdinary(end)
    /\ UNCHANGED storeRest

-----------------------------------------------------------------------------
\* The end of a write, with all that its operation does behind the await.

wordOf(g) == [id |-> g, status |-> objects[g].status]

\* An object that is not the goal and that nobody holds any more is forgotten.
Forget(objs, g, waiting) ==
    [h \in DOMAIN objs |->
        IF h = g \/ \E i \in DOMAIN waiting : waiting[i].op.goal = h THEN objs[h] ELSE None]

AgentGoesOn(op) ==
    IF op.who = "agent" THEN pc' = turn.after /\ turn' = [turn EXCEPT !.after = None]
                        ELSE UNCHANGED agent

\* Mutant: a goal that is replaced leaves no record of its end.
Recorded_NotReplaced(op) == IF op.kind = "clear" THEN {op.goal} ELSE {}

\* The goals whose goal.clear an operation records.
Recorded(op) == IF op.kind \in {"clear", "replace"} THEN {op.goal} ELSE {}

\* Mutant: the application is not told of a goal that is gone.
Shows_NotGone(op) ==
    IF op.kind \in {"status", "create", "budget", "count"} THEN wordOf(op.goal) ELSE shown

\* onGoalUpdated: the object as it is now; the usage of a step is not shown.
Shows(op) ==
    CASE op.kind \in {"clear", "replace"} -> None
      [] op.kind \in {"status", "create", "budget", "count"} -> wordOf(op.goal)
      [] OTHER -> shown

Behind(op) ==
    LET waiting == Tail(writes)
        objs == Forget(objects, current, waiting)
    IN  /\ shown' = Shows(op)
        /\ missed' = (missed /\ op.kind \in {"budget", "count", "usage", "nothing"})
        /\ IF op.kind = "replace"
             THEN /\ StoreNew(op.who, objs, waiting)
                  /\ owing' = (owing \ Recorded(op)) \cup {current'}
                  /\ excused' = excused \cup ({current} \ {None})
                  /\ UNCHANGED agent
             ELSE /\ objects' = objs /\ writes' = waiting
                  /\ owing' = owing \ Recorded(op)
                  /\ AgentGoesOn(op)
                  /\ UNCHANGED <<current, excused>>

Written ==
    /\ writes # <<>>
    /\ disk' = Head(writes).text
    /\ Behind(Head(writes).op)
    /\ phase' = "live"
    /\ UNCHANGED crashes

InDrive == turn.after = "idle" \/ (turn.drive /\ Head(writes).op.kind = "count")

\* A write that fails leaves the file as it was, or cut off; the chain goes on.
\* Its operation throws, and what stands behind the await is not done: a removal
\* leaves no record.  A drive ends with it, a step and a tool do not.
WriteFails ==
    /\ writes # <<>>
    /\ disk' \in {disk, Torn}
    /\ writes' = Tail(writes)
    /\ missed' = TRUE
    /\ LET op == Head(writes).op
       IN  /\ excused' = excused \cup Recorded(op)
           /\ IF op.who # "agent" THEN UNCHANGED agent
              ELSE IF InDrive THEN pc' = "idle" /\ turn' = NoTurn
              ELSE pc' = "turn" /\ turn' = [turn EXCEPT !.after = None]
    /\ phase' = IF phase = "resuming" THEN "dead" ELSE phase
    /\ objects' = Forget(objects, current, Tail(writes))
    /\ UNCHANGED <<current, owing, shown, crashes>>

-----------------------------------------------------------------------------
\* Dying and resuming.

IdsIn(text) == IF text \in {None, Torn} THEN {} ELSE {text.id}

\* A goal that is not in the file is gone with the process.
Crash ==
    /\ phase \in {"live", "resuming"} /\ crashes < MaxCrashes
    /\ crashes' = crashes + 1
    /\ disk' \in {disk} \cup (IF writes = <<>> THEN {} ELSE {Head(writes).text, Torn})
    /\ phase' = "dead" /\ writes' = <<>>
    /\ pc' = "idle" /\ turn' = NoTurn
    /\ objects' = [g \in Goals |-> None] /\ current' = None
    /\ excused' = owing \ IdsIn(disk')
    /\ UNCHANGED owing
    /\ shown' = None /\ missed' = TRUE

\* readMetadata and normalizeMetadata.
normalizeMetadata ==
    /\ phase = "dead"
    /\ IF disk = Torn THEN phase' = "unreadable" /\ UNCHANGED <<memory, writes, owing, excused>>
       ELSE
         /\ owing' = owing \cup IdsIn(disk) /\ excused' = excused \ IdsIn(disk)
         /\ IF disk = None \/ disk.goal.status = "complete"
              THEN current' = None /\ UNCHANGED objects
              ELSE /\ current' = disk.id
                   /\ objects' = [objects EXCEPT ![disk.id] =
                        IF disk.goal.status = "active" THEN applyStatus(disk.goal, "paused")
                        ELSE disk.goal]
         /\ IF disk # None /\ disk.goal.status \in {"active", "complete"}
              THEN /\ phase' = "resuming"
                   /\ Enqueue(objects', current',
                        Op("session", IF current' = None THEN "nothing" ELSE "status", current'))
              ELSE phase' = "live" /\ UNCHANGED writes
    /\ UNCHANGED <<agent, disk, shown, missed, crashes>>

Next ==
    \/ UserCall
    \/ turnWorker \/ InTurn \/ EndTurn
    \/ Written \/ WriteFails
    \/ Crash \/ normalizeMetadata

Spec == Init /\ [][Next]_vars

\* Writes end.  Nothing is assumed of users, models, turns and crashes.
FairSpec ==
    /\ Spec
    /\ WF_vars(Written \/ WriteFails)

-----------------------------------------------------------------------------
Quiet == phase = "live" /\ writes = <<>>

\* Between the writes the file is the goal in memory, whoever changed it last
\* and in whatever order the writes were asked for: a restart loses nothing but
\* the anchor of the clock (writeMetadata).
DiskFollowsMemory == Quiet /\ ~ missed => disk = textOf(objects, current)

\* When nothing is under way, what the application was last shown is the goal
\* and its status, although it is shown behind an await, from an object that
\* others have changed meanwhile (persistState).
ShownIsTrue ==
    Quiet /\ ~ missed => shown = IF current = None THEN None ELSE wordOf(current)

\* A goal that is gone has left the record of its end, whoever removed, completed
\* or replaced it (clearInternal), unless it was one of these: the write of its
\* removal failed, and clearInternal threw before the record; createGoal, waiting
\* for the removal of an older goal, overwrote it; or it was not in the file when
\* the process died.
EveryGoalClosed == Quiet => owing \subseteq {current} \cup excused

\* No turn is counted beyond the turn budget, whichever of the three ways led to
\* it: launched, continued, taken up (driveGoal).
TurnsWithinBudget ==
    [][\A g \in Goals :
         /\ objects[g] # None /\ objects'[g] # None
         /\ objects'[g].turns > objects[g].turns
         /\ objects[g].turnBudget # None
         => objects'[g].turns <= objects[g].turnBudget]_vars

\* A goal with a turn budget is not pursued for ever, however often it is
\* resumed or its budget is changed within the budgets there are: if turns end,
\* the agent becomes idle.
PursuitEnds ==
    /\ SF_vars(EndTurn)
    /\ <>[](current # None /\ readState.turnBudget # None)
    => []<>(pc = "idle")

=============================================================================
