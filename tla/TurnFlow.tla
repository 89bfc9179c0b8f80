------------------------------ MODULE TurnFlow ------------------------------
(***************************************************************************)
(* TurnFlow: who may talk to the model, and when                           *)
(* (packages/agent-core/src/agent/turn/index.ts, with the step loop of     *)
(* loop/run-turn.ts and the statuses of session/goal.ts it acts on).       *)
(*                                                                         *)
(* A prompt, or a steer into an idle agent, launches a worker; a steer into*)
(* a busy agent is buffered and taken up before the next step.  A worker   *)
(* runs one turn, or, when a goal is active, drives the goal: turn after   *)
(* turn until the goal is no longer active.  Cancelling aborts the active  *)
(* worker's signal and makes the agent idle at once, while the worker is   *)
(* still unwinding: an old and a new worker can be alive together.         *)
(*                                                                         *)
(* A worker's pc names the await it is at; a step runs to the next await   *)
(* that other callers can get in between (a hook, the model, the tools, a  *)
(* write of state.json), so the microtasks from the end of a turn to the   *)
(* next such await are one step.                                           *)
(*                                                                         *)
(* Turn ids are only ever compared with the latest one (currentId).  A     *)
(* worker's current turn is the last one it allocated, so `latest`, the    *)
(* worker that allocated last, says whether currentId is its turn.         *)
(***************************************************************************)
EXTENDS Naturals

CONSTANTS
    Worker,        \* slots for workers that are alive together (a bound)
    Steer          \* steered inputs that may wait together (a bound)

None == "none"
Resuming == "resuming"

\* The active turn and the latest turn are named by their worker.
ASSUME WorkerAssumption == None \notin Worker /\ Resuming \notin Worker

VARIABLES
    phase,         \* "replay" of the records of a resumed session, then "live"
    activeTurn,    \* null, 'resuming', or the worker whose controller it holds
    latest,        \* whose turn has the id currentId
    steerBuffer,
    worker,        \* the state of each turnWorker
    goal           \* the status of the goal, None when there is none, and "off"
                   \* in an agent without a goal store (a subagent)

vars == <<phase, activeTurn, latest, steerBuffer, worker, goal>>

GoalStatus == {"off", None, "active", "paused", "blocked"}
InTurn == {"prompt", "load", "step", "stopHook"}
Writing == {"count", "park", "overBudget"}

Free == [pc |-> "free", aborted |-> FALSE, initial |-> None, drive |-> FALSE,
         origin |-> "other", stopHookUsed |-> FALSE]

WorkerState ==
    [pc : {"free"} \cup InTurn \cup Writing,
     aborted : BOOLEAN,           \* its AbortSignal
     initial : GoalStatus,        \* the goal's status when it was launched
     drive : BOOLEAN,             \* inside driveGoal
     origin : {"user", "other", "continuation"},   \* of its turn's input
     stopHookUsed : BOOLEAN]

Live(w) == worker[w].pc # "free"

TypeOK ==
    /\ phase \in {"replay", "live"}
    /\ activeTurn \in Worker \cup {None, Resuming}
    /\ latest \in Worker \cup {None}
    /\ steerBuffer \subseteq Steer
    /\ worker \in [Worker -> WorkerState]
    /\ goal \in GoalStatus

Init ==
    /\ phase \in {"replay", "live"}
    /\ activeTurn = None /\ latest = None /\ steerBuffer = {}
    /\ worker = [w \in Worker |-> Free]
    /\ goal \in GoalStatus \ {"active"}   \* a resume pauses an active goal

-----------------------------------------------------------------------------
\* Replaying the records of a session that is being resumed.

restorePrompt ==
    /\ phase = "replay"
    /\ activeTurn' = IF activeTurn = None THEN Resuming ELSE activeTurn
    /\ UNCHANGED <<phase, latest, steerBuffer, worker, goal>>

restoreSteer(s) ==
    /\ phase = "replay"
    /\ IF activeTurn = None
         THEN activeTurn' = Resuming /\ UNCHANGED steerBuffer
         ELSE steerBuffer' = steerBuffer \cup {s} /\ UNCHANGED activeTurn
    /\ UNCHANGED <<phase, latest, worker, goal>>

\* A cancel that names another turn changes nothing.
restoreCancel ==
    /\ phase = "replay"
    /\ activeTurn' = None
    /\ UNCHANGED <<phase, latest, steerBuffer, worker, goal>>

finishResume ==
    /\ phase = "replay"
    /\ phase' = "live"
    /\ activeTurn' = IF activeTurn = Resuming THEN None ELSE activeTurn
    /\ steerBuffer' = {}
    /\ UNCHANGED <<latest, worker, goal>>

-----------------------------------------------------------------------------
\* Launching a worker.

allocateTurnId(w) == latest' = w

\* Mutant: a worker that waits for nothing any action provides.
BeginTurn_Unknown(origin) == origin

\* runOneTurn up to its first await.
BeginTurn(origin) == IF origin = "user" THEN "prompt" ELSE "load"

\* driveGoal from the top of its loop, as the pc and the goal it leaves: the
\* turn is counted (incrementTurn, awaited), or a budget that is used up blocks
\* the goal (markBlocked, awaited) and the turn ends without the model.
DriveFrom(status) == {<<"count", status>>, <<"overBudget", "blocked">>}

SetOut(origin) ==
    IF goal = "active"
      THEN DriveFrom(goal)
      ELSE {<<BeginTurn(origin), goal>>}

launch(origin) ==
    /\ activeTurn = None
    /\ \E w \in Worker :
          /\ ~ Live(w)
          /\ activeTurn' = w
          /\ allocateTurnId(w)
          /\ \E out \in SetOut(origin) :
                /\ worker' = [worker EXCEPT ![w] =
                      [Free EXCEPT !.pc = out[1], !.initial = goal, !.origin = origin,
                                   !.drive = (goal = "active")]]
                /\ goal' = out[2]

\* turn.prompt: refused with turn.agent_busy while a turn is active.
prompt ==
    /\ phase = "live"
    /\ launch("user")
    /\ UNCHANGED <<phase, steerBuffer>>

\* turn.steer: the user's, or a notification's.
steer(s, origin) ==
    /\ phase = "live"
    /\ \/ /\ activeTurn # None
          /\ steerBuffer' = steerBuffer \cup {s}
          /\ UNCHANGED <<activeTurn, latest, worker, goal>>
       \/ launch(origin) /\ UNCHANGED steerBuffer
    /\ UNCHANGED phase

\* Mutant: the active turn is dropped but its signal is not fired.
abortTurn_NotFired ==
    /\ activeTurn' = None
    /\ UNCHANGED worker

abortTurn ==
    /\ activeTurn' = None
    /\ worker' = [w \in Worker |->
                    IF w = activeTurn THEN [worker[w] EXCEPT !.aborted = TRUE] ELSE worker[w]]

\* cancel(turnId): without an id it stops whatever is active; with the id of the
\* turn that w runs it does nothing unless that is the latest id.
cancel ==
    /\ phase = "live"
    /\ abortTurn
    /\ UNCHANGED <<phase, latest, steerBuffer, goal>>

cancelTurn(w) ==
    /\ phase = "live" /\ Live(w)
    /\ IF latest = w THEN abortTurn ELSE UNCHANGED <<activeTurn, worker>>
    /\ UNCHANGED <<phase, latest, steerBuffer, goal>>

-----------------------------------------------------------------------------
\* A worker's steps.  Resume(w, state) moves w on; Finish(w) is the end of
\* turnWorker, whose finally block releases the active turn only if w owns it.

Resume(w, state) ==
    /\ worker' = [worker EXCEPT ![w] = state]
    /\ UNCHANGED <<phase, latest>>

Finish(w) ==
    /\ Resume(w, Free)
    /\ activeTurn' = IF activeTurn = w THEN None ELSE activeTurn

\* Mutant: the release does not ask whether the turn is still the latest.
Released_Always(w) == None

\* runOneTurn's release for a turn that is not part of a drive.
Released(w) == IF latest = w THEN None ELSE activeTurn

\* driveGoal's pauseActiveGoal / markBlocked after a turn: no write when the
\* goal is no longer active.
Park(w, status) ==
    \/ /\ goal = "active" /\ goal' = status
       /\ Resume(w, [worker[w] EXCEPT !.pc = "park"])
       /\ UNCHANGED activeTurn
    \/ /\ goal # "active" /\ UNCHANGED goal
       /\ Finish(w)

\* A continuation turn gets an id of its own and starts driveGoal's loop again.
Continue(w, released) ==
    /\ allocateTurnId(w)
    /\ activeTurn' = released
    /\ \E out \in DriveFrom(goal) :
          /\ worker' = [worker EXCEPT ![w].pc = out[1], ![w].drive = TRUE,
                                      ![w].origin = "continuation",
                                      ![w].stopHookUsed = FALSE]
          /\ goal' = out[2]
    /\ UNCHANGED phase

\* The end of a turn of a worker that does not drive: turn.ended and the release
\* of the active turn in one frame.  A goal that was resumed meanwhile is then
\* driven by the same worker.
EndStandalone(w, reason) ==
    /\ ~ worker[w].drive
    /\ IF /\ goal = "active"
          /\ worker[w].initial \in {"paused", "blocked"} /\ reason = "completed"
         THEN Continue(w, Released(w))
         ELSE /\ Resume(w, Free)
              /\ activeTurn' = IF activeTurn = w THEN None ELSE Released(w)
              /\ UNCHANGED goal

\* The end of a turn of a goal drive.
EndDriven(w, reason, hookBlocked) ==
    /\ worker[w].drive
    /\ \/ reason = "cancelled" /\ Park(w, "paused")
       \/ reason = "failed" /\ \E status \in {"paused", "blocked"} : Park(w, status)
       \/ reason = "completed" /\ hookBlocked /\ Park(w, "blocked")
       \/ /\ reason = "completed" /\ ~ hookBlocked
          /\ \/ goal # "active" /\ Finish(w) /\ UNCHANGED goal
             \/ goal = "active" /\ Park(w, "blocked")          \* over budget
             \/ goal = "active" /\ Continue(w, activeTurn)

EndTurn(w, reason, hookBlocked) ==
    /\ EndStandalone(w, reason) \/ EndDriven(w, reason, hookBlocked)
    /\ UNCHANGED steerBuffer

\* Goes on in the same turn, taking up what was steered (flushSteerBuffer in
\* beforeStep or in shouldContinueAfterStop) when it begins a step.
NextStep(w, state) ==
    /\ Resume(w, [state EXCEPT !.pc = "step"])
    /\ steerBuffer' = {}
    /\ UNCHANGED <<activeTurn, goal>>

Await(w, pc) ==
    /\ Resume(w, [worker[w] EXCEPT !.pc = pc])
    /\ UNCHANGED <<activeTurn, steerBuffer, goal>>

\* incrementTurn's write is done: the turn starts, whatever the goal is by now.
Counted(w) ==
    /\ worker[w].pc = "count"
    /\ Await(w, BeginTurn(worker[w].origin))

\* The UserPromptSubmit hook returns.
PromptHook(w) ==
    /\ worker[w].pc = "prompt"
    /\ \/ worker[w].aborted /\ EndTurn(w, "cancelled", FALSE)
       \/ ~ worker[w].aborted /\ EndTurn(w, "completed", TRUE)
       \/ ~ worker[w].aborted /\ EndTurn(w, "failed", FALSE)
       \/ ~ worker[w].aborted /\ Await(w, "load")

\* MCP servers and the goal reminder are there (or the compaction after a
\* context overflow is done): the loop looks at the signal and begins a step.
Loaded(w) ==
    /\ worker[w].pc = "load"
    /\ \/ worker[w].aborted /\ EndTurn(w, "cancelled", FALSE)
       \/ ~ worker[w].aborted /\ EndTurn(w, "failed", FALSE)
       \/ ~ worker[w].aborted /\ NextStep(w, worker[w])

\* The model has answered and the tools of the step have run.
StepEnds(w) ==
    /\ worker[w].pc = "step"
    /\ \/ worker[w].aborted /\ EndTurn(w, "cancelled", FALSE)
       \/ /\ ~ worker[w].aborted
          /\ \/ NextStep(w, worker[w])                       \* tool_use
             \/ EndTurn(w, "failed", FALSE)
             \/ Await(w, "load")                             \* context overflow
             \/ steerBuffer # {} /\ NextStep(w, worker[w])   \* steered meanwhile
             \/ /\ steerBuffer = {}
                /\ IF worker[w].stopHookUsed
                     THEN EndTurn(w, "completed", FALSE)
                     ELSE Await(w, "stopHook")

\* The Stop hook returns: it may have the turn continue, once.
StopHook(w) ==
    /\ worker[w].pc = "stopHook"
    /\ \/ worker[w].aborted /\ EndTurn(w, "cancelled", FALSE)
       \/ ~ worker[w].aborted /\ EndTurn(w, "completed", FALSE)
       \/ ~ worker[w].aborted /\ NextStep(w, [worker[w] EXCEPT !.stopHookUsed = TRUE])

\* Mutant: only the worker that is the active turn comes back from its write.
Written_OwnerOnly(w) ==
    /\ worker[w].pc \in {"park", "overBudget"} /\ activeTurn = w
    /\ Finish(w)
    /\ UNCHANGED <<steerBuffer, goal>>

\* The write that ends a drive is done.
Written(w) ==
    /\ worker[w].pc \in {"park", "overBudget"}
    /\ Finish(w)
    /\ UNCHANGED <<steerBuffer, goal>>

\* The write of state.json fails: the worker rejects, its finally block runs.
WriteFails(w) ==
    /\ worker[w].pc \in Writing
    /\ Finish(w)
    /\ UNCHANGED <<steerBuffer, goal>>

WorkerStep(w) ==
    Counted(w) \/ PromptHook(w) \/ Loaded(w) \/ StepEnds(w) \/ StopHook(w) \/ Written(w)

-----------------------------------------------------------------------------
\* The goal changes under the workers: the user creates, pauses, resumes and
\* cancels it at any time, the model reports on it from within a step.
GoalChange(status) ==
    /\ phase = "live" /\ goal # "off"
    /\ goal' = status
    /\ UNCHANGED <<phase, activeTurn, latest, steerBuffer, worker>>

UserGoal ==
    \/ GoalChange("active")                        \* createGoal, resumeGoal
    \/ goal = "active" /\ GoalChange("paused")     \* pauseGoal
    \/ goal # None /\ GoalChange(None)             \* cancelGoal

ModelGoal ==
    /\ \E w \in Worker : worker[w].pc = "step"
    /\ goal = "active" /\ GoalChange("blocked")    \* UpdateGoal

-----------------------------------------------------------------------------
Replay == restorePrompt \/ (\E s \in Steer : restoreSteer(s)) \/ restoreCancel \/ finishResume

Next ==
    \/ Replay
    \/ prompt
    \/ \E s \in Steer, origin \in {"user", "other"} : steer(s, origin)
    \/ cancel
    \/ \E w \in Worker : cancelTurn(w) \/ WorkerStep(w) \/ WriteFails(w)
    \/ UserGoal \/ ModelGoal

Spec == Init /\ [][Next]_vars

\* Hooks, the model, the tools and disk writes come back.
FairSpec == Spec /\ \A w \in Worker : WF_vars(WorkerStep(w))

-----------------------------------------------------------------------------
Running(w) == Live(w) /\ ~ worker[w].aborted

\* "The single in-flight activeTurn": a worker that was not cancelled is the
\* active turn.  So there is at most one, the agent looks idle only when nothing
\* runs, and a cancel always reaches what runs.
SingleInFlight == \A w \in Worker : Running(w) => activeTurn = w

\* The same where it holds when goals are driven: for every worker except one
\* that took up a goal resumed during its own standalone turn.
TookUpGoal(w) == worker[w].drive /\ worker[w].initial # "active"
SingleInFlightUnlessTakenUp ==
    \A w \in Worker : Running(w) /\ ~ TookUpGoal(w) => activeTurn = w

\* A superseding turn is never clobbered: the active turn is taken from a worker
\* only by a step of that worker or by the cancel that fires its signal; the
\* unwinding of an old, cancelled worker leaves it alone.
NeverClobbered ==
    [][\A w \in Worker :
          activeTurn = w /\ activeTurn' # w => worker'[w] # worker[w]]_vars

\* Pressing stop stops what runs: after a cancel, or (where no goal can be taken
\* up) a cancel with the id of the running turn, no worker is left running, except
\* one that took up a goal.
CancelStopsTurn ==
    [][cancel \/ (goal = "off" /\ \E w \in Worker : Running(w) /\ cancelTurn(w))
          => \A w \in Worker : Live(w) /\ ~ TookUpGoal(w) => worker'[w].aborted]_vars

\* The active turn is always the one with the latest id, so that cancelling it
\* by id is never ignored and its usage is never charged to another turn (where
\* no goal can be taken up).
ActiveIsLatest ==
    goal = "off" /\ activeTurn \in Worker => latest = activeTurn /\ Running(activeTurn)

\* A cancelled worker unwinds, whatever it was waiting for.
CancelledWorkerEnds == \A w \in Worker : worker[w].aborted ~> ~ Live(w)

=============================================================================
