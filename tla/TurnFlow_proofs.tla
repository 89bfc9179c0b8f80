-------------------------- MODULE TurnFlow_proofs ---------------------------
(***************************************************************************)
(* Proofs about the turn flow, for any number of workers and of waiting    *)
(* steers.  A step of a worker changes no other worker and does one of     *)
(* five things to the active turn (WorkerShape); the invariant is then     *)
(* shown for these five and for the operations of the callers.             *)
(***************************************************************************)
EXTENDS TurnFlow, TLAPS

-----------------------------------------------------------------------------
\* While records are replayed there is no worker, and afterwards the flow is not
\* resuming.
Phases ==
    /\ phase = "replay" => \A w \in Worker : ~ Live(w)
    /\ phase = "live" => activeTurn # Resuming

\* The active turn is a worker that was not cancelled.
ActiveRuns == activeTurn \in Worker => Running(activeTurn)

\* The worker that runs the latest turn outside a drive is the active one, if
\* any is: its release at the turn's end takes nothing from another worker.
LatestIsActive ==
    \A w \in Worker :
        Live(w) /\ latest = w /\ ~ worker[w].drive => activeTurn \in {w, None}

\* Without a goal store nothing is driven and no turn id is allocated but by a
\* launch.
NoGoalNoDrive ==
    goal = "off" => /\ \A w \in Worker : ~ worker[w].drive
                    /\ activeTurn \in Worker => latest = activeTurn

IInv ==
    /\ TypeOK
    /\ Phases
    /\ ActiveRuns
    /\ LatestIsActive
    /\ NoGoalNoDrive
    /\ SingleInFlightUnlessTakenUp

-----------------------------------------------------------------------------
\* What a step of worker w may do.  It stays in its turn, it ends and releases
\* the active turn if that is its own, it ends a turn outside a drive, it takes up
\* a goal that was resumed during such a turn, or it goes on driving.
Stays(w, state) ==
    /\ state = [worker[w] EXCEPT !.pc = state.pc, !.stopHookUsed = state.stopHookUsed]
    /\ latest' = latest /\ activeTurn' = activeTurn

Ends(w, state) ==
    /\ state = Free
    /\ latest' = latest
    /\ activeTurn' = IF activeTurn = w THEN None ELSE activeTurn

EndsTurn(w, state) ==
    /\ state = Free /\ ~ worker[w].drive
    /\ latest' = latest
    /\ activeTurn' = IF activeTurn = w THEN None ELSE Released(w)

Drives(w, state) ==
    /\ goal = "active"
    /\ state.drive /\ state.aborted = worker[w].aborted
    /\ state.initial = worker[w].initial
    /\ latest' = w

TakesUp(w, state) ==
    /\ Drives(w, state)
    /\ ~ worker[w].drive /\ worker[w].initial # "active"
    /\ activeTurn' = Released(w)

GoesOn(w, state) ==
    /\ Drives(w, state)
    /\ worker[w].drive
    /\ activeTurn' = activeTurn

Shape(w) ==
    /\ Live(w)
    /\ phase' = phase
    /\ steerBuffer' \in SUBSET Steer
    /\ goal' \in GoalStatus
    /\ goal' = "off" <=> goal = "off"
    /\ \E state \in WorkerState :
          /\ worker' = [worker EXCEPT ![w] = state]
          /\ state.pc = "free" => state = Free
          /\ \/ Stays(w, state) /\ state.pc # "free"
             \/ Ends(w, state)
             \/ EndsTurn(w, state)
             \/ TakesUp(w, state) /\ state.pc # "free"
             \/ GoesOn(w, state) /\ state.pc # "free"

\* A step of a worker, a failing write included, makes such a change.
LEMMA WorkerShape ==
    ASSUME TypeOK, NEW w \in Worker, WorkerStep(w) \/ WriteFails(w)
    PROVE  Shape(w)
<1> USE DEF TypeOK
<1>w. worker[w] \in WorkerState
  OBVIOUS
<1>f. Free \in WorkerState
  BY DEF Free, WorkerState, GoalStatus, None
\* The two ways of ending a worker.
<1>1. ASSUME Finish(w), Live(w), goal' \in GoalStatus, goal' = "off" <=> goal = "off",
             steerBuffer' \in SUBSET Steer
      PROVE  Shape(w)
  BY <1>1, <1>f DEF Finish, Resume, Shape, Ends
\* Staying in the turn.
<1>2. ASSUME NEW state \in WorkerState, Resume(w, state), Live(w), state.pc # "free",
             state = [worker[w] EXCEPT !.pc = state.pc, !.stopHookUsed = state.stopHookUsed],
             UNCHANGED <<activeTurn, goal>>, steerBuffer' \in SUBSET Steer
      PROVE  Shape(w)
  BY <1>2 DEF Resume, Shape, Stays
<1>3. ASSUME NEW pc \in InTurn \cup Writing, Await(w, pc), Live(w)
      PROVE  Shape(w)
  <2> DEFINE state == [worker[w] EXCEPT !.pc = pc]
  <2>1. /\ state \in WorkerState /\ state.pc = pc
        /\ state = [worker[w] EXCEPT !.pc = state.pc, !.stopHookUsed = state.stopHookUsed]
    BY <1>w DEF WorkerState
  <2>2. pc # "free"
    BY DEF InTurn, Writing
  <2>3. QED
    BY <1>2, <1>3, <2>1, <2>2 DEF Await
<1>4. ASSUME NEW used \in BOOLEAN, Live(w),
             NextStep(w, [worker[w] EXCEPT !.stopHookUsed = used])
      PROVE  Shape(w)
  <2> DEFINE state == [worker[w] EXCEPT !.pc = "step", !.stopHookUsed = used]
  <2>1. /\ state \in WorkerState /\ state.pc = "step"
        /\ state = [worker[w] EXCEPT !.pc = state.pc, !.stopHookUsed = state.stopHookUsed]
        /\ state = [[worker[w] EXCEPT !.stopHookUsed = used] EXCEPT !.pc = "step"]
    BY <1>w DEF WorkerState, InTurn
  <2>2. QED
    BY <1>2, <1>4, <2>1 DEF NextStep
<1>5. ASSUME Live(w), NextStep(w, worker[w])
      PROVE  Shape(w)
  <2>1. worker[w].stopHookUsed \in BOOLEAN /\ worker[w] = [worker[w] EXCEPT !.stopHookUsed = worker[w].stopHookUsed]
    BY <1>w DEF WorkerState
  <2>2. QED
    BY <1>4, <1>5, <2>1
\* A worker that begins another turn of a drive.
<1>6. ASSUME NEW released, Continue(w, released)
      PROVE  /\ phase' = phase /\ latest' = w /\ activeTurn' = released
             /\ goal = "active" => goal' \in GoalStatus \ {"off"}
             /\ \E state \in WorkerState :
                   /\ worker' = [worker EXCEPT ![w] = state]
                   /\ state.pc # "free" /\ state.drive
                   /\ state.aborted = worker[w].aborted
                   /\ state.initial = worker[w].initial
  <2>1. PICK out \in DriveFrom(goal) :
           /\ worker' = [worker EXCEPT ![w].pc = out[1], ![w].drive = TRUE,
                                       ![w].origin = "continuation",
                                       ![w].stopHookUsed = FALSE]
           /\ goal' = out[2]
    BY <1>6 DEF Continue
  <2>2. out[1] \in {"count", "overBudget"} /\ out[2] \in {goal, "blocked"}
    BY DEF DriveFrom
  <2> DEFINE state == [worker[w] EXCEPT !.pc = out[1], !.drive = TRUE,
                                        !.origin = "continuation", !.stopHookUsed = FALSE]
  <2>3. state \in WorkerState /\ state.pc # "free" /\ state.drive
        /\ state.aborted = worker[w].aborted /\ state.initial = worker[w].initial
    BY <1>w, <2>2 DEF WorkerState, Writing
  <2>4. worker' = [worker EXCEPT ![w] = state]
    BY <2>1
  <2>5. QED
    BY <1>6, <2>1, <2>2, <2>3, <2>4 DEF Continue, allocateTurnId, GoalStatus
<1>7. ASSUME NEW status \in {"paused", "blocked"}, Park(w, status), Live(w),
             UNCHANGED steerBuffer
      PROVE  Shape(w)
  <2>1. CASE goal # "active"
    BY <1>1, <1>7, <2>1 DEF Park
  <2>2. CASE goal = "active"
    <3> DEFINE state == [worker[w] EXCEPT !.pc = "park"]
    <3>1. /\ state \in WorkerState /\ state.pc = "park"
          /\ state = [worker[w] EXCEPT !.pc = state.pc, !.stopHookUsed = state.stopHookUsed]
      BY <1>w DEF WorkerState, Writing
    <3>2. /\ Resume(w, state) /\ activeTurn' = activeTurn
          /\ goal' \in GoalStatus \ {"off"}
      BY <1>7, <2>2 DEF Park, GoalStatus
    <3>3. QED
      BY <1>7, <2>2, <3>1, <3>2 DEF Shape, Stays, Resume
  <2>3. QED
    BY <2>1, <2>2
<1>8. ASSUME NEW reason, EndStandalone(w, reason), Live(w), UNCHANGED steerBuffer
      PROVE  Shape(w)
  <2>1. CASE /\ goal = "active"
             /\ worker[w].initial \in {"paused", "blocked"} /\ reason = "completed"
    <3>1. Continue(w, Released(w)) /\ ~ worker[w].drive
      BY <1>8, <2>1 DEF EndStandalone
    <3>2. worker[w].initial # "active"
      BY <2>1
    <3>3. QED
      BY <1>6, <1>8, <2>1, <3>1, <3>2 DEF Shape, TakesUp, Drives
  <2>2. CASE ~ ( /\ goal = "active"
                 /\ worker[w].initial \in {"paused", "blocked"} /\ reason = "completed" )
    BY <1>8, <1>f, <2>2 DEF EndStandalone, Resume, Shape, EndsTurn
  <2>3. QED
    BY <2>1, <2>2
<1>9. ASSUME NEW reason, NEW hookBlocked, EndDriven(w, reason, hookBlocked), Live(w),
             UNCHANGED steerBuffer
      PROVE  Shape(w)
  <2>1. CASE \E status \in {"paused", "blocked"} : Park(w, status)
    BY <1>7, <1>9, <2>1
  <2>2. CASE Finish(w) /\ UNCHANGED goal
    BY <1>1, <1>9, <2>2
  <2>3. CASE goal = "active" /\ Continue(w, activeTurn) /\ worker[w].drive
    BY <1>6, <1>9, <2>3 DEF Shape, GoesOn, Drives
  <2>4. QED
    BY <1>9, <2>1, <2>2, <2>3 DEF EndDriven
<1>10. ASSUME NEW reason, NEW hookBlocked, EndTurn(w, reason, hookBlocked), Live(w)
       PROVE  Shape(w)
  BY <1>8, <1>9, <1>10 DEF EndTurn
<1>11. CASE Counted(w)
  BY <1>3, <1>11 DEF Counted, BeginTurn, Live, InTurn
<1>12. CASE PromptHook(w)
  BY <1>3, <1>10, <1>12 DEF PromptHook, Live, InTurn
<1>13. CASE Loaded(w)
  BY <1>5, <1>10, <1>13 DEF Loaded, Live
<1>14. CASE StepEnds(w)
  BY <1>3, <1>5, <1>10, <1>14 DEF StepEnds, Live, InTurn
<1>15. CASE StopHook(w)
  BY <1>4, <1>10, <1>15 DEF StopHook, Live
<1>16. CASE Written(w)
  BY <1>1, <1>16 DEF Written, Live
<1>17. CASE WriteFails(w)
  BY <1>1, <1>17 DEF WriteFails, Live, Writing
<1>18. QED
  BY <1>11, <1>12, <1>13, <1>14, <1>15, <1>16, <1>17 DEF WorkerStep

-----------------------------------------------------------------------------
\* Initially there is no worker and no active turn.
LEMMA InitIInv == Init => IInv
<1> SUFFICES ASSUME Init PROVE IInv
  OBVIOUS
<1>1. Free \in WorkerState /\ Free.pc = "free" /\ Free.drive = FALSE
  BY DEF Free, WorkerState, GoalStatus, None
<1>2. \A w \in Worker : worker[w] = Free
  BY DEF Init
<1>3. activeTurn = None /\ None \notin Worker /\ None # Resuming
  BY WorkerAssumption DEF Init, None, Resuming
<1>4. TypeOK
  BY <1>1 DEF Init, TypeOK
<1>5. Phases /\ ActiveRuns /\ LatestIsActive /\ NoGoalNoDrive /\ SingleInFlightUnlessTakenUp
  BY <1>1, <1>2, <1>3 DEF Phases, ActiveRuns, LatestIsActive, NoGoalNoDrive,
     SingleInFlightUnlessTakenUp, Running, Live
<1>6. QED
  BY <1>4, <1>5 DEF IInv

\* A step of a worker keeps the invariant.  What it does to the active turn never
\* takes it from another worker: a release at the end of a turn outside a drive is
\* that of the latest worker, which LatestIsActive says is the active one, if any.
LEMMA ShapeIInv ==
    ASSUME IInv, NEW w \in Worker, Shape(w)
    PROVE  IInv'
<1> USE DEF IInv
<1>1. PICK state \in WorkerState :
         /\ worker' = [worker EXCEPT ![w] = state]
         /\ state.pc = "free" => state = Free
         /\ \/ Stays(w, state) /\ state.pc # "free"
            \/ Ends(w, state)
            \/ EndsTurn(w, state)
            \/ TakesUp(w, state) /\ state.pc # "free"
            \/ GoesOn(w, state) /\ state.pc # "free"
  BY DEF Shape
<1>2. /\ worker \in [Worker -> WorkerState] /\ worker' \in [Worker -> WorkerState]
      /\ worker'[w] = state
      /\ \A u \in Worker : u # w => worker'[u] = worker[u]
      /\ Free.pc = "free" /\ Free.drive = FALSE
  BY <1>1 DEF TypeOK, Free
<1>3. phase \in {"replay", "live"} /\ phase # "replay" /\ phase' = phase
      /\ activeTurn \in Worker \cup {None}
  BY DEF Shape, Phases, TypeOK
\* The active turn stays, or it is w's own or there is none.
<1>4. \/ activeTurn' = activeTurn
      \/ activeTurn' = None /\ activeTurn \in {w, None}
  BY <1>1 DEF Stays, Ends, EndsTurn, TakesUp, GoesOn, Released, LatestIsActive, Shape
<1>5. activeTurn' = w => state.pc # "free" /\ state.aborted = worker[w].aborted
  <2>1. CASE Ends(w, state) \/ EndsTurn(w, state)
    BY <1>4, <2>1, WorkerAssumption DEF Ends, EndsTurn
  <2>2. CASE Stays(w, state) /\ state.pc # "free"
    BY <1>2, <2>2 DEF Stays, WorkerState
  <2>3. CASE (TakesUp(w, state) \/ GoesOn(w, state)) /\ state.pc # "free"
    BY <2>3 DEF TakesUp, GoesOn, Drives
  <2>4. QED
    BY <1>1, <2>1, <2>2, <2>3
<1>6. TypeOK'
  <2>1. latest' \in Worker \cup {None}
    BY <1>1 DEF TypeOK, Stays, Ends, EndsTurn, TakesUp, GoesOn, Drives
  <2>2. QED
    BY <1>2, <1>3, <1>4, <2>1 DEF TypeOK, Shape
<1>7. Phases'
  BY <1>3, <1>4, WorkerAssumption DEF Phases, None, Resuming
<1>8. ActiveRuns'
  <2> SUFFICES ASSUME activeTurn' \in Worker
               PROVE  Running(activeTurn)'
    BY DEF ActiveRuns
  <2>1. activeTurn' = activeTurn /\ Running(activeTurn)
    BY <1>4, WorkerAssumption DEF ActiveRuns
  <2>2. CASE activeTurn = w
    BY <1>2, <1>5, <2>1, <2>2 DEF Running, Live
  <2>3. CASE activeTurn # w
    BY <1>2, <2>1, <2>3 DEF Running, Live
  <2>4. QED
    BY <2>2, <2>3
<1>9. LatestIsActive'
  <2> SUFFICES ASSUME NEW u \in Worker, worker'[u].pc # "free", latest' = u,
                      ~ worker'[u].drive
               PROVE  activeTurn' \in {u, None}
    BY DEF LatestIsActive, Live
  <2>1. CASE Drives(w, state)
    BY <1>2, <2>1 DEF Drives
  <2>2. CASE ~ Drives(w, state)
    <3>1. latest' = latest
      BY <1>1, <2>2 DEF Stays, Ends, EndsTurn, TakesUp, GoesOn
    <3>2. worker[u].pc # "free" /\ ~ worker[u].drive
      <4>1. CASE u # w
        BY <1>2, <4>1
      <4>2. CASE u = w
        <5>1. Stays(w, state)
          BY <1>1, <1>2, <2>2, <4>2 DEF Ends, EndsTurn, TakesUp, GoesOn
        <5>2. QED
          BY <1>2, <4>2, <5>1 DEF Stays, Shape, Live, WorkerState
      <4>3. QED
        BY <4>1, <4>2
    <3>3. activeTurn \in {u, None}
      BY <3>1, <3>2 DEF LatestIsActive, Live
    <3>4. QED
      BY <1>4, <3>3
  <2>3. QED
    BY <2>1, <2>2
<1>10. NoGoalNoDrive'
  <2> SUFFICES ASSUME goal = "off"
               PROVE  /\ \A u \in Worker : ~ worker'[u].drive
                      /\ activeTurn' \in Worker => latest' = activeTurn'
    BY DEF NoGoalNoDrive, Shape
  <2>1. /\ \A u \in Worker : ~ worker[u].drive
        /\ activeTurn \in Worker => latest = activeTurn
    BY DEF NoGoalNoDrive
  <2>2. latest' = latest /\ ~ state.drive
    <3>1. CASE Stays(w, state)
      BY <1>2, <2>1, <3>1 DEF Stays, WorkerState
    <3>2. CASE Ends(w, state) \/ EndsTurn(w, state)
      BY <1>2, <3>2 DEF Ends, EndsTurn
    <3>3. QED
      BY <1>1, <3>1, <3>2 DEF TakesUp, GoesOn, Drives
  <2>3. QED
    BY <1>2, <1>4, <2>1, <2>2, WorkerAssumption
<1>11. SingleInFlightUnlessTakenUp'
  <2> SUFFICES ASSUME NEW u \in Worker, worker'[u].pc # "free", ~ worker'[u].aborted,
                      ~ (worker'[u].drive /\ worker'[u].initial # "active")
               PROVE  activeTurn' = u
    BY DEF SingleInFlightUnlessTakenUp, Running, TookUpGoal, Live
  <2>1. CASE u # w
    BY <1>2, <1>4, <2>1, WorkerAssumption
       DEF SingleInFlightUnlessTakenUp, Running, TookUpGoal, Live
  <2>2. CASE u = w
    <3>1. Stays(w, state) \/ GoesOn(w, state)
      BY <1>1, <1>2, <2>2 DEF Ends, EndsTurn, TakesUp, Drives
    <3>2. /\ activeTurn' = activeTurn
          /\ state.aborted = worker[w].aborted
          /\ state.initial = worker[w].initial
          /\ state.drive <=> worker[w].drive
      <4>1. CASE Stays(w, state)
        BY <1>2, <4>1 DEF Stays, WorkerState
      <4>2. CASE GoesOn(w, state)
        BY <4>2 DEF GoesOn, Drives
      <4>3. QED
        BY <3>1, <4>1, <4>2
    <3>3. Live(w)
      BY DEF Shape
    <3>4. QED
      BY <1>2, <2>2, <3>2, <3>3 DEF SingleInFlightUnlessTakenUp, Running, TookUpGoal
  <2>3. QED
    BY <2>1, <2>2
<1>12. QED
  BY <1>6, <1>7, <1>8, <1>9, <1>10, <1>11

\* Launching a worker, which only an idle agent does: no worker runs but one that
\* took up a goal, so the new one is the single one in flight.
LEMMA LaunchIInv ==
    ASSUME IInv, NEW origin \in {"user", "other"}, launch(origin), phase = "live",
           UNCHANGED phase, steerBuffer' \in SUBSET Steer
    PROVE  IInv'
<1> USE DEF IInv
<1>1. PICK w \in Worker :
         /\ ~ Live(w)
         /\ activeTurn' = w
         /\ allocateTurnId(w)
         /\ \E out \in SetOut(origin) :
               /\ worker' = [worker EXCEPT ![w] =
                     [Free EXCEPT !.pc = out[1], !.initial = goal, !.origin = origin,
                                  !.drive = (goal = "active")]]
               /\ goal' = out[2]
  BY DEF launch
<1>2. PICK out \in SetOut(origin) :
         /\ worker' = [worker EXCEPT ![w] =
               [Free EXCEPT !.pc = out[1], !.initial = goal, !.origin = origin,
                            !.drive = (goal = "active")]]
         /\ goal' = out[2]
  BY <1>1
<1> DEFINE state == [Free EXCEPT !.pc = out[1], !.initial = goal, !.origin = origin,
                                 !.drive = (goal = "active")]
<1>3. /\ out[1] \in {"count", "overBudget", "prompt", "load"}
      /\ goal' \in GoalStatus
      /\ goal' = "off" => goal = "off"
  BY <1>2 DEF SetOut, DriveFrom, BeginTurn, TypeOK, GoalStatus
<1>4. /\ state \in WorkerState /\ state.pc # "free" /\ ~ state.aborted
      /\ state.drive <=> goal = "active"
      /\ state.initial = goal
  BY <1>3 DEF Free, WorkerState, TypeOK, InTurn, Writing
<1> HIDE DEF state
<1>5. /\ worker \in [Worker -> WorkerState] /\ worker' = [worker EXCEPT ![w] = state]
      /\ worker' \in [Worker -> WorkerState]
      /\ worker'[w] = state
      /\ \A u \in Worker : u # w => worker'[u] = worker[u]
  BY <1>2, <1>4 DEF TypeOK, state
<1>6. activeTurn = None /\ activeTurn' = w /\ latest' = w
  BY <1>1 DEF launch, allocateTurnId
<1>7. TypeOK'
  BY <1>3, <1>5, <1>6 DEF TypeOK
<1>8. Phases'
  BY <1>6, WorkerAssumption DEF Phases
<1>9. ActiveRuns'
  BY <1>4, <1>5, <1>6 DEF ActiveRuns, Running, Live
<1>10. LatestIsActive'
  BY <1>6 DEF LatestIsActive
<1>11. NoGoalNoDrive'
  BY <1>3, <1>4, <1>5, <1>6 DEF NoGoalNoDrive
<1>12. SingleInFlightUnlessTakenUp'
  <2> SUFFICES ASSUME NEW u \in Worker, u # w, worker'[u].pc # "free",
                      ~ worker'[u].aborted,
                      ~ (worker'[u].drive /\ worker'[u].initial # "active")
               PROVE  FALSE
    BY <1>6 DEF SingleInFlightUnlessTakenUp, Running, TookUpGoal, Live
  <2>1. activeTurn = u
    BY <1>5 DEF SingleInFlightUnlessTakenUp, Running, TookUpGoal, Live
  <2>2. QED
    BY <1>6, <2>1, WorkerAssumption
<1>13. QED
  BY <1>7, <1>8, <1>9, <1>10, <1>11, <1>12

\* Cancelling: the active worker's signal is fired and there is no active turn.
LEMMA AbortIInv ==
    ASSUME IInv, abortTurn, UNCHANGED <<phase, latest, steerBuffer, goal>>
    PROVE  IInv'
<1> USE DEF IInv
<1>1. /\ activeTurn' = None
      /\ \A u \in Worker :
            /\ worker'[u] \in WorkerState
            /\ worker'[u].pc = worker[u].pc
            /\ worker'[u].drive = worker[u].drive
            /\ worker'[u].initial = worker[u].initial
            /\ worker'[u].aborted = IF u = activeTurn THEN TRUE ELSE worker[u].aborted
      /\ worker' \in [Worker -> WorkerState]
  BY ZenonT(40) DEF abortTurn, TypeOK, WorkerState
<1>2. TypeOK'
  BY <1>1 DEF TypeOK
<1>3. Phases' /\ ActiveRuns' /\ LatestIsActive' /\ NoGoalNoDrive'
  BY <1>1, WorkerAssumption DEF Phases, ActiveRuns, LatestIsActive, NoGoalNoDrive, Live, None, Resuming
<1>4. SingleInFlightUnlessTakenUp'
  <2> SUFFICES ASSUME NEW u \in Worker, worker'[u].pc # "free", ~ worker'[u].aborted,
                      ~ (worker'[u].drive /\ worker'[u].initial # "active")
               PROVE  FALSE
    BY DEF SingleInFlightUnlessTakenUp, Running, TookUpGoal, Live
  <2>1. u # activeTurn /\ ~ worker[u].aborted
    BY <1>1
  <2>2. QED
    BY <1>1, <2>1 DEF SingleInFlightUnlessTakenUp, Running, TookUpGoal, Live
<1>5. QED
  BY <1>2, <1>3, <1>4

\* Replaying records: there is no worker yet.
LEMMA ReplayIInv == IInv /\ Replay => IInv'
<1> SUFFICES ASSUME IInv, Replay PROVE IInv'
  OBVIOUS
<1> USE DEF IInv
<1>1. /\ phase = "replay" /\ worker' = worker /\ latest' = latest /\ goal' = goal
      /\ phase' \in {"replay", "live"}
      /\ activeTurn' \in {activeTurn, None, Resuming}
      /\ phase' = "live" => activeTurn' # Resuming
      /\ steerBuffer' \in SUBSET Steer
  BY DEF Replay, restorePrompt, restoreSteer, restoreCancel, finishResume, TypeOK,
         None, Resuming
<1>2. TypeOK'
  BY <1>1 DEF TypeOK
<1>3. \A w \in Worker : ~ Live(w)
  BY <1>1 DEF Phases
<1>4. activeTurn' \notin Worker
  <2>1. activeTurn \notin Worker
    BY <1>3 DEF ActiveRuns, Running
  <2>2. QED
    BY <1>1, <2>1, WorkerAssumption
<1>5. Phases' /\ ActiveRuns' /\ LatestIsActive' /\ SingleInFlightUnlessTakenUp'
  BY <1>1, <1>3, <1>4 DEF Phases, ActiveRuns, LatestIsActive, SingleInFlightUnlessTakenUp,
     Running, Live
<1>6. NoGoalNoDrive'
  BY <1>1, <1>4 DEF NoGoalNoDrive
<1>7. QED
  BY <1>2, <1>5, <1>6

\* The goal changes under the workers, where there is a goal store at all.
LEMMA GoalIInv == IInv /\ (UserGoal \/ ModelGoal) => IInv'
<1> SUFFICES ASSUME IInv, UserGoal \/ ModelGoal PROVE IInv'
  OBVIOUS
<1>1. /\ goal' \in GoalStatus /\ goal' # "off"
      /\ UNCHANGED <<phase, activeTurn, latest, steerBuffer, worker>>
  BY DEF UserGoal, ModelGoal, GoalChange, GoalStatus, None
<1>2. QED
  BY <1>1 DEF IInv, TypeOK, Phases, ActiveRuns, LatestIsActive, NoGoalNoDrive,
              SingleInFlightUnlessTakenUp, Running, TookUpGoal, Live

\* Every step keeps the invariant.
LEMMA NextIInv == IInv /\ [Next]_vars => IInv'
<1> SUFFICES ASSUME IInv, [Next]_vars PROVE IInv'
  OBVIOUS
<1>t. TypeOK
  BY DEF IInv
<1>1. CASE Replay
  BY <1>1, ReplayIInv
<1>2. CASE prompt
  BY <1>2, <1>t, LaunchIInv DEF prompt, TypeOK
<1>3. ASSUME NEW s \in Steer, NEW origin \in {"user", "other"}, steer(s, origin)
      PROVE  IInv'
  <2>1. CASE launch(origin) /\ UNCHANGED steerBuffer
    BY <1>3, <1>t, <2>1, LaunchIInv DEF steer, TypeOK
  <2>2. CASE /\ steerBuffer' = steerBuffer \cup {s}
             /\ UNCHANGED <<activeTurn, latest, worker, goal>>
    BY <1>3, <2>2 DEF steer, IInv, TypeOK, Phases, ActiveRuns, LatestIsActive,
       NoGoalNoDrive, SingleInFlightUnlessTakenUp, Running, TookUpGoal, Live
  <2>3. QED
    BY <1>3, <2>1, <2>2 DEF steer
<1>4. CASE cancel
  BY <1>4, AbortIInv DEF cancel
<1>5. ASSUME NEW w \in Worker, cancelTurn(w)
      PROVE  IInv'
  <2>1. CASE latest = w
    BY <1>5, <2>1, AbortIInv DEF cancelTurn
  <2>2. CASE latest # w
    BY <1>5, <2>2 DEF cancelTurn, IInv, TypeOK, Phases, ActiveRuns, LatestIsActive,
       NoGoalNoDrive, SingleInFlightUnlessTakenUp, Running, TookUpGoal, Live
  <2>3. QED
    BY <2>1, <2>2
<1>6. ASSUME NEW w \in Worker, WorkerStep(w) \/ WriteFails(w)
      PROVE  IInv'
  BY <1>6, <1>t, WorkerShape, ShapeIInv
<1>7. CASE UserGoal \/ ModelGoal
  BY <1>7, GoalIInv
<1>8. CASE UNCHANGED vars
  BY <1>8 DEF vars, IInv, TypeOK, Phases, ActiveRuns, LatestIsActive,
     NoGoalNoDrive, SingleInFlightUnlessTakenUp, Running, TookUpGoal, Live
<1>9. QED
  BY <1>1, <1>2, <1>3, <1>4, <1>5, <1>6, <1>7, <1>8 DEF Next

-----------------------------------------------------------------------------
\* The invariant holds in every state of every behaviour.
THEOREM TurnInvariant == Spec => []IInv
<1>1. Init => IInv
  BY InitIInv
<1>2. IInv /\ [Next]_vars => IInv'
  BY NextIInv
<1>3. QED
  BY <1>1, <1>2, PTL DEF Spec

\* Type correctness of the turn flow.
THEOREM TurnTypeCorrect == Spec => []TypeOK
<1>1. IInv => TypeOK
  BY DEF IInv
<1>2. QED
  BY <1>1, TurnInvariant, PTL

\* However many workers unwind beside it, a worker that was not cancelled is the
\* active turn, except one that took up a goal resumed during its own turn.
THEOREM OneInFlight == Spec => []SingleInFlightUnlessTakenUp
<1>1. IInv => SingleInFlightUnlessTakenUp
  BY DEF IInv
<1>2. QED
  BY <1>1, TurnInvariant, PTL

\* Without a goal store, the active turn is always the one with the latest id and
\* it was not cancelled.
THEOREM ActiveHasLatestId == Spec => []ActiveIsLatest
<1>1. IInv => ActiveIsLatest
  BY DEF IInv, NoGoalNoDrive, ActiveRuns, ActiveIsLatest
<1>2. QED
  BY <1>1, TurnInvariant, PTL

\* Unwinding workers never take the active turn from another one: it goes only by
\* a step of its own worker or by the cancel that fires that worker's signal.
THEOREM NoClobber == Spec => NeverClobbered
<1>1. IInv /\ [Next]_vars
        => [\A w \in Worker :
              activeTurn = w /\ activeTurn' # w => worker'[w] # worker[w]]_vars
  <2> SUFFICES ASSUME IInv, Next, NEW w \in Worker, activeTurn = w, activeTurn' # w
               PROVE  worker'[w] # worker[w]
    OBVIOUS
  <2> USE DEF IInv
  <2>1. /\ worker[w].pc # "free" /\ ~ worker[w].aborted
        /\ worker \in [Worker -> WorkerState] /\ w # None
        /\ phase = "live"
    BY WorkerAssumption DEF ActiveRuns, Running, Live, Phases, TypeOK
  <2>2. ASSUME abortTurn
        PROVE  worker'[w] # worker[w]
    <3>1. worker'[w] = [worker[w] EXCEPT !.aborted = TRUE]
      BY <2>2 DEF abortTurn
    <3>2. worker'[w].aborted
      BY <2>1, <3>1 DEF WorkerState
    <3>3. QED
      BY <2>1, <3>2
  <2>3. ASSUME NEW u \in Worker, WorkerStep(u) \/ WriteFails(u)
        PROVE  worker'[w] # worker[w]
    <3>1. Shape(u)
      BY <2>3, WorkerShape
    <3>2. PICK state \in WorkerState :
             /\ worker' = [worker EXCEPT ![u] = state]
             /\ state.pc = "free" => state = Free
             /\ \/ Stays(u, state) /\ state.pc # "free"
                \/ Ends(u, state)
                \/ EndsTurn(u, state)
                \/ TakesUp(u, state) /\ state.pc # "free"
                \/ GoesOn(u, state) /\ state.pc # "free"
      BY <3>1 DEF Shape
    <3>3. u = w
      BY <2>1, <3>1, <3>2 DEF Stays, Ends, EndsTurn, TakesUp, GoesOn, Released,
         LatestIsActive, Shape
    <3>4. worker'[w] = state
      BY <2>1, <3>2, <3>3
    <3>5. CASE state = Free
      BY <2>1, <3>4, <3>5 DEF Free
    <3>6. CASE TakesUp(u, state)
      BY <3>3, <3>4, <3>6 DEF TakesUp, Drives
    <3>7. QED
      BY <3>2, <3>3, <3>5, <3>6 DEF Stays, Ends, EndsTurn, GoesOn
  <2>4. QED
    <3>1. CASE cancel
      BY <2>2, <3>1 DEF cancel
    <3>2. ASSUME NEW u \in Worker, cancelTurn(u)
          PROVE  worker'[w] # worker[w]
      BY <2>2, <3>2 DEF cancelTurn
    <3>3. CASE Replay
      BY <2>1, <3>3 DEF Replay, restorePrompt, restoreSteer, restoreCancel, finishResume
    <3>4. CASE prompt \/ \E s \in Steer, origin \in {"user", "other"} : steer(s, origin)
      BY <2>1, <3>4 DEF prompt, steer, launch
    <3>5. CASE UserGoal \/ ModelGoal
      BY <3>5 DEF UserGoal, ModelGoal, GoalChange
    <3>6. QED
      BY <2>3, <3>1, <3>2, <3>3, <3>4, <3>5 DEF Next
<1>2. QED
  BY <1>1, TurnInvariant, PTL DEF Spec, NeverClobbered

\* A cancel leaves nothing running but a worker that took up a goal.
THEOREM CancelReaches == Spec => CancelStopsTurn
<1>1. IInv /\ [Next]_vars
        => [cancel \/ (goal = "off" /\ \E w \in Worker : Running(w) /\ cancelTurn(w))
              => \A w \in Worker : Live(w) /\ ~ TookUpGoal(w) => worker'[w].aborted]_vars
  <2> SUFFICES ASSUME IInv,
                      cancel \/ (goal = "off" /\ \E w \in Worker : Running(w) /\ cancelTurn(w)),
                      NEW w \in Worker, Live(w), ~ TookUpGoal(w)
               PROVE  worker'[w].aborted
    OBVIOUS
  <2> USE DEF IInv
  <2>1. abortTurn
    <3>1. CASE cancel
      BY <3>1 DEF cancel
    <3>2. ASSUME goal = "off", NEW u \in Worker, Running(u), cancelTurn(u)
          PROVE  abortTurn
      <4>1. ~ TookUpGoal(u)
        BY <3>2 DEF NoGoalNoDrive, TookUpGoal
      <4>2. activeTurn = u /\ latest = u
        BY <3>2, <4>1 DEF SingleInFlightUnlessTakenUp, NoGoalNoDrive
      <4>3. QED
        BY <3>2, <4>2 DEF cancelTurn
    <3>3. QED
      BY <3>1, <3>2
  <2>2. CASE worker[w].aborted
    BY <2>1, <2>2 DEF abortTurn, TypeOK, WorkerState
  <2>3. CASE ~ worker[w].aborted
    <3>1. activeTurn = w
      BY <2>3 DEF SingleInFlightUnlessTakenUp, Running
    <3>2. QED
      BY <2>1, <3>1 DEF abortTurn, TypeOK, WorkerState
  <2>4. QED
    BY <2>2, <2>3
<1>2. QED
  BY <1>1, TurnInvariant, PTL DEF Spec, CancelStopsTurn

=============================================================================
