--------------------------- MODULE ContextMemory ---------------------------
(***************************************************************************)
(* ContextMemory: what the model is told                                   *)
(* (packages/agent-core/src/agent/context/index.ts, its partitions in      *)
(* agent/index.ts, the switches of agent/session-mode/index.ts, the        *)
(* compaction worker of agent/compaction/full.ts and the replay of         *)
(* agent/records/index.ts).                                                *)
(*                                                                         *)
(* Each mode has a partition of its own: a history, the steps that are     *)
(* open in it, the tool calls whose results are missing, and the messages  *)
(* that wait for them, because nothing may stand between a call and its    *)
(* results.  Every change is logged; after a crash the records are applied *)
(* again.  A log that lost its end is the log of an earlier moment, so     *)
(* `disk` is the memory that a replay of all the records would build.      *)
(*                                                                         *)
(* Messages, steps and tool calls are numbered in one sequence.            *)
(***************************************************************************)
EXTENDS Naturals, Sequences, SequencesExt, Selection

CONSTANTS
    Mode,          \* session modes; "normal" is the one that is no mode
    Turn,          \* slots for turns that are alive together (a bound)
    MaxIds,        \* messages, steps and calls in a behaviour (a bound)
    MaxActs        \* interventions: cancelling, entering and leaving modes,
                   \* undoing, clearing, /compact, and crashes (a bound)

None == "none"

ASSUME ModeAssumption == "normal" \in Mode /\ None \notin Mode
ASSUME TurnAssumption == None \notin Turn
ASSUME BoundAssumption == MaxIds \in Nat /\ MaxActs \in Nat

VARIABLES
    live,          \* the memory: the active mode, the deferred switch, the
                   \* session mode, the partitions, and whether an event of an
                   \* unknown step has thrown
    disk,          \* the memory a replay of the records builds
    activeTurn,
    turn,
    compaction,    \* per mode, the compaction that runs
    entering,      \* per mode, how many calls of enter wait for its onEnter
    nextId,
    acts,
    intact,        \* history: no exchange was cut by a crash, no two turns were
                   \* alive together, nothing was appended while the model was
                   \* answering, and no compaction ended under an open step
    stepsKept,     \* history: nothing was undone or cleared under an open step
    overtaken      \* history: a mode was entered or left while an enter waited

ghosts == <<intact, stepsKept, overtaken>>
vars == <<live, disk, activeTurn, turn, compaction, entering, nextId, acts, ghosts>>

Id == 1 .. MaxIds
UserRole == {"prompt", "reminder", "notice"}   \* what a user message stands for

Message(role, id) == [role |-> role, id |-> id, calls |-> <<>>]

EmptyPart == [history |-> <<>>, openSteps |-> {}, pendingResults |-> {}, deferred |-> <<>>]
EmptyMemory == [active |-> "normal", switch |-> None, mode |-> "normal", threw |-> FALSE,
                part |-> [k \in Mode |-> EmptyPart]]
NotCompacting == [original |-> <<>>, count |-> 0, blockedByTurn |-> FALSE]
FreeTurn == [pc |-> "free", aborted |-> FALSE, step |-> 0, calls |-> <<>>]

Msg == [role : UserRole \cup {"assistant", "tool", "summary"}, id : Id,
        calls : Seq(Id)]

Part == [history : Seq(Msg), openSteps : SUBSET Id, pendingResults : SUBSET Id,
         deferred : Seq(Msg)]

Memory ==
    [active : Mode, switch : Mode \cup {None}, mode : Mode, threw : BOOLEAN,
     part : [Mode -> Part]]

TurnState ==
    [pc : {"free", "load", "blocked", "step", "calls", "results"},
     aborted : BOOLEAN, step : Id \cup {0}, calls : Seq(Id)]

Compaction == [original : Seq(Id), count : Nat, blockedByTurn : BOOLEAN]

TypeOK ==
    /\ live \in Memory /\ disk \in Memory
    /\ activeTurn \in Turn \cup {None}
    /\ turn \in [Turn -> TurnState]
    /\ compaction \in [Mode -> Compaction]
    /\ nextId \in 1 .. MaxIds + 1
    /\ acts \in 0 .. MaxActs
    /\ entering \in [Mode -> Nat]
    /\ intact \in BOOLEAN /\ stepsKept \in BOOLEAN /\ overtaken \in BOOLEAN

Init ==
    /\ live = EmptyMemory /\ disk = EmptyMemory
    /\ activeTurn = None
    /\ turn = [t \in Turn |-> FreeTurn]
    /\ compaction = [k \in Mode |-> NotCompacting]
    /\ entering = [k \in Mode |-> 0]
    /\ nextId = 1 /\ acts = 0
    /\ intact = TRUE /\ stepsKept = TRUE /\ overtaken = FALSE

-----------------------------------------------------------------------------
\* The operations of a partition p.

hasOpenToolExchange(p) == p.pendingResults # {}

\* Mutant: waiting messages stay where they are while a step is open.
flushDeferredMessages_StepsClosed(p) ==
    IF hasOpenToolExchange(p) \/ p.openSteps # {} THEN p
    ELSE [p EXCEPT !.history = @ \o p.deferred, !.deferred = <<>>]

flushDeferredMessages(p) ==
    IF hasOpenToolExchange(p) THEN p
    ELSE [p EXCEPT !.history = @ \o p.deferred, !.deferred = <<>>]

\* Mutant: a message does not wait for the results.
appendMessage_AtOnce(p, message) == [p EXCEPT !.history = Append(@, message)]

appendMessage(p, message) ==
    IF hasOpenToolExchange(p)
      THEN [p EXCEPT !.deferred = Append(@, message)]
      ELSE [p EXCEPT !.history = Append(@, message)]

stepBegin(p, s) ==
    [p EXCEPT !.history = Append(@, Message("assistant", s)), !.openSteps = @ \cup {s}]

toolCall(p, s, c) ==
    LET h == p.history
    IN [p EXCEPT !.history = [i \in DOMAIN h |->
                                IF h[i].role = "assistant" /\ h[i].id = s
                                  THEN [h[i] EXCEPT !.calls = Append(@, c)] ELSE h[i]],
                 !.pendingResults = @ \cup {c}]

toolResult(p, c) ==
    flushDeferredMessages([p EXCEPT !.history = Append(@, Message("tool", c)),
                                    !.pendingResults = @ \ {c}])

stepEnd(p, s) == flushDeferredMessages([p EXCEPT !.openSteps = @ \ {s}])

\* undo(1): from the end back to the last prompt, leaving reminders where they
\* are and stopping at a summary.
Undone(h) ==
    Keeping(h, {i \in DOMAIN h :
                  \/ h[i].role \in {"reminder", "summary"}
                  \/ \E j \in i + 1 .. Len(h) : h[j].role \in {"prompt", "summary"}})

undo(p) == [EmptyPart EXCEPT !.history = Undone(p.history)]

applyCompaction(p, n, id) ==
    flushDeferredMessages(
        [p EXCEPT !.history = <<Message("summary", id)>> \o SubSeq(@, n + 1, Len(@)), !.openSteps = {}])

\* dropOrphanToolResults: what is sent of a history.
Messages(h) ==
    Keeping(h, {n \in DOMAIN h :
                  h[n].role = "tool" => \E i \in 1 .. n - 1 : h[n].id \in Range(h[i].calls)})

-----------------------------------------------------------------------------
\* The operations of a memory m, which act on the partition of its active mode.

Active(m) == m.part[m.active]
Put(m, p) == [m EXCEPT !.part[m.active] = p]

flushDeferredContextSwitch(m) ==
    IF m.switch = None THEN m ELSE [m EXCEPT !.active = m.switch, !.switch = None]

\* Mutant: the switch is not deferred.
setContextMode_AtOnce(m, k) == [m EXCEPT !.active = k, !.switch = None]

setContextMode(m, k) ==
    IF Active(m).openSteps # {}
      THEN [m EXCEPT !.switch = k]
      ELSE [m EXCEPT !.active = k, !.switch = None]

\* restoreEnter, which a replay calls.
enter(m, k) == setContextMode([m EXCEPT !.mode = k], k)

leave(m) == setContextMode([m EXCEPT !.mode = "normal"], "normal")

exit(m) == IF m.mode = "normal" THEN m ELSE leave(m)

Received(m, message) == Put(m, appendMessage(Active(m), message))
StepBegun(m, s) == Put(m, stepBegin(Active(m), s))
Called(m, s, c) ==
    IF s \in Active(m).openSteps THEN Put(m, toolCall(Active(m), s, c))
                                 ELSE [m EXCEPT !.threw = TRUE]
Answered(m, c) == Put(m, toolResult(Active(m), c))
StepEnded(m, s) == flushDeferredContextSwitch(Put(m, stepEnd(Active(m), s)))
Cleared(m) == Put(m, EmptyPart)
UndoneIn(m) == Put(m, undo(Active(m)))
CompactedTo(m, n, id) == Put(m, applyCompaction(Active(m), n, id))

\* A logged operation: done now, and again by a replay.
Logged(Op(_)) == live' = Op(live) /\ disk' = Op(disk)

Numbered == nextId <= MaxIds /\ nextId' = nextId + 1
Intervenes == acts < MaxActs /\ acts' = acts + 1

-----------------------------------------------------------------------------
\* A message that comes in beside the turns.
append(role) ==
    /\ Numbered
    /\ Logged(LAMBDA m : Received(m, Message(role, nextId)))
    /\ UNCHANGED <<activeTurn, turn, compaction, entering, acts, stepsKept, overtaken>>

\* Steered input and injected reminders are appended before a step, the body of a
\* skill while the tool that loads it runs.
appendInTurn(t, role) ==
    /\ \/ turn[t].pc = "load"
       \/ role = "reminder" /\ turn[t].calls # <<>>
    /\ append(role)
    /\ UNCHANGED intact

\* The host tells at any time, in the middle of a step too, that the user has
\* cancelled the goal.
appendNotice ==
    /\ append("notice")
    /\ intact' = (intact /\ \A t \in Turn : turn[t].pc # "step")

Alive(t) == turn[t].pc # "free"
Idle == \A t \in Turn : ~ Alive(t)
MidStep == \E t \in Turn : turn[t].pc \in {"step", "calls", "results"}
Blocks(k) == compaction[k].blockedByTurn

\* A prompt, or a notice steered into an idle agent, launches a turn; an old turn
\* that was cancelled may still be there.
launch(t, role) ==
    /\ activeTurn = None /\ ~ Alive(t)
    /\ activeTurn' = t
    /\ turn' = [turn EXCEPT ![t] = [FreeTurn EXCEPT !.pc = "load"]]
    /\ intact' = (intact /\ Idle)
    /\ Numbered
    /\ Logged(LAMBDA m : Received(m, Message(role, nextId)))
    /\ UNCHANGED <<compaction, entering, acts, stepsKept, overtaken>>

cancel ==
    /\ activeTurn # None
    /\ Intervenes
    /\ activeTurn' = None
    /\ LET t == activeTurn IN
       /\ turn' = [turn EXCEPT ![t].aborted = TRUE,
                               ![t].pc = IF @ = "blocked" THEN "load" ELSE @]
       /\ compaction' = [k \in Mode |-> IF Blocks(k) THEN NotCompacting ELSE compaction[k]]
    /\ UNCHANGED <<live, disk, entering, nextId, ghosts>>

-----------------------------------------------------------------------------
\* The steps of a turn.

Goto(t, state) == turn' = [turn EXCEPT ![t] = state]

TurnOver(t) ==
    /\ Goto(t, FreeTurn)
    /\ activeTurn' = IF activeTurn = t THEN None ELSE activeTurn
    /\ UNCHANGED <<compaction, entering, acts, ghosts>>

\* Mutant: a turn that ends abnormally forgets the deferred switch.
EndTurn_NoFlush(t) == TurnOver(t) /\ UNCHANGED live

\* The end of a turn, however it came: a deferred switch is applied, and that is
\* not logged.
EndTurn(t) == TurnOver(t) /\ live' = flushDeferredContextSwitch(live)

\* The messages are built and step.begin is logged.
beginStep(t) ==
    /\ turn[t].pc = "load" /\ ~ turn[t].aborted
    /\ Numbered
    /\ Goto(t, [turn[t] EXCEPT !.pc = "step", !.step = nextId])
    /\ Logged(LAMBDA m : StepBegun(m, nextId))
    /\ UNCHANGED <<activeTurn, compaction, entering, acts, ghosts>>

\* The turn ends between two steps, or in a step: the model is done, the provider
\* failed, the signal was fired.
stopTurn(t) ==
    /\ turn[t].pc \in {"load", "step"}
    /\ EndTurn(t)
    /\ UNCHANGED <<disk, nextId>>

\* Content and tool calls of a step that is not open throw.
StepKnown(t) == turn[t].step \in Active(live).openSteps

tool_call(t) ==
    /\ turn[t].pc \in {"step", "calls"}
    /\ StepKnown(t)
    /\ Numbered
    /\ Goto(t, [turn[t] EXCEPT !.pc = "calls", !.calls = Append(@, nextId)])
    /\ Logged(LAMBDA m : Called(m, turn[t].step, nextId))
    /\ UNCHANGED <<activeTurn, compaction, entering, acts, ghosts>>

\* It throws when the event is logged already, and a replay throws there again.
unknownStep(t) ==
    /\ turn[t].pc \in {"step", "calls"} /\ ~ StepKnown(t)
    /\ Numbered
    /\ EndTurn(t)
    /\ disk' = Called(disk, turn[t].step, nextId)

\* Every call of the response is dispatched.
allCalled(t) ==
    /\ turn[t].pc = "calls"
    /\ Goto(t, [turn[t] EXCEPT !.pc = "results"])
    /\ UNCHANGED <<live, disk, activeTurn, compaction, entering, nextId, acts, ghosts>>

tool_result(t) ==
    /\ turn[t].pc = "results" /\ turn[t].calls # <<>>
    /\ Goto(t, [turn[t] EXCEPT !.calls = Tail(@)])
    /\ Logged(LAMBDA m : Answered(m, Head(turn[t].calls)))
    /\ UNCHANGED <<activeTurn, compaction, entering, nextId, acts, ghosts>>

\* The step is sealed, or, when the signal was fired, left open.
endStep(t) ==
    /\ \/ turn[t].pc = "step"
       \/ turn[t].pc = "results" /\ turn[t].calls = <<>>
    /\ IF turn[t].aborted
         THEN EndTurn(t) /\ UNCHANGED <<disk, nextId>>
         ELSE /\ Goto(t, [turn[t] EXCEPT !.pc = "load", !.step = 0])
              /\ Logged(LAMBDA m : StepEnded(m, turn[t].step))
              /\ UNCHANGED <<activeTurn, compaction, entering, nextId, acts, ghosts>>

TurnStep(t) ==
    \/ beginStep(t) \/ stopTurn(t) \/ tool_call(t) \/ unknownStep(t)
    \/ allCalled(t) \/ tool_result(t) \/ endStep(t)

-----------------------------------------------------------------------------
\* Compaction.  The worker keeps the history it began with.

\* canSplitAfter, for a split behind the first n messages.
SafeSplit(h, n) ==
    /\ h[n].role \notin UserRole /\ h[n].calls = <<>>
    /\ n < Len(h) => h[n + 1].role # "tool"

Splits(h) == {n \in 1 .. Len(h) : SafeSplit(h, n)}

\* The order of the messages in a history is their identity.
Ids(h) == [i \in DOMAIN h |-> h[i].id]

begin(blocks) ==
    /\ \/ /\ compaction[live.active] = NotCompacting
          /\ \E n \in Splits(Active(live).history) :
                compaction' = [compaction EXCEPT ![live.active] =
                                  [original |-> Ids(Active(live).history), count |-> n,
                                   blockedByTurn |-> blocks]]
       \/ /\ compaction[live.active] # NotCompacting /\ blocks
          /\ compaction' = [compaction EXCEPT ![live.active].blockedByTurn = TRUE]
    /\ UNCHANGED <<live, disk, activeTurn, entering, nextId, ghosts>>

\* /compact, which is not refused while a turn runs.
beginManual == Intervenes /\ begin(FALSE) /\ UNCHANGED turn

\* Before a step, or when the provider says that the context overflows, the turn
\* compacts, or joins the compaction that runs, and waits.
beginAuto(t) ==
    /\ turn[t].pc \in {"load", "step"} /\ ~ turn[t].aborted
    /\ begin(TRUE)
    /\ Goto(t, [turn[t] EXCEPT !.pc = "blocked", !.step = 0])
    /\ UNCHANGED acts

\* The turn that a compaction of mode k kept waiting goes on.
Unblock(k) ==
    turn' = [t \in Turn |-> IF turn[t].pc = "blocked" /\ Blocks(k)
                              THEN [turn[t] EXCEPT !.pc = "load"] ELSE turn[t]]

\* Mutant: the worker does not look whether its history is still there.
Unchanged_Unchecked(k) == Len(Active(live).history) >= compaction[k].count

Unchanged(k) ==
    LET original == compaction[k].original
        now == Ids(Active(live).history)
    IN Len(now) >= Len(original) /\ SubSeq(now, 1, Len(original)) = original

\* The summary is there.  The worker of mode k acts on the active partition; the
\* reminder of a goal follows the summary, if there is a goal.
compacted(k) ==
    /\ compaction[k] # NotCompacting
    /\ compaction' = [compaction EXCEPT ![k] = NotCompacting]
    /\ Unblock(k)
    /\ IF Unchanged(k)
         THEN /\ \/ /\ Numbered
                    /\ Logged(LAMBDA m : CompactedTo(m, compaction[k].count, nextId))
                 \/ /\ nextId < MaxIds
                    /\ nextId' = nextId + 2
                    /\ Logged(LAMBDA m : Received(CompactedTo(m, compaction[k].count, nextId),
                                                 Message("reminder", nextId + 1)))
              /\ intact' = (intact /\ ~ MidStep)
         ELSE UNCHANGED <<live, disk, nextId, intact>>
    /\ UNCHANGED <<activeTurn, entering, acts, stepsKept, overtaken>>

\* It failed or was cancelled.
compactionFails(k) ==
    /\ compaction[k] # NotCompacting
    /\ compaction' = [compaction EXCEPT ![k] = NotCompacting]
    /\ Unblock(k)
    /\ UNCHANGED <<live, disk, activeTurn, entering, nextId, acts, ghosts>>

-----------------------------------------------------------------------------
\* The user and the tools that enter and leave modes: all of it at any time, in the
\* middle of a step too.

\* A call of enter waits for the onEnter of its mode.
Entering == \E k \in Mode : entering[k] > 0
Switches ==
    /\ Intervenes
    /\ overtaken' = (overtaken \/ Entering)
    /\ UNCHANGED <<activeTurn, turn, compaction, nextId, intact, stepsKept>>

\* enter up to its await: the mode is set, and another one left, but the partition
\* is not switched yet.
enterMode(k) ==
    /\ Switches
    /\ k \notin {"normal", live.mode}
    /\ live' = [exit(live) EXCEPT !.mode = k]
    /\ disk' = IF live.mode = "normal" THEN disk ELSE exit(disk)
    /\ entering' = [entering EXCEPT ![k] = @ + 1]

\* The call of enter goes on: it does not look whether its mode is still the one.
Entered(k) ==
    /\ entering[k] > 0
    /\ entering' = [entering EXCEPT ![k] = @ - 1]
    /\ UNCHANGED <<activeTurn, turn, compaction, nextId, acts, ghosts>>

entered(k) == Entered(k) /\ live' = setContextMode(live, k) /\ disk' = enter(disk, k)

\* onEnter has thrown: the mode is left, and nothing is logged.
enterFails(k) == Entered(k) /\ live' = leave(live) /\ UNCHANGED disk

exitMode ==
    /\ Switches
    /\ live.mode # "normal"
    /\ Logged(exit)
    /\ UNCHANGED entering

Erases(Op(_)) ==
    /\ Intervenes
    /\ Logged(Op)
    /\ stepsKept' = (stepsKept /\ ~ MidStep)
    /\ UNCHANGED <<activeTurn, turn, compaction, entering, nextId, intact, overtaken>>

undoHistory == Active(live).history # <<>> /\ Erases(UndoneIn)

clearContext == Erases(Cleared)

\* The process dies and the session is resumed: the records are replayed.  A
\* replay that throws leaves nothing to go on with.
crash ==
    /\ Intervenes
    /\ ~ disk.threw
    /\ live' = disk
    /\ activeTurn' = None
    /\ turn' = [t \in Turn |-> FreeTurn]
    /\ compaction' = [k \in Mode |-> NotCompacting]
    /\ entering' = [k \in Mode |-> 0]
    /\ intact' = (intact /\ \A k \in Mode : disk.part[k].pendingResults = {})
    /\ stepsKept' = TRUE /\ overtaken' = FALSE
    /\ UNCHANGED <<disk, nextId>>

-----------------------------------------------------------------------------
Next ==
    \/ appendNotice
    \/ \E t \in Turn, role \in {"prompt", "reminder"} : appendInTurn(t, role)
    \/ \E t \in Turn, role \in {"prompt", "notice"} : launch(t, role)
    \/ cancel
    \/ \E t \in Turn : TurnStep(t) \/ beginAuto(t)
    \/ beginManual
    \/ \E k \in Mode : compacted(k) \/ compactionFails(k)
    \/ \E k \in Mode : enterMode(k) \/ entered(k) \/ enterFails(k)
    \/ exitMode \/ undoHistory \/ clearContext \/ crash

Spec == Init /\ [][Next]_vars

\* The model answers or fails, tools end, and the event loop goes on.
FairSpec == Spec /\ \A t \in Turn : WF_vars(TurnStep(t))

-----------------------------------------------------------------------------
\* A provider accepts a history in which the results of a message's calls follow
\* it at once, in order.
Acceptable(h) ==
    \A i \in DOMAIN h : \A j \in 1 .. Len(h[i].calls) :
        /\ i + j <= Len(h)
        /\ h[i + j].role = "tool" /\ h[i + j].id = h[i].calls[j]

Sends(t) == turn[t].pc = "load" /\ ~ turn[t].aborted

\* Whenever a turn may build the messages of a step, the provider accepts them:
\* deferring kept everything out of the exchanges, and no compaction cut one.
AnsweredWhenSent ==
    \A t \in Turn : Sends(t) /\ intact => Acceptable(Messages(Active(live).history))

\* The records can be applied again: no event was logged whose step the replay
\* does not find open, so that appendLoopEvent would throw in it.
Resumable == ~ disk.threw

\* It is so in an intact history in which no step was undone or cleared under its
\* turn: the deferred switch never takes the partition away from under an open step.
ResumableWhenIntact == intact /\ stepsKept => Resumable

\* No step loses a message but undo, clear, a replay that differs from the memory,
\* and a compaction the prefix it has summarised: a worker that finds another
\* history than it began with, or another mode's, leaves it alone.
Kept(m) == UNION {{x.id : x \in Range(m.part[k].history \o m.part[k].deferred)} : k \in Mode}
Summarised(k) == {compaction[k].original[i] : i \in 1 .. compaction[k].count}
MessagesKept ==
    [][\/ undoHistory \/ clearContext \/ (crash /\ live # disk)
       \/ Kept(live) \subseteq Kept(live')
       \/ \E k \in Mode : compacted(k) /\ Kept(live) \subseteq Kept(live') \cup Summarised(k)
      ]_vars

\* However a turn ends, the partition in use is then that of the session's mode, or
\* still the normal one while the mode is being entered.  Only an enter that was
\* overtaken in its await leaves mode and partition apart (enter does not look
\* again), until the session is resumed.
SwitchSettles ==
    [][\/ crash \/ overtaken'
       \/ \A t \in Turn : Alive(t) /\ turn'[t].pc = "free"
             => live'.active = IF Entering' THEN "normal" ELSE live'.mode]_vars

\* Messages held back for results are let in, also when the turn is aborted or
\* its step is never sealed.
DeferredArrive ==
    \A k \in Mode : live.part[k].deferred # <<>>
                      ~> live.part[k].deferred = <<>> \/ ~ intact

=============================================================================
