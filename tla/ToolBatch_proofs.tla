-------------------------- MODULE ToolBatch_proofs --------------------------
(***************************************************************************)
(* Proofs about the tool scheduler and about the batch of tool calls that  *)
(* drives it, for any number of calls and any declared accesses.           *)
(*                                                                         *)
(* The scheduler first, as a specification of its own.  Its argument needs *)
(* one fact about accesses, that conflict is symmetric, and one about the  *)
(* arrays, that a task which is neither active nor queued has settled.     *)
(*                                                                         *)
(* Each step of the batch is a step of the scheduler or leaves it alone.   *)
(* So what is proved of the scheduler holds of the batch's, and only what  *)
(* the batch adds is proved of it: a running tool holds the scheduler, and *)
(* after an abort no tool starts.                                          *)
(*                                                                         *)
(* At last, what the conflict of two accesses means in files.              *)
(***************************************************************************)
EXTENDS ToolBatch, SequenceTheorems, FiniteSetTheorems, TLAPS

-----------------------------------------------------------------------------
\* The scheduler.

\* tool-access.ts asks conflict(new, old) on one path and conflict(old, new)
\* on another; the answer does not depend on who asks.
LEMMA ConflictSymmetric ==
    ASSUME NEW a, NEW b
    PROVE  conflict(a, b) <=> conflict(b, a)
<1>1. ASSUME NEW l, NEW r, resourceAccessesConflict(l, r)
      PROVE  resourceAccessesConflict(r, l)
  BY <1>1 DEF resourceAccessesConflict, fileOperationsConflict, fileAccessesOverlap
<1>2. QED
  BY <1>1 DEF conflict

\* Where each added task is.
Partition ==
    /\ activeTasks \cap queuedTasks = {}
    /\ settled \cap queuedTasks = {}
    /\ Added \subseteq activeTasks \cup queuedTasks \cup settled

SchedulerIInv ==
    /\ SchedulerTypeOK
    /\ Partition
    /\ NoConflictingActive
    /\ NoStrandedTask
    /\ NoOvertaking

-----------------------------------------------------------------------------
\* The empty scheduler has the inductive invariant.
LEMMA SchedulerInitIInv == SchedulerInit => SchedulerIInv
BY MaxTasksAssumption
   DEF SchedulerInit, SchedulerIInv, SchedulerTypeOK, Partition, NoConflictingActive,
       NoStrandedTask, NoOvertaking, Added, Started

\* add keeps every part: the new task has the greatest number, so it is queued
\* behind all it conflicts with and overtakes nobody.
LEMMA AddIInv ==
    ASSUME SchedulerIInv, NEW declared \in AccessLists, add(declared)
    PROVE  SchedulerIInv'
<1> DEFINE t == Len(accesses) + 1
<1> USE DEF SchedulerIInv
<1>1. /\ accesses' = Append(accesses, declared)
      /\ accesses' \in Seq(AccessLists)
      /\ Len(accesses') = t /\ t \in Nat /\ t <= MaxTasks
      /\ accesses'[t] = declared
      /\ \A u \in Added : accesses'[u] = accesses[u]
      /\ Added' = Added \cup {t} /\ t \notin Added
      /\ settled' = settled
  BY DEF add, SchedulerTypeOK, Added
<1>2. \A u \in Added : u \in Nat /\ u < t
  BY <1>1 DEF Added, SchedulerTypeOK
<1>3. CASE isBlocked(declared, activeTasks, queuedTasks)
  <2>1. queuedTasks' = queuedTasks \cup {t} /\ activeTasks' = activeTasks
    BY <1>3 DEF add
  <2>2. SchedulerTypeOK'
    BY <1>1, <2>1 DEF SchedulerTypeOK
  <2>3. Partition'
    BY <1>1, <2>1 DEF SchedulerTypeOK, Partition
  <2>4. NoConflictingActive'
    BY <1>1, <2>1 DEF SchedulerTypeOK, NoConflictingActive
  <2>5. NoStrandedTask'
    <3> SUFFICES ASSUME NEW q \in queuedTasks'
                 PROVE  \E u \in activeTasks' \cup {v \in queuedTasks' : v < q} :
                           conflict(accesses'[q], accesses'[u])
      BY DEF NoStrandedTask, isBlocked, conflictsWithAny
    <3>1. CASE q = t
      <4>1. PICK u \in activeTasks \cup queuedTasks : conflict(declared, accesses[u])
        BY <1>3 DEF isBlocked, conflictsWithAny
      <4>2. u \in Added /\ u < t /\ accesses'[u] = accesses[u]
        BY <1>1, <1>2 DEF SchedulerTypeOK
      <4>3. QED
        BY <1>1, <2>1, <3>1, <4>1, <4>2
    <3>2. CASE q \in queuedTasks
      <4>1. PICK u \in activeTasks \cup {v \in queuedTasks : v < q} :
               conflict(accesses[q], accesses[u])
        BY <3>2 DEF NoStrandedTask, isBlocked, conflictsWithAny
      <4>2. /\ u \in Added /\ accesses'[u] = accesses[u]
            /\ q \in Added /\ accesses'[q] = accesses[q]
        BY <1>1, <3>2 DEF SchedulerTypeOK
      <4>3. QED
        BY <2>1, <4>1, <4>2
    <3>3. QED
      BY <2>1, <3>1, <3>2
  <2>6. NoOvertaking'
    <3>1. Started' = Started /\ Started \subseteq Added
      BY <1>1, <2>1 DEF Started, SchedulerTypeOK
    <3>2. \A s \in Started : ~ (t < s)
      BY <1>2, <3>1, <1>1
    <3>3. QED
      BY <1>1, <2>1, <3>1, <3>2 DEF NoOvertaking, SchedulerTypeOK
  <2>7. QED
    BY <2>2, <2>3, <2>4, <2>5, <2>6
<1>4. CASE ~ isBlocked(declared, activeTasks, queuedTasks)
  <2>1. activeTasks' = activeTasks \cup {t} /\ queuedTasks' = queuedTasks
    BY <1>4 DEF add
  <2>2. \A u \in activeTasks \cup queuedTasks : ~ conflict(declared, accesses[u])
    BY <1>4 DEF isBlocked, conflictsWithAny
  <2>3. SchedulerTypeOK'
    BY <1>1, <2>1 DEF SchedulerTypeOK
  <2>4. Partition'
    BY <1>1, <2>1 DEF SchedulerTypeOK, Partition
  <2>5. NoConflictingActive'
    <3>1. \A u \in activeTasks : u # t /\ accesses'[u] = accesses[u]
      BY <1>1 DEF SchedulerTypeOK
    <3>2. \A u \in activeTasks :
             ~ conflict(declared, accesses[u]) /\ ~ conflict(accesses[u], declared)
      BY <2>2, ConflictSymmetric
    <3>3. ASSUME NEW a \in activeTasks', NEW b \in activeTasks', a # b
          PROVE  ~ conflict(accesses'[a], accesses'[b])
      BY <1>1, <2>1, <3>1, <3>2, <3>3 DEF NoConflictingActive
    <3>4. QED
      BY <3>3 DEF NoConflictingActive
  <2>6. NoStrandedTask'
    BY <1>1, <2>1 DEF NoStrandedTask, isBlocked, conflictsWithAny, SchedulerTypeOK
  <2>7. NoOvertaking'
    <3>1. Started' = Started \cup {t} /\ Started \subseteq Added
      BY <1>1, <2>1 DEF Started, SchedulerTypeOK
    <3>2. \A q \in queuedTasks : accesses'[q] = accesses[q]
      BY <1>1 DEF SchedulerTypeOK
    <3>3. \A q \in queuedTasks : ~ conflict(accesses[q], declared)
      BY <2>2, ConflictSymmetric
    <3>4. QED
      BY <1>1, <2>1, <3>1, <3>2, <3>3 DEF NoOvertaking
  <2>8. QED
    BY <2>3, <2>4, <2>5, <2>6, <2>7
<1>5. QED
  BY <1>3, <1>4

\* A result that becomes visible moves no task: only Partition mentions it.
LEMMA SettleIInv ==
    ASSUME SchedulerIInv, NEW t \in Added, settle(t)
    PROVE  SchedulerIInv'
BY DEF SchedulerIInv, settle, SchedulerTypeOK, Partition, NoConflictingActive, NoStrandedTask,
       NoOvertaking, Added, Started, isBlocked, conflictsWithAny

\* finish keeps every part: what it starts conflicts with nothing active and
\* with nothing queued before it, and what it leaves is still blocked, by a task
\* that was active, was just started, or is left as well.
LEMMA FinishIInv ==
    ASSUME SchedulerIInv, NEW t \in Added, finish(t)
    PROVE  SchedulerIInv'
<1> DEFINE startable == startQueuedTasks(activeTasks \ {t})
<1> USE DEF SchedulerIInv
<1>1. /\ activeTasks' = (activeTasks \ {t}) \cup startable
      /\ queuedTasks' = queuedTasks \ startable
      /\ accesses' = accesses /\ settled' = settled /\ Added' = Added
      /\ t \in activeTasks /\ t \in settled
  BY DEF finish, Added
<1>2. \A q \in startable :
        /\ q \in queuedTasks
        /\ \A u \in activeTasks \ {t} : ~ conflict(accesses[q], accesses[u])
        /\ \A u \in queuedTasks : u < q => ~ conflict(accesses[q], accesses[u])
  BY DEF startQueuedTasks, isBlocked, conflictsWithAny
<1>3. \A q \in queuedTasks \ startable :
        \E u \in (activeTasks \ {t}) \cup {v \in queuedTasks : v < q} :
           conflict(accesses[q], accesses[u])
  BY DEF startQueuedTasks, isBlocked, conflictsWithAny
<1>4. \A u \in Added : u \in Nat
  BY DEF Added
<1> HIDE DEF startable
<1>5. SchedulerTypeOK'
  BY <1>1, <1>2 DEF SchedulerTypeOK
<1>6. Partition'
  BY <1>1, <1>2 DEF Partition
<1>7. NoConflictingActive'
  <2> SUFFICES ASSUME NEW a \in activeTasks', NEW b \in activeTasks', a # b
               PROVE  ~ conflict(accesses[a], accesses[b])
    BY <1>1 DEF NoConflictingActive
  <2>1. a \in Nat /\ b \in Nat
    BY <1>1, <1>2, <1>4 DEF SchedulerTypeOK
  <2>2. CASE a \in activeTasks \ {t} /\ b \in activeTasks \ {t}
    BY <2>2 DEF NoConflictingActive
  <2>3. CASE a \in startable /\ b \in activeTasks \ {t}
    BY <1>2, <2>3
  <2>4. CASE b \in startable /\ a \in activeTasks \ {t}
    BY <1>2, <2>4, ConflictSymmetric
  <2>5. CASE a \in startable /\ b \in startable
    <3>1. a < b \/ b < a
      BY <2>1
    <3>2. QED
      BY <1>2, <2>5, <3>1, ConflictSymmetric
  <2>6. QED
    BY <1>1, <2>2, <2>3, <2>4, <2>5
<1>8. NoStrandedTask'
  <2> SUFFICES ASSUME NEW q \in queuedTasks'
               PROVE  \E u \in activeTasks' \cup {v \in queuedTasks' : v < q} :
                         conflict(accesses[q], accesses[u])
    BY <1>1 DEF NoStrandedTask, isBlocked, conflictsWithAny
  <2>1. PICK u \in (activeTasks \ {t}) \cup {v \in queuedTasks : v < q} :
           conflict(accesses[q], accesses[u])
    BY <1>1, <1>3
  <2>2. u \in activeTasks' \cup {v \in queuedTasks' : v < q}
    BY <1>1, <2>1
  <2>3. QED
    BY <2>1, <2>2
<1>9. NoOvertaking'
  <2> SUFFICES ASSUME NEW q \in queuedTasks', NEW s \in Started', q < s
               PROVE  ~ conflict(accesses[q], accesses[s])
    BY <1>1 DEF NoOvertaking
  <2>1. CASE s \in Started
    BY <1>1, <2>1 DEF NoOvertaking
  <2>2. CASE s \in startable
    BY <1>1, <1>2, <2>2, ConflictSymmetric
  <2>3. QED
    BY <1>1, <2>1, <2>2 DEF Started
<1>10. QED
  BY <1>5, <1>6, <1>7, <1>8, <1>9

\* Every step of the scheduler keeps the inductive invariant.
LEMMA SchedulerStepIInv == SchedulerIInv /\ [SchedulerNext]_schedulerVars => SchedulerIInv'
<1> SUFFICES ASSUME SchedulerIInv, [SchedulerNext]_schedulerVars
             PROVE  SchedulerIInv'
  OBVIOUS
<1>1. CASE \E declared \in AccessLists : add(declared)
  BY <1>1, AddIInv
<1>2. CASE \E t \in Added : settle(t) \/ finish(t)
  BY <1>2, SettleIInv, FinishIInv
<1>3. CASE UNCHANGED schedulerVars
  BY <1>3 DEF schedulerVars, SchedulerIInv, SchedulerTypeOK, Partition, NoConflictingActive,
     NoStrandedTask, NoOvertaking, Added, Started, isBlocked, conflictsWithAny
<1>4. QED
  BY <1>1, <1>2, <1>3 DEF SchedulerNext, SchedulerIdle

-----------------------------------------------------------------------------
\* The inductive invariant of the scheduler: types, where each task is, and the
\* three safety properties, none of which is inductive without the others.
THEOREM SchedulerInvariant == SchedulerSpec => []SchedulerIInv
<1>1. QED
  BY SchedulerInitIInv, SchedulerStepIInv, PTL DEF SchedulerSpec

\* The scheduler's variables keep their types (loop/tool-scheduler.ts).
THEOREM SchedulerTypeCorrect == SchedulerSpec => []SchedulerTypeOK
BY SchedulerInvariant, PTL DEF SchedulerIInv

\* Conflicting tasks never hold the scheduler together.
THEOREM MutualExclusion == SchedulerSpec => []NoConflictingActive
BY SchedulerInvariant, PTL DEF SchedulerIInv

\* A waiting task always waits behind a conflicting one: no wake-up is lost.
THEOREM NoLostWakeup == SchedulerSpec => []NoStrandedTask
BY SchedulerInvariant, PTL DEF SchedulerIInv

\* Conflicting tasks start in the provider's order.
THEOREM ProviderOrder == SchedulerSpec => []NoOvertaking
BY SchedulerInvariant, PTL DEF SchedulerIInv

-----------------------------------------------------------------------------
\* A step of the scheduler is a step of the promise, or changes nothing in it.
LEMMA StepRefines == SchedulerIInv /\ [SchedulerNext]_schedulerVars => [Promise!Next]_(Promise!vars)
<1> SUFFICES ASSUME SchedulerIInv, [SchedulerNext]_schedulerVars
             PROVE  Promise!Next \/ UNCHANGED Promise!vars
  OBVIOUS
<1> USE DEF SchedulerIInv
<1>1. ASSUME NEW declared \in AccessLists, add(declared)
      PROVE  Promise!Start
  <2> DEFINE t == Len(accesses) + 1
  <2>1. /\ accesses' = Append(accesses, declared)
        /\ Len(accesses) < MaxTasks /\ t \in Nat
        /\ accesses'[t] = declared
        /\ \A u \in 1..Len(accesses) : accesses'[u] = accesses[u]
        /\ Added' = Added \cup {t} /\ t \notin Added /\ t \in 1..Len(accesses')
        /\ 1..(t - 1) = Added
        /\ settled' = settled
    BY <1>1, MaxTasksAssumption DEF add, SchedulerTypeOK, Added
  <2>2. CASE isBlocked(declared, activeTasks, queuedTasks)
    <3>1. Started' = Started
      BY <1>1, <2>1, <2>2 DEF add, Started
    <3>2. QED
      BY <1>1, <2>1, <3>1 DEF Promise!Start
  <2>3. CASE ~ isBlocked(declared, activeTasks, queuedTasks)
    <3>1. Started' = Started \cup {t}
      BY <1>1, <2>1, <2>3 DEF add, Started, SchedulerTypeOK
    <3>2. \A u \in Added : conflict(accesses'[t], accesses'[u]) => u \in settled
      BY <2>1, <2>3 DEF isBlocked, conflictsWithAny, Partition, Added
    <3>3. Promise!Earlier(t, accesses') \subseteq settled
      BY <2>1, <3>2 DEF Promise!Earlier
    <3>4. QED
      BY <1>1, <2>1, <3>1, <3>3 DEF Promise!Start
  <2>4. QED
    BY <2>2, <2>3
<1>2. ASSUME NEW t \in Added, settle(t)
      PROVE  Promise!Settle
  BY <1>2 DEF settle, Promise!Settle, Started, Added, Partition, SchedulerTypeOK
<1>3. ASSUME NEW t \in Added, finish(t)
      PROVE  Promise!Start
  <2> DEFINE startable == startQueuedTasks(activeTasks \ {t})
  <2>1. /\ accesses' = accesses /\ settled' = settled
        /\ queuedTasks' = queuedTasks \ startable /\ startable \subseteq queuedTasks
        /\ t \in settled
    BY <1>3 DEF finish, startQueuedTasks
  <2>2. Started' = Started \cup startable /\ startable \subseteq Added
    BY <2>1 DEF Started, Added, SchedulerTypeOK
  <2>3. ASSUME NEW q \in startable
        PROVE  Promise!Earlier(q, accesses) \subseteq settled
    <3> SUFFICES ASSUME NEW u \in 1..(q - 1), conflict(accesses[q], accesses[u])
                 PROVE  u \in settled
      BY DEF Promise!Earlier
    <3>1. u \in Added /\ u < q
      <4>1. q \in 1..Len(accesses) /\ Len(accesses) \in Nat
        <5>1. accesses \in Seq(AccessLists) /\ q \in Added
          BY <2>2 DEF SchedulerTypeOK
        <5>2. QED
          BY <5>1 DEF Added
      <4>2. QED
        BY <4>1 DEF Added
    <3>2. u \notin activeTasks \ {t} /\ u \notin queuedTasks
      BY <3>1 DEF startQueuedTasks, isBlocked, conflictsWithAny
    <3>3. QED
      BY <2>1, <3>1, <3>2 DEF Partition
  <2> HIDE DEF startable
  <2>4. QED
    BY <2>1, <2>2, <2>3 DEF Promise!Start, Added
<1>4. CASE UNCHANGED schedulerVars
  BY <1>4 DEF schedulerVars, Promise!vars, Started, Added
<1>5. QED
  BY <1>1, <1>2, <1>3, <1>4 DEF SchedulerNext, SchedulerIdle, Promise!Next

\* The scheduler does what ConflictOrder promises, for any tasks: a task starts
\* once every earlier conflicting one has settled, never before.
THEOREM Refinement == SchedulerSpec => ImplementsConflictOrder
<1>1. SchedulerInit => Promise!Init
  BY DEF SchedulerInit, Promise!Init, Started, Added
<1>2. QED
  BY <1>1, StepRefines, SchedulerInvariant, PTL
     DEF SchedulerSpec, ImplementsConflictOrder, Promise!Spec

-----------------------------------------------------------------------------
\* The batch.

Preparing == {"prepare", "authorize", "dispatch", "add"}

\* What the batch has added, and which results it has seen, is what pc and
\* index say.
Progressed ==
    /\ pc \in Preparing => Len(accesses) = index - 1
    /\ pc \in {"drain", "returned"} => Len(accesses) = MaxTasks
    /\ pc = "drain" => 1 .. (index - 1) \subseteq settled
    /\ pc \in Over => settled = Added

\* What it has recorded, unless an event could not be.
Told ==
    IF pc \in Preparing THEN IF pc = "add" THEN index ELSE index - 1
    ELSE IF pc = "drain" THEN MaxTasks + (index - 1) ELSE 2 * MaxTasks
InOrder ==
    pc \notin {"settle", "threw"} => transcript = [i \in 1 .. Told |-> Event(i)]

\* A running tool holds the scheduler until its result is known; a tool that was
\* given up on holds it no longer, but then the batch is aborted.
BodyHeld(c) ==
    /\ body[c] = "running" => c \in activeTasks /\ c \notin settled
    /\ body[c] = "orphaned" => c \in Added /\ aborted
BodiesHeld == \A c \in Call : BodyHeld(c)

IInv ==
    /\ TypeOK
    /\ SchedulerIInv
    /\ Progressed
    /\ InOrder
    /\ BodiesHeld
    /\ NoConflictingBodies

-----------------------------------------------------------------------------
\* Whatever the batch does, its scheduler makes one of its own steps or none.
LEMMA DrivesScheduler ==
    ASSUME IInv, [Next]_vars
    PROVE  [SchedulerNext]_schedulerVars
<1> USE DEF schedulerUnchanged, schedulerVars
<1>1. CASE AddTask
  <2>1. add(prepared.declared) /\ prepared.declared \in AccessLists
    BY <1>1 DEF AddTask, IInv, TypeOK
  <2>2. QED
    BY <2>1 DEF SchedulerNext
<1>2. ASSUME NEW c \in Call, settle(c) \/ finish(c)
      PROVE  SchedulerNext
  <2>1. activeTasks \subseteq Added
    BY DEF IInv, SchedulerIInv, SchedulerTypeOK
  <2>2. c \in Added
    BY <1>2, <2>1 DEF settle, finish
  <2>3. QED
    BY <1>2, <2>2 DEF SchedulerNext
<1>3. ASSUME NEW c \in Call, ToolEnds(c) \/ TaskStep(c)
      PROVE  SchedulerNext \/ UNCHANGED schedulerVars
  BY <1>2, <1>3 DEF ToolEnds, TaskStep, ResultSettles, GraceTimeout, Release
<1>4. CASE BatchStep
  BY <1>1, <1>4 DEF BatchStep, Prepare, PrepareRepetition, PrepareSkipped, Authorize, Decide,
     DispatchToolCall, DispatchToolResult, AllSettled
<1>5. CASE Abort
  BY <1>5 DEF Abort
<1>6. CASE UNCHANGED vars
  BY <1>6 DEF vars
<1>7. QED
  BY <1>3, <1>4, <1>5, <1>6 DEF Next, BatchOver

\* What is invariant of the scheduler is invariant of the batch's.
LEMMA SchedulerKept ==
    ASSUME IInv, [Next]_vars
    PROVE  SchedulerIInv'
BY DrivesScheduler, SchedulerStepIInv DEF IInv

-----------------------------------------------------------------------------
\* What the steps of the scheduler leave of it.

\* How many calls there are, were taken up and were added.
LEMMA Numbers ==
    ASSUME IInv
    PROVE  /\ MaxTasks \in Nat /\ 1 <= MaxTasks
           /\ index \in Nat /\ 1 <= index /\ index <= MaxTasks
           /\ Len(accesses) \in Nat /\ Len(accesses) <= MaxTasks
           /\ Added = 1 .. Len(accesses) /\ Added \subseteq Call
<1>1. accesses \in Seq(AccessLists) /\ Len(accesses) <= MaxTasks
  BY DEF IInv, SchedulerIInv, SchedulerTypeOK
<1>2. index \in 1 .. MaxTasks
  BY DEF IInv, TypeOK, Call
<1>3. QED
  BY <1>1, <1>2, BatchAssumption DEF Added, Call

\* add() puts a task behind the others, started or queued.
LEMMA AddMoves ==
    ASSUME IInv, NEW declared, add(declared)
    PROVE  /\ Len(accesses') = Len(accesses) + 1
           /\ Added' = Added \cup {Len(accesses) + 1}
           /\ \A c \in Added : accesses'[c] = accesses[c]
           /\ settled' = settled
           /\ activeTasks \subseteq activeTasks'
           /\ activeTasks' \ activeTasks \subseteq {Len(accesses) + 1}
           /\ Len(accesses) + 1 \notin settled
<1>1. accesses \in Seq(AccessLists) /\ settled \subseteq Added
  BY DEF IInv, SchedulerIInv, SchedulerTypeOK
<1>2. accesses' = Append(accesses, declared)
  BY DEF add
<1>3. QED
  BY <1>1, <1>2 DEF add, Added

\* A task that settles was active and stays so.
LEMMA SettleMoves ==
    ASSUME IInv, NEW t, settle(t)
    PROVE  /\ accesses' = accesses /\ Added' = Added
           /\ activeTasks' = activeTasks /\ queuedTasks' = queuedTasks
           /\ t \in activeTasks /\ settled' = settled \cup {t}
BY DEF settle, Added

\* A task that finishes had settled, and those it starts had not.
LEMMA FinishMoves ==
    ASSUME IInv, NEW t, finish(t)
    PROVE  /\ accesses' = accesses /\ Added' = Added
           /\ settled' = settled /\ t \in settled
           /\ activeTasks \ {t} \subseteq activeTasks'
           /\ activeTasks' \ activeTasks \subseteq queuedTasks
           /\ queuedTasks \cap settled = {}
BY DEF finish, startQueuedTasks, Added, IInv, SchedulerIInv, Partition

-----------------------------------------------------------------------------
\* The types.

Decision == [kind : {"resolved", "runnable"}, declared : AccessLists, stops : BOOLEAN]

\* Whatever the preparation decides is a decision.
LEMMA Decisions ==
    /\ Nothing \in Decision
    /\ \A stops \in BOOLEAN : Resolved(stops) \in Decision
    /\ \A declared \in AccessLists, stops \in BOOLEAN : Runnable(declared, stops) \in Decision
BY BatchAssumption DEF Nothing, Resolved, Runnable, Decision

\* A step of the preparation decides something and may remember the call.
Prepares ==
    /\ pc \in {"prepare", "authorize"}
    /\ \E decision \in Decision, next \in {"authorize", "dispatch"} : Decide(decision, next)

DedupOK ==
    /\ original \in [Call -> Call]
    /\ registered \subseteq Call /\ resolved \subseteq registered

\* Each way to prepare a call decides something and keeps the deduplicator's types.
LEMMA Preparation ==
    ASSUME TypeOK,
           \/ Prepare
           \/ PrepareRepetition
           \/ PrepareSkipped
           \/ Authorize
    PROVE  Prepares /\ DedupOK'
<1> USE Decisions
<1>1. DedupOK
  BY DEF TypeOK, DedupOK
<1>2. UNCHANGED dedup => DedupOK'
  BY <1>1 DEF dedup, DedupOK
<1>3. ASSUME NEW first \in Call, checkSameStep(first)
      PROVE  DedupOK'
  <2>1. index \in Call
    BY DEF TypeOK
  <2>2. QED
    BY <1>1, <1>3, <2>1 DEF checkSameStep, DedupOK
<1>4. index \in Call /\ Originals \subseteq Call
  BY <1>1 DEF TypeOK, Originals, DedupOK
<1>5. CASE Prepare
  <2>1. CASE Decide(Nothing, "dispatch") /\ UNCHANGED dedup
    BY <1>2, <1>5, <2>1 DEF Prepare, Prepares
  <2>2. CASE /\ checkSameStep(index)
             /\ \E stops \in BOOLEAN : Decide(Resolved(stops), "dispatch")
    BY <1>3, <1>4, <1>5, <2>2 DEF Prepare, Prepares
  <2>3. CASE /\ checkSameStep(index)
             /\ \E declared \in AccessLists, stops \in BOOLEAN :
                   Decide(Runnable(declared, stops), "authorize")
    BY <1>3, <1>4, <1>5, <2>3 DEF Prepare, Prepares
  <2>4. QED
    BY <1>5, <2>1, <2>2, <2>3 DEF Prepare
<1>6. CASE PrepareRepetition
  BY <1>3, <1>4, <1>6 DEF PrepareRepetition, Prepares
<1>7. CASE PrepareSkipped
  BY <1>2, <1>7 DEF PrepareSkipped, Prepares
<1>8. CASE Authorize
  <2>1. prepared \in Decision
    BY DEF TypeOK, Decision
  <2>2. QED
    BY <1>2, <1>8, <2>1 DEF Authorize, Prepares
<1>9. QED
  BY <1>5, <1>6, <1>7, <1>8

\* Every step of the batch keeps the types.
LEMMA TypeKept ==
    ASSUME IInv, [Next]_vars, SchedulerIInv'
    PROVE  TypeOK'
<1> USE Numbers
<1>1. TypeOK
  BY DEF IInv
<1>2. SchedulerTypeOK'
  BY DEF SchedulerIInv
<1>3. DedupOK
  BY <1>1 DEF TypeOK, DedupOK
<1>4. CASE UNCHANGED vars
  BY <1>1, <1>2, <1>4 DEF vars, batchVars, TypeOK
<1>5. CASE Abort
  BY <1>1, <1>2, <1>5 DEF Abort, TypeOK, dedup
<1>6. CASE Prepares /\ DedupOK'
  <2>1. /\ pc' \in {"authorize", "dispatch"} /\ prepared' \in Decision
        /\ UNCHANGED <<index, runnable, stoppedAt, aborted, body, transcript>>
    BY <1>6 DEF Prepares, Decide
  <2>2. QED
    BY <1>1, <1>2, <1>6, <2>1 DEF TypeOK, DedupOK, Decision
<1>7. ASSUME NEW event \in {"call", "result"} \X Call, NEW next, Dispatch(event, next)
      PROVE  transcript' \in Seq({"call", "result"} \X Call) /\ pc' \in {next, "settle"}
  <2> DEFINE Events == {"call", "result"} \X Call
  <2>1. transcript \in Seq(Events) /\ event \in Events
    BY <1>1 DEF TypeOK
  <2> HIDE DEF Events
  <2>2. Append(transcript, event) \in Seq(Events)
    BY <2>1
  <2>3. transcript' \in Seq(Events) /\ pc' \in {next, "settle"}
    BY <1>7, <2>1, <2>2 DEF Dispatch
  <2>4. QED
    BY <2>3 DEF Events
<1>8. CASE DispatchToolCall
  <2>1. <<"call", index>> \in {"call", "result"} \X Call
    BY <1>1 DEF TypeOK
  <2>2. transcript' \in Seq({"call", "result"} \X Call) /\ pc' \in {"add", "settle"}
    BY <1>7, <1>8, <2>1 DEF DispatchToolCall
  <2>3. QED
    BY <1>1, <1>2, <1>8, <2>2 DEF DispatchToolCall, TypeOK, dedup
<1>9. ASSUME NEW tools, StartBodies(tools)
      PROVE  body' \in [Call -> {"none", "running", "orphaned", "ended"}]
  BY <1>1, <1>9 DEF StartBodies, TypeOK
<1>10. CASE AddTask
  <2>1. body' \in [Call -> {"none", "running", "orphaned", "ended"}]
    BY <1>9, <1>10 DEF AddTask
  <2>2. /\ runnable' \subseteq Call /\ stoppedAt' \in Call \cup {0}
        /\ prepared' \in Decision /\ pc' \in {"prepare", "drain"} /\ index' \in Call
        /\ UNCHANGED <<aborted, transcript, original, registered, resolved>>
    <3>1. index \in Call /\ runnable \subseteq Call /\ stoppedAt \in Call \cup {0}
      BY <1>1 DEF TypeOK
    <3>2. afterAdd[1] \in Call /\ afterAdd[2] \in {"prepare", "drain"}
      BY DEF afterAdd, Call
    <3>3. /\ runnable' = runnable \cup {c \in {index} : prepared.kind = "runnable"}
          /\ stoppedAt' \in {index, stoppedAt}
          /\ prepared' = Nothing
          /\ index' = afterAdd[1] /\ pc' = afterAdd[2]
          /\ UNCHANGED <<aborted, transcript, original, registered, resolved>>
      BY <1>10 DEF AddTask, dedup
    <3>4. QED
      BY <3>1, <3>2, <3>3, Decisions
  <2>3. QED
    BY <1>1, <1>2, <2>1, <2>2 DEF TypeOK, Decision
<1>11. CASE DispatchToolResult
  <2>1. <<"result", index>> \in {"call", "result"} \X Call
    BY <1>1 DEF TypeOK
  <2>2. /\ transcript' \in Seq({"call", "result"} \X Call)
        /\ pc' \in {"drain", "returned", "settle"}
    BY <1>7, <1>11, <2>1 DEF DispatchToolResult
  <2>3. index' \in Call
    BY <1>1, <1>11 DEF DispatchToolResult, TypeOK, Call
  <2>4. /\ original' = original /\ registered' = registered
        /\ resolved' \subseteq registered
    BY <1>3, <1>11 DEF DispatchToolResult, finalizeResult, Originals, DedupOK
  <2>5. QED
    BY <1>1, <1>2, <1>11, <2>2, <2>3, <2>4 DEF DispatchToolResult, TypeOK, Over
<1>12. CASE AllSettled
  BY <1>1, <1>2, <1>12 DEF AllSettled, TypeOK, dedup, Over
<1>13. CASE BatchStep
  BY <1>1, <1>6, <1>8, <1>10, <1>11, <1>12, <1>13, Preparation DEF BatchStep
<1>14. ASSUME NEW c \in Call, NEW state \in {"orphaned", "ended"}, bodyOnly(c, state)
       PROVE  TypeOK'
  BY <1>1, <1>2, <1>14 DEF bodyOnly, TypeOK, dedup
<1>15. ASSUME NEW c \in Call, ToolEnds(c) \/ TaskStep(c)
       PROVE  TypeOK'
  <2>1. CASE ToolEnds(c)
    BY <1>14, <2>1 DEF ToolEnds
  <2>2. CASE GraceTimeout(c)
    BY <1>14, <2>2 DEF GraceTimeout
  <2>3. CASE ResultSettles(c)
    BY <1>1, <1>2, <2>3 DEF ResultSettles, batchVars, TypeOK
  <2>4. CASE Release(c)
    <3>1. body' \in [Call -> {"none", "running", "orphaned", "ended"}]
      BY <1>9, <2>4 DEF Release
    <3>2. QED
      BY <1>1, <1>2, <2>4, <3>1 DEF Release, TypeOK, dedup
  <2>5. QED
    BY <1>15, <2>1, <2>2, <2>3, <2>4 DEF TaskStep
<1>16. QED
  BY <1>4, <1>5, <1>13, <1>15 DEF Next, BatchOver

-----------------------------------------------------------------------------
\* Where the batch is.

\* The preparation of a call touches no task and records nothing.
LEMMA PreparationFrame ==
    ASSUME IInv, Prepares
    PROVE  /\ pc \in Preparing /\ pc # "add" /\ pc' \in Preparing /\ pc' # "add"
           /\ UNCHANGED <<index, body, aborted, transcript, accesses, activeTasks, queuedTasks, settled>>
BY DEF Prepares, Decide, Preparing, schedulerUnchanged

\* Every step adds and drains calls in the order of the response.
LEMMA ProgressKept ==
    ASSUME IInv, [Next]_vars
    PROVE  Progressed'
<1> USE Numbers DEF Preparing, Over
<1>1. Progressed /\ settled \subseteq Added
  BY DEF IInv, SchedulerIInv, SchedulerTypeOK
<1>2. accesses' = accesses => Added' = Added
  BY DEF Added
<1>3. CASE UNCHANGED <<pc, index, accesses, settled>>
  BY <1>1, <1>2, <1>3 DEF Progressed
<1>4. CASE Prepares
  BY <1>1, <1>4, PreparationFrame DEF Progressed
<1>5. CASE DispatchToolCall
  BY <1>1, <1>5 DEF DispatchToolCall, Dispatch, Progressed, schedulerUnchanged
<1>6. CASE AddTask
  <2>1. pc = "add" /\ Len(accesses) = index - 1
    BY <1>1, <1>6 DEF AddTask, Progressed
  <2>2. Len(accesses') = index
    BY <1>6, <2>1, AddMoves DEF AddTask
  <2>3. \/ index < MaxTasks /\ index' = index + 1 /\ pc' = "prepare"
        \/ index = MaxTasks /\ index' = 1 /\ pc' = "drain"
    BY <1>6 DEF AddTask, afterAdd
  <2>4. QED
    BY <2>2, <2>3 DEF Progressed
<1>7. CASE DispatchToolResult
  <2>1. /\ pc = "drain" /\ index \in settled
        /\ accesses' = accesses /\ settled' = settled /\ Added' = Added
    BY <1>2, <1>7 DEF DispatchToolResult, schedulerUnchanged
  <2>2. 1 .. index \subseteq settled /\ Len(accesses) = MaxTasks
    BY <1>1, <2>1 DEF Progressed
  <2>3. \/ pc' = "settle"
        \/ index < MaxTasks /\ pc' = "drain" /\ index' = index + 1
        \/ index = MaxTasks /\ pc' = "returned"
    BY <1>7 DEF DispatchToolResult, Dispatch
  <2>4. CASE index = MaxTasks /\ pc' = "returned"
    <3>1. settled = Added
      BY <1>1, <2>2, <2>4
    <3>2. QED
      BY <2>1, <2>2, <2>4, <3>1 DEF Progressed
  <2>5. QED
    BY <2>1, <2>2, <2>3, <2>4 DEF Progressed
<1>8. CASE AllSettled
  BY <1>2, <1>8 DEF AllSettled, Progressed, schedulerUnchanged
<1>9. ASSUME NEW c, settle(c), UNCHANGED <<pc, index>>
      PROVE  Progressed'
  <2>1. activeTasks \subseteq Added
    BY DEF IInv, SchedulerIInv, SchedulerTypeOK
  <2>2. QED
    BY <1>1, <1>9, <2>1, SettleMoves DEF Progressed
<1>10. ASSUME NEW c \in Call, ToolEnds(c) \/ TaskStep(c)
       PROVE  Progressed'
  BY <1>3, <1>9, <1>10, FinishMoves DEF ToolEnds, TaskStep, ResultSettles, GraceTimeout, Release,
     bodyOnly, batchVars, schedulerUnchanged
<1>11. CASE BatchStep
  BY <1>4, <1>5, <1>6, <1>7, <1>8, <1>11, Preparation DEF BatchStep, IInv
<1>12. CASE Abort \/ UNCHANGED vars
  BY <1>3, <1>12 DEF Abort, vars, batchVars, schedulerUnchanged
<1>13. QED
  BY <1>10, <1>11, <1>12 DEF Next, BatchOver

\* An event is appended: what was expected next is what is recorded.
LEMMA Record ==
    ASSUME NEW n \in Nat, transcript = [i \in 1 .. n |-> Event(i)],
           transcript' = Append(transcript, Event(n + 1))
    PROVE  transcript' = [i \in 1 .. n + 1 |-> Event(i)]
<1> HIDE DEF Event
<1>1. transcript \in Seq({Event(i) : i \in 1 .. n}) /\ Len(transcript) = n
  OBVIOUS
<1>2. QED
  BY <1>1

\* Every step records the next event, or none.
LEMMA OrderKept ==
    ASSUME IInv, [Next]_vars
    PROVE  InOrder'
<1> USE Numbers DEF Preparing, Over
<1>1. InOrder
  BY DEF IInv
<1>2. CASE UNCHANGED <<pc, index, transcript>>
  BY <1>1, <1>2 DEF InOrder, Told
<1>3. CASE Prepares
  BY <1>1, <1>3, PreparationFrame DEF InOrder, Told
<1>4. CASE DispatchToolCall
  <2>1. transcript = [i \in 1 .. index - 1 |-> Event(i)]
    BY <1>1, <1>4 DEF DispatchToolCall, InOrder, Told
  <2>2. CASE pc' = "settle"
    BY <2>2 DEF InOrder
  <2>3. CASE pc' = "add"
    <3>1. transcript' = Append(transcript, Event(index)) /\ index' = index
      BY <1>4, <2>3 DEF DispatchToolCall, Dispatch, Event
    <3>2. transcript' = [i \in 1 .. index |-> Event(i)]
      BY <2>1, <3>1, Record
    <3>3. QED
      BY <2>3, <3>1, <3>2 DEF InOrder, Told
  <2>4. QED
    BY <1>4, <2>2, <2>3 DEF DispatchToolCall, Dispatch
<1>5. CASE AddTask
  <2>1. transcript = [i \in 1 .. index |-> Event(i)] /\ transcript' = transcript
    BY <1>1, <1>5 DEF AddTask, InOrder, Told
  <2>2. \/ index < MaxTasks /\ index' = index + 1 /\ pc' = "prepare"
        \/ index = MaxTasks /\ index' = 1 /\ pc' = "drain"
    BY <1>5 DEF AddTask, afterAdd
  <2>3. Told' = index
    BY <2>2 DEF Told
  <2>4. QED
    BY <2>1, <2>3 DEF InOrder
<1>6. CASE DispatchToolResult
  <2> DEFINE n == MaxTasks + (index - 1)
  <2>1. transcript = [i \in 1 .. n |-> Event(i)] /\ n \in Nat
    BY <1>1, <1>6 DEF DispatchToolResult, InOrder, Told
  <2>2. Event(n + 1) = <<"result", index>>
    BY DEF Event
  <2>3. CASE pc' = "settle"
    BY <2>3 DEF InOrder
  <2>4. CASE pc' # "settle"
    <3>1. /\ transcript' = Append(transcript, Event(n + 1))
          /\ \/ index < MaxTasks /\ pc' = "drain" /\ index' = index + 1
             \/ index = MaxTasks /\ pc' = "returned"
      <4>1. /\ transcript' = Append(transcript, <<"result", index>>)
            /\ pc' = IF index < MaxTasks THEN "drain" ELSE "returned"
            /\ index' = IF index < MaxTasks /\ pc' = "drain" THEN index + 1 ELSE index
        BY <1>6, <2>4 DEF DispatchToolResult, Dispatch
      <4>2. \/ index < MaxTasks /\ pc' = "drain" /\ index' = index + 1
            \/ index = MaxTasks /\ pc' = "returned"
        BY <4>1
      <4>3. QED
        BY <2>2, <4>1, <4>2
    <3>2. transcript' = [i \in 1 .. n + 1 |-> Event(i)]
      BY <2>1, <3>1, Record
    <3>3. Told' = n + 1
      BY <3>1 DEF Told
    <3>4. QED
      BY <3>2, <3>3 DEF InOrder
  <2>5. QED
    BY <2>3, <2>4
<1>7. CASE AllSettled
  BY <1>7 DEF AllSettled, InOrder
<1>8. ASSUME NEW c \in Call, ToolEnds(c) \/ TaskStep(c)
      PROVE  InOrder'
  BY <1>2, <1>8 DEF ToolEnds, TaskStep, ResultSettles, GraceTimeout, Release, bodyOnly, batchVars
<1>9. CASE BatchStep
  BY <1>3, <1>4, <1>5, <1>6, <1>7, <1>9, Preparation DEF BatchStep, IInv
<1>10. CASE Abort \/ UNCHANGED vars
  BY <1>2, <1>10 DEF Abort, vars, batchVars
<1>11. QED
  BY <1>8, <1>9, <1>10 DEF Next, BatchOver

-----------------------------------------------------------------------------
\* The tools.

\* What the invariant says of the tools at work.
LEMMA Bodies ==
    ASSUME IInv
    PROVE  /\ body \in [Call -> {"none", "running", "orphaned", "ended"}]
           /\ NoConflictingActive
           /\ activeTasks \subseteq Added /\ AtWork \subseteq Added
           /\ \A c \in Call : BodyHeld(c)
           /\ ~ aborted => AtWork \subseteq activeTasks
BY DEF IInv, TypeOK, SchedulerIInv, SchedulerTypeOK, BodiesHeld, BodyHeld, AtWork

\* No tool starts, and what the tools rely on stays: so do both invariants.
LEMMA NoneStarts ==
    ASSUME IInv, TypeOK',
           \A c \in Call : body'[c] \in {"running", "orphaned"}
                              => body[c] \in {"running", "orphaned"},
           \A c \in Added : c \in Added' /\ accesses'[c] = accesses[c],
           \A c \in Call : body'[c] = "running" => body[c] = "running" /\ c \in activeTasks' /\ c \notin settled',
           \A c \in Call : body'[c] = "orphaned" => body[c] = "orphaned" \/ aborted',
           aborted => aborted'
    PROVE  BodiesHeld' /\ NoConflictingBodies'
<1> USE Bodies
<1>1. AtWork' \subseteq AtWork
  BY DEF AtWork
<1>2. BodiesHeld'
  BY <1>1 DEF BodiesHeld, BodyHeld, AtWork
<1>3. NoConflictingBodies'
  BY <1>1 DEF IInv, NoConflictingBodies
<1>4. QED
  BY <1>2, <1>3

\* Tools start with their tasks: before an abort the tools at work are those of
\* active tasks, which do not conflict.
LEMMA SomeStart ==
    ASSUME IInv, TypeOK', SchedulerIInv', NEW tools, StartBodies(tools), aborted' = aborted,
           \A c \in Added : c \in Added' /\ accesses'[c] = accesses[c],
           \A c \in activeTasks : c \notin settled => c \in activeTasks',
           settled' = settled,
           \A c \in activeTasks' : c \notin activeTasks => c \notin settled
    PROVE  BodiesHeld' /\ NoConflictingBodies'
<1> USE Bodies
<1>1. CASE aborted
  <2>1. body' = body
    BY <1>1 DEF StartBodies
  <2>2. \A c \in Call : body[c] = "running" => c \in activeTasks' /\ c \notin settled'
    BY DEF BodyHeld
  <2>3. QED
    BY <2>1, <2>2, NoneStarts
<1>2. CASE ~ aborted
  <2>1. \A c \in Call : body'[c] = body[c] \/ (body'[c] = "running" /\ c \in activeTasks' /\ c \notin activeTasks)
    BY <1>2 DEF StartBodies
  <2>2. \A c \in Call : BodyHeld(c)'
    BY <1>2, <2>1 DEF BodyHeld
  <2>3. AtWork' \subseteq activeTasks'
    BY <1>2, <2>2 DEF AtWork, BodyHeld
  <2>4. NoConflictingActive'
    BY DEF SchedulerIInv
  <2>5. NoConflictingBodies'
    BY <2>3, <2>4 DEF NoConflictingBodies, NoConflictingActive
  <2>6. QED
    BY <2>2, <2>5 DEF BodiesHeld
<1>3. QED
  BY <1>1, <1>2

\* Every step keeps tools at work apart: those it starts hold the scheduler.
LEMMA BodiesKept ==
    ASSUME IInv, [Next]_vars, TypeOK', SchedulerIInv'
    PROVE  BodiesHeld' /\ NoConflictingBodies'
<1> USE Bodies
<1>1. CASE /\ UNCHANGED <<body, accesses, activeTasks, settled>>
           /\ aborted => aborted'
  <2>1. Added' = Added
    BY <1>1 DEF Added
  <2>2. QED
    BY <1>1, <2>1, NoneStarts DEF BodyHeld
<1>2. CASE AddTask
  <2>1. StartBodies(runnable') /\ aborted' = aborted
    BY <1>2 DEF AddTask
  <2>2. add(prepared.declared)
    BY <1>2 DEF AddTask
  <2>3. /\ \A c \in Added : c \in Added' /\ accesses'[c] = accesses[c]
        /\ \A c \in activeTasks : c \notin settled => c \in activeTasks'
        /\ settled' = settled
        /\ \A c \in activeTasks' : c \notin activeTasks => c \notin settled
    BY <2>2, AddMoves
  <2>4. QED
    BY <2>1, <2>3, SomeStart
<1>3. CASE BatchStep
  <2>1. CASE Prepares
    BY <1>1, <2>1, PreparationFrame
  <2>2. CASE DispatchToolCall \/ DispatchToolResult \/ AllSettled
    BY <1>1, <2>2 DEF DispatchToolCall, DispatchToolResult, AllSettled, schedulerUnchanged
  <2>3. QED
    BY <1>2, <1>3, <2>1, <2>2, Preparation DEF BatchStep, IInv
<1>4. ASSUME NEW c \in Call, ToolEnds(c) \/ TaskStep(c)
      PROVE  BodiesHeld' /\ NoConflictingBodies'
  <2>1. CASE ToolEnds(c)
    <3>1. /\ body' = [body EXCEPT ![c] = "ended"] /\ aborted' = aborted
          /\ UNCHANGED <<accesses, activeTasks, settled>>
      BY <2>1 DEF ToolEnds, bodyOnly, schedulerUnchanged
    <3>2. Added' = Added
      BY <3>1 DEF Added
    <3>3. \A d \in Call : body'[d] = "ended" \/ body'[d] = body[d]
      BY <3>1
    <3>4. QED
      BY <3>1, <3>2, <3>3, NoneStarts DEF BodyHeld
  <2>2. CASE GraceTimeout(c)
    <3>1. /\ body' = [body EXCEPT ![c] = "orphaned"] /\ aborted' = aborted /\ aborted
          /\ body[c] = "running" /\ settle(c)
      BY <2>2 DEF GraceTimeout, bodyOnly
    <3>2. /\ accesses' = accesses /\ Added' = Added /\ activeTasks' = activeTasks
          /\ settled' = settled \cup {c}
      BY <3>1, SettleMoves
    <3>3. \A d \in Call : (d = c /\ body'[d] = "orphaned") \/ (d # c /\ body'[d] = body[d])
      BY <3>1
    <3>4. QED
      BY <3>1, <3>2, <3>3, NoneStarts DEF BodyHeld
  <2>3. CASE ResultSettles(c)
    <3>1. body' = body /\ aborted' = aborted /\ body[c] # "running" /\ settle(c)
      BY <2>3 DEF ResultSettles, batchVars
    <3>2. /\ accesses' = accesses /\ Added' = Added /\ activeTasks' = activeTasks
          /\ settled' = settled \cup {c}
      BY <3>1, SettleMoves
    <3>3. QED
      BY <3>1, <3>2, NoneStarts DEF BodyHeld
  <2>4. CASE Release(c)
    <3>1. StartBodies(runnable) /\ aborted' = aborted /\ finish(c)
      BY <2>4 DEF Release
    <3>2. /\ \A d \in Added : d \in Added' /\ accesses'[d] = accesses[d]
          /\ \A d \in activeTasks : d \notin settled => d \in activeTasks'
          /\ settled' = settled
          /\ \A d \in activeTasks' : d \notin activeTasks => d \notin settled
      BY <3>1, FinishMoves
    <3>3. QED
      BY <3>1, <3>2, SomeStart
  <2>5. QED
    BY <1>4, <2>1, <2>2, <2>3, <2>4 DEF TaskStep
<1>5. CASE Abort \/ UNCHANGED vars
  BY <1>1, <1>5 DEF Abort, vars, batchVars, schedulerUnchanged
<1>6. QED
  BY <1>3, <1>4, <1>5 DEF Next, BatchOver

-----------------------------------------------------------------------------
\* A response of which nothing is prepared satisfies the inductive invariant.
LEMMA InitIInv == Init => IInv
<1> SUFFICES ASSUME Init PROVE IInv
  OBVIOUS
<1> USE BatchAssumption DEF Init
<1>1. SchedulerInit /\ SchedulerTypeOK
  BY DEF SchedulerInit, SchedulerTypeOK, Added
<1>2. SchedulerIInv
  BY <1>1, SchedulerInitIInv
<1>3. TypeOK
  <2>1. transcript \in Seq({"call", "result"} \X Call)
    OBVIOUS
  <2>2. index \in Call /\ prepared \in Decision
    BY Decisions DEF Call
  <2>3. /\ body \in [Call -> {"none", "running", "orphaned", "ended"}]
        /\ original \in [Call -> Call]
    OBVIOUS
  <2>4. QED
    BY <1>1, <2>1, <2>2, <2>3 DEF TypeOK, Decision
<1>4. Progressed /\ InOrder
  BY <1>1 DEF SchedulerInit, Progressed, InOrder, Told, Preparing, Over
<1>5. BodiesHeld /\ NoConflictingBodies
  BY DEF BodiesHeld, BodyHeld, NoConflictingBodies, AtWork
<1>6. QED
  BY <1>2, <1>3, <1>4, <1>5 DEF IInv

\* Every step of the batch keeps the inductive invariant.
LEMMA StepIInv == IInv /\ [Next]_vars => IInv'
<1> SUFFICES ASSUME IInv, [Next]_vars PROVE IInv'
  OBVIOUS
<1>1. SchedulerIInv'
  BY SchedulerKept
<1>2. TypeOK'
  BY <1>1, TypeKept
<1>3. QED
  BY <1>1, <1>2, ProgressKept, OrderKept, BodiesKept DEF IInv

\* The inductive invariant of a batch: the scheduler's, where the batch is, and
\* which tools hold the scheduler (runToolCallBatch with runRunnableToolCall).
THEOREM BatchInvariant == Spec => []IInv
BY InitIInv, StepIInv, PTL DEF Spec

\* The variables of a batch keep their types (loop/tool-call.ts).
THEOREM BatchTypeCorrect == Spec => []TypeOK
BY BatchInvariant, PTL DEF IInv

\* Two tools at work never declared conflicting accesses, however many there are
\* and whatever they declare, and whether the grace timeout gave up on one or not.
THEOREM BodiesExclusive == Spec => []NoConflictingBodies
BY BatchInvariant, PTL DEF IInv

\* A batch that is over has settled and recorded all it promised, and runs no
\* tool but those an abort gave up on (the finally block of runToolCallBatch).
THEOREM BatchLeavesNothing == Spec => []NothingLeftBehind
<1>1. IInv => NothingLeftBehind
  <2> SUFFICES ASSUME IInv, pc \in Over PROVE NothingLeftBehind
    BY DEF NothingLeftBehind
  <2>1. settled = Added
    BY Numbers DEF IInv, Progressed
  <2>2. queuedTasks = {}
    BY <2>1 DEF IInv, SchedulerIInv, SchedulerTypeOK, Partition
  <2>3. ASSUME NEW c \in AtWork PROVE aborted /\ body[c] = "orphaned"
    <3>1. c \in Added /\ c \in Call /\ BodyHeld(c) /\ body[c] \in {"running", "orphaned"}
      BY Bodies, <2>3 DEF AtWork
    <3>2. QED
      BY <2>1, <3>1 DEF BodyHeld
  <2>4. pc = "returned" => transcript = [i \in 1 .. 2 * MaxTasks |-> Event(i)]
    BY DEF IInv, InOrder, Told, Preparing
  <2>5. QED
    BY <2>1, <2>2, <2>3, <2>4 DEF NothingLeftBehind
<1>2. QED
  BY <1>1, BatchInvariant, PTL

-----------------------------------------------------------------------------
\* The batch is a client of the scheduler: whatever it does, its tasks move as
\* the scheduler alone would move them (the calls of add in runToolCallBatch).
THEOREM BatchDrivesScheduler == Spec => SchedulerSpec
<1>1. Init => SchedulerInit
  BY DEF Init, SchedulerInit
<1>2. IInv /\ [Next]_vars => [SchedulerNext]_schedulerVars
  BY DrivesScheduler
<1>3. QED
  BY <1>1, <1>2, BatchInvariant, PTL DEF Spec, SchedulerSpec

\* Hence the tasks of a batch start as ConflictOrder promises: each once every
\* earlier one it conflicts with has settled, never before.
THEOREM BatchKeepsOrder == Spec => ImplementsConflictOrder
BY Refinement, BatchDrivesScheduler, PTL

-----------------------------------------------------------------------------
\* What the conflict of accesses means in files.

\* The files that an access reaches: the one it names, and those below it.  A file
\* is told apart by the normal form of its path.
Reaches(access, f) ==
    LET root == normalizePath(access.path)
    IN  f = root \/ (access.recursive /\ IsStrictPrefix(root, f))

IsASequence(f) == f \in Seq(Range(f))
Writes(access) == fileOperationWrites(access.operation)

\* What is kept of a sequence, and a member in front of it, are sequences.
LEMMA KeptIsSequence ==
    ASSUME NEW h, IsASequence(h), NEW S \in SUBSET DOMAIN h, NEW g, NEW e,
           DOMAIN g = DOMAIN Keeping(h, S), g = [i \in DOMAIN g |-> g[i]]
    PROVE  IsASequence(g) /\ IsASequence(<<e>> \o g)
<1> DEFINE All == Range(g) \cup {e}
<1>1. Cardinality(S) \in Nat
  <2>1. Len(h) \in Nat /\ DOMAIN h = 1 .. Len(h)
    BY DEF IsASequence
  <2>2. IsFiniteSet(1 .. Len(h))
    BY <2>1, FS_Interval
  <2>3. QED
    BY <2>1, <2>2, FS_Subset, FS_CardinalityType
<1>2. DOMAIN g = 1 .. Cardinality(S)
  BY DEF Keeping
<1>3. g \in Seq(All) /\ e \in All
  <2>1. g \in [1 .. Cardinality(S) -> All]
    BY <1>2 DEF Range
  <2> HIDE DEF All
  <2>2. g \in Seq(All)
    BY <1>1, <2>1
  <2>3. QED
    BY <2>2 DEF All
<1> HIDE DEF All
<1>4. <<e>> \o g \in Seq(All)
  BY <1>3
<1>5. QED
  BY <1>3, <1>4, SeqOfRange DEF IsASequence

\* A normal form is a sequence of segments.
LEMMA NormalFormIsSequence ==
    ASSUME NEW p \in RawPath
    PROVE  IsASequence(normalizePath(p))
<1> DEFINE S == {i \in DOMAIN p : p[i] # ""}
           folded == [i \in DOMAIN Keeping(p, S) |-> Fold[Keeping(p, S)[i]]]
<1>1. IsASequence(p)
  BY SeqOfRange DEF RawPath, IsASequence
<1>2. S \in SUBSET DOMAIN p
  BY Zenon
<1>3. DOMAIN folded = DOMAIN Keeping(p, S) /\ folded = [i \in DOMAIN folded |-> folded[i]]
  BY Zenon
<1>4. normalizePath(p) = folded \/ normalizePath(p) = <<"">> \o folded
  BY Zenon DEF normalizePath
<1> HIDE DEF S, folded
<1>5. IsASequence(folded) /\ IsASequence(<<"">> \o folded)
  BY <1>1, <1>2, <1>3, KeptIsSequence, Zenon
<1>6. QED
  BY <1>4, <1>5, Zenon

\* A sequence begins with another when it agrees with it as far as that goes.
LEMMA PrefixAgrees ==
    ASSUME NEW r, NEW f, IsASequence(r), IsASequence(f)
    PROVE  IsPrefix(r, f) <=> Len(r) <= Len(f) /\ \A i \in 1 .. Len(r) : r[i] = f[i]
<1>1. /\ r \in Seq(Range(r)) /\ f \in Seq(Range(f))
      /\ Len(r) \in Nat /\ DOMAIN r = 1 .. Len(r) /\ Len(f) \in Nat
  BY DEF IsASequence
<1>2. SubSeq(r, 1, Len(r)) = r
  BY <1>1
<1>3. ASSUME Len(r) <= Len(f)
      PROVE  SubSeq(f, 1, Len(r)) = [i \in 1 .. Len(r) |-> f[i]]
  BY <1>1, <1>3
<1>4. r = [i \in 1 .. Len(r) |-> r[i]]
  BY <1>1
<1>5. ASSUME Len(r) <= Len(f)
      PROVE  r = SubSeq(f, 1, Len(r)) <=> \A i \in 1 .. Len(r) : r[i] = f[i]
  BY <1>3, <1>4, <1>5
<1>6. QED
  BY <1>2, <1>5 DEF IsPrefix

\* Two beginnings of one sequence are the same, or one begins with the other.
LEMMA BeginningsCompare ==
    ASSUME NEW l, NEW r, NEW f, IsASequence(l), IsASequence(r), IsASequence(f),
           IsPrefix(l, f), IsPrefix(r, f)
    PROVE  l = r \/ IsStrictPrefix(l, r) \/ IsStrictPrefix(r, l)
<1>1. Len(l) \in Nat /\ Len(r) \in Nat
  BY DEF IsASequence
<1>2. /\ \A i \in 1 .. Len(l) : l[i] = f[i]
      /\ \A i \in 1 .. Len(r) : r[i] = f[i]
  BY PrefixAgrees
<1>3. CASE Len(l) <= Len(r)
  <2>1. \A i \in 1 .. Len(l) : l[i] = r[i]
    BY <1>1, <1>2, <1>3
  <2>2. QED
    BY <1>3, <2>1, PrefixAgrees DEF IsStrictPrefix
<1>4. CASE Len(r) <= Len(l)
  <2>1. \A i \in 1 .. Len(r) : r[i] = l[i]
    BY <1>1, <1>2, <1>4
  <2>2. QED
    BY <1>4, <2>1, PrefixAgrees DEF IsStrictPrefix
<1>5. QED
  BY <1>1, <1>3, <1>4

\* Two accesses to files are taken to conflict exactly when one of them writes and
\* there is a file that both reach, whatever the paths are (fileAccessesOverlap,
\* which compares the two paths and looks at no file).
THEOREM ConflictMeansSharedFile ==
    ASSUME NEW left \in FileAccess(RawPath), NEW right \in FileAccess(RawPath)
    PROVE  conflict({left}, {right}) <=>
              /\ Writes(left) \/ Writes(right)
              /\ \E f : IsASequence(f) /\ Reaches(left, f) /\ Reaches(right, f)
<1> DEFINE l == normalizePath(left.path)
           r == normalizePath(right.path)
<1>1. IsASequence(l) /\ IsASequence(r)
  BY NormalFormIsSequence DEF FileAccess
<1>2. left.kind = "file" /\ right.kind = "file"
  BY DEF FileAccess
<1>3. conflict({left}, {right}) <=>
         /\ Writes(left) \/ Writes(right)
         /\ \/ l = r
            \/ left.recursive /\ IsStrictPrefix(l, r)
            \/ right.recursive /\ IsStrictPrefix(r, l)
  BY <1>2 DEF conflict, resourceAccessesConflict, fileOperationsConflict,
              fileAccessesOverlap, Writes
<1>4. \A f : /\ (Reaches(left, f) <=> (f = l \/ (left.recursive /\ IsStrictPrefix(l, f))))
             /\ (Reaches(right, f) <=> (f = r \/ (right.recursive /\ IsStrictPrefix(r, f))))
  BY DEF Reaches
<1> HIDE DEF l, r
<1>5. ASSUME \/ l = r
             \/ left.recursive /\ IsStrictPrefix(l, r)
             \/ right.recursive /\ IsStrictPrefix(r, l)
      PROVE  \E f : IsASequence(f) /\ Reaches(left, f) /\ Reaches(right, f)
  BY <1>1, <1>4, <1>5
<1>6. ASSUME NEW f, IsASequence(f), Reaches(left, f), Reaches(right, f)
      PROVE  \/ l = r
             \/ left.recursive /\ IsStrictPrefix(l, r)
             \/ right.recursive /\ IsStrictPrefix(r, l)
  <2>1. CASE f = l \/ f = r
    BY <1>4, <1>6, <2>1
  <2>2. CASE f # l /\ f # r
    <3>1. left.recursive /\ right.recursive /\ IsPrefix(l, f) /\ IsPrefix(r, f)
      BY <1>4, <1>6, <2>2 DEF IsStrictPrefix
    <3>2. QED
      BY <1>1, <1>6, <3>1, BeginningsCompare
  <2>3. QED
    BY <2>1, <2>2
<1>7. QED
  BY <1>3, <1>5, <1>6

\* No file is written by a tool while another tool that reaches it is at work.
NoSharedFile ==
    \A c, d \in AtWork : c # d =>
        \A left \in accesses[c] \cap FileAccess(RawPath),
           right \in accesses[d] \cap FileAccess(RawPath) :
            Writes(left) \/ Writes(right) =>
                ~ \E f : IsASequence(f) /\ Reaches(left, f) /\ Reaches(right, f)

\* Two tools at work never reach a file that one of them writes, by whatever paths
\* they name it, whether the grace timeout gave up on one of them or not.
THEOREM FilesExclusive == Spec => []NoSharedFile
<1>1. NoConflictingBodies => NoSharedFile
  <2> SUFFICES ASSUME NoConflictingBodies, NEW c \in AtWork, NEW d \in AtWork, c # d,
                      NEW left \in accesses[c] \cap FileAccess(RawPath),
                      NEW right \in accesses[d] \cap FileAccess(RawPath),
                      Writes(left) \/ Writes(right),
                      \E f : IsASequence(f) /\ Reaches(left, f) /\ Reaches(right, f)
               PROVE  FALSE
    BY DEF NoSharedFile
  <2>1. conflict({left}, {right})
    BY ConflictMeansSharedFile
  <2>2. conflict(accesses[c], accesses[d])
    BY <2>1 DEF conflict
  <2>3. QED
    BY <2>2 DEF NoConflictingBodies
<1>2. QED
  BY BodiesExclusive, <1>1, PTL

=============================================================================
