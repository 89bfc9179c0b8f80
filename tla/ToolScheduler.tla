--------------------------- MODULE ToolScheduler ----------------------------
(***************************************************************************)
(* The execution scheduler of one model step's tool calls                  *)
(* (packages/agent-core/src/loop/tool-scheduler.ts).                       *)
(*                                                                         *)
(* Tasks are numbered in the order they are added, which is the provider's *)
(* order.  Both arrays of the class are filled in that order and filtered  *)
(* without reordering, so each is the set of its tasks with the order of   *)
(* their numbers.  A started task first settles its result promise and, one*)
(* microtask later, its .finally callback calls finish: between the two it *)
(* is still in activeTasks although its result is already visible.         *)
(***************************************************************************)
EXTENDS Naturals, ToolAccess

CONSTANTS
    AccessLists,   \* the sets of accesses a call may declare
    MaxTasks       \* bound: the calls of one provider response

ASSUME MaxTasksAssumption == MaxTasks \in Nat

VARIABLES
    accesses,      \* accesses[t]: what the t-th added task declared
    activeTasks,
    queuedTasks,
    settled        \* tasks whose result promise is resolved or rejected

schedulerVars == <<accesses, activeTasks, queuedTasks, settled>>

Added == 1..Len(accesses)
Started == Added \ queuedTasks

SchedulerTypeOK ==
    /\ accesses \in Seq(AccessLists)
    /\ Len(accesses) <= MaxTasks
    /\ activeTasks \subseteq Added
    /\ queuedTasks \subseteq Added
    /\ settled \subseteq Added

-----------------------------------------------------------------------------
conflictsWithAny(declared, candidates) ==
    \E c \in candidates : conflict(declared, accesses[c])

\* Mutants: a task that looks at only one of the two arrays.
isBlocked_IgnoresQueue(declared, active, queuedBefore) ==
    conflictsWithAny(declared, active)
isBlocked_IgnoresActive(declared, active, queuedBefore) ==
    conflictsWithAny(declared, queuedBefore)

isBlocked(declared, active, queuedBefore) ==
    conflictsWithAny(declared, active) \/ conflictsWithAny(declared, queuedBefore)

\* What startQueuedTasks starts once only `active` remains.  Its loop tests
\* each queued task against activeTasks, which has grown by the queued tasks
\* it just started, and against those it left behind: together these are
\* `active` and every queued task before this one.
startQueuedTasks(active) ==
    {t \in queuedTasks :
        ~ isBlocked(accesses[t], active, {u \in queuedTasks : u < t})}

-----------------------------------------------------------------------------
SchedulerInit ==
    /\ accesses = <<>>
    /\ activeTasks = {}
    /\ queuedTasks = {}
    /\ settled = {}

add(declared) ==
    LET t == Len(accesses) + 1
    IN  /\ t <= MaxTasks
        /\ accesses' = Append(accesses, declared)
        /\ IF isBlocked(declared, activeTasks, queuedTasks)
             THEN /\ queuedTasks' = queuedTasks \cup {t}
                  /\ UNCHANGED activeTasks
             ELSE /\ activeTasks' = activeTasks \cup {t}
                  /\ UNCHANGED queuedTasks
        /\ UNCHANGED settled

\* The started promise resolves the task's own result promise.
settle(t) ==
    /\ t \in activeTasks \ settled
    /\ settled' = settled \cup {t}
    /\ UNCHANGED <<accesses, activeTasks, queuedTasks>>

\* Mutant: a task is released but nobody looks at the queue.
finish_WithoutDrain(t) ==
    /\ t \in activeTasks \cap settled
    /\ activeTasks' = activeTasks \ {t}
    /\ UNCHANGED <<accesses, queuedTasks, settled>>

finish(t) ==
    /\ t \in activeTasks \cap settled
    /\ LET startable == startQueuedTasks(activeTasks \ {t})
       IN  /\ activeTasks' = (activeTasks \ {t}) \cup startable
           /\ queuedTasks' = queuedTasks \ startable
    /\ UNCHANGED <<accesses, settled>>

\* The batch may add no further task: all it added have been released.
SchedulerIdle == activeTasks = {} /\ queuedTasks = {} /\ UNCHANGED schedulerVars

SchedulerNext ==
    \/ \E declared \in AccessLists : add(declared)
    \/ \E t \in Added : settle(t) \/ finish(t)
    \/ SchedulerIdle

SchedulerSpec == SchedulerInit /\ [][SchedulerNext]_schedulerVars

-----------------------------------------------------------------------------
\* Two tasks hold the scheduler at the same time only if their accesses do
\* not conflict.
NoConflictingActive ==
    \A t, u \in activeTasks : t # u => ~ conflict(accesses[t], accesses[u])

\* A task waits only behind a conflicting one that will release it: no call of
\* finish may leave behind a task it could have started, nor a queue nobody is
\* left to drain.
NoStrandedTask ==
    \A q \in queuedTasks :
        isBlocked(accesses[q], activeTasks, {u \in queuedTasks : u < q})

\* Conflicting tasks start in the provider's order: a later one never overtakes
\* an earlier one it conflicts with, however many others finish in between.
NoOvertaking ==
    \A q \in queuedTasks, t \in Started :
        q < t => ~ conflict(accesses[q], accesses[t])

-----------------------------------------------------------------------------
\* The promise the batch relies on, without arrays or callbacks.
Promise == INSTANCE ConflictOrder WITH started <- Started

\* Every step of the scheduler starts tasks as the promise allows.
ImplementsConflictOrder == Promise!Spec

=============================================================================
