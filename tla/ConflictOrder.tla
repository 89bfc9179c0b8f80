--------------------------- MODULE ConflictOrder ----------------------------
(***************************************************************************)
(* What the tool scheduler promises (the header of loop/tool-scheduler.ts  *)
(* and the rules of loop/tool-call.ts): a task starts once every earlier   *)
(* task it conflicts with has settled, and not before.  How waiting tasks  *)
(* are kept, and when they are looked at again, is left open.              *)
(***************************************************************************)
EXTENDS Naturals, Sequences

CONSTANTS
    AccessLists,       \* what a task may declare
    MaxTasks,
    conflict(_, _)     \* which declarations exclude each other

VARIABLES
    accesses,   \* accesses[t]: what the t-th task declared
    started,    \* the tasks that were started
    settled     \* the tasks whose result is known

vars == <<accesses, started, settled>>

\* The tasks t must see settled before it may start.
Earlier(t, declared) ==
    {u \in 1..(t - 1) : conflict(declared[t], declared[u])}

Init == accesses = <<>> /\ started = {} /\ settled = {}

\* Start any set of tasks that are free to start; a task may be added and
\* started in one step.
Start ==
    /\ \/ UNCHANGED accesses
       \/ \E d \in AccessLists : Len(accesses) < MaxTasks /\ accesses' = Append(accesses, d)
    /\ started \subseteq started'
    /\ \A t \in started' \ started :
          /\ t \in 1..Len(accesses')
          /\ Earlier(t, accesses') \subseteq settled
    /\ UNCHANGED settled

Settle ==
    /\ \E t \in started \ settled : settled' = settled \cup {t}
    /\ UNCHANGED <<accesses, started>>

Next == Start \/ Settle

Spec == Init /\ [][Next]_vars

=============================================================================
