-------------------------------- MODULE MCCron --------------------------------
(***************************************************************************)
(* Cron with a recurring task and a one-shot: the recurring task has three *)
(* fires, the last of which may be late by one, and is stale at its last;  *)
(* the one-shot is due at a round mark and may be early by one.            *)
(*                                                                         *)
(* Beside it, in the initial state, CronExpression on a small calendar,    *)
(* for every expression and every minute of a year.                        *)
(***************************************************************************)
EXTENDS Cron, CronExpression

MCSchedule == [r |-> {1, 2, 4}, o |-> {3}]
MCShare == [r |-> 3, o |-> 2]
MCIds == {"r", "o"}

\* Two months, of one day and of two.
MCMonthDays == <<1, 2>>

Some(S) == SUBSET S \ {{}}

Expressions ==
    {expr \in [months : Some({1, 2}), daysOfMonth : Some(1 .. 2), daysOfWeek : Some({0, 1}),
               hours : Some({0, 1}), minutes : Some({0, 1}),
               daysOfMonthWildcard : BOOLEAN, daysOfWeekWildcard : BOOLEAN] :
        /\ expr.daysOfMonthWildcard => expr.daysOfMonth = 1 .. 2
        /\ expr.daysOfWeekWildcard => expr.daysOfWeek = {0, 1}}

Year == 0 .. 11
TwoYears == 24

\* A day is meant by an expression when one of its two day fields, if both are
\* restricted, or both of them, if one is a bare *, hold.
MeantDay(expr, date) ==
    LET dom == getDate(date) \in expr.daysOfMonth
        dow == getDay(date) \in expr.daysOfWeek
    IN  IF expr.daysOfMonthWildcard \/ expr.daysOfWeekWildcard THEN dom /\ dow ELSE dom \/ dow

\* The search that jumps over months, days and hours finds the first minute
\* after `from` that the expression means, and none only if none exists within
\* the search window, whatever fields are restricted (nextRunWithinMinutes).
NextRunIsEarliest ==
    used = {} /\ now = 0 /\ phase = "live" /\ ~busy /\ faults = 0 /\ closes = 0 =>
        \A expr \in Expressions, from \in Year :
            LET meant == {date \in from + 1 .. from + TwoYears :
                            /\ getMonth(date) \in expr.months
                            /\ MeantDay(expr, date)
                            /\ getHours(date) \in expr.hours
                            /\ getMinutes(date) \in expr.minutes}
                run == nextRunWithinMinutes(expr, from, TwoYears)
            IN  IF meant = {} THEN run = None ELSE run = Min(meant)

=============================================================================
