---------------------------- MODULE CronExpression ----------------------------
(***************************************************************************)
(* The next run of a cron expression (packages/agent-core/src/tools/cron/  *)
(* cron-expr.ts, nextRunWithinMinutes): instead of trying every minute,    *)
(* the search jumps to the next month, day, hour or minute, according to   *)
(* the coarsest field that does not match.                                 *)
(*                                                                         *)
(* Times are minutes since the beginning of a year, of a calendar whose    *)
(* months, week, day and hour have the lengths of the constants.  Hours    *)
(* that daylight saving time repeats or leaves out are not modelled.       *)
(***************************************************************************)
EXTENDS Integers, Sequences, FiniteSetsExt, SequencesExt

CONSTANTS
    NoRun,
    MonthDays,     \* MonthDays[m]: the days of month m
    WeekDays, HoursPerDay, MinutesPerHour

ASSUME CalendarAssumption ==
    /\ MonthDays \in Seq(Nat \ {0}) /\ MonthDays # <<>>
    /\ {WeekDays, HoursPerDay, MinutesPerHour} \subseteq Nat \ {0}

MinutesPerDay == HoursPerDay * MinutesPerHour
DaysBefore == [m \in 1 .. Len(MonthDays) + 1 |-> FoldLeft(+, 0, SubSeq(MonthDays, 1, m - 1))]
DaysPerYear == DaysBefore[Len(MonthDays) + 1]

\* The fields of a date.
getMinutes(date) == date % MinutesPerHour
getHours(date) == (date \div MinutesPerHour) % HoursPerDay
getDay(date) == (date \div MinutesPerDay) % WeekDays
yearDay(date) == (date \div MinutesPerDay) % DaysPerYear
getMonth(date) == Max({m \in DOMAIN MonthDays : DaysBefore[m] <= yearDay(date)})
getDate(date) == yearDay(date) - DaysBefore[getMonth(date)] + 1

dayMatches(expr, date) ==
    LET domOk == getDate(date) \in expr.daysOfMonth
        dowOk == getDay(date) \in expr.daysOfWeek
    IN  \/ expr.daysOfMonthWildcard /\ expr.daysOfWeekWildcard
        \/ expr.daysOfMonthWildcard /\ dowOk
        \/ expr.daysOfWeekWildcard /\ domOk
        \/ ~expr.daysOfMonthWildcard /\ ~expr.daysOfWeekWildcard /\ (domOk \/ dowOk)

\* Mutant: the hours and minutes of the date are kept.
advanceDay_KeepsTime(date) == date + MinutesPerDay

\* The beginning of the next day, of the next hour, of the next month.
advanceDay(date) == (date \div MinutesPerDay + 1) * MinutesPerDay
advanceHour(date) == (date \div MinutesPerHour + 1) * MinutesPerHour
advanceMonth(date) ==
    (date \div MinutesPerDay - getDate(date) + 1 + MonthDays[getMonth(date)]) * MinutesPerDay
advanceMinute(date) == date + 1

matches(expr, date) ==
    /\ getMonth(date) \in expr.months
    /\ dayMatches(expr, date)
    /\ getHours(date) \in expr.hours
    /\ getMinutes(date) \in expr.minutes

advance(expr, date) ==
    IF getMonth(date) \notin expr.months THEN advanceMonth(date)
    ELSE IF ~dayMatches(expr, date) THEN advanceDay(date)
    ELSE IF getHours(date) \notin expr.hours THEN advanceHour(date)
    ELSE advanceMinute(date)

\* The iteration cap of the loop is out of reach and left out.
nextRunWithinMinutes(expr, from, capMinutes) ==
    LET search[date \in Nat] ==
            IF date > from + capMinutes THEN NoRun
            ELSE IF matches(expr, date) THEN date
            ELSE search[advance(expr, date)]
    IN  search[from + 1]

=============================================================================
