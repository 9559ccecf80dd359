------------------------------ MODULE CronNext ------------------------------
(***************************************************************************)
(* SpecSchedule.Next of delayquene/spec.go: the search for the next        *)
(* activation of a cron schedule, one loop iteration per step.             *)
(*                                                                         *)
(* The algorithm is the code's; the calendar is a parameter, so that it    *)
(* can be small: the length of months, of the week, of day, hour and       *)
(* minute.  An instant is a number of seconds, as in time.Time; what the   *)
(* code reads from it (Year, Month, Day, Weekday, Hour, ...) are the local *)
(* fields, in a zone that may put its clock forward once (Gap).            *)
(***************************************************************************)
EXTENDS Integers

CONSTANTS
    LastYear,        \* bound: the calendar has the years 0..LastYear
    MonthLen(_, _),  \* days of a month, by year and month
    Months, Week, Hours, Minutes, Seconds,  \* per year, week, day, hour, minute
    YearsAhead,      \* the code's 5: how many years Next looks ahead
    Gap,             \* hours skipped when summer time starts; 0: there is none
    GapAt,           \* the first instant of summer time
    East,            \* the zone is east of Greenwich
    Schedules,       \* the schedules tried
    Starts,          \* the instants Next is asked from
    ZeroTime         \* Go's zero time.Time: no instant of the calendar

ASSUME CalendarAssumption ==
    /\ {LastYear, Gap, GapAt} \subseteq Nat
    /\ {Months, Week, Hours, Minutes, Seconds, YearsAhead} \subseteq Nat \ {0}
    /\ \A y \in 0..LastYear, m \in 1..Months : MonthLen(y, m) \in Nat \ {0}
    /\ Starts \subseteq Nat
    /\ East \in BOOLEAN
    /\ ZeroTime \notin Nat

HourLen == Minutes * Seconds
DayLen == Hours * HourLen

-----------------------------------------------------------------------------
(* The calendar, and Go's time package as Next uses it *)

\* Months are numbered from the first of year 0: the days before month k.
MonthCount == (LastYear + 1) * Months
FirstDay[k \in 0..MonthCount] ==
    IF k = 0 THEN 0
    ELSE FirstDay[k - 1] + MonthLen((k - 1) \div Months, ((k - 1) % Months) + 1)

Days == FirstDay[MonthCount]

Instants == 0..(Days * DayLen - Gap * HourLen - 1)

\* Year, month and day of the month of every day.
Civil ==
    [d \in 0..(Days - 1) |->
        LET k == CHOOSE x \in 0..(MonthCount - 1) : FirstDay[x] <= d /\ d < FirstDay[x + 1]
        IN  [year |-> k \div Months, month |-> (k % Months) + 1, day |-> (d - FirstDay[k]) + 1]]

Summer(t) == Gap > 0 /\ t >= GapAt

\* What the clock on the wall shows at t, as seconds.
Wall(t) == IF Summer(t) THEN t + Gap * HourLen ELSE t

Date(t) == Civil[Wall(t) \div DayLen]
Year(t) == Date(t).year
Month(t) == Date(t).month
Day(t) == Date(t).day
Weekday(t) == (Wall(t) \div DayLen) % Week
Hour(t) == (Wall(t) % DayLen) \div HourLen
Minute(t) == (Wall(t) % HourLen) \div Seconds
Second(t) == Wall(t) % Seconds

\* time.Date for a wall clock reading w.  A reading that the gap skips denotes
\* no instant: Go takes the offset of one of the two sides, the one before the
\* transition in a zone east of Greenwich, the one after it in the west.
FromWall(w) ==
    LET winter == w
        summer == w - Gap * HourLen
    IN  CASE ~Summer(winter) -> winter
          [] Summer(winter) /\ Summer(summer) -> summer
          [] OTHER -> IF East THEN winter ELSE summer

\* time.Date(t.Year(), t.Month(), ...) at the start of the month, day, hour.
MonthStart(t) == FromWall(FirstDay[(Year(t) * Months + Month(t)) - 1] * DayLen)
DayStart(t) == FromWall(Wall(t) - (Wall(t) % DayLen))
HourStart(t) == FromWall(Wall(t) - (Wall(t) % HourLen))

\* AddDate(0, 1, 0) and AddDate(0, 0, 1): the same clock reading, a month or a
\* day later; a day the month does not have overflows into the next one.
AddMonth(t) ==
    LET first == FirstDay[Year(t) * Months + Month(t)]
    IN  FromWall((first + Day(t) - 1) * DayLen + (Wall(t) % DayLen))
AddDay(t) == FromWall(Wall(t) + DayLen)

\* Bound: the calendar is long enough for every search.
ASSUME HorizonAssumption ==
    \A u \in Starts : u + 1 \in Instants /\ Year(u + 1) + YearsAhead < LastYear

-----------------------------------------------------------------------------
(* The search *)

VARIABLES
    s,      \* the schedule
    now,    \* the argument of Next
    t,      \* the candidate
    added,  \* a field has been incremented
    pc      \* the loop Next is in

vars == <<s, now, t, added, pc>>

\* A schedule has a set of values per field; the fields for the day also say
\* whether the expression had a star (starBit).
Schedule ==
    [second : SUBSET (0..(Seconds - 1)), minute : SUBSET (0..(Minutes - 1)),
     hour : SUBSET (0..(Hours - 1)), month : SUBSET (1..Months),
     dom : [bits : SUBSET Nat, star : BOOLEAN],
     dow : [bits : SUBSET (0..(Week - 1)), star : BOOLEAN]]

ASSUME ScheduleAssumption == Schedules \subseteq Schedule

DayMatches(u) ==
    LET domMatch == Day(u) \in s.dom.bits
        dowMatch == Weekday(u) \in s.dow.bits
    IN  IF s.dom.star \/ s.dow.star THEN domMatch /\ dowMatch ELSE domMatch \/ dowMatch

\* The first second after the argument.
Upcoming == now + 1
YearLimit == Year(Upcoming) + YearsAhead

Init ==
    /\ s \in Schedules
    /\ now \in Starts
    /\ t = Upcoming
    /\ added = FALSE
    /\ pc = "wrap"

\* WRAP: give up after the year limit.
Wrap ==
    /\ pc = "wrap"
    /\ IF Year(t) > YearLimit
       THEN t' = ZeroTime /\ pc' = "done"
       ELSE pc' = "month" /\ UNCHANGED t
    /\ UNCHANGED <<s, now, added>>

\* The field of loop `here` matches: go on to the next field.
Found(here, there) ==
    /\ pc = here /\ pc' = there
    /\ UNCHANGED <<s, now, t, added>>

\* It does not: the first time, the time goes back to the start of the unit.
From(reset) == IF added THEN t ELSE reset

\* One unit is added, which gives u; a wrap-around has the fields before checked
\* again.
Advance(here, u, wrapped) ==
    /\ pc = here
    /\ t' = u
    /\ pc' = IF wrapped THEN "wrap" ELSE here
    /\ added' = TRUE
    /\ UNCHANGED <<s, now>>

FindMonth ==
    \/ Month(t) \in s.month /\ Found("month", "day")
    \/ LET u == AddMonth(From(MonthStart(t)))
       IN  Month(t) \notin s.month /\ Advance("month", u, Month(u) = 1)

FindDay ==
    \/ DayMatches(t) /\ Found("day", "hour")
    \/ LET u == AddDay(From(DayStart(t)))
       IN  ~DayMatches(t) /\ Advance("day", u, Day(u) = 1)

\* Mutant: midnight is not looked at.
FindHourNoWrap ==
    \/ Hour(t) \in s.hour /\ Found("hour", "minute")
    \/ LET u == From(HourStart(t)) + HourLen
       IN  Hour(t) \notin s.hour /\ Advance("hour", u, FALSE)

FindHour ==
    \/ Hour(t) \in s.hour /\ Found("hour", "minute")
    \/ LET u == From(HourStart(t)) + HourLen
       IN  Hour(t) \notin s.hour /\ Advance("hour", u, Hour(u) = 0)

\* Mutant: the minute is truncated and never incremented.
FindMinuteStuck ==
    \/ Minute(t) \in s.minute /\ Found("minute", "second")
    \/ LET u == From(t - (t % Seconds))
       IN  Minute(t) \notin s.minute /\ Advance("minute", u, Minute(u) = 0)

FindMinute ==
    \/ Minute(t) \in s.minute /\ Found("minute", "second")
    \/ LET u == From(t - (t % Seconds)) + Seconds
       IN  Minute(t) \notin s.minute /\ Advance("minute", u, Minute(u) = 0)

\* Times are whole seconds here: truncating to one changes nothing.
FindSecond ==
    \/ Second(t) \in s.second /\ Found("second", "done")
    \/ LET u == t + 1
       IN  Second(t) \notin s.second /\ Advance("second", u, Second(u) = 0)

\* The search is over; nothing follows.
Done == pc = "done" /\ UNCHANGED vars

Next ==
    \/ Wrap
    \/ pc = "month" /\ FindMonth
    \/ pc = "day" /\ FindDay
    \/ pc = "hour" /\ FindHour
    \/ pc = "minute" /\ FindMinute
    \/ pc = "second" /\ FindSecond
    \/ Done

\* Next is one sequential call: it keeps running.
Spec == Init /\ [][Next]_vars /\ WF_vars(Next)

-----------------------------------------------------------------------------
(* Properties *)

\* crontab's rule for the day: both fields must allow it, except that a day
\* given in both fields, without a star in either, need match only one.
DayAllowed(u) ==
    \/ Day(u) \in s.dom.bits /\ Weekday(u) \in s.dow.bits
    \/ /\ ~s.dom.star /\ ~s.dow.star
       /\ {Day(u)} \cap s.dom.bits # {} \/ {Weekday(u)} \cap s.dow.bits # {}

Matches(u) ==
    /\ Month(u) \in s.month /\ DayAllowed(u)
    /\ Hour(u) \in s.hour /\ Minute(u) \in s.minute /\ Second(u) \in s.second

\* "Next returns the next time this schedule is activated, greater than the
\* given time.  If no time can be found to satisfy the schedule, return the
\* zero time": what the field-by-field search returns is the least matching
\* instant, and it gives up only when the years it covers have none.
NextIsLeast ==
    pc = "done" =>
        IF t = ZeroTime
        THEN \A u \in Instants : u > now /\ Year(u) <= YearLimit => ~Matches(u)
        ELSE /\ t > now /\ Matches(t)
             /\ \A u \in Upcoming..(t - 1) : ~Matches(u)

\* The search ends, also for schedules no date satisfies and for fields with no
\* value at all.
NextTerminates == <>(pc = "done")
=============================================================================
