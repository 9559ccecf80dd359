----------------------------- MODULE MCCronNext -----------------------------
(***************************************************************************)
(* A small calendar for CronNext: two months, of three and of two days, a  *)
(* leap day every four years, weeks of three days; the .cfg files give the *)
(* hours of a day.  A leap year of instants to start from.                 *)
(***************************************************************************)
EXTENDS CronNext

MCMonthLen(y, m) == IF m = 1 THEN 3 ELSE IF y % 4 = 1 THEN 3 ELSE 2

Plain(bits) == [bits |-> bits, star |-> FALSE]
Star(bits) == [bits |-> bits, star |-> TRUE]

\* Day fields: one value, several, all, a step over all; a day no month has.
Doms == {Plain({1}), Plain({2}), Plain({3}), Plain({4}), Plain({1, 3}),
         Star(1..3), Star({1, 3})}
Dows == {Plain({0}), Plain({1, 2}), Star(0..2), Star({0, 2})}

\* The time of day is fixed, the date is not.
DateSchedules ==
    [second : {{0}}, minute : {{0}}, hour : {{2}, {1, 3}},
     month : {{1}, {2}, {1, 2}}, dom : Doms, dow : Dows]

\* The time of day varies, and is empty for a field that is just ",".
ClockSchedules ==
    [second : {{}, {0}, {1}, {0, 1}}, minute : {{0}, {1}, {0, 1}},
     hour : SUBSET {0, 2}, month : {{2}}, dom : {Star(1..3), Plain({2})},
     dow : {Star(0..2)}]

AllSchedules == DateSchedules \union ClockSchedules

\* The first year, a leap year: its leap day is ahead of some and behind others.
EarlyInstants == 0..(6 * DayLen - 1)
=============================================================================
