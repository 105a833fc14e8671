------------------------------ MODULE Calendar ------------------------------
(***************************************************************************)
(* The bucket a score falls into: the period keys of domain.go on the days *)
(* of the calendar, and the keys of boards.  A day is the number of days   *)
(* since Monday 1 January of the year 1.  A period key is a record of what *)
(* its text holds, the date (2006-01-02), the week (2006-W02), the month   *)
(* (2006-01) or nothing (all): the texts of different windows have         *)
(* different forms.                                                        *)
(***************************************************************************)
EXTENDS Integers, Sequences

\* time.Time, in the time zone of the board.
FirstDay(year) ==
    LET past == year - 1
    IN  365 * past + (past \div 4) - (past \div 100) + (past \div 400)

Year(day) ==
    LET about == (400 * day) \div 146097
    IN  CHOOSE y \in about..(about + 2) :
            FirstDay(y) <= day /\ day < FirstDay(y + 1)

DayOfYear(day) == day - FirstDay(Year(day))

Leap(year) == FirstDay(year + 1) - FirstDay(year) - 365

\* The days of a year before its month m (before a 13th: all of them).
DaysBefore(m, leap) ==
    <<0, 31, 59, 90, 120, 151, 181, 212, 243, 273, 304, 334, 365>>[m] + (IF m > 2 THEN leap ELSE 0)

Month(day) ==
    LET leap == Leap(Year(day))
    IN  CHOOSE m \in 1..12 : /\ DaysBefore(m, leap) <= DayOfYear(day)
                             /\ DayOfYear(day) < DaysBefore(m + 1, leap)

DayOfMonth(day) == DayOfYear(day) - DaysBefore(Month(day), Leap(Year(day))) + 1

\* The Thursday of the week of a day: its year is the year of the week.
Thursday(day) == 7 * (day \div 7) + 3

ISOWeek(day) == [year |-> Year(Thursday(day)), week |-> DayOfYear(Thursday(day)) \div 7 + 1]

\* Fault: the year of the day with the number of the week.
CalendarYearWeek(day) == [year |-> Year(day), week |-> DayOfYear(Thursday(day)) \div 7 + 1]

WeekKey(day) == ISOWeek(day)

PeriodKey(window, day) ==
    CASE window = "day"   -> [year |-> Year(day), month |-> Month(day), day |-> DayOfMonth(day)]
      [] window = "week"  -> WeekKey(day)
      [] window = "month" -> [year |-> Year(day), month |-> Month(day)]
      [] window = "all"   -> [all |-> TRUE]

-----------------------------------------------------------------------------
(* Board keys *)

\* A text is the sequence of its parts between bars: joining two texts with a
\* bar concatenates them, and a text without a bar has one part.  A zone is one
\* that has been trimmed.
Blank == <<"">>
NormalizeZone(zone) == IF zone = Blank THEN <<"default">> ELSE zone

\* Five texts joined with bars.  The hash of the result, cut to 128 bits, is
\* taken to be injective.
BoardKey(app, board, zone, period, channel) ==
    app \o board \o NormalizeZone(zone) \o <<period>> \o channel
=============================================================================
