------------------------------ MODULE Calendar ------------------------------
(* The timestamps of the manifest and the pending-index marker (util.rs). A     *)
(* time is a day since 1970-01-01 and a second of that day; the calendar itself,  *)
(* stepped a day at a time, is the reference the two conversions are held to.      *)
EXTENDS Integers

CONSTANTS
  Starts,     \* days the walk starts from, with their dates
  Span,       \* bound: days walked from a start
  Seconds     \* the seconds of a day that are tried

(* Days whose dates are known: the epoch, and the first days of two centuries.            *)
Anchors ==
  {[day |-> 0, date |-> [year |-> 1970, month |-> 1, day |-> 1]],
   [day |-> 10957, date |-> [year |-> 2000, month |-> 1, day |-> 1]],
   [day |-> 47482, date |-> [year |-> 2100, month |-> 1, day |-> 1]]}

ASSUME CalendarAssumption ==
  /\ Starts \subseteq Anchors /\ Span \in Nat
  /\ \A s \in Seconds : s \in Nat /\ s < 86400

VARIABLES day, date, second, walked

calVars == <<day, date, second, walked>>

IsLeapYear(year) == year % 4 = 0 /\ (year % 100 # 0 \/ year % 400 = 0)

DaysInMonth(year, month) ==
  CASE month \in {1, 3, 5, 7, 8, 10, 12} -> 31
    [] month \in {4, 6, 9, 11} -> 30
    [] month = 2 -> IF IsLeapYear(year) THEN 29 ELSE 28

CivilFromDays(days) ==
  LET z == days + 719468
      era == (IF z >= 0 THEN z ELSE z - 146096) \div 146097
      doe == z - era * 146097
      yoe == (doe - doe \div 1460 + doe \div 36524 - doe \div 146096) \div 365
      doy == doe - (365 * yoe + yoe \div 4 - yoe \div 100)
      mp == (5 * doy + 2) \div 153
      month == mp + (IF mp < 10 THEN 3 ELSE -9)
  IN [year |-> yoe + era * 400 + (IF month <= 2 THEN 1 ELSE 0),
      month |-> month,
      day |-> doy - (153 * mp + 2) \div 5 + 1]

DaysFromCivilMarchless(year, month, dayOfMonth) ==
  LET era == (IF year >= 0 THEN year ELSE year - 399) \div 400
      yoe == year - era * 400
      doy == (153 * (month + (IF month > 2 THEN -3 ELSE 9)) + 2) \div 5 + dayOfMonth - 1
  IN era * 146097 + yoe * 365 + yoe \div 4 - yoe \div 100 + doy - 719468

(* The year begins in March, so that a leap day ends it.                            *)
DaysFromCivil(year, month, dayOfMonth) ==
  LET adjusted == year - (IF month <= 2 THEN 1 ELSE 0)
      era == (IF adjusted >= 0 THEN adjusted ELSE adjusted - 399) \div 400
      yoe == adjusted - era * 400
      doy == (153 * (month + (IF month > 2 THEN -3 ELSE 9)) + 2) \div 5 + dayOfMonth - 1
  IN era * 146097 + yoe * 365 + yoe \div 4 - yoe \div 100 + doy - 719468

FormatRfc3339(d, s) ==
  [civil |-> CivilFromDays(d), hour |-> s \div 3600, minute |-> (s % 3600) \div 60,
   second |-> s % 60]

(* <<-1, -1>> stands for the error of an invalid timestamp.                           *)
ParseRfc3339(stamp) ==
  LET c == stamp.civil IN
    IF /\ c.month \in 1..12 /\ c.day >= 1 /\ c.day <= DaysInMonth(c.year, c.month)
       /\ stamp.hour <= 23 /\ stamp.minute <= 59 /\ stamp.second <= 59
      THEN <<DaysFromCivil(c.year, c.month, c.day),
             stamp.hour * 3600 + stamp.minute * 60 + stamp.second>>
      ELSE <<-1, -1>>

CalendarInit ==
  /\ \E start \in Starts : day = start.day /\ date = start.date
  /\ second \in Seconds
  /\ walked = 0

NextDay ==
  /\ walked < Span
  /\ walked' = walked + 1
  /\ day' = day + 1
  /\ date' = IF date.day < DaysInMonth(date.year, date.month)
               THEN [date EXCEPT !.day = @ + 1]
             ELSE IF date.month < 12
               THEN [year |-> date.year, month |-> date.month + 1, day |-> 1]
             ELSE [year |-> date.year + 1, month |-> 1, day |-> 1]
  /\ UNCHANGED second

CalendarNext == NextDay

CalendarSpec == CalendarInit /\ [][CalendarNext]_calVars

-----------------------------------------------------------------------------
CalendarTypeOK ==
  /\ day \in Nat /\ second \in Seconds /\ walked \in 0..Span
  /\ date.month \in 1..12 /\ date.day \in 1..DaysInMonth(date.year, date.month)

(* A time written to the manifest or a marker is that time of the calendar, and is read   *)
(* back as what was written, across leap days and the century years with and without one:    *)
(* staleness (manifest.rs:60) and the marker's age (pending_index.rs:47) compare what was read. *)
TimesRoundTrip ==
  /\ FormatRfc3339(day, second).civil = date
  /\ ParseRfc3339(FormatRfc3339(day, second)) = <<day, second>>
=============================================================================
