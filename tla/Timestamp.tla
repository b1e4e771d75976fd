------------------------------ MODULE Timestamp ------------------------------
(***************************************************************************)
(* format_timestamp, the expiration of a transaction as the user reads it, *)
(* run next to a calendar.  The calendar goes on day by day, by the rules  *)
(* of the Gregorian one; FormatTimestamp of Texts computes the date of the *)
(* same day from the number of days since 1970.  The time of the day is    *)
(* the remainder of whole days and is left out here, so a timestamp is its *)
(* day: all that an uint32_t can hold are looked at.                       *)
(***************************************************************************)
EXTENDS Texts

CONSTANT LastDay  \* the day of the last timestamp, 2^32 - 1 seconds in the code

ASSUME TimestampAssumption == LastDay \in Nat

VARIABLES
  day,   \* days since 1970-01-01, seconds / 86400
  date   \* that day in the calendar: <<year, month, day of the month>>

vars == <<day, date>>

-----------------------------------------------------------------------------
(* The calendar                                                            *)

Tomorrow(d) ==
  LET y == d[1]
      m == d[2]
  IN IF d[3] < MonthDays(y)[m] THEN <<y, m, d[3] + 1>>
     ELSE IF m < 12 THEN <<y, m + 1, 1>>
     ELSE <<y + 1, 1, 1>>

-----------------------------------------------------------------------------
Init == day = 0 /\ date = <<1970, 1, 1>>

NextDay ==
  /\ day < LastDay
  /\ day' = day + 1
  /\ date' = Tomorrow(date)

Next == NextDay

Spec == Init /\ [][Next]_vars

-----------------------------------------------------------------------------
(* What must hold                                                          *)

\* The function finds a date for every timestamp.
TypeOK ==
  LET shown == FormatTimestamp(day)
  IN /\ day \in 0 .. LastDay
     /\ shown[2] \in 1 .. 12
     /\ shown[3] \in 1 .. MonthDays(shown[1])[shown[2]]

\* Where the year is guessed late: the last days of a leap year, as many as
\* there were leap days up to then.
GuessedLate(d) ==
  LET daysLeft == 366 - FirstMonths(d[1], d[2] - 1) - d[3]
  IN Leap(d[1]) /\ daysLeft < Cardinality({y \in 1972 .. d[1] : Leap(y)})

\* In every year that is no leap year, and in all of a leap year but its last
\* days, the user reads the date of the calendar.
RightDate == ~GuessedLate(date) => FormatTimestamp(day) = date

\* Of two timestamps, the later one is never shown with the earlier date.
NeverBack ==
  [][LET a == FormatTimestamp(day)
         b == FormatTimestamp(day')
     IN \/ a[1] < b[1]
        \/ a[1] = b[1] /\ a[2] < b[2]
        \/ a[1] = b[1] /\ a[2] = b[2] /\ a[3] <= b[3]]_vars

-----------------------------------------------------------------------------
(* What the header says and the code does not do                           *)

\* "Format EPOCH timestamp as a user friendly datetime string": of that
\* timestamp.
DateShown == FormatTimestamp(day) = date
=============================================================================
