------------------------------- MODULE Calendar -------------------------------
(***************************************************************************)
(* The Gregorian calendar of services/reading_activity_service.rs.  A day  *)
(* is the number of days since 1970-01-01; a local date of the tables, a   *)
(* text that sorts by time, stands for it (years 1 to 9999).               *)
(***************************************************************************)
EXTENDS Integers

IsLeapYear(year) == year % 4 = 0 /\ (year % 100 # 0 \/ year % 400 = 0)

DaysInMonth(year, month) ==
    CASE month = 2 -> IF IsLeapYear(year) THEN 29 ELSE 28
      [] month \in {4, 6, 9, 11} -> 30
      [] OTHER -> 31

\* The year begins in March, so that the leap day is its last.
DaysFromCivil(year, month, day) ==
    LET adjusted == IF month <= 2 THEN year - 1 ELSE year
        era == adjusted \div 400
        yearOfEra == adjusted - era * 400
        monthPrime == IF month > 2 THEN month - 3 ELSE month + 9
        dayOfYear == (153 * monthPrime + 2) \div 5 + day - 1
        dayOfEra == yearOfEra * 365 + yearOfEra \div 4 - yearOfEra \div 100 + dayOfYear
    IN  era * 146097 + dayOfEra - 719468

CivilFromDays(days) ==
    LET z == days + 719468
        era == z \div 146097
        dayOfEra == z - era * 146097
        yearOfEra == (dayOfEra - dayOfEra \div 1460 + dayOfEra \div 36524
                        - dayOfEra \div 146096) \div 365
        dayOfYear == dayOfEra - (365 * yearOfEra + yearOfEra \div 4 - yearOfEra \div 100)
        monthPrime == (5 * dayOfYear + 2) \div 153
        month == IF monthPrime < 10 THEN monthPrime + 3 ELSE monthPrime - 9
    IN  [year |-> yearOfEra + era * 400 + (IF month <= 2 THEN 1 ELSE 0),
         month |-> month,
         day |-> dayOfYear - (153 * monthPrime + 2) \div 5 + 1]

\* parse_local_date
LastYear == 9999

IsDate(c) ==
    c.year \in 1..LastYear /\ c.month \in 1..12 /\ c.day \in 1..DaysInMonth(c.year, c.month)

\* Monday is 0; 1970-01-01 was a Thursday.
WeekdayFromMonday(days) == (days + 3) % 7

\* What a calendar is: tomorrow's date, by the lengths of months and years.
Tomorrow(c) ==
    IF c.day < DaysInMonth(c.year, c.month) THEN [c EXCEPT !.day = @ + 1]
    ELSE IF c.month < 12 THEN [c EXCEPT !.month = @ + 1, !.day = 1]
    ELSE [year |-> c.year + 1, month |-> 1, day |-> 1]

\* Both conversions agree with it and with each other.
CalendarOn(Days) ==
    /\ CivilFromDays(0) = [year |-> 1970, month |-> 1, day |-> 1]
    /\ \A n \in Days :
          LET c == CivilFromDays(n)
          IN  /\ IsDate(c)
              /\ DaysFromCivil(c.year, c.month, c.day) = n
              /\ CivilFromDays(n + 1) = Tomorrow(c)
=============================================================================
