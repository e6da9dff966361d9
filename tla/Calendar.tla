------------------------------ MODULE Calendar ------------------------------
(***************************************************************************)
(* Timestamps (src/common/{rfc3339,time}.rs).  The text of a timestamp is  *)
(* the numbers of its fields, the digits of its fraction and its offset,   *)
(* or {} when it does not have that layout.                                *)
(***************************************************************************)
EXTENDS Lists

IsLeapYear(year) == (year % 4 = 0 /\ year % 100 # 0) \/ year % 400 = 0

DaysInMonth(year, month) ==
    CASE month \in {1, 3, 5, 7, 8, 10, 12} -> 31
      [] month \in {4, 6, 9, 11} -> 30
      [] month = 2 -> IF IsLeapYear(year) THEN 29 ELSE 28
      [] OTHER -> 0

(* Days since 1970-01-01, counted in eras of 400 years that start in March. *)
MarchYear(year, month) == IF month <= 2 THEN year - 1 ELSE year

MonthPrime(month) == IF month > 2 THEN month - 3 ELSE month + 9

DayOfEra(year_of_era, day_of_year) ==
    year_of_era * 365 + year_of_era \div 4 - year_of_era \div 100 + day_of_year

DaysFromCivil(year, month, day) ==
    LET adjusted    == MarchYear(year, month)
        era         == adjusted \div 400
        day_of_year == (153 * MonthPrime(month) + 2) \div 5 + day - 1
    IN era * 146097 + DayOfEra(adjusted - era * 400, day_of_year) - 719468

(* And back.                                                               *)
CivilFromDays(days) ==
    LET z           == days + 719468
        era         == z \div 146097
        day_of_era  == z - era * 146097
        year_of_era == (day_of_era - day_of_era \div 1460 + day_of_era \div 36524
                          - day_of_era \div 146096) \div 365
        day_of_year == day_of_era - (365 * year_of_era + year_of_era \div 4
                                       - year_of_era \div 100)
        month_prime == (5 * day_of_year + 2) \div 153
        january     == month_prime >= 10
    IN [year  |-> year_of_era + era * 400 + (IF january THEN 1 ELSE 0),
        month |-> IF january THEN month_prime - 9 ELSE month_prime + 3,
        day   |-> day_of_year - (153 * month_prime + 2) \div 5 + 1]

ParseDate(t) ==
    t.month \in 1..12 /\ t.day \in 1..DaysInMonth(t.year, t.month)

ParseTime(t) == t.hour \in 0..23 /\ t.minute \in 0..59 /\ t.second \in 0..59

(* The offset is a sign, hours and minutes; Z is +00:00.                   *)
ParseOffset(t) == t.offset.hours \in 0..23 /\ t.offset.minutes \in 0..59

OffsetSeconds(offset) ==
    offset.sign * (offset.hours * 3600 + offset.minutes * 60)

(* The instant, {} when a field is out of range.                           *)
ParseRfc3339(text) ==
    {[epoch_seconds |-> DaysFromCivil(t.year, t.month, t.day) * 86400
                          + t.hour * 3600 + t.minute * 60 + t.second
                          - OffsetSeconds(t.offset),
      fraction |-> t.fraction] :
       t \in {x \in text : ParseDate(x) /\ ParseTime(x) /\ ParseOffset(x)}}

(* Mutant: the fractions are compared as whole numbers.                    *)
FractionNumberAfter(left, right) ==
    FoldLeft(LAMBDA n, d : 10 * n + d, 0, left)
      > FoldLeft(LAMBDA n, d : 10 * n + d, 0, right)

(* The fraction of left comes after that of right; missing digits are      *)
(* zeros.                                                                  *)
FractionAfter(left, right) ==
    LET Digit(s, i) == IF i \in DOMAIN s THEN s[i] ELSE 0
        places == DOMAIN left \union DOMAIN right
    IN \E i \in places : /\ Digit(left, i) > Digit(right, i)
                         /\ \A j \in places :
                              j < i => Digit(left, j) = Digit(right, j)

(* compare_rfc3339 is Greater.                                             *)
After(left, right) ==
    \/ left.epoch_seconds > right.epoch_seconds
    \/ /\ left.epoch_seconds = right.epoch_seconds
       /\ FractionAfter(left.fraction, right.fraction)

(***************************************************************************)
(* Reference: the days of all the years from 1970 and months before a date *)
(* and of its month, and whether the text names an instant at all.         *)
(***************************************************************************)
CountedDays(t) ==
    LET years == [i \in 1..(t.year - 1970) |->
                    IF IsLeapYear(1969 + i) THEN 366 ELSE 365]
        months == [i \in 1..(t.month - 1) |-> DaysInMonth(t.year, i)]
    IN FoldLeft(LAMBDA n, d : n + d, t.day, years \o months)

Exists(t) == ParseDate(t) /\ ParseTime(t) /\ ParseOffset(t)

=============================================================================
