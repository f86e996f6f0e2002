------------------------------ MODULE Calendar -------------------------------
(***************************************************************************)
(* read_rtc of arch/ia32/time.c: the real time clock's BCD registers       *)
(* converted to seconds since 1970.  The model walks through the calendar  *)
(* day by day, by the Gregorian rules, and compares.                       *)
(***************************************************************************)
EXTENDS Integers

CONSTANTS LastYear,   \* bound of the walk
          Times       \* <<hour, minute, second>> tried on each day

ASSUME LastYearAssumption == LastYear \in Nat /\ LastYear >= 1970

ASSUME TimesAssumption == Times \subseteq (0..23) \X (0..59) \X (0..59)

VARIABLES year, month, day,  \* a date
          days               \* the number of days since 1 January 1970

dateVars == <<year, month, day, days>>

IsLeap(y) == (y % 4 = 0 /\ y % 100 # 0) \/ y % 400 = 0

DaysIn(y, m) ==
  CASE m \in {1, 3, 5, 7, 8, 10, 12} -> 31
    [] m \in {4, 6, 9, 11}           -> 30
    [] m = 2                         -> IF IsLeap(y) THEN 29 ELSE 28

DateInit == year = 1970 /\ month = 1 /\ day = 1 /\ days = 0

NextDay ==
  /\ <<year, month, day>> # <<LastYear, 12, 31>>
  /\ days' = days + 1
  /\ IF day < DaysIn(year, month)
     THEN day' = day + 1 /\ UNCHANGED <<month, year>>
     ELSE /\ day' = 1
          /\ month' = IF month < 12 THEN month + 1 ELSE 1
          /\ year' = IF month < 12 THEN year ELSE year + 1

LastDay == <<year, month, day>> = <<LastYear, 12, 31>> /\ UNCHANGED dateVars

DateNext == NextDay \/ LastDay

DateSpec == DateInit /\ [][DateNext]_dateVars

-----------------------------------------------------------------------------
(* What the chip holds in a register for the number n.                     *)
Bcd(n) == (n \div 10) * 16 + (n % 10)

bcd_to_binary(v) == (v % 16) + (v \div 16) * 10

Registers(y, m, d, t) ==
  [century |-> Bcd(y \div 100), year |-> Bcd(y % 100), month |-> Bcd(m),
   day |-> Bcd(d), hour |-> Bcd(t[1]), minute |-> Bcd(t[2]), second |-> Bcd(t[3])]

(* March is month 1 and February month 12 of the year before.              *)
MonthFromMarch(m) == IF m - 2 <= 0 THEN m + 10 ELSE m - 2

(* A faulty variant, for mutation testing.                                 *)
DayNumber_NoCenturies(y, m, d) ==
  (y \div 4) - 15 + ((367 * m) \div 12) + d + y * 365 - 719499

DayNumber(y, m, d) ==
  (y \div 4) - (y \div 100) + (y \div 400) + ((367 * m) \div 12) + d + y * 365 - 719499

(* The result of read_rtc as <<minutes since 1970, second>>: the product   *)
(* with 60 that joins them is outside the 32 bit part of the formula.      *)
read_rtc(r) ==
  LET y == 100 * bcd_to_binary(r.century) + bcd_to_binary(r.year)
      m == bcd_to_binary(r.month)
  IN  <<(DayNumber(IF m - 2 <= 0 THEN y - 1 ELSE y, MonthFromMarch(m),
                   bcd_to_binary(r.day)) * 24
          + bcd_to_binary(r.hour)) * 60 + bcd_to_binary(r.minute),
        bcd_to_binary(r.second)>>

(* read_rtc's closed formula, with its months counted from March and its   *)
(* 367/12, gives the number of days that really passed, on every date      *)
(* including leap days and the ends of years and centuries.                *)
ReadsTheDate ==
  \A t \in Times :
    read_rtc(Registers(year, month, day, t))
      = <<days * 1440 + t[1] * 60 + t[2], t[3]>>
=============================================================================
