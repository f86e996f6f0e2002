--------------------------- MODULE CalendarProofs ----------------------------
(***************************************************************************)
(* Proofs about the calendar conversion, for every date from 1970 on.      *)
(***************************************************************************)
EXTENDS Calendar, TLAPS

(* The year and month of read_rtc's formula, which begins years in March.  *)
YearFromMarch(y, m) == IF m - 2 <= 0 THEN y - 1 ELSE y
Formula(y, m, d) == DayNumber(YearFromMarch(y, m), MonthFromMarch(m), d)

(* The walk is on a date of the calendar, and the days it has counted are  *)
(* the ones the closed formula gives.                                      *)
TypeOK ==
  /\ year \in 1970..LastYear /\ month \in 1..12 /\ days \in Nat
  /\ day \in 1..DaysIn(year, month)

IInv == TypeOK /\ days = Formula(year, month, day)

-----------------------------------------------------------------------------
(* What the chip writes in a register, the code reads back.                *)
LEMMA ReadBack == \A n \in Nat : bcd_to_binary(Bcd(n)) = n
<1> SUFFICES ASSUME NEW n \in Nat PROVE bcd_to_binary(Bcd(n)) = n
  OBVIOUS
<1>1. n \div 10 \in Nat /\ n % 10 \in 0..9 /\ n = 10 * (n \div 10) + (n % 10)
  OBVIOUS
<1>2. Bcd(n) % 16 = n % 10 /\ Bcd(n) \div 16 = n \div 10
  BY <1>1 DEF Bcd
<1> QED
  BY <1>1, <1>2 DEF bcd_to_binary

LEMMA Lengths ==
  ASSUME NEW y \in Nat, NEW m \in 1..12
  PROVE  DaysIn(y, m) \in 28..31
BY DEF DaysIn

(* From the last day of a month to the first of the next the formula grows *)
(* by one: for the months of 30 and of 31 days, for February in ordinary   *)
(* and in leap years, and from December to January.                        *)
LEMMA NextMonth ==
  ASSUME NEW y \in Nat, y >= 1970, NEW m \in 1..11
  PROVE  Formula(y, m + 1, 1) = Formula(y, m, DaysIn(y, m)) + 1
<1> USE DEF Formula, YearFromMarch, MonthFromMarch, DayNumber, DaysIn
<1>1. CASE m = 2
  <2>1. CASE IsLeap(y)
    BY <1>1, <2>1 DEF IsLeap
  <2>2. CASE ~IsLeap(y)
    BY <1>1, <2>2 DEF IsLeap
  <2> QED
    BY <2>1, <2>2
<1>2. CASE m = 1
  BY <1>2
<1>3. CASE m \in {3, 5, 7, 8, 10}
  BY <1>3
<1>4. CASE m \in {4, 6, 9, 11}
  BY <1>4
<1> QED
  BY <1>1, <1>2, <1>3, <1>4

LEMMA NextYear ==
  ASSUME NEW y \in Nat, y >= 1970
  PROVE  Formula(y + 1, 1, 1) = Formula(y, 12, DaysIn(y, 12)) + 1
BY DEF Formula, YearFromMarch, MonthFromMarch, DayNumber, DaysIn

LEMMA SameMonth ==
  ASSUME NEW y \in Nat, y >= 1970, NEW m \in 1..12, NEW d \in Nat
  PROVE  Formula(y, m, d + 1) = Formula(y, m, d) + 1
BY DEF Formula, YearFromMarch, MonthFromMarch, DayNumber

-----------------------------------------------------------------------------
(* The formula is right on 1 January 1970, and every day keeps it right.   *)
LEMMA InitHolds == DateInit => IInv
BY LastYearAssumption
   DEF DateInit, IInv, TypeOK, Formula, YearFromMarch, MonthFromMarch, DayNumber, DaysIn

LEMMA NextKeeps == IInv /\ [DateNext]_dateVars => IInv'
<1> SUFFICES ASSUME IInv, [DateNext]_dateVars PROVE IInv'
  OBVIOUS
<1>1. CASE UNCHANGED dateVars
  BY <1>1 DEF IInv, TypeOK, dateVars
<1>2. CASE LastDay
  BY <1>2 DEF LastDay, IInv, TypeOK, dateVars
<1>3. CASE NextDay
  <2>1. /\ year \in Nat /\ year >= 1970 /\ year <= LastYear /\ LastYear \in Nat
        /\ month \in 1..12 /\ days \in Nat /\ day \in Nat /\ day >= 1
        /\ DaysIn(year, month) \in 28..31 /\ day <= DaysIn(year, month)
        /\ days = Formula(year, month, day) /\ days' = days + 1
    <3>1. year \in Nat /\ month \in 1..12 /\ DaysIn(year, month) \in 28..31
      BY Lengths, LastYearAssumption DEF IInv, TypeOK
    <3> QED
      BY <1>3, <3>1, LastYearAssumption DEF IInv, TypeOK, NextDay
  <2>2. CASE day < DaysIn(year, month)
    <3>1. day' = day + 1 /\ month' = month /\ year' = year
      BY <1>3, <2>2 DEF NextDay
    <3>2. days' = Formula(year, month, day')
      BY <2>1, <3>1, SameMonth
    <3> QED
      BY <2>1, <2>2, <3>1, <3>2 DEF IInv, TypeOK
  <2>3. CASE ~(day < DaysIn(year, month)) /\ month < 12
    <3>1. day' = 1 /\ month' = month + 1 /\ year' = year /\ day = DaysIn(year, month)
      BY <1>3, <2>1, <2>3 DEF NextDay
    <3>2. days' = Formula(year, month', 1)
      BY <2>1, <2>3, <3>1, NextMonth
    <3>3. DaysIn(year, month') \in 28..31
      BY <2>1, <2>3, <3>1, Lengths
    <3> QED
      BY <2>1, <2>3, <3>1, <3>2, <3>3 DEF IInv, TypeOK
  <2>4. CASE ~(day < DaysIn(year, month)) /\ month = 12
    <3>1. day' = 1 /\ month' = 1 /\ year' = year + 1 /\ day = DaysIn(year, 12)
      BY <1>3, <2>1, <2>4 DEF NextDay
    <3>2. day = 31
      BY <3>1 DEF DaysIn
    <3>3. year' <= LastYear
      BY <1>3, <2>1, <2>4, <3>1, <3>2 DEF NextDay
    <3>4. days' = Formula(year', 1, 1)
      BY <2>1, <2>4, <3>1, NextYear
    <3>5. DaysIn(year', 1) \in 28..31
      BY <2>1, <3>1, Lengths
    <3> QED
      BY <2>1, <3>1, <3>3, <3>4, <3>5 DEF IInv, TypeOK
  <2> QED
    BY <2>1, <2>2, <2>3, <2>4
<1> QED
  BY <1>1, <1>2, <1>3 DEF DateNext

(* Every date the walk meets is one of the calendar, and the closed formula*)
(* gives the days that passed until then.                                  *)
THEOREM Invariance == DateSpec => []IInv
BY InitHolds, NextKeeps, PTL DEF DateSpec

-----------------------------------------------------------------------------
(* What read_rtc makes of the registers: the parts, read back, and joined. *)
LEMMA Registered ==
  ASSUME NEW y \in Nat, NEW m \in Nat, NEW d \in Nat,
         NEW t, t[1] \in Nat, t[2] \in Nat, t[3] \in Nat
  PROVE  read_rtc(Registers(y, m, d, t))
           = <<(Formula(y, m, d) * 24 + t[1]) * 60 + t[2], t[3]>>
<1> DEFINE r == Registers(y, m, d, t)
<1>1. /\ y \div 100 \in Nat /\ y % 100 \in Nat /\ 100 * (y \div 100) + (y % 100) = y
  OBVIOUS
<1>2. /\ bcd_to_binary(r.century) = y \div 100 /\ bcd_to_binary(r.year) = y % 100
      /\ bcd_to_binary(r.month) = m /\ bcd_to_binary(r.day) = d
      /\ bcd_to_binary(r.hour) = t[1] /\ bcd_to_binary(r.minute) = t[2]
      /\ bcd_to_binary(r.second) = t[3]
  BY <1>1, ReadBack DEF Registers
<1> HIDE DEF r
<1>3. read_rtc(r) = <<(Formula(y, m, d) * 24 + t[1]) * 60 + t[2], t[3]>>
  BY <1>1, <1>2 DEF read_rtc, Formula, YearFromMarch
<1> QED
  BY <1>3 DEF r

LEMMA DateRead ==
  ASSUME IInv, NEW t \in Times
  PROVE  /\ read_rtc(Registers(year, month, day, t))
              = <<days * 1440 + t[1] * 60 + t[2], t[3]>>
         /\ t[1] \in 0..23 /\ t[2] \in 0..59
<1>1. t[1] \in 0..23 /\ t[2] \in 0..59 /\ t[1] \in Nat /\ t[2] \in Nat /\ t[3] \in Nat
  BY TimesAssumption
<1>2. /\ year \in Nat /\ month \in Nat /\ day \in Nat /\ days \in Nat
      /\ days = Formula(year, month, day)
  <2>1. year \in Nat /\ month \in 1..12 /\ DaysIn(year, month) \in 28..31
    BY Lengths, LastYearAssumption DEF IInv, TypeOK
  <2> QED
    BY <2>1 DEF IInv, TypeOK
<1>3. (days * 24 + t[1]) * 60 + t[2] = days * 1440 + t[1] * 60 + t[2]
  BY <1>1, <1>2
<1>4. read_rtc(Registers(year, month, day, t)) = <<(days * 24 + t[1]) * 60 + t[2], t[3]>>
  <2>1. read_rtc(Registers(year, month, day, t))
          = <<(Formula(year, month, day) * 24 + t[1]) * 60 + t[2], t[3]>>
    BY <1>1, <1>2, Registered
  <2> QED
    BY <1>2, <2>1, Zenon
<1> QED
  BY <1>1, <1>3, <1>4

(* read_rtc gives the time that passed since 1970, on every date of the    *)
(* Gregorian calendar and at every time of the day.                        *)
THEOREM DatesRead == DateSpec => []ReadsTheDate
<1>1. IInv => ReadsTheDate
  BY DateRead DEF ReadsTheDate
<1> QED
  BY <1>1, Invariance, PTL

(* The part of read_rtc's formula that is computed in 32 unsigned bits does*)
(* not wrap.                                                               *)
In32Bits ==
  \A t \in Times : /\ read_rtc(Registers(year, month, day, t))[1] \in Nat
                   /\ read_rtc(Registers(year, month, day, t))[1] < 4294967296

(* The minutes since 1970 fit in the unsigned words read_rtc computes them *)
(* with, on every date the chip can hold: its century has two digits.      *)
THEOREM MinutesFit ==
  ASSUME LastYear <= 9999
  PROVE  DateSpec => []In32Bits
<1>1. ASSUME IInv, NEW t \in Times
      PROVE  /\ read_rtc(Registers(year, month, day, t))[1] \in Nat
             /\ read_rtc(Registers(year, month, day, t))[1] < 4294967296
  <2> DEFINE n == days * 1440 + t[1] * 60 + t[2]
  <2>1. read_rtc(Registers(year, month, day, t))[1] = n
    BY <1>1, DateRead
  <2>2. t[1] \in 0..23 /\ t[2] \in 0..59 /\ days \in Nat
    BY <1>1, DateRead DEF IInv, TypeOK
  <2>3. year \in Nat /\ year <= 9999 /\ month \in 1..12 /\ day \in Nat /\ day <= 31
    <3>1. year \in Nat /\ month \in 1..12 /\ DaysIn(year, month) \in 28..31
      BY <1>1, Lengths, LastYearAssumption DEF IInv, TypeOK
    <3> QED
      BY <1>1, <3>1, LastYearAssumption DEF IInv, TypeOK
  <2>4. days <= 2933000
    BY <1>1, <2>3, SMT DEF IInv, Formula, YearFromMarch, MonthFromMarch, DayNumber
  <2>5. n \in Nat /\ n < 4294967296
    <3>1. n \in Nat /\ n <= 2933000 * 1440 + 1439
      <4>1. t[1] * 60 \in Nat /\ t[1] * 60 <= 1380 /\ t[2] \in Nat /\ t[2] <= 59
        BY <2>2, SMT
      <4>2. days * 1440 \in Nat /\ days * 1440 <= 2933000 * 1440
        BY <2>2, <2>4, SMT
      <4> QED
        BY <4>1, <4>2, SMT
    <3>2. 2933000 * 1440 + 1439 < 4294967296
      BY SMT
    <3> QED
      BY <3>1, <3>2, SMT
  <2> HIDE DEF n
  <2> QED
    BY <2>1, <2>5, SMT
<1>2. IInv => In32Bits
  BY <1>1, SMT DEF In32Bits
<1> QED
  BY <1>2, Invariance, PTL
=============================================================================
