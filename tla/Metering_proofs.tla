---------------------------- MODULE Metering_proofs ----------------------------
(***************************************************************************)
(* Proofs about the calendar and the chip that counts in it, for every     *)
(* time of the century 2000 to 2099, and about Metering, for every number  *)
(* of pulses, minutes, restarts and failing calls.                         *)
(***************************************************************************)
EXTENDS Metering, FoldLemmas, FiniteSetTheorems, SequenceTheorems, TLAPS

\* Broken-down times of that century; 60 is a leap second.
Calendar == [tm_sec : 0 .. 60, tm_min : 0 .. 59, tm_hour : 0 .. 23,
             tm_mday : 1 .. 31, tm_mon : 0 .. 11, tm_year : 100 .. 199]

\* Two digits come back from their byte, whose upper bit is the first digit's 8.
LEMMA DigitsRead ==
  ASSUME NEW n \in 0 .. 99
  PROVE  /\ bcd_to_uint8(digits_byte(n)) = n
         /\ n < 80 => digits_byte(n) % 128 = digits_byte(n)
<1>1. PICK d \in 0 .. 9, u \in 0 .. 9 : n = 10 * d + u
  <2>1. n \div 10 \in 0 .. 9 /\ n % 10 \in 0 .. 9 /\ n = 10 * (n \div 10) + (n % 10)
    OBVIOUS
  <2> QED BY <2>1
<1>2. n \div 10 = d /\ n % 10 = u
  BY <1>1
<1>3. digits_byte(n) = 16 * d + u
  BY <1>2 DEF digits_byte
<1>4. (16 * d + u) \div 16 = d
  OBVIOUS
<1>5. bcd_to_uint8(digits_byte(n)) = n
  BY <1>1, <1>3, <1>4 DEF bcd_to_uint8
<1>6. n < 80 => digits_byte(n) % 128 = digits_byte(n)
  BY <1>1, <1>3
<1> QED BY <1>5, <1>6

\* Hours come back in the 24 hour format: bit 6 of their byte is never set.
LEMMA HoursRead ==
  ASSUME NEW h \in 0 .. 23
  PROVE  bcd_to_bin_24h(hours_byte(h)) = h
<1>1. CASE h < 10
  <2>1. hours_byte(h) = h
    BY <1>1 DEF hours_byte
  <2>2. (h \div 64) % 2 = 0 /\ h \div 16 = 0
    BY <1>1
  <2> QED BY <2>1, <2>2 DEF bcd_to_bin_24h, bcd_to_uint8
<1>2. CASE h \in 10 .. 19
  <2>1. hours_byte(h) = h + 6
    BY <1>2 DEF hours_byte
  <2>2. ((h + 6) \div 64) % 2 = 0 /\ (h + 6) \div 16 = 1
    BY <1>2
  <2> QED BY <2>1, <2>2 DEF bcd_to_bin_24h, bcd_to_uint8
<1>3. CASE h >= 20
  <2>1. hours_byte(h) = h + 12
    BY <1>3 DEF hours_byte
  <2>2. ((h + 12) \div 64) % 2 = 0 /\ (h + 12) \div 16 = 2
    BY <1>3
  <2> QED BY <2>1, <2>2 DEF bcd_to_bin_24h, bcd_to_uint8
<1> QED BY <1>1, <1>2, <1>3

(***************************************************************************)
(* The RTC's registers lose nothing of a time: rtc_get_unix (rtc.c:271)    *)
(* reads what rtc_set_date_time (rtc.c:338) wrote, in every hour, month    *)
(* and year.                                                               *)
(***************************************************************************)
THEOREM CalendarRoundTrip ==
  ASSUME NEW tm \in Calendar
  PROVE  tm_of(registers_of(tm)) = tm
<1> DEFINE r == registers_of(tm)
<1>1. /\ tm.tm_sec \in 0 .. 60 /\ tm.tm_min \in 0 .. 59 /\ tm.tm_hour \in 0 .. 23
      /\ tm.tm_mday \in 1 .. 31 /\ tm.tm_mon \in 0 .. 11 /\ tm.tm_year \in 100 .. 199
  BY DEF Calendar
<1>2. /\ r.seconds = digits_byte(tm.tm_sec) /\ r.minutes = digits_byte(tm.tm_min)
      /\ r.hours = hours_byte(tm.tm_hour) /\ r.date = digits_byte(tm.tm_mday)
      /\ r.month = digits_byte(tm.tm_mon + 1) /\ r.year = digits_byte(tm.tm_year % 100)
  BY DEF registers_of
<1>3. /\ bcd_to_uint8(r.seconds % 128) = tm.tm_sec
      /\ bcd_to_uint8(r.minutes) = tm.tm_min
      /\ bcd_to_uint8(r.date) = tm.tm_mday
  <2>1. /\ tm.tm_sec \in 0 .. 99 /\ tm.tm_sec < 80
        /\ tm.tm_min \in 0 .. 99 /\ tm.tm_mday \in 0 .. 99
    BY <1>1
  <2> QED BY <1>2, <2>1, DigitsRead
<1>4. bcd_to_uint8(r.month % 128) - 1 = tm.tm_mon
  <2>1. tm.tm_mon + 1 \in 0 .. 99 /\ tm.tm_mon + 1 < 80 /\ tm.tm_mon + 1 - 1 = tm.tm_mon
    BY <1>1
  <2>2. /\ bcd_to_uint8(digits_byte(tm.tm_mon + 1)) = tm.tm_mon + 1
        /\ digits_byte(tm.tm_mon + 1) % 128 = digits_byte(tm.tm_mon + 1)
    BY <2>1, DigitsRead
  <2>3. bcd_to_uint8(r.month % 128) = tm.tm_mon + 1
    BY <1>2, <2>2, Zenon
  <2> HIDE DEF r
  <2> QED BY <1>1, <2>3
<1>5. bcd_to_uint8(r.year) + 2000 - 1900 = tm.tm_year
  <2>1. tm.tm_year % 100 \in 0 .. 99 /\ tm.tm_year % 100 = tm.tm_year - 100
    BY <1>1
  <2> QED BY <1>1, <1>2, <2>1, DigitsRead
<1>6. bcd_to_bin_24h(r.hours) = tm.tm_hour
  BY <1>1, <1>2, HoursRead
<1>7. tm_of(r) = [tm_sec |-> bcd_to_uint8(r.seconds % 128),
                  tm_min |-> bcd_to_uint8(r.minutes),
                  tm_hour |-> bcd_to_bin_24h(r.hours),
                  tm_mday |-> bcd_to_uint8(r.date),
                  tm_mon |-> bcd_to_uint8(r.month % 128) - 1,
                  tm_year |-> bcd_to_uint8(r.year) + 2000 - 1900]
  BY Zenon DEF tm_of
<1>8. tm_of(r) = [tm_sec |-> tm.tm_sec, tm_min |-> tm.tm_min, tm_hour |-> tm.tm_hour,
                  tm_mday |-> tm.tm_mday, tm_mon |-> tm.tm_mon, tm_year |-> tm.tm_year]
  <2> HIDE DEF r
  <2> QED BY <1>3, <1>4, <1>5, <1>6, <1>7
<1> QED BY <1>8 DEF Calendar
-------------------------------------------------------------------------------
\* Times of the calendar: days that their month has, and no leap seconds.
CalendarTime == {tm \in Calendar :
                   /\ tm.tm_sec <= 59
                   /\ tm.tm_mday <= DaysOf(tm.tm_mon + 1, IsLeap(tm.tm_year + 1900))}

CenturyStart == 86400 * YearStart(2000)
CenturyEnd == 86400 * YearStart(2100)

LEMMA CenturyBounds ==
  ASSUME NEW unix \in Nat, InCentury(unix)
  PROVE  unix \in CenturyStart .. CenturyEnd - 1
<1>1. YearStart(2000) = 10957 /\ YearStart(2100) = 47482
  BY SMT DEF YearStart, LeapYearsUntil
<1> QED BY <1>1, SMT DEF InCentury, CenturyStart, CenturyEnd

\* The table of mktime, entry by entry.
LEMMA MonthTable ==
  ASSUME NEW leap, NEW m \in 1 .. 12
  PROVE  /\ DaysBefore(1, leap) = 0
         /\ DaysBefore(13, leap) = 365 + (IF leap THEN 1 ELSE 0)
         /\ DaysBefore(m, leap) \in 0 .. 335
         /\ DaysOf(m, leap) \in 28 .. 31
         /\ DaysBefore(m + 1, leap) = DaysBefore(m, leap) + DaysOf(m, leap)
<1> DEFINE table == <<0, 31, 59, 90, 120, 151, 181, 212, 243, 273, 304, 334, 365>>
<1>1. /\ table[1] = 0 /\ table[2] = 31 /\ table[3] = 59 /\ table[4] = 90
      /\ table[5] = 120 /\ table[6] = 151 /\ table[7] = 181 /\ table[8] = 212
      /\ table[9] = 243 /\ table[10] = 273 /\ table[11] = 304 /\ table[12] = 334
      /\ table[13] = 365
  OBVIOUS
<1>2. \A k : DaysBefore(k, leap) = table[k] + (IF leap /\ k > 2 THEN 1 ELSE 0)
  BY DEF DaysBefore
<1> HIDE DEF table
<1> DEFINE d == IF leap THEN 1 ELSE 0
<1>3. /\ DaysBefore(1, leap) = 0 /\ DaysBefore(2, leap) = 31 /\ DaysBefore(3, leap) = 59 + d
      /\ DaysBefore(4, leap) = 90 + d /\ DaysBefore(5, leap) = 120 + d
      /\ DaysBefore(6, leap) = 151 + d /\ DaysBefore(7, leap) = 181 + d
      /\ DaysBefore(8, leap) = 212 + d /\ DaysBefore(9, leap) = 243 + d
      /\ DaysBefore(10, leap) = 273 + d /\ DaysBefore(11, leap) = 304 + d
      /\ DaysBefore(12, leap) = 334 + d /\ DaysBefore(13, leap) = 365 + d
  BY <1>1, <1>2
<1>4. /\ DaysBefore(m, leap) \in 0 .. 335
      /\ DaysBefore(m + 1, leap) - DaysBefore(m, leap) \in 28 .. 31
  <2>1. d \in 0 .. 1
    OBVIOUS
  <2>2. \/ (m = 1 /\ m + 1 = 2) \/ (m = 2 /\ m + 1 = 3)
        \/ (m = 3 /\ m + 1 = 4) \/ (m = 4 /\ m + 1 = 5)
        \/ (m = 5 /\ m + 1 = 6) \/ (m = 6 /\ m + 1 = 7)
        \/ (m = 7 /\ m + 1 = 8) \/ (m = 8 /\ m + 1 = 9)
        \/ (m = 9 /\ m + 1 = 10) \/ (m = 10 /\ m + 1 = 11)
        \/ (m = 11 /\ m + 1 = 12) \/ (m = 12 /\ m + 1 = 13)
    OBVIOUS
  <2> HIDE DEF d
  <2> QED BY <1>3, <2>1, <2>2
<1>5. DaysBefore(m + 1, leap) \in Int
  <2>1. m + 1 \in {2, 3, 4, 5, 6, 7, 8, 9, 10, 11, 12, 13}
    OBVIOUS
  <2> QED BY <1>1, <1>2, <2>1
<1> QED BY <1>3, <1>4, <1>5 DEF DaysOf

\* Every day of a year is in one of its months.
LEMMA MonthOfDay ==
  ASSUME NEW leap, NEW day \in 0 .. DaysBefore(13, leap) - 1
  PROVE  \E m \in 1 .. 12 : day \in DaysBefore(m, leap) .. DaysBefore(m + 1, leap) - 1
<1>1. \A m \in 1 .. 12 : DaysBefore(m, leap) \in Nat /\ DaysBefore(m + 1, leap) \in Nat
  BY MonthTable
<1>2. /\ DaysBefore(1, leap) = 0 /\ DaysBefore(13, leap) \in Nat
  BY MonthTable
<1>3. /\ DaysBefore(1 + 1, leap) = DaysBefore(2, leap)
      /\ DaysBefore(2 + 1, leap) = DaysBefore(3, leap)
      /\ DaysBefore(3 + 1, leap) = DaysBefore(4, leap)
      /\ DaysBefore(4 + 1, leap) = DaysBefore(5, leap)
      /\ DaysBefore(5 + 1, leap) = DaysBefore(6, leap)
      /\ DaysBefore(6 + 1, leap) = DaysBefore(7, leap)
      /\ DaysBefore(7 + 1, leap) = DaysBefore(8, leap)
      /\ DaysBefore(8 + 1, leap) = DaysBefore(9, leap)
      /\ DaysBefore(9 + 1, leap) = DaysBefore(10, leap)
      /\ DaysBefore(10 + 1, leap) = DaysBefore(11, leap)
      /\ DaysBefore(11 + 1, leap) = DaysBefore(12, leap)
      /\ DaysBefore(12 + 1, leap) = DaysBefore(13, leap)
  OBVIOUS
<1>4. day \in Nat /\ day < DaysBefore(13, leap)
  BY <1>2
<1>5. SUFFICES ASSUME \A m \in 1 .. 12 : ~(DaysBefore(m, leap) <= day /\ day < DaysBefore(m + 1, leap))
               PROVE  FALSE
  BY <1>1, <1>4
<1>6. \A m \in 1 .. 12 : DaysBefore(m, leap) <= day => DaysBefore(m + 1, leap) <= day
  BY <1>1, <1>4, <1>5
<1> QED BY <1>2, <1>3, <1>4, <1>6

\* A year has 365 days, or 366.
LEMMA YearTable ==
  ASSUME NEW y \in 1970 .. 2099
  PROVE  /\ YearStart(y) \in Nat
         /\ YearStart(y + 1) = YearStart(y) + DaysBefore(13, IsLeap(y))
<1>2. /\ y \div 4 - (y - 1) \div 4 = (IF y % 4 = 0 THEN 1 ELSE 0)
      /\ y \div 100 - (y - 1) \div 100 = (IF y % 100 = 0 THEN 1 ELSE 0)
      /\ y \div 400 - (y - 1) \div 400 = (IF y % 400 = 0 THEN 1 ELSE 0)
      /\ y % 100 = 0 => y % 4 = 0
      /\ y % 400 = 0 => y % 100 = 0
  OBVIOUS
<1>3. LeapYearsUntil(y) - LeapYearsUntil(y - 1) = IF IsLeap(y) THEN 1 ELSE 0
  BY <1>2 DEF LeapYearsUntil, IsLeap
<1>4. YearStart(y + 1) = YearStart(y) + 365 + (IF IsLeap(y) THEN 1 ELSE 0)
  <2>1. y + 1 - 1 = y
    OBVIOUS
  <2> QED BY <1>3, <2>1 DEF YearStart, LeapYearsUntil
<1>5. YearStart(y) \in Nat
  BY DEF YearStart, LeapYearsUntil
<1>7. DaysBefore(13, IsLeap(y)) = 365 + (IF IsLeap(y) THEN 1 ELSE 0)
  <2>1. 1 \in 1 .. 12
    OBVIOUS
  <2> QED BY <2>1, MonthTable
<1> QED BY <1>4, <1>5, <1>7

\* Every day of the century is in one of its years: four years make 1461 days.
LEMMA YearOfDay ==
  ASSUME NEW day \in YearStart(2000) .. YearStart(2100) - 1
  PROVE  \E y \in 2000 .. 2099 : day \in YearStart(y) .. YearStart(y + 1) - 1
<1>1. YearStart(2000) = 10957 /\ YearStart(2100) = 47482
  BY DEF YearStart, LeapYearsUntil
<1>2. ASSUME NEW y \in 2000 .. 2100
      PROVE  YearStart(y) = 10957 + 365 * (y - 2000) + (y - 1997) \div 4
  <2>1. /\ (y - 1) \div 4 = (y - 1997) \div 4 + 499
        /\ (y - 1) \div 100 - (y - 1) \div 400 = 15
    BY Z3
  <2> QED BY <2>1 DEF YearStart, LeapYearsUntil
<1> DEFINE c == (day - 10957) \div 1461
           e == (day - 10957) % 1461
<1>3. c \in 0 .. 24 /\ e \in 0 .. 1460 /\ day = 10957 + 1461 * c + e
  BY <1>1
<1> HIDE DEF c, e
<1>4. ASSUME NEW j \in 0 .. 3
      PROVE  /\ YearStart(2000 + 4 * c + j) = 10957 + 1461 * c + 365 * j + (j + 3) \div 4
             /\ YearStart(2000 + 4 * c + j + 1) = 10957 + 1461 * c + 365 * (j + 1) + (j + 4) \div 4
  <2>1. /\ 2000 + 4 * c + j \in 2000 .. 2100 /\ 2000 + 4 * c + j + 1 \in 2000 .. 2100
        /\ (2000 + 4 * c + j - 1997) \div 4 = c + (j + 3) \div 4
        /\ (2000 + 4 * c + j + 1 - 1997) \div 4 = c + (j + 4) \div 4
    BY <1>3
  <2> QED BY <1>2, <1>3, <2>1
<1>5. \E j \in 0 .. 3 : /\ 365 * j + (j + 3) \div 4 <= e
                        /\ e < 365 * (j + 1) + (j + 4) \div 4
  <2>1. CASE e < 366
    BY <1>3, <2>1
  <2>2. CASE e \in 366 .. 730
    BY <1>3, <2>2
  <2>3. CASE e \in 731 .. 1095
    BY <1>3, <2>3
  <2>4. CASE e > 1095
    BY <1>3, <2>4
  <2> QED BY <1>3, <2>1, <2>2, <2>3, <2>4
<1>6. PICK j \in 0 .. 3 : /\ 365 * j + (j + 3) \div 4 <= e
                         /\ e < 365 * (j + 1) + (j + 4) \div 4
  BY <1>5
<1>7. /\ 2000 + 4 * c + j \in 2000 .. 2099
      /\ day \in YearStart(2000 + 4 * c + j) .. YearStart(2000 + 4 * c + j + 1) - 1
  BY <1>1, <1>3, <1>4, <1>6
<1> QED BY <1>7

\* gmtime chooses no year before the century.
LEMMA YearsBefore ==
  ASSUME NEW y \in 1970 .. 1999
  PROVE  YearStart(y + 1) <= YearStart(2000)
<1>1. /\ y \div 4 <= 1999 \div 4 /\ y \div 400 <= 1999 \div 400
      /\ y \div 100 = 19
  OBVIOUS
<1>2. y + 1 - 1 = y /\ 2000 - 1 = 1999
  OBVIOUS
<1> QED BY <1>1, <1>2 DEF YearStart, LeapYearsUntil

(***************************************************************************)
(* gmtime and mktime, between which a time goes to the RTC and back        *)
(* (rtc.c:312, 294), are inverses for every second of the century, and     *)
(* gmtime gives a day that its month has.                                  *)
(***************************************************************************)
THEOREM CalendarInverse ==
  ASSUME NEW unix \in CenturyStart .. CenturyEnd - 1
  PROVE  gmtime(unix) \in CalendarTime /\ mktime(gmtime(unix)) = unix
<1> DEFINE days == unix \div 86400
           year == CHOOSE y \in 1970 .. 2099 : days \in YearStart(y) .. YearStart(y + 1) - 1
           leap == IsLeap(year)
           day == days - YearStart(year)
           month == CHOOSE m \in 1 .. 12 :
                      day \in DaysBefore(m, leap) .. DaysBefore(m + 1, leap) - 1
<1>1. YearStart(2000) = 10957 /\ YearStart(2100) = 47482
  BY DEF YearStart, LeapYearsUntil
<1>2. unix \in Nat /\ days \in YearStart(2000) .. YearStart(2100) - 1
  BY <1>1 DEF CenturyStart, CenturyEnd
<1>3. year \in 1970 .. 2099 /\ days \in YearStart(year) .. YearStart(year + 1) - 1
  <2>1. \E y \in 1970 .. 2099 : days \in YearStart(y) .. YearStart(y + 1) - 1
    <3> HIDE DEF days
    <3>1. PICK y \in 2000 .. 2099 : days \in YearStart(y) .. YearStart(y + 1) - 1
      BY <1>2, YearOfDay, SMTT(60)
    <3>2. y \in 1970 .. 2099
      OBVIOUS
    <3> QED BY <3>1, <3>2
  <2> HIDE DEF days
  <2> QED BY <2>1
<1> HIDE DEF days, year
<1>4. /\ YearStart(year) \in Nat
      /\ YearStart(year + 1) = YearStart(year) + DaysBefore(13, leap)
      /\ DaysBefore(13, leap) \in Nat
  <2>1. DaysBefore(13, leap) = 365 + (IF leap THEN 1 ELSE 0)
    <3>1. 1 \in 1 .. 12
      OBVIOUS
    <3> QED BY <3>1, MonthTable
  <2>2. /\ YearStart(year) \in Nat
        /\ YearStart(year + 1) = YearStart(year) + DaysBefore(13, IsLeap(year))
    BY <1>3, YearTable
  <2>3. DaysBefore(13, leap) \in Nat
    BY <2>1
  <2> QED BY <2>2, <2>3
<1>5. year \in 2000 .. 2099
  <2>1. CASE year < 2000
    BY <1>1, <1>2, <1>3, <1>4, <2>1, YearsBefore
  <2> QED BY <1>3, <2>1
<1>6. day \in 0 .. DaysBefore(13, leap) - 1
  BY <1>2, <1>3, <1>4
<1>7. month \in 1 .. 12 /\ day \in DaysBefore(month, leap) .. DaysBefore(month + 1, leap) - 1
  <2>1. \E m \in 1 .. 12 : day \in DaysBefore(m, leap) .. DaysBefore(m + 1, leap) - 1
    BY <1>6, MonthOfDay
  <2> HIDE DEF day, leap
  <2> QED BY <2>1
<1> HIDE DEF month
<1>8. /\ DaysBefore(month, leap) \in 0 .. 335 /\ DaysOf(month, leap) \in 28 .. 31
      /\ DaysBefore(month + 1, leap) = DaysBefore(month, leap) + DaysOf(month, leap)
  BY <1>7, MonthTable
<1> DEFINE mday == day - DaysBefore(month, leap) + 1
<1>9. mday \in 1 .. 31 /\ mday <= DaysOf(month, leap) /\ day = DaysBefore(month, leap) + mday - 1
  <2> HIDE DEF day, leap
  <2>1. day \in Int
    BY <1>4, <1>6
  <2> DEFINE a == DaysBefore(month, leap)
             b == DaysBefore(month + 1, leap)
             n == DaysOf(month, leap)
  <2>2. a \in Int /\ b = a + n /\ n \in 28 .. 31 /\ day \in a .. b - 1
    BY <1>7, <1>8
  <2> HIDE DEF a, b, n
  <2>3. day - a + 1 \in 1 .. 31 /\ day - a + 1 <= n /\ day = a + (day - a + 1) - 1
    BY <2>1, <2>2
  <2> QED BY <2>3 DEF a, n
<1> HIDE DEF mday
<1> DEFINE tm == [tm_sec |-> unix % 60, tm_min |-> (unix \div 60) % 60,
                  tm_hour |-> (unix \div 3600) % 24, tm_mday |-> mday,
                  tm_mon |-> month - 1, tm_year |-> year - 1900]
<1>10. gmtime(unix) = tm
  BY DEF gmtime, days, year, month, mday
<1>11. /\ tm.tm_sec = unix % 60 /\ tm.tm_min = (unix \div 60) % 60
       /\ tm.tm_hour = (unix \div 3600) % 24 /\ tm.tm_mday = mday
       /\ tm.tm_mon = month - 1 /\ tm.tm_year = year - 1900
       /\ tm.tm_mon + 1 = month /\ tm.tm_year + 1900 = year
  BY <1>5, <1>7
<1>12. tm \in CalendarTime
  <2>1. /\ tm.tm_sec \in 0 .. 59 /\ tm.tm_min \in 0 .. 59 /\ tm.tm_hour \in 0 .. 23
        /\ tm.tm_mday \in 1 .. 31 /\ tm.tm_mon \in 0 .. 11 /\ tm.tm_year \in 100 .. 199
    BY <1>2, <1>5, <1>7, <1>9, <1>11
  <2>2. tm \in Calendar
    BY <2>1 DEF Calendar
  <2>3. tm.tm_sec <= 59
    BY <2>1
  <2> HIDE DEF tm
  <2> QED BY <1>9, <1>11, <2>2, <2>3 DEF CalendarTime
<1>13. mktime(tm) = unix
  <2>1. mktime(tm) = 86400 * (YearStart(year) + DaysBefore(month, leap) + mday - 1)
                       + 3600 * ((unix \div 3600) % 24) + 60 * ((unix \div 60) % 60)
                       + (unix % 60)
    <3> HIDE DEF tm
    <3> QED BY <1>11 DEF mktime
  <2>2. days = YearStart(year) + DaysBefore(month, leap) + mday - 1
    BY <1>4, <1>2, <1>8, <1>9
  <2>3. unix = 86400 * (unix \div 86400) + 3600 * ((unix \div 3600) % 24)
                 + 60 * ((unix \div 60) % 60) + (unix % 60)
    BY <1>2
  <2> QED BY <2>1, <2>2, <2>3 DEF days
<1> QED BY <1>10, <1>12, <1>13
-------------------------------------------------------------------------------
\* The chip reads the digits that the driver wrote, the hours' among them.
LEMMA ChipReadsDigits ==
  /\ \A n \in 0 .. 99 : Digits(digits_byte(n)) = n
  /\ \A h \in 0 .. 23 : hours_byte(h) = digits_byte(h)
<1>1. ASSUME NEW n \in 0 .. 99 PROVE Digits(digits_byte(n)) = n
  <2>1. PICK d \in 0 .. 9, u \in 0 .. 9 : n = 10 * d + u
    <3>1. n \div 10 \in 0 .. 9 /\ n % 10 \in 0 .. 9 /\ n = 10 * (n \div 10) + (n % 10)
      OBVIOUS
    <3> QED BY <3>1
  <2>2. n \div 10 = d /\ n % 10 = u
    BY <2>1
  <2>3. (16 * d + u) \div 16 = d /\ (16 * d + u) % 16 = u
    OBVIOUS
  <2> QED BY <2>1, <2>2, <2>3 DEF Digits, digits_byte
<1>2. ASSUME NEW h \in 0 .. 23 PROVE hours_byte(h) = digits_byte(h)
  <2>1. CASE h < 10
    BY <2>1 DEF hours_byte, digits_byte
  <2>2. CASE h \in 10 .. 19
    BY <2>2 DEF hours_byte, digits_byte
  <2>3. CASE h >= 20
    BY <2>3 DEF hours_byte, digits_byte
  <2> QED BY <2>1, <2>2, <2>3
<1> QED BY <1>1, <1>2

\* The chip's leap years are those of the century.
LEMMA ChipLeap ==
  ASSUME NEW y \in 0 .. 99
  PROVE  /\ IsLeap(2000 + y) <=> y % 4 = 0
         /\ \A m : DaysOf(m, y % 4 = 0) = DaysOf(m, IsLeap(2000 + y))
<1>1. IsLeap(2000 + y) <=> y % 4 = 0
  <2>1. (2000 + y) % 4 = y % 4 /\ (2000 + y) % 100 = y /\ (2000 + y) % 400 = y
    OBVIOUS
  <2> QED BY <2>1 DEF IsLeap
<1> QED BY <1>1 DEF DaysOf, DaysBefore

\* The day after: the first of the next month after its last day, and of the next
\* year after the last month's.
DateKept(d, carry, days, day, turn) ==
  d - 1 + carry = day + (IF turn = 0 THEN 0 ELSE days)
MonthKept(m, turn, month, wrap) == m - 1 + turn = 12 * wrap + month

DateTurns(y, m, d, carry, day, turn, month, wrap) ==
  /\ y \in 0 .. 99 /\ m \in 1 .. 12 /\ d \in 1 .. DaysOf(m, IsLeap(2000 + y))
  /\ carry \in 0 .. 1 /\ turn \in 0 .. 1 /\ wrap \in 0 .. 1 /\ month \in 0 .. 11
  /\ day \in 0 .. DaysOf(m, IsLeap(2000 + y)) - 1
  /\ DateKept(d, carry, DaysOf(m, IsLeap(2000 + y)), day, turn)
  /\ MonthKept(m, turn, month, wrap)

LEMMA DayCarry ==
  ASSUME NEW y, NEW m, NEW d, NEW carry, NEW day, NEW turn, NEW month, NEW wrap,
         DateTurns(y, m, d, carry, day, turn, month, wrap)
  PROVE  /\ day + 1 \in 1 .. DaysOf(month + 1, IsLeap(2000 + ((y + wrap) % 100)))
         /\ YearStart(2000 + y + wrap) + DaysBefore(month + 1, IsLeap(2000 + y + wrap)) + day
            = YearStart(2000 + y) + DaysBefore(m, IsLeap(2000 + y)) + d - 1 + carry
<1>0. PICK days : days = DaysOf(m, IsLeap(2000 + y))
  OBVIOUS
<1> SUFFICES
      ASSUME y \in 0 .. 99, m \in 1 .. 12, days \in 28 .. 31, d \in 1 .. days,
             carry \in 0 .. 1, turn \in 0 .. 1, day \in 0 .. days - 1,
             wrap \in 0 .. 1, month \in 0 .. 11,
             d - 1 + carry = day + (IF turn = 0 THEN 0 ELSE days),
             m - 1 + turn = 12 * wrap + month
      PROVE  /\ day + 1 \in 1 .. DaysOf(month + 1, IsLeap(2000 + ((y + wrap) % 100)))
             /\ YearStart(2000 + y + wrap) + DaysBefore(month + 1, IsLeap(2000 + y + wrap)) + day
                = YearStart(2000 + y) + DaysBefore(m, IsLeap(2000 + y)) + d - 1 + carry
  <2>1. m \in 1 .. 12
    BY DEF DateTurns
  <2>2. days \in 28 .. 31
    BY <1>0, <2>1, MonthTable
  <2> QED BY <1>0, <2>2, SMT DEF DateTurns, DateKept, MonthKept
<1> DEFINE leap == IsLeap(2000 + y)
<1>1. /\ DaysBefore(m, leap) \in 0 .. 335
      /\ DaysBefore(m + 1, leap) = DaysBefore(m, leap) + days
  BY <1>0, MonthTable
<1>2. YearStart(2000 + y) \in Nat
  <2>1. 2000 + y \in 1970 .. 2099
    OBVIOUS
  <2> QED BY <2>1, YearTable
<1>3. CASE turn = 0
  <2>1. /\ wrap = 0 /\ month + 1 = m /\ day = d - 1 + carry
        /\ y + wrap = y /\ 2000 + y + wrap = 2000 + y /\ y % 100 = y
    BY <1>3
  <2>2. DaysOf(month + 1, IsLeap(2000 + ((y + wrap) % 100))) = days
    BY <1>0, <2>1
  <2>3. day + 1 \in 1 .. days
    OBVIOUS
  <2>4. /\ YearStart(2000 + y + wrap) = YearStart(2000 + y)
        /\ DaysBefore(month + 1, IsLeap(2000 + y + wrap)) = DaysBefore(m, leap)
    BY <2>1
  <2> QED BY <1>1, <1>2, <2>1, <2>2, <2>3, <2>4
<1>4. CASE turn = 1
  <2>1. d = days /\ carry = 1 /\ day = 0
    BY <1>4
  <2>2. CASE m < 12
    <3>1. /\ wrap = 0 /\ month + 1 = m + 1 /\ m + 1 \in 1 .. 12
          /\ y + wrap = y /\ 2000 + y + wrap = 2000 + y /\ y % 100 = y
      BY <1>4, <2>2
    <3>2. DaysOf(m + 1, leap) \in 28 .. 31
      BY <3>1, MonthTable
    <3> QED BY <1>1, <1>2, <2>1, <3>1, <3>2
  <2>3. CASE m = 12
    <3>1. /\ wrap = 1 /\ month + 1 = 1 /\ 1 \in 1 .. 12
          /\ y + wrap = y + 1 /\ 2000 + y + wrap = 2000 + y + 1
      BY <1>4, <2>3
    <3>2. /\ DaysOf(1, IsLeap(2000 + ((y + 1) % 100))) \in 28 .. 31
          /\ DaysBefore(1, IsLeap(2000 + y + 1)) = 0
      BY <3>1, MonthTable
    <3>3. YearStart(2000 + y + 1) = YearStart(2000 + y) + DaysBefore(13, leap)
      <4>1. 2000 + y \in 1970 .. 2099
        OBVIOUS
      <4> QED BY <4>1, YearTable
    <3>4. DaysBefore(13, leap) = DaysBefore(m, leap) + days
      BY <1>1, <2>3, SMTT(60)
    <3> QED BY <1>1, <1>2, <2>1, <3>1, <3>2, <3>3, <3>4
  <2> QED BY <2>2, <2>3
<1> QED BY <1>3, <1>4

\* The carries of the chip's steps.
HoursCarry(sec, min, hr, s, second, minute, hour, carry) ==
  /\ second = sec + s
  /\ minute = min + (second \div 60)
  /\ hour = hr + (minute \div 60)
  /\ carry = hour \div 24
DaysCarry(d, carry, days, day, turn) ==
  day = (d - 1 + carry) % days /\ turn = (d - 1 + carry) \div days
MonthsCarry(m, turn, month, wrap) ==
  month = (m - 1 + turn) % 12 /\ wrap = (m - 1 + turn) \div 12

Carries(r, s, second, minute, hour, carry, day, turn, month, wrap) ==
  /\ HoursCarry(Digits(r.seconds), Digits(r.minutes), Digits(r.hours), s,
                second, minute, hour, carry)
  /\ DaysCarry(Digits(r.date), carry, DaysOf(Digits(r.month), Digits(r.year) % 4 = 0),
               day, turn)
  /\ MonthsCarry(Digits(r.month), turn, month, wrap)

LEMMA AdvanceCarries ==
  ASSUME NEW r, NEW s, NEW second, NEW minute, NEW hour, NEW carry, NEW day,
         NEW turn, NEW month, NEW wrap,
         Carries(r, s, second, minute, hour, carry, day, turn, month, wrap)
  PROVE  Advance(r, s) =
           [seconds |-> digits_byte(second % 60), minutes |-> digits_byte(minute % 60),
            hours |-> digits_byte(hour % 24), date |-> digits_byte(day + 1),
            month |-> digits_byte(month + 1),
            year |-> digits_byte((Digits(r.year) + wrap) % 100)]
BY DEF Advance, Carries, HoursCarry, DaysCarry, MonthsCarry

\* A broken-down time by its fields: month and day from 1, year from 2000.
TimeOf(sec, min, hr, d, m, y) ==
  [tm_sec |-> sec, tm_min |-> min, tm_hour |-> hr,
   tm_mday |-> d, tm_mon |-> m - 1, tm_year |-> y + 100]

LEMMA CalendarFields ==
  ASSUME NEW tm \in CalendarTime
  PROVE  /\ tm.tm_sec \in 0 .. 59 /\ tm.tm_min \in 0 .. 59 /\ tm.tm_hour \in 0 .. 23
         /\ tm.tm_mday \in 1 .. 31 /\ tm.tm_mon \in 0 .. 11 /\ tm.tm_year \in 100 .. 199
         /\ tm.tm_mday <= DaysOf(tm.tm_mon + 1, IsLeap(tm.tm_year + 1900))
BY SMT DEF CalendarTime, Calendar

InRange(sec, min, hr, d, m, y) ==
  /\ sec \in 0 .. 59 /\ min \in 0 .. 59 /\ hr \in 0 .. 23
  /\ m \in 1 .. 12 /\ y \in 0 .. 99 /\ d \in 1 .. DaysOf(m, IsLeap(2000 + y))

LEMMA FieldsMakeTime ==
  ASSUME NEW sec, NEW min, NEW hr, NEW d, NEW m, NEW y, InRange(sec, min, hr, d, m, y)
  PROVE  /\ TimeOf(sec, min, hr, d, m, y) \in CalendarTime
         /\ mktime(TimeOf(sec, min, hr, d, m, y))
              = 86400 * (YearStart(2000 + y) + DaysBefore(m, IsLeap(2000 + y)) + d - 1)
                  + 3600 * hr + 60 * min + sec
<1> DEFINE tm == TimeOf(sec, min, hr, d, m, y)
<1>0. /\ sec \in 0 .. 59 /\ min \in 0 .. 59 /\ hr \in 0 .. 23
      /\ m \in 1 .. 12 /\ y \in 0 .. 99 /\ d \in 1 .. DaysOf(m, IsLeap(2000 + y))
  BY DEF InRange
<1>1. DaysOf(m, IsLeap(2000 + y)) \in 28 .. 31
  BY <1>0, MonthTable
<1>2. d \in 1 .. 31 /\ d <= DaysOf(m, IsLeap(2000 + y))
  BY <1>0, <1>1, SMT
<1>3. m - 1 \in 0 .. 11 /\ y + 100 \in 100 .. 199 /\ y + 100 + 1900 = 2000 + y /\ m - 1 + 1 = m
  BY <1>0, SMT
<1>4. /\ tm.tm_sec = sec /\ tm.tm_min = min /\ tm.tm_hour = hr /\ tm.tm_mday = d
      /\ tm.tm_mon = m - 1 /\ tm.tm_year = y + 100
  BY DEF TimeOf
<1>5. tm \in Calendar
  BY <1>0, <1>2, <1>3, SMT DEF TimeOf, Calendar
<1>6. tm.tm_sec <= 59
  BY <1>0, <1>4, SMT
<1>7. tm.tm_mday <= DaysOf(tm.tm_mon + 1, IsLeap(tm.tm_year + 1900))
  BY <1>2, <1>3, <1>4
<1>8. mktime(tm) = 86400 * (YearStart(2000 + y) + DaysBefore(m, IsLeap(2000 + y)) + d - 1)
                     + 3600 * hr + 60 * min + sec
  <2>1. tm.tm_year + 1900 = 2000 + y /\ tm.tm_mon + 1 = m
    BY <1>3, <1>4
  <2> HIDE DEF tm
  <2> QED BY <1>4, <2>1 DEF mktime
<1> HIDE DEF tm
<1>9. tm \in CalendarTime
  BY <1>5, <1>6, <1>7 DEF CalendarTime
<1> QED BY <1>8, <1>9 DEF tm

LEMMA ChipReadsFields ==
  ASSUME NEW tm \in CalendarTime
  PROVE  /\ Digits(registers_of(tm).seconds) = tm.tm_sec
         /\ Digits(registers_of(tm).minutes) = tm.tm_min
         /\ Digits(registers_of(tm).hours) = tm.tm_hour
         /\ Digits(registers_of(tm).date) = tm.tm_mday
         /\ Digits(registers_of(tm).month) = tm.tm_mon + 1
         /\ Digits(registers_of(tm).year) = tm.tm_year - 100
<1>1. /\ tm.tm_sec \in 0 .. 99 /\ tm.tm_min \in 0 .. 99 /\ tm.tm_hour \in 0 .. 23
      /\ tm.tm_hour \in 0 .. 99 /\ tm.tm_mday \in 0 .. 99 /\ tm.tm_mon + 1 \in 0 .. 99
      /\ tm.tm_year - 100 \in 0 .. 99 /\ tm.tm_year % 100 = tm.tm_year - 100
  BY CalendarFields, SMT
<1>2. hours_byte(tm.tm_hour) = digits_byte(tm.tm_hour)
  BY <1>1, ChipReadsDigits, SMT
<1>3. PICK r : r = registers_of(tm)
  OBVIOUS
<1>4. /\ r.seconds = digits_byte(tm.tm_sec) /\ r.minutes = digits_byte(tm.tm_min)
      /\ r.hours = digits_byte(tm.tm_hour) /\ r.date = digits_byte(tm.tm_mday)
      /\ r.month = digits_byte(tm.tm_mon + 1) /\ r.year = digits_byte(tm.tm_year - 100)
  BY <1>1, <1>2, <1>3, SMT DEF registers_of
<1>5. /\ Digits(r.seconds) = tm.tm_sec /\ Digits(r.minutes) = tm.tm_min
      /\ Digits(r.hours) = tm.tm_hour /\ Digits(r.date) = tm.tm_mday
      /\ Digits(r.month) = tm.tm_mon + 1 /\ Digits(r.year) = tm.tm_year - 100
  BY <1>1, <1>4, ChipReadsDigits, SMT
<1> QED BY <1>3, <1>5

LEMMA RegistersOfFields ==
  ASSUME NEW sec, NEW min, NEW hr, NEW d, NEW m, NEW y, InRange(sec, min, hr, d, m, y)
  PROVE  registers_of(TimeOf(sec, min, hr, d, m, y))
           = [seconds |-> digits_byte(sec), minutes |-> digits_byte(min),
              hours |-> digits_byte(hr), date |-> digits_byte(d),
              month |-> digits_byte(m), year |-> digits_byte(y)]
<1>1. m - 1 + 1 = m /\ (y + 100) % 100 = y
  BY SMT DEF InRange
<1>2. hours_byte(hr) = digits_byte(hr)
  BY ChipReadsDigits, SMT DEF InRange
<1> QED BY <1>1, <1>2, SMT DEF registers_of, TimeOf

\* A unit that counts up to n and carries.
LEMMA Carry60 ==
  ASSUME NEW a \in Nat, a <= 86459
  PROVE  a \div 60 \in Nat /\ a \div 60 <= 1440 /\ a % 60 \in 0 .. 59
         /\ a = 60 * (a \div 60) + (a % 60)
OBVIOUS

LEMMA CarryUp ==
  ASSUME NEW a \in Nat, a <= 1499
  PROVE  a \div 60 \in Nat /\ a \div 60 <= 24
OBVIOUS

LEMMA CarryDay ==
  ASSUME NEW a \in Nat, a <= 47
  PROVE  a \div 24 \in 0 .. 1 /\ a % 24 \in 0 .. 23 /\ a = 24 * (a \div 24) + (a % 24)
OBVIOUS

\* Time passes by s seconds, in days, hours, minutes and seconds.
TimeKept(sec, min, hr, s, second, minute, hour, carry) ==
  3600 * hr + 60 * min + sec + s = 86400 * carry + 3600 * hour + 60 * minute + second

LEMMA HoursCarried ==
  ASSUME NEW sec \in Nat, NEW min \in Nat, NEW hr \in Nat, NEW s \in Nat,
         sec <= 59, min <= 59, hr <= 23, s <= 86400,
         NEW second, NEW minute, NEW hour, NEW carry,
         HoursCarry(sec, min, hr, s, second, minute, hour, carry)
  PROVE  /\ second % 60 \in 0 .. 59 /\ minute % 60 \in 0 .. 59 /\ hour % 24 \in 0 .. 23
         /\ carry \in 0 .. 1
         /\ TimeKept(sec, min, hr, s, second % 60, minute % 60, hour % 24, carry)
<1>1. second = sec + s /\ second \in Nat /\ second <= 86459
  BY SMT DEF HoursCarry
<1>2. second \div 60 \in Nat /\ second \div 60 <= 1440 /\ second % 60 \in 0 .. 59
      /\ second = 60 * (second \div 60) + (second % 60)
  BY <1>1, Carry60, SMT
<1>3. minute \in Nat /\ minute <= 1499
  BY <1>2, SMT DEF HoursCarry
<1>4. 60 * min + second = 60 * minute + (second % 60)
  BY <1>2, SMT DEF HoursCarry
<1>5. /\ minute \div 60 \in Nat /\ minute % 60 \in 0 .. 59
      /\ minute = 60 * (minute \div 60) + (minute % 60)
  BY <1>3, Carry60, SMT
<1>6. minute \div 60 <= 24
  BY <1>3, CarryUp, SMT
<1>7. hour \in Nat /\ hour <= 47
  BY <1>5, <1>6, SMT DEF HoursCarry
<1>8. 60 * hr + minute = 60 * hour + (minute % 60)
  BY <1>5, SMT DEF HoursCarry
<1>9. carry \in 0 .. 1 /\ hour % 24 \in 0 .. 23 /\ hour = 24 * carry + (hour % 24)
  BY <1>7, CarryDay, SMT DEF HoursCarry
<1>10. TimeKept(sec, min, hr, s, second % 60, minute % 60, hour % 24, carry)
  BY <1>1, <1>2, <1>3, <1>4, <1>5, <1>7, <1>8, <1>9, SMT DEF TimeKept
<1> QED BY <1>2, <1>5, <1>9, <1>10

LEMMA DaysCarried ==
  ASSUME NEW days \in 28 .. 31, NEW d \in 1 .. days, NEW carry \in 0 .. 1, NEW day, NEW turn,
         DaysCarry(d, carry, days, day, turn)
  PROVE  turn \in 0 .. 1 /\ day \in 0 .. days - 1 /\ DateKept(d, carry, days, day, turn)
<1>1. CASE d - 1 + carry < days
  <2>1. turn = 0 /\ day = d - 1 + carry
    BY <1>1, SMT DEF DaysCarry
  <2> QED BY <1>1, <2>1, SMT DEF DateKept
<1>2. CASE d - 1 + carry >= days
  <2>1. d - 1 + carry = days
    BY <1>2, SMT
  <2>2. days \div days = 1 /\ days % days = 0
    BY SMT
  <2>3. turn = 1 /\ day = 0
    BY <2>1, <2>2, SMT DEF DaysCarry
  <2> QED BY <2>1, <2>3, SMT DEF DateKept
<1> QED BY <1>1, <1>2, SMT

LEMMA MonthsCarried ==
  ASSUME NEW m \in 1 .. 12, NEW turn \in 0 .. 1, NEW month, NEW wrap,
         MonthsCarry(m, turn, month, wrap)
  PROVE  wrap \in 0 .. 1 /\ month \in 0 .. 11 /\ MonthKept(m, turn, month, wrap)
BY SMT DEF MonthsCarry, MonthKept

BeforeCenturyEnd(y, wrap, month, day, rest) ==
  /\ y \in 0 .. 99 /\ wrap \in 0 .. 1 /\ month \in 0 .. 11 /\ day \in 0 .. 30 /\ rest \in Nat
  /\ 86400 * (YearStart(2000 + y + wrap) + DaysBefore(month + 1, IsLeap(2000 + y + wrap))
                + day) + rest < CenturyEnd

\* Nothing but the last midnight of the century is lost by the two digits of the year.
LEMMA CenturyCarry ==
  ASSUME NEW y, NEW wrap, NEW month, NEW day, NEW rest,
         BeforeCenturyEnd(y, wrap, month, day, rest)
  PROVE  y + wrap # 100
<1>0. /\ y \in 0 .. 99 /\ wrap \in 0 .. 1 /\ month \in 0 .. 11 /\ day \in 0 .. 30 /\ rest \in Nat
      /\ 86400 * (YearStart(2000 + y + wrap) + DaysBefore(month + 1, IsLeap(2000 + y + wrap))
                    + day) + rest < CenturyEnd
  BY SMT DEF BeforeCenturyEnd
<1>1. SUFFICES ASSUME y + wrap = 100 PROVE FALSE
  OBVIOUS
<1>2. 2000 + y + wrap = 2100 /\ month + 1 \in 1 .. 12
  BY <1>0, <1>1
<1>3. YearStart(2100) = 47482
  BY DEF YearStart, LeapYearsUntil
<1>4. DaysBefore(month + 1, IsLeap(2100)) \in 0 .. 335
  BY <1>2, MonthTable
<1> QED BY <1>0, <1>2, <1>3, <1>4 DEF CenturyEnd

CarriesOf(tm, s, second, minute, hour, carry, day, turn, month, wrap) ==
  /\ HoursCarry(tm.tm_sec, tm.tm_min, tm.tm_hour, s, second, minute, hour, carry)
  /\ DaysCarry(tm.tm_mday, carry, DaysOf(tm.tm_mon + 1, IsLeap(tm.tm_year + 1900)), day, turn)
  /\ MonthsCarry(tm.tm_mon + 1, turn, month, wrap)

LEMMA ChipCarries ==
  ASSUME NEW tm \in CalendarTime, NEW s,
         NEW second, NEW minute, NEW hour, NEW carry, NEW day, NEW turn, NEW month, NEW wrap,
         CarriesOf(tm, s, second, minute, hour, carry, day, turn, month, wrap)
  PROVE  Advance(registers_of(tm), s)
           = [seconds |-> digits_byte(second % 60), minutes |-> digits_byte(minute % 60),
              hours |-> digits_byte(hour % 24), date |-> digits_byte(day + 1),
              month |-> digits_byte(month + 1),
              year |-> digits_byte((tm.tm_year - 100 + wrap) % 100)]
<1>1. PICK r : r = registers_of(tm)
  OBVIOUS
<1>2. /\ Digits(r.seconds) = tm.tm_sec /\ Digits(r.minutes) = tm.tm_min
      /\ Digits(r.hours) = tm.tm_hour /\ Digits(r.date) = tm.tm_mday
      /\ Digits(r.month) = tm.tm_mon + 1 /\ Digits(r.year) = tm.tm_year - 100
  BY <1>1, ChipReadsFields
<1>3. DaysOf(tm.tm_mon + 1, (tm.tm_year - 100) % 4 = 0)
        = DaysOf(tm.tm_mon + 1, IsLeap(tm.tm_year + 1900))
  <2>1. tm.tm_year - 100 \in 0 .. 99 /\ 2000 + (tm.tm_year - 100) = tm.tm_year + 1900
    BY CalendarFields, SMT
  <2> QED BY <2>1, ChipLeap, SMT
<1>4. Carries(r, s, second, minute, hour, carry, day, turn, month, wrap)
  <2>1. HoursCarry(Digits(r.seconds), Digits(r.minutes), Digits(r.hours), s,
                   second, minute, hour, carry)
    BY <1>2, SMT DEF CarriesOf
  <2>2. DaysCarry(Digits(r.date), carry, DaysOf(Digits(r.month), Digits(r.year) % 4 = 0),
                  day, turn)
    BY <1>2, <1>3, SMT DEF CarriesOf
  <2>3. MonthsCarry(Digits(r.month), turn, month, wrap)
    BY <1>2, SMT DEF CarriesOf
  <2> QED BY <2>1, <2>2, <2>3 DEF Carries
<1>5. Advance(r, s) =
           [seconds |-> digits_byte(second % 60), minutes |-> digits_byte(minute % 60),
            hours |-> digits_byte(hour % 24), date |-> digits_byte(day + 1),
            month |-> digits_byte(month + 1),
            year |-> digits_byte((Digits(r.year) + wrap) % 100)]
  BY <1>4, AdvanceCarries, SMT
<1> QED BY <1>1, <1>2, <1>5, SMT

\* The time that the chip shows.
Moves(tm, s, second, minute, hour, carry, day, turn, month, wrap, next) ==
  /\ second \in 0 .. 59 /\ minute \in 0 .. 59 /\ hour \in 0 .. 23 /\ s \in Nat
  /\ TimeKept(tm.tm_sec, tm.tm_min, tm.tm_hour, s, second, minute, hour, carry)
  /\ DateTurns(tm.tm_year - 100, tm.tm_mon + 1, tm.tm_mday, carry, day, turn, month, wrap)
  /\ next = TimeOf(second, minute, hour, day + 1, month + 1, (tm.tm_year - 100 + wrap) % 100)

LEMMA NextTime ==
  ASSUME NEW tm \in CalendarTime, NEW s,
         NEW second, NEW minute, NEW hour, NEW carry, NEW day, NEW turn, NEW month, NEW wrap,
         NEW next, Moves(tm, s, second, minute, hour, carry, day, turn, month, wrap, next)
  PROVE  /\ next \in CalendarTime
         /\ mktime(tm) + s < CenturyEnd => mktime(next) = mktime(tm) + s
         /\ registers_of(next)
              = [seconds |-> digits_byte(second), minutes |-> digits_byte(minute),
                 hours |-> digits_byte(hour), date |-> digits_byte(day + 1),
                 month |-> digits_byte(month + 1),
                 year |-> digits_byte((tm.tm_year - 100 + wrap) % 100)]
<1>0. /\ second \in 0 .. 59 /\ minute \in 0 .. 59 /\ hour \in 0 .. 23 /\ s \in Nat
      /\ TimeKept(tm.tm_sec, tm.tm_min, tm.tm_hour, s, second, minute, hour, carry)
      /\ DateTurns(tm.tm_year - 100, tm.tm_mon + 1, tm.tm_mday, carry, day, turn, month, wrap)
  BY SMT DEF Moves
<1>y. PICK y : y = tm.tm_year - 100
  OBVIOUS
<1>m. PICK m : m = tm.tm_mon + 1
  OBVIOUS
<1>d. PICK d : d = tm.tm_mday
  OBVIOUS
<1>1. y \in 0 .. 99 /\ m \in 1 .. 12 /\ tm.tm_year + 1900 = 2000 + y
  BY <1>y, <1>m, CalendarFields, SMT
<1>2. DateTurns(y, m, d, carry, day, turn, month, wrap)
  BY <1>0, <1>y, <1>m, <1>d
<1>3. /\ day + 1 \in 1 .. DaysOf(month + 1, IsLeap(2000 + ((y + wrap) % 100)))
      /\ YearStart(2000 + y + wrap) + DaysBefore(month + 1, IsLeap(2000 + y + wrap)) + day
         = YearStart(2000 + y) + DaysBefore(m, IsLeap(2000 + y)) + d - 1 + carry
  BY <1>2, DayCarry, SMT
<1>4. /\ carry \in 0 .. 1 /\ wrap \in 0 .. 1 /\ month \in 0 .. 11
      /\ DaysOf(m, IsLeap(2000 + y)) \in 28 .. 31 /\ day \in 0 .. 30
  <2>1. DaysOf(m, IsLeap(2000 + y)) \in 28 .. 31
    BY <1>1, MonthTable, SMT
  <2> QED BY <1>2, <2>1, SMT DEF DateTurns
<1>5. month + 1 \in 1 .. 12 /\ (y + wrap) % 100 \in 0 .. 99
  BY <1>1, <1>4, SMT
<1>n. next = TimeOf(second, minute, hour, day + 1, month + 1, (y + wrap) % 100)
  BY <1>y, SMT DEF Moves
<1>r. InRange(second, minute, hour, day + 1, month + 1, (y + wrap) % 100)
  BY <1>0, <1>3, <1>5, SMT DEF InRange
<1>6. /\ next \in CalendarTime
      /\ mktime(next) = 86400 * (YearStart(2000 + ((y + wrap) % 100))
                                   + DaysBefore(month + 1, IsLeap(2000 + ((y + wrap) % 100)))
                                   + (day + 1) - 1)
                          + 3600 * hour + 60 * minute + second
  BY <1>n, <1>r, FieldsMakeTime, SMT
<1>7. ASSUME mktime(tm) + s < CenturyEnd
      PROVE  mktime(next) = mktime(tm) + s
  <2>0. PICK rest \in Nat : rest = 3600 * hour + 60 * minute + second
    BY <1>0, SMT
  <2>1. YearStart(2000 + y) \in Nat /\ DaysBefore(m, IsLeap(2000 + y)) \in 0 .. 335
    <3>1. 2000 + y \in 1970 .. 2099
      BY <1>1, SMT
    <3> QED BY <1>1, <3>1, YearTable, MonthTable, SMTT(60)
  <2>d. d \in 1 .. 31 /\ tm.tm_hour \in 0 .. 23 /\ tm.tm_min \in 0 .. 59 /\ tm.tm_sec \in 0 .. 59
    BY <1>d, CalendarFields
  <2>2. PICK midnight \in Int :
          midnight = YearStart(2000 + y) + DaysBefore(m, IsLeap(2000 + y)) + d - 1
    BY <2>1, <2>d, SMT
  <2>3. mktime(tm) = 86400 * midnight + 3600 * tm.tm_hour + 60 * tm.tm_min + tm.tm_sec
    BY <1>1, <1>m, <1>d, <2>2, SMT DEF mktime
  <2>4. mktime(tm) + s = 86400 * (midnight + carry) + rest
    <3>1. /\ tm.tm_hour \in Nat /\ tm.tm_min \in Nat /\ tm.tm_sec \in Nat /\ carry \in Nat
          /\ hour \in Nat /\ minute \in Nat /\ second \in Nat
      BY <1>0, <1>4, <2>d, SMT
    <3>2. PICK hr \in Nat, min \in Nat, sec \in Nat :
            hr = tm.tm_hour /\ min = tm.tm_min /\ sec = tm.tm_sec
      BY <3>1
    <3>3. TimeKept(sec, min, hr, s, second, minute, hour, carry) /\ s \in Nat
      BY <1>0, <3>2
    <3>4. 86400 * midnight + 3600 * hr + 60 * min + sec + s
            = 86400 * (midnight + carry) + (3600 * hour + 60 * minute + second)
      BY <3>1, <3>3, SMT DEF TimeKept
    <3> QED BY <1>0, <2>0, <2>3, <3>2, <3>4, SMT
  <2>5. YearStart(2000 + y + wrap) + DaysBefore(month + 1, IsLeap(2000 + y + wrap)) + day
          = midnight + carry
    BY <1>3, <2>2, SMT
  <2>6. (y + wrap) % 100 = y + wrap /\ y + wrap \in 0 .. 99
    <3>1. 86400 * (YearStart(2000 + y + wrap)
                     + DaysBefore(month + 1, IsLeap(2000 + y + wrap)) + day) + rest < CenturyEnd
      BY <1>7, <2>4, <2>5
    <3>2. BeforeCenturyEnd(y, wrap, month, day, rest)
      BY <1>1, <1>4, <2>0, <3>1, SMT DEF BeforeCenturyEnd
    <3>3. y + wrap # 100
      BY <3>2, CenturyCarry
    <3> QED BY <1>1, <1>4, <3>3, SMT
  <2>7. 2000 + (y + wrap) = 2000 + y + wrap
    BY <1>1, <1>4, SMT
  <2>8. YearStart(2000 + y + wrap) \in Nat
        /\ DaysBefore(month + 1, IsLeap(2000 + y + wrap)) \in 0 .. 335
    <3>1. 2000 + y + wrap \in 1970 .. 2099
      BY <1>1, <1>4, <2>6, SMT
    <3> QED BY <1>5, <3>1, YearTable, MonthTable, SMTT(60)
  <2>9. mktime(next) = 86400 * (YearStart(2000 + y + wrap)
                                  + DaysBefore(month + 1, IsLeap(2000 + y + wrap))
                                  + (day + 1) - 1)
                         + 3600 * hour + 60 * minute + second
    BY <1>6, <2>6, <2>7
  <2>10. YearStart(2000 + y + wrap) + DaysBefore(month + 1, IsLeap(2000 + y + wrap))
           + (day + 1) - 1 = midnight + carry
    BY <1>4, <2>5, <2>8, SMT
  <2> QED BY <1>0, <1>4, <2>0, <2>2, <2>4, <2>9, <2>10, SMT
<1>8. registers_of(next)
              = [seconds |-> digits_byte(second), minutes |-> digits_byte(minute),
                 hours |-> digits_byte(hour), date |-> digits_byte(day + 1),
                 month |-> digits_byte(month + 1), year |-> digits_byte((y + wrap) % 100)]
  BY <1>n, <1>r, RegistersOfFields, SMT
<1> QED BY <1>6, <1>7, <1>8, <1>y, SMT

SecondsPerDay == 86400

(***************************************************************************)
(* The chip and the C library agree: what the registers show after up to a *)
(* day is the time of that many seconds later, across the ends of minutes, *)
(* hours, days, months, leap years and years, until the two digits of the  *)
(* year are used up; the registers then still show a time.                 *)
(***************************************************************************)
THEOREM ChipCounts ==
  ASSUME NEW tm \in CalendarTime, NEW s \in Nat, s <= SecondsPerDay
  PROVE  \E next \in CalendarTime :
           /\ Advance(registers_of(tm), s) = registers_of(next)
           /\ mktime(tm) + s < CenturyEnd => mktime(next) = mktime(tm) + s
<1>d. PICK days : days = DaysOf(tm.tm_mon + 1, IsLeap(tm.tm_year + 1900))
  OBVIOUS
<1>y. PICK y : y = tm.tm_year - 100
  OBVIOUS
<1>1. PICK second, minute, hour, carry :
        HoursCarry(tm.tm_sec, tm.tm_min, tm.tm_hour, s, second, minute, hour, carry)
  BY Zenon DEF HoursCarry
<1>2. PICK day, turn : DaysCarry(tm.tm_mday, carry, days, day, turn)
  BY Zenon DEF DaysCarry
<1>3. PICK month, wrap : MonthsCarry(tm.tm_mon + 1, turn, month, wrap)
  BY Zenon DEF MonthsCarry
<1>4. /\ tm.tm_sec \in 0 .. 59 /\ tm.tm_min \in 0 .. 59 /\ tm.tm_hour \in 0 .. 23
      /\ tm.tm_mday \in 1 .. 31 /\ tm.tm_mon + 1 \in 1 .. 12 /\ y \in 0 .. 99
      /\ days \in 28 .. 31 /\ tm.tm_mday \in 1 .. days
      /\ 2000 + y = tm.tm_year + 1900
  <2>1. tm.tm_mon + 1 \in 1 .. 12
    BY CalendarFields, SMT
  <2>2. days \in 28 .. 31
    BY <1>d, <2>1, MonthTable
  <2> QED BY <1>d, <1>y, <2>1, <2>2, CalendarFields, SMT
<1>5. s \in Nat /\ s <= 86400
  BY SMT DEF SecondsPerDay
<1>6. /\ second % 60 \in 0 .. 59 /\ minute % 60 \in 0 .. 59 /\ hour % 24 \in 0 .. 23
      /\ carry \in 0 .. 1
      /\ TimeKept(tm.tm_sec, tm.tm_min, tm.tm_hour, s, second % 60, minute % 60, hour % 24, carry)
  <2>1. /\ tm.tm_sec \in Nat /\ tm.tm_min \in Nat /\ tm.tm_hour \in Nat
        /\ tm.tm_sec <= 59 /\ tm.tm_min <= 59 /\ tm.tm_hour <= 23
    BY <1>4, SMT
  <2> QED BY <1>1, <1>5, <2>1, HoursCarried, SMTT(60)
<1>7. PICK sec \in 0 .. 59, min \in 0 .. 59, hr \in 0 .. 23 :
        sec = second % 60 /\ min = minute % 60 /\ hr = hour % 24
  BY <1>6
<1>8. /\ turn \in 0 .. 1 /\ day \in 0 .. days - 1
      /\ DateKept(tm.tm_mday, carry, days, day, turn)
  BY <1>2, <1>4, <1>6, DaysCarried, SMT
<1>9. /\ wrap \in 0 .. 1 /\ month \in 0 .. 11 /\ MonthKept(tm.tm_mon + 1, turn, month, wrap)
  BY <1>3, <1>4, <1>8, MonthsCarried, SMT
<1>10. DateTurns(tm.tm_year - 100, tm.tm_mon + 1, tm.tm_mday, carry, day, turn, month, wrap)
  <2>1. days = DaysOf(tm.tm_mon + 1, IsLeap(2000 + (tm.tm_year - 100)))
    BY <1>d, <1>y, <1>4
  <2> QED BY <1>y, <1>4, <1>6, <1>8, <1>9, <2>1 DEF DateTurns
<1>n. PICK next : next = TimeOf(sec, min, hr, day + 1, month + 1, (tm.tm_year - 100 + wrap) % 100)
  OBVIOUS
<1>11. Moves(tm, s, sec, min, hr, carry, day, turn, month, wrap, next)
  <2>1. TimeKept(tm.tm_sec, tm.tm_min, tm.tm_hour, s, sec, min, hr, carry)
    BY <1>6, <1>7
  <2> QED BY <1>n, <1>5, <1>10, <2>1, SMT DEF Moves
<1>12. CarriesOf(tm, s, second, minute, hour, carry, day, turn, month, wrap)
  BY <1>d, <1>1, <1>2, <1>3 DEF CarriesOf
<1>13. Advance(registers_of(tm), s)
         = [seconds |-> digits_byte(second % 60), minutes |-> digits_byte(minute % 60),
            hours |-> digits_byte(hour % 24), date |-> digits_byte(day + 1),
            month |-> digits_byte(month + 1),
            year |-> digits_byte((tm.tm_year - 100 + wrap) % 100)]
  BY <1>12, ChipCarries, SMT
<1>14. /\ next \in CalendarTime
       /\ mktime(tm) + s < CenturyEnd => mktime(next) = mktime(tm) + s
       /\ registers_of(next)
            = [seconds |-> digits_byte(sec), minutes |-> digits_byte(min),
               hours |-> digits_byte(hr), date |-> digits_byte(day + 1),
               month |-> digits_byte(month + 1),
               year |-> digits_byte((tm.tm_year - 100 + wrap) % 100)]
  BY <1>11, NextTime, SMT
<1>15. Advance(registers_of(tm), s) = registers_of(next)
  BY <1>7, <1>13, <1>14, SMT
<1> QED BY <1>14, <1>15, Zenon
-------------------------------------------------------------------------------
(***************************************************************************)
(* Why the tasks run only after a complete start: after each step of       *)
(* app_main what is missing is remembered in need_to_restart.              *)
(***************************************************************************)
Complete == created = Objects /\ handlers = Pins

StartInv ==
  /\ need_to_restart \in BOOLEAN
  /\ app_pc = "gpio" =>
       need_to_restart \/ created = Objects \ {"count_gatekeeper"}
  /\ app_pc \in {"delay", "check"} => need_to_restart \/ Complete
  /\ app_pc \in {"time", "running"} => Complete

LEMMA StartInitially == Init => StartInv
BY DEF Init, AtStart, StartInv

LEMMA StartUnchanged == StartInv /\ UNCHANGED app_vars => StartInv'
BY DEF StartInv, Complete, app_vars

LEMMA StartAfterRestart == esp_restart => StartInv'
BY DEF esp_restart, StartInv

LEMMA StartStep ==
  ASSUME StartInv, app_main
  PROVE  StartInv'
<1>1. CASE Create
  <2>1. PICK missing \in SUBSET (Objects \ {"count_gatekeeper"}) :
          /\ created' = Objects \ ({"count_gatekeeper"} \cup missing)
          /\ need_to_restart' = (missing # {})
    BY <1>1 DEF Create
  <2>2. CASE missing = {}
    BY <1>1, <2>1, <2>2 DEF Create, StartInv
  <2>3. CASE missing # {}
    BY <1>1, <2>1, <2>3 DEF Create, StartInv
  <2> QED BY <2>2, <2>3
<1>2. CASE gpio_initial_setup
  <2>1. app_pc = "gpio" /\ app_pc' \in {"delay", "check"}
    BY <1>2 DEF gpio_initial_setup
  <2>2. CASE need_to_restart' = TRUE
    BY <2>1, <2>2 DEF StartInv
  <2>3. CASE need_to_restart' # TRUE
    <3>1. /\ created' = created \cup {"count_gatekeeper"} /\ handlers' = Pins
          /\ need_to_restart' = need_to_restart
      BY <1>2, <2>3 DEF gpio_initial_setup, setup_failed, StartInv
    <3>2. created' = Objects
      BY <2>1, <2>3, <3>1 DEF StartInv, Objects
    <3> QED BY <2>1, <3>1, <3>2 DEF StartInv, Complete
  <2> QED BY <2>2, <2>3
<1>3. CASE CheckStart
  BY <1>3 DEF CheckStart, StartInv, Complete
<1>4. CASE RestartIncomplete
  BY <1>4, StartAfterRestart DEF RestartIncomplete
<1>5. CASE time_init
  BY <1>5 DEF time_init, StartInv, Complete
<1> QED BY <1>1, <1>2, <1>3, <1>4, <1>5 DEF app_main

(***************************************************************************)
(* The tasks run only with all their queues and mutexes and both handlers, *)
(* whatever calls fail (app_main.c:138-186).                               *)
(***************************************************************************)
THEOREM StartIsComplete == Spec => []StartedComplete
<1>1. StartInv /\ [Next]_vars => StartInv'
  <2> SUFFICES ASSUME StartInv, [Next]_vars PROVE StartInv'
    OBVIOUS
  <2>1. CASE app_main
    BY <2>1, StartStep
  <2>2. CASE Restart \/ (SendRecord /\ esp_restart)
    BY <2>2, StartAfterRestart DEF Restart
  <2>3. CASE SendRecord /\ ~esp_restart
    BY <2>3, StartUnchanged DEF SendRecord
  <2>4. CASE \/ Minute \/ Pulse \/ EnterHandler \/ counter_isr \/ TakeCount
             \/ ReceiveRecord \/ time_sync_notification_cb \/ UNCHANGED vars
    <3>1. UNCHANGED app_vars
      BY <2>4 DEF Minute, Pulse, EnterHandler, counter_isr, TakeCount, ReceiveRecord,
                  time_sync_notification_cb, vars
    <3> QED BY <3>1, StartUnchanged
  <2> QED BY <2>1, <2>2, <2>3, <2>4 DEF Next, rtc_alarm_isr
<1>2. StartInv => StartedComplete
  BY DEF StartInv, StartedComplete, Complete
<1> QED BY StartInitially, <1>1, <1>2, PTL DEF Spec
-------------------------------------------------------------------------------
NeverWithoutMutex == isr_pc \in Pins => holder = isr_pc

MutexInv == /\ NeverWithoutMutex
            /\ isr_pc \in {"idle", "send"} => holder = "none"
            /\ isr_pc \in {"idle", "send"} \cup Pins
            /\ pending \subseteq Pins

LEMMA MutexAlways == Spec => []MutexInv
<1>1. Init => MutexInv
  BY DEF Init, AtStart, MutexInv, NeverWithoutMutex, Pins
<1>2. MutexInv /\ [Next]_vars => MutexInv'
  <2> SUFFICES ASSUME MutexInv, [Next]_vars PROVE MutexInv'
    OBVIOUS
  <2> USE DEF MutexInv, NeverWithoutMutex, Pins
  <2>1. CASE esp_restart
    BY <2>1 DEF esp_restart
  <2>2. CASE app_main
    BY <2>1, <2>2 DEF app_main, Create, gpio_initial_setup, CheckStart,
                      RestartIncomplete, time_init, isr_vars
  <2>3. CASE Minute
    <3>1. pending' \subseteq Pins /\ UNCHANGED <<isr_pc, holder>>
      BY <2>3 DEF Minute
    <3> QED BY <3>1
  <2>4. CASE Pulse
    BY <2>4 DEF Pulse
  <2>5. CASE EnterHandler
    BY <2>5 DEF EnterHandler
  <2>6. CASE counter_isr
    BY <2>6 DEF counter_isr
  <2>7. CASE TakeCount
    BY <2>7 DEF TakeCount, holder_after_alarm
  <2>8. CASE SendRecord
    BY <2>1, <2>8 DEF SendRecord
  <2>9. CASE ReceiveRecord \/ time_sync_notification_cb \/ UNCHANGED vars
    BY <2>9 DEF ReceiveRecord, time_sync_notification_cb, vars, isr_vars
  <2>10. CASE Restart
    BY <2>1, <2>10 DEF Restart
  <2> QED BY <2>1, <2>2, <2>3, <2>4, <2>5, <2>6, <2>7, <2>8, <2>9, <2>10
          DEF Next, rtc_alarm_isr
<1> QED BY <1>1, <1>2, PTL DEF Spec

(***************************************************************************)
(* The mutex is with the handler that runs, so neither finds it taken and  *)
(* drops a pulse or a minute (gpio.c:55, 80).                              *)
(***************************************************************************)
THEOREM HandlersDropNothing == Spec => []NeverWithoutMutex
<1>1. MutexInv => NeverWithoutMutex
  BY DEF MutexInv
<1> QED BY <1>1, MutexAlways, PTL
-------------------------------------------------------------------------------
\* What registers show that were set, and what the chip makes of them.
Shown == {registers_of(tm) : tm \in CalendarTime}

\* A clock that was never set shows the time since the device got its power,
\* which it may have gained on.
SystemTimeInv ==
  /\ system_time \in Nat /\ system_drift \in Int
  /\ \/ system_time <= 60 * minutes + drifted
     \/ system_time - now - system_drift \in -time_tolerance .. time_tolerance

ClockInv ==
  /\ now \in Nat /\ minutes \in 0 .. MaxMinutes
  /\ \E t \in Starts : now = t + 60 * minutes
  /\ drifted \in 0 .. MaxDrift /\ drift \in -drifted .. drifted
  /\ rtc \in Shown
  /\ RtcFollows
  /\ SystemTimeInv

LEMMA Bounds ==
  /\ MaxMinutes \in Nat /\ MaxPulses \in Nat /\ MaxRestarts \in Nat /\ MaxDrift \in Nat
  /\ MaxFailures \in Nat /\ time_tolerance = 1
  /\ CONFIG_LAST_KNOWN_UNIX \in Nat /\ StoreQueueLength \in Nat \ {0}
  /\ 60 * MaxMinutes + MaxDrift < CONFIG_LAST_KNOWN_UNIX
BY MeteringAssumption DEF time_tolerance

LEMMA RunInCentury ==
  ASSUME NEW t \in Starts, NEW m \in 0 .. MaxMinutes, NEW e \in 0 .. MaxDrift + 1
  PROVE  /\ t + 60 * m + e \in CenturyStart .. CenturyEnd - 1
         /\ t + 60 * m + e > CONFIG_LAST_KNOWN_UNIX
<1>1. /\ t \in Nat /\ t > CONFIG_LAST_KNOWN_UNIX /\ InCentury(t)
      /\ InCentury(t + 60 * MaxMinutes + MaxDrift + 1)
  BY MeteringAssumption, Bounds
<1>2. t \in CenturyStart .. CenturyEnd - 1
  BY <1>1, CenturyBounds
<1>3. t + 60 * MaxMinutes + MaxDrift + 1 \in CenturyStart .. CenturyEnd - 1
  <2>1. t + 60 * MaxMinutes + MaxDrift + 1 \in Nat
    BY <1>1, Bounds, SMT
  <2> QED BY <1>1, <2>1, CenturyBounds
<1>4. CenturyStart \in Int /\ CenturyEnd \in Int
  BY SMT DEF CenturyStart, CenturyEnd, YearStart, LeapYearsUntil
<1> QED BY <1>1, <1>2, <1>3, <1>4, Bounds, SMT

\* rtc_get_unix of registers that show a time.
LEMMA ShownTime ==
  ASSUME NEW tm \in CalendarTime
  PROVE  /\ tm_of(registers_of(tm)) = tm
         /\ mktime(tm) \in Int
<1>1. tm_of(registers_of(tm)) = tm
  BY CalendarRoundTrip DEF CalendarTime
<1>2. /\ tm.tm_year + 1900 \in 1970 .. 2099 /\ tm.tm_mon + 1 \in 1 .. 12
      /\ tm.tm_sec \in Int /\ tm.tm_min \in Int /\ tm.tm_hour \in Int /\ tm.tm_mday \in Int
  BY CalendarFields, SMT
<1>3. /\ YearStart(tm.tm_year + 1900) \in Int
      /\ DaysBefore(tm.tm_mon + 1, IsLeap(tm.tm_year + 1900)) \in Int
  <2>1. YearStart(tm.tm_year + 1900) \in Nat
    BY <1>2, YearTable
  <2>2. DaysBefore(tm.tm_mon + 1, IsLeap(tm.tm_year + 1900)) \in 0 .. 335
    BY <1>2, MonthTable
  <2> QED BY <2>1, <2>2, SMT
<1> QED BY <1>1, <1>2, <1>3, SMT DEF mktime

LEMMA SetShows ==
  ASSUME NEW t \in Starts, NEW m \in 0 .. MaxMinutes
  PROVE  /\ registers_of(gmtime(t + 60 * m)) \in Shown
         /\ mktime(tm_of(registers_of(gmtime(t + 60 * m)))) = t + 60 * m
<1>0. PICK unix : unix = t + 60 * m
  OBVIOUS
<1>1. unix \in CenturyStart .. CenturyEnd - 1
  <2>1. 0 \in 0 .. MaxDrift + 1 /\ t \in Nat
    BY Bounds, MeteringAssumption, SMT
  <2>2. t + 60 * m + 0 \in CenturyStart .. CenturyEnd - 1
    BY <2>1, RunInCentury
  <2> QED BY <1>0, <2>1, <2>2, SMT
<1>2. gmtime(unix) \in CalendarTime /\ mktime(gmtime(unix)) = unix
  BY <1>1, CalendarInverse
<1>3. tm_of(registers_of(gmtime(unix))) = gmtime(unix)
  BY <1>2, ShownTime
<1> QED BY <1>0, <1>2, <1>3 DEF Shown

LEMMA ClockInitially == Init => ClockInv
<1> SUFFICES ASSUME Init PROVE ClockInv
  OBVIOUS
<1>1. /\ now \in Starts /\ now \in Nat /\ now = now + 60 * 0 /\ 0 \in 0 .. MaxMinutes
      /\ minutes = 0 /\ drifted = 0 /\ drift = 0 /\ system_time = 0
      /\ system_drift = 0
  BY Bounds, MeteringAssumption, SMT DEF Init
<1>2. /\ registers_of(gmtime(now)) \in Shown
      /\ mktime(tm_of(registers_of(gmtime(now)))) = now
  BY <1>1, SetShows
<1>3. rtc \in Shown
  <2>1. NeverSet \in Shown
    <3>1. PICK tm : tm = [tm_sec |-> 0, tm_min |-> 0, tm_hour |-> 0, tm_mday |-> 1,
                          tm_mon |-> 0, tm_year |-> 100]
      OBVIOUS
    <3>2. tm \in Calendar
      BY <3>1, SMT DEF Calendar
    <3>3. /\ tm.tm_sec = 0 /\ tm.tm_min = 0 /\ tm.tm_hour = 0 /\ tm.tm_mday = 1
          /\ tm.tm_mon = 0 /\ tm.tm_year = 100
      BY <3>1
    <3>4. DaysOf(tm.tm_mon + 1, IsLeap(tm.tm_year + 1900)) \in 28 .. 31
      <4>1. tm.tm_mon + 1 \in 1 .. 12
        BY <3>3, SMT
      <4> QED BY <4>1, MonthTable
    <3>5. tm \in CalendarTime
      BY <3>2, <3>3, <3>4, SMT DEF CalendarTime
    <3>6. digits_byte(0) = 0 /\ digits_byte(1) = 1 /\ hours_byte(0) = 0 /\ 100 % 100 = 0
      BY SMT DEF digits_byte, hours_byte
    <3>7. registers_of(tm) = NeverSet
      BY <3>3, <3>6, SMT DEF registers_of, NeverSet
    <3> QED BY <3>5, <3>7 DEF Shown
  <2> QED BY <1>2, <2>1, Zenon DEF Init
<1>4. RtcFollows
  <2>1. OSF \/ rtc = registers_of(gmtime(now))
    BY Zenon DEF Init
  <2>2. CASE OSF
    BY <2>2 DEF RtcFollows
  <2>3. CASE ~OSF /\ rtc = registers_of(gmtime(now))
    BY <1>1, <1>2, <2>3, Bounds, SMT DEF RtcFollows, rtc_get_unix
  <2> QED BY <2>1, <2>2, <2>3
<1>5. SystemTimeInv
  BY <1>1, SMT DEF SystemTimeInv
<1> QED BY <1>1, <1>3, <1>4, <1>5, Bounds, SMT DEF ClockInv

\* The chip's minute, with a second more or less.
LEMMA ClockMinute ==
  ASSUME ClockInv, Minute
  PROVE  ClockInv'
<1>1. PICK t \in Starts : now = t + 60 * minutes
  BY DEF ClockInv
<1>2. PICK gain \in -1 .. 1, slip \in -1 .. 1 :
        /\ drifted' = drifted + Seconds(gain) + Seconds(slip)
        /\ drift' = drift + gain
        /\ rtc' = Advance(rtc, 60 + gain)
        /\ system_drift' = system_drift + slip
        /\ system_time' = system_time + 60 + slip
  BY DEF Minute
<1>3. /\ minutes < MaxMinutes /\ minutes' = minutes + 1 /\ now' = now + 60
      /\ drifted' <= MaxDrift /\ OSF' = OSF
  BY DEF Minute
<1>4. /\ minutes \in Nat /\ minutes' \in 0 .. MaxMinutes /\ t \in Nat /\ now \in Nat
      /\ now' \in Nat /\ now' = t + 60 * minutes'
      /\ drifted' \in 0 .. MaxDrift /\ drift \in Int /\ drift' \in -drifted' .. drifted'
  BY <1>1, <1>2, <1>3, Bounds, MeteringAssumption, SMT DEF ClockInv, Seconds
<1>5. PICK tm \in CalendarTime : rtc = registers_of(tm)
  BY DEF ClockInv, Shown
<1>6. PICK next \in CalendarTime :
        /\ Advance(registers_of(tm), 60 + gain) = registers_of(next)
        /\ mktime(tm) + (60 + gain) < CenturyEnd => mktime(next) = mktime(tm) + (60 + gain)
  <2>0. 60 + gain \in Nat /\ 60 + gain <= SecondsPerDay
    <3>1. SecondsPerDay \in Nat /\ SecondsPerDay >= 61
      BY SMT DEF SecondsPerDay
    <3> QED BY <3>1, SMT
  <2>1. PICK s \in Nat : s = 60 + gain /\ s <= SecondsPerDay
    BY <2>0
  <2>2. \E next \in CalendarTime :
          /\ Advance(registers_of(tm), s) = registers_of(next)
          /\ mktime(tm) + s < CenturyEnd => mktime(next) = mktime(tm) + s
    BY <1>5, <2>1, ChipCounts, Zenon
  <2> QED BY <2>1, <2>2
<1>7. rtc' = registers_of(next) /\ rtc' \in Shown
  BY <1>2, <1>5, <1>6 DEF Shown
<1>8. RtcFollows'
  <2>1. CASE OSF
    BY <1>3, <2>1 DEF RtcFollows
  <2>2. CASE ~OSF
    <3>1. /\ tm_of(rtc) = tm /\ tm_of(rtc') = next
          /\ mktime(tm) \in Int /\ mktime(next) \in Int
      BY <1>5, <1>7, ShownTime
    <3>2. mktime(tm) - now - drift \in -1 .. 1
      BY <2>2, <3>1, Bounds DEF ClockInv, RtcFollows, rtc_get_unix
    <3>3. mktime(tm) + (60 + gain) < CenturyEnd
      <4>1. MaxDrift + 1 \in 0 .. MaxDrift + 1
        BY Bounds, SMT
      <4>2. t + 60 * minutes' + (MaxDrift + 1) \in CenturyStart .. CenturyEnd - 1
        BY <1>4, <4>1, RunInCentury
      <4>3. CenturyStart \in Int /\ CenturyEnd \in Int
        BY SMT DEF CenturyStart, CenturyEnd, YearStart, LeapYearsUntil
      <4> QED BY <1>2, <1>3, <1>4, <3>1, <3>2, <4>2, <4>3, Bounds, SMT
    <3>4. mktime(next) = mktime(tm) + (60 + gain)
      BY <1>6, <3>3
    <3>5. mktime(next) - now' - drift' \in -1 .. 1
      BY <1>2, <1>3, <1>4, <3>1, <3>2, <3>4, SMT
    <3>6. rtc_get_unix' = mktime(next)
      BY <1>3, <2>2, <3>1 DEF rtc_get_unix
    <3> QED BY <3>5, <3>6, Bounds DEF RtcFollows, time_tolerance
  <2> QED BY <2>1, <2>2
<1>9. SystemTimeInv'
  <2>1. /\ system_time \in Nat /\ system_drift \in Int /\ drifted \in Nat
        /\ \/ system_time <= 60 * minutes + drifted
           \/ system_time - now - system_drift \in -1 .. 1
    BY Bounds, SMT DEF ClockInv, SystemTimeInv
  <2>2. system_time' \in Nat /\ system_drift' \in Int
    BY <1>2, <2>1, SMT
  <2>3. CASE system_time <= 60 * minutes + drifted
    <3>1. slip <= Seconds(slip) /\ 0 <= Seconds(gain) /\ Seconds(gain) \in Int /\ Seconds(slip) \in Int
      BY SMT DEF Seconds
    <3>2. system_time' <= 60 * minutes' + drifted'
      BY <1>2, <1>3, <1>4, <2>1, <2>3, <3>1, SMT
    <3> QED BY <2>2, <3>2 DEF SystemTimeInv
  <2>4. CASE system_time - now - system_drift \in -1 .. 1
    <3>1. system_time' - now' - system_drift' \in -1 .. 1
      BY <1>2, <1>3, <1>4, <2>1, <2>4, SMT
    <3> QED BY <2>2, <3>1, Bounds DEF SystemTimeInv, time_tolerance
  <2> QED BY <2>1, <2>3, <2>4
<1> QED BY <1>1, <1>4, <1>7, <1>8, <1>9 DEF ClockInv

\* SNTP's time is the true one; the RTC is left alone when it shows it.
LEMMA ClockSynchronised ==
  ASSUME ClockInv, time_sync_notification_cb
  PROVE  ClockInv'
<1>1. PICK t \in Starts : now = t + 60 * minutes
  BY DEF ClockInv
<1>2. /\ now \in Nat /\ now' = now /\ minutes' = minutes /\ minutes \in 0 .. MaxMinutes
      /\ drifted' = drifted /\ drifted \in 0 .. MaxDrift /\ drift' = 0 /\ system_time' = now
      /\ system_drift' = 0
  BY DEF ClockInv, time_sync_notification_cb, bounds
<1>3. rtc' \in Shown /\ RtcFollows'
  <2>1. CASE rtc_needs_update(now)
    <3>1. rtc' = registers_of(gmtime(now)) /\ OSF' = FALSE
      BY <2>1 DEF time_sync_notification_cb
    <3>2. rtc' \in Shown /\ mktime(tm_of(rtc')) = now
      BY <1>1, <1>2, <3>1, SetShows
    <3>3. rtc_get_unix' = now
      BY <3>1, <3>2 DEF rtc_get_unix
    <3> QED BY <1>2, <3>2, <3>3, SMT DEF RtcFollows, time_tolerance
  <2>2. CASE ~rtc_needs_update(now)
    <3>1. rtc' = rtc /\ OSF' = OSF /\ rtc_get_unix' = rtc_get_unix
      BY <2>2 DEF time_sync_notification_cb, rtc_get_unix
    <3>2. rtc' \in Shown
      BY <3>1 DEF ClockInv
    <3>3. rtc_get_unix \in Int
      <4>1. PICK tm \in CalendarTime : rtc = registers_of(tm)
        BY DEF ClockInv, Shown
      <4>2. mktime(tm_of(rtc)) \in Int
        BY <4>1, ShownTime
      <4> QED BY <4>2 DEF rtc_get_unix
    <3>4. rtc_get_unix - now \in -1 .. 1
      BY <1>2, <2>2, <3>3, SMT DEF rtc_needs_update, time_tolerance
    <3> QED BY <1>2, <3>1, <3>2, <3>3, <3>4, SMT DEF RtcFollows, time_tolerance
  <2> QED BY <2>1, <2>2
<1>4. SystemTimeInv'
  BY <1>2, Bounds, SMT DEF SystemTimeInv, time_tolerance
<1> QED BY <1>1, <1>2, <1>3, <1>4, SMT DEF ClockInv

\* The other steps leave the calendar alone, and the true time.
LEMMA ClockKept ==
  ASSUME ClockInv, UNCHANGED <<now, minutes, drift, drifted, rtc>>,
         OSF' = OSF \/ OSF' = TRUE,
         \/ system_time' \in {system_time, 0} /\ UNCHANGED system_drift
         \/ /\ ~OSF /\ system_time' = rtc_get_unix /\ system_time' \in Nat
            /\ system_drift' = drift
  PROVE  ClockInv'
<1>1. RtcFollows'
  BY DEF ClockInv, RtcFollows, rtc_get_unix
<1>2. SystemTimeInv'
  <2>0. minutes \in Nat /\ drifted \in Nat /\ drift \in Int /\ system_drift \in Int
    BY Bounds, SMT DEF ClockInv, SystemTimeInv
  <2>1. CASE system_time' \in {system_time, 0} /\ UNCHANGED system_drift
    BY <2>0, <2>1, SMT DEF ClockInv, SystemTimeInv
  <2>2. CASE /\ ~OSF /\ system_time' = rtc_get_unix /\ system_time' \in Nat
             /\ system_drift' = drift
    BY <2>0, <2>2, Bounds, SMT DEF ClockInv, RtcFollows, SystemTimeInv
  <2> QED BY <2>1, <2>2
<1> QED BY <1>1, <1>2 DEF ClockInv

LEMMA ClockStep == ClockInv /\ [Next]_vars => ClockInv'
<1> SUFFICES ASSUME ClockInv, [Next]_vars PROVE ClockInv'
  OBVIOUS
<1>1. CASE Minute
  BY <1>1, ClockMinute
<1>2. CASE time_sync_notification_cb
  BY <1>2, ClockSynchronised
<1>3. CASE Restart
  BY <1>3, ClockKept DEF Restart, esp_restart
<1>4. CASE time_init
  <2>1. CASE rtc_get_unix > CONFIG_LAST_KNOWN_UNIX
    <3>1. ~OSF
      BY <2>1, Bounds, SMT DEF rtc_get_unix
    <3>2. PICK tm \in CalendarTime : rtc = registers_of(tm)
      BY DEF ClockInv, Shown
    <3>3. rtc_get_unix \in Int
      BY <3>2, ShownTime DEF rtc_get_unix
    <3>4. rtc_get_unix \in Nat
      BY <2>1, <3>3, Bounds, SMT
    <3> QED BY <1>4, <2>1, <3>1, <3>4, ClockKept DEF time_init, bounds, history
  <2>2. CASE ~(rtc_get_unix > CONFIG_LAST_KNOWN_UNIX)
    BY <1>4, <2>2, ClockKept DEF time_init, bounds, history
  <2> QED BY <2>1, <2>2
<1>5. CASE RestartIncomplete \/ (SendRecord /\ esp_restart)
  <2>1. esp_restart /\ UNCHANGED OSF
    BY <1>5 DEF RestartIncomplete, SendRecord, rtc_vars
  <2> QED BY <2>1, ClockKept DEF esp_restart
<1>6. CASE SendRecord /\ ~esp_restart
  BY <1>6, ClockKept DEF SendRecord, bounds, rtc_vars
<1>7. CASE \/ Pulse \/ Create \/ gpio_initial_setup \/ CheckStart \/ EnterHandler
           \/ counter_isr \/ TakeCount \/ ReceiveRecord \/ UNCHANGED vars
  <2>1. UNCHANGED <<now, minutes, drift, system_drift, drifted, rtc, OSF, system_time>>
    BY <1>7 DEF Pulse, Create, gpio_initial_setup, CheckStart, EnterHandler, counter_isr,
                TakeCount, ReceiveRecord, vars, rtc_vars, history, bounds
  <2> QED BY <2>1, ClockKept
<1> QED BY <1>1, <1>2, <1>3, <1>4, <1>5, <1>6, <1>7 DEF Next, app_main, rtc_alarm_isr

LEMMA ClockAlways == Spec => []ClockInv
BY ClockInitially, ClockStep, PTL DEF Spec

(***************************************************************************)
(* The RTC, if its oscillator is said to have run, is within the tolerance *)
(* and its drift of the true time, from whatever time of the century the   *)
(* device starts and however long it runs (rtc.c:173, 312; ntp.c:28-36).   *)
(***************************************************************************)
THEOREM RtcKeepsTime == Spec => []RtcFollows
<1>1. ClockInv => RtcFollows
  BY DEF ClockInv
<1> QED BY <1>1, ClockAlways, PTL

(***************************************************************************)
(* The system time is recognisably unset, or right within the tolerance    *)
(* and the drift since the last synchronisation (time_init.c:17;           *)
(* ntp.c:30).  Nothing but the next one ends that drift.                   *)
(***************************************************************************)
THEOREM SystemTimeIsRight == Spec => []ClockRight
<1>1. ClockInv => ClockRight
  <2> SUFFICES ASSUME ClockInv PROVE ClockRight
    OBVIOUS
  <2>1. CASE system_time <= 60 * minutes + drifted
    BY <2>1, Bounds, SMT DEF ClockInv, SystemTimeInv, ClockRight
  <2>2. CASE system_time - now - system_drift \in -time_tolerance .. time_tolerance
    BY <2>2 DEF ClockRight
  <2> QED BY <2>1, <2>2 DEF ClockInv, SystemTimeInv
<1> QED BY <1>1, ClockAlways, PTL
-------------------------------------------------------------------------------
Telemetry == [time : Nat, count : Nat]

\* The sums of a sequence's prefixes.
Sums(f, records) ==
  /\ f \in [0 .. Len(records) -> Int] /\ f[0] = 0
  /\ \A k \in 1 .. Len(records) : f[k] = f[k - 1] + records[k].count

LEMMA SumOfPrefixes ==
  ASSUME NEW records \in Seq(Telemetry)
  PROVE  \E f : Sums(f, records) /\ Sum(records) = f[Len(records)]
<1> DEFINE n == Len(records)
           step == [p \in Int \X (1 .. n) |-> p[1] + records[p[2]].count]
           Adds(h) == h = [s \in SUBSET (DOMAIN records) |->
                             IF s = {} THEN 0 ELSE h[s \ {Max(s)}] + records[Max(s)].count]
           c == CHOOSE h : Adds(h)
<1>1. n \in Nat /\ DOMAIN records = 1 .. n /\ \A k \in 1 .. n : records[k].count \in Int
  <2>1. \A k \in 1 .. n : records[k] \in Telemetry
    BY ElementOfSeq
  <2> QED BY <2>1 DEF Telemetry
<1>2. step \in [Int \X (1 .. n) -> Int]
  <2> HIDE DEF n
  <2> QED BY <1>1
<1>3. \E g : Adds(g)
  <2> HIDE DEF n, step
  <2>1. PICK g \in [SUBSET (1 .. n) -> Int] : TakesOffMax(g, n, 0, step)
    <3>1. 0 \in Int
      OBVIOUS
    <3> QED BY <1>1, <1>2, <3>1, FoldExists
  <2>2. ASSUME NEW s \in SUBSET (1 .. n), s # {}
        PROVE  step[<<g[s \ {Max(s)}], Max(s)>>] = g[s \ {Max(s)}] + records[Max(s)].count
    <3>1. Max(s) \in 1 .. n /\ g[s \ {Max(s)}] \in Int
      BY <1>1, <2>2, MaxOfIndices
    <3> QED BY <3>1 DEF step
  <2>3. g = [s \in SUBSET (DOMAIN records) |->
               IF s = {} THEN 0 ELSE g[s \ {Max(s)}] + records[Max(s)].count]
    BY <1>1, <2>1, <2>2 DEF TakesOffMax
  <2> QED BY <2>3
<1>4. Adds(c)
  <2> HIDE DEF Adds
  <2> QED BY <1>3
<1>5. Sum(records) = c[1 .. n]
  <2>1. Sum(records) = c[DOMAIN records]
    BY DEF Sum, FoldLeft, MapThenFoldSet
  <2> QED BY <1>1, <2>1
<1> HIDE DEF c, step, n
<1>6. c[1 .. 0] = 0
  <2>1. 1 .. 0 = {}
    OBVIOUS
  <2> QED BY <1>4, <2>1
<1>7. ASSUME NEW k \in 1 .. n PROVE c[1 .. k] = c[1 .. k - 1] + records[k].count
  <2>1. 1 .. k \in SUBSET (DOMAIN records) /\ 1 .. k # {} /\ k \in Nat /\ k > 0
    <3>1. k \in Nat /\ k > 0 /\ k <= n /\ 1 \in 1 .. k
      BY <1>1
    <3>2. 1 .. k \subseteq 1 .. n
      BY <1>1, <3>1
    <3> QED BY <1>1, <3>1, <3>2
  <2> QED BY <1>4, <2>1, MaxOfPrefix
<1> DEFINE f == [k \in 0 .. n |-> c[1 .. k]]
<1>8. f[0] = 0 /\ f[n] = c[1 .. n] /\ \A k \in 1 .. n : f[k] = f[k - 1] + records[k].count
  <2>1. \A k \in 1 .. n : k \in 0 .. n /\ k - 1 \in 0 .. n
    BY <1>1
  <2> QED BY <1>1, <1>6, <1>7, <2>1
<1>9. f = [k \in 0 .. n |-> f[k]]
  OBVIOUS
<1> HIDE DEF f
<1>10. \A k \in 0 .. n : f[k] \in Int
  <2> DEFINE T == {k \in 0 .. n : f[k] \in Int}
  <2>1. 0 \in T
    BY <1>1, <1>8
  <2>2. ASSUME NEW k \in 0 .. n - 1, k \in T PROVE k + 1 \in T
    <3>1. k + 1 \in 1 .. n /\ k + 1 - 1 = k /\ k + 1 \in 0 .. n
      BY <1>1
    <3>2. f[k + 1] = f[k] + records[k + 1].count /\ f[k] \in Int
      BY <1>8, <2>2, <3>1
    <3> QED BY <1>1, <3>1, <3>2
  <2> HIDE DEF T
  <2>3. 0 .. n \subseteq T
    BY <1>1, <2>1, <2>2, RangeInduction
  <2> QED BY <2>3 DEF T
<1>11. Sums(f, records)
  BY <1>8, <1>9, <1>10 DEF Sums, n
<1> QED BY <1>5, <1>8, <1>11 DEF n

\* There is one such function.
LEMMA SumIs ==
  ASSUME NEW records \in Seq(Telemetry), NEW f, Sums(f, records)
  PROVE  Sum(records) = f[Len(records)]
<1>1. PICK g : Sums(g, records) /\ Sum(records) = g[Len(records)]
  BY SumOfPrefixes
<1> DEFINE n == Len(records)
           T == {k \in 0 .. n : f[k] = g[k]}
<1>2. n \in Nat /\ n \in 0 .. n
  OBVIOUS
<1>3. 0 \in T
  BY <1>1 DEF Sums
<1>4. ASSUME NEW k \in 0 .. n - 1, k \in T PROVE k + 1 \in T
  <2>1. k + 1 \in 1 .. n /\ k + 1 \in 0 .. n /\ k + 1 - 1 = k
    BY <1>2
  <2>2. f[k + 1] = f[k] + records[k + 1].count /\ g[k + 1] = g[k] + records[k + 1].count
    BY <1>1, <2>1 DEF Sums
  <2> QED BY <1>4, <2>1, <2>2
<1> HIDE DEF T
<1>5. 0 .. n \subseteq T
  BY <1>2, <1>3, <1>4, RangeInduction
<1> QED BY <1>1, <1>2, <1>5 DEF T

LEMMA SumOfNone == Sum(<< >>) = 0
<1>1. << >> \in Seq(Telemetry) /\ Len(<< >>) = 0
  OBVIOUS
<1>2. PICK f : Sums(f, << >>) /\ Sum(<< >>) = f[Len(<< >>)]
  BY <1>1, SumOfPrefixes
<1> QED BY <1>1, <1>2 DEF Sums

LEMMA SumOfAppend ==
  ASSUME NEW records \in Seq(Telemetry), NEW r \in Telemetry
  PROVE  Sum(records) \in Int /\ Sum(Append(records, r)) = Sum(records) + r.count
<1> DEFINE n == Len(records)
           more == Append(records, r)
<1>1. /\ n \in Nat /\ more \in Seq(Telemetry) /\ Len(more) = n + 1 /\ more[n + 1] = r
      /\ \A k \in 1 .. n : more[k] = records[k]
  BY AppendProperties
<1>2. PICK f : Sums(f, more) /\ Sum(more) = f[Len(more)]
  BY <1>1, SumOfPrefixes
<1> DEFINE g == [k \in 0 .. n |-> f[k]]
<1> HIDE DEF more
<1>3. Sums(g, records)
  <2>1. \A k \in 0 .. n : f[k] \in Int
    BY <1>1, <1>2 DEF Sums
  <2>2. \A k \in 1 .. n : f[k] = f[k - 1] + records[k].count /\ k \in 0 .. n /\ k - 1 \in 0 .. n
    BY <1>1, <1>2 DEF Sums
  <2>3. g \in [0 .. n -> Int] /\ g[0] = 0 /\ \A k \in 1 .. n : g[k] = g[k - 1] + records[k].count
    BY <1>1, <1>2, <2>1, <2>2 DEF Sums
  <2> QED BY <2>3 DEF Sums
<1>4. Sum(records) = g[n] /\ g[n] = f[n] /\ f[n] \in Int
  BY <1>1, <1>2, <1>3, SumIs DEF Sums
<1>5. f[n + 1] = f[n] + r.count
  BY <1>1, <1>2 DEF Sums
<1> QED BY <1>1, <1>2, <1>4, <1>5 DEF more

LEMMA SumOfTail ==
  ASSUME NEW records \in Seq(Telemetry), records # << >>
  PROVE  Sum(records) = Head(records).count + Sum(Tail(records))
<1> DEFINE n == Len(records)
           rest == Tail(records)
           first == Head(records).count
<1>1. /\ n \in Nat /\ n > 0 /\ rest \in Seq(Telemetry) /\ Len(rest) = n - 1
      /\ records[1].count = first
      /\ \A k \in 1 .. n - 1 : rest[k] = records[k + 1]
  BY HeadTailProperties, EmptySeq
<1>2. first \in Int
  <2>1. Head(records) \in Telemetry
    BY HeadTailProperties
  <2> QED BY <2>1 DEF Telemetry
<1>3. PICK f : Sums(f, records) /\ Sum(records) = f[n]
  BY SumOfPrefixes
<1> DEFINE g == [k \in 0 .. n - 1 |-> f[k + 1] - first]
<1> HIDE DEF rest, first
<1>4. /\ \A k \in 0 .. n - 1 : f[k + 1] \in Int
      /\ f[1] = first
      /\ \A k \in 1 .. n - 1 : f[k + 1] = f[k] + rest[k].count /\ f[k] \in Int
  <2>1. f \in [0 .. n -> Int] /\ f[0] = 0 /\ \A k \in 1 .. n : f[k] = f[k - 1] + records[k].count
    BY <1>3 DEF Sums
  <2>2. f[1] = f[0] + first
    <3>1. 1 \in 1 .. n /\ 1 - 1 = 0
      BY <1>1
    <3> QED BY <1>1, <2>1, <3>1
  <2>3. ASSUME NEW k \in 1 .. n - 1
        PROVE  f[k + 1] = f[k] + rest[k].count /\ f[k] \in Int
    <3>1. k + 1 \in 1 .. n /\ k + 1 - 1 = k /\ k \in 0 .. n
      BY <1>1
    <3>2. f[k + 1] = f[k] + records[k + 1].count /\ f[k] \in Int
      BY <2>1, <3>1
    <3> QED BY <1>1, <3>2
  <2>4. \A k \in 0 .. n - 1 : f[k + 1] \in Int
    BY <1>1, <2>1
  <2> QED BY <1>2, <2>1, <2>2, <2>3, <2>4
<1>5. Sums(g, rest)
  <2>1. g \in [0 .. n - 1 -> Int]
    BY <1>2, <1>4
  <2>2. g[0] = 0
    BY <1>1, <1>2, <1>4
  <2>3. ASSUME NEW k \in 1 .. n - 1 PROVE g[k] = g[k - 1] + rest[k].count
    <3>1. k \in 0 .. n - 1 /\ k - 1 \in 0 .. n - 1 /\ k - 1 + 1 = k
      BY <1>1
    <3>2. g[k] = f[k + 1] - first /\ g[k - 1] = f[k] - first
      BY <3>1
    <3>3. f[k + 1] = f[k] + rest[k].count /\ f[k] \in Int /\ f[k + 1] \in Int
      BY <1>4, <3>1
    <3>4. rest[k].count \in Int
      <4>1. rest[k] \in Telemetry
        BY <1>1, ElementOfSeq
      <4> QED BY <4>1 DEF Telemetry
    <3> HIDE DEF g
    <3> QED BY <1>2, <3>2, <3>3, <3>4
  <2> QED BY <1>1, <2>1, <2>2, <2>3 DEF Sums
<1>6. Sum(rest) = g[n - 1] /\ g[n - 1] = f[n] - first /\ f[n] \in Int
  <2>1. n - 1 \in 0 .. n - 1 /\ n - 1 + 1 = n
    BY <1>1
  <2> QED BY <1>1, <1>4, <1>5, <2>1, SumIs
<1> QED BY <1>2, <1>3, <1>6 DEF rest, first

(***************************************************************************)
(* Types.  That the registers hold bytes and the clocks numbers is the     *)
(* clock's invariant; the rest is the bounds of the model and the queue's. *)
(***************************************************************************)
ClockTypeOK ==
  /\ now \in Nat /\ system_time \in Nat
  /\ \A field \in DOMAIN rtc : rtc[field] \in 0 .. 255
  /\ {drift, system_drift} \subseteq Int
  /\ minutes \in 0 .. MaxMinutes /\ drifted \in 0 .. MaxDrift

BitTypeOK == {OSF, A2F, A2IE} \subseteq BOOLEAN

AppTypeOK ==
  /\ app_pc \in {"create", "gpio", "delay", "check", "restart", "time", "running"}
  /\ created \subseteq Objects /\ handlers \subseteq Pins /\ need_to_restart \in BOOLEAN
  /\ restarts \in 0 .. MaxRestarts /\ failures \in 0 .. MaxFailures

IsrTypeOK ==
  /\ pending \subseteq Pins /\ isr_pc \in {"idle", "send"} \cup Pins
  /\ holder \in {"none"} \cup Pins

CountTypeOK ==
  /\ {count, local_count, pulses, received, refused} \subseteq Nat
  /\ fram_store_queue \in Seq(Telemetry)
  /\ Len(fram_store_queue) <= StoreQueueLength

LEMMA TypeParts ==
  TypeOK <=> ClockTypeOK /\ BitTypeOK /\ AppTypeOK /\ IsrTypeOK /\ CountTypeOK
BY DEF TypeOK, ClockTypeOK, BitTypeOK, AppTypeOK, IsrTypeOK, CountTypeOK, Telemetry

LEMMA ClockTyped == ClockInv => ClockTypeOK
<1> SUFFICES ASSUME ClockInv PROVE ClockTypeOK
  OBVIOUS
<1>1. PICK tm \in CalendarTime : rtc = registers_of(tm)
  BY DEF ClockInv, Shown
<1>2. ASSUME NEW n \in 0 .. 99 PROVE digits_byte(n) \in 0 .. 255
  BY SMT DEF digits_byte
<1>3. /\ tm.tm_sec \in 0 .. 99 /\ tm.tm_min \in 0 .. 99 /\ tm.tm_hour \in 0 .. 23
      /\ tm.tm_hour \in 0 .. 99 /\ tm.tm_mday \in 0 .. 99 /\ tm.tm_mon + 1 \in 0 .. 99
      /\ tm.tm_year % 100 \in 0 .. 99
  BY CalendarFields, SMT
<1>4. hours_byte(tm.tm_hour) = digits_byte(tm.tm_hour)
  BY <1>3, ChipReadsDigits
<1>5. /\ DOMAIN rtc = {"seconds", "minutes", "hours", "date", "month", "year"}
      /\ rtc.seconds = digits_byte(tm.tm_sec) /\ rtc.minutes = digits_byte(tm.tm_min)
      /\ rtc.hours = digits_byte(tm.tm_hour) /\ rtc.date = digits_byte(tm.tm_mday)
      /\ rtc.month = digits_byte(tm.tm_mon + 1) /\ rtc.year = digits_byte(tm.tm_year % 100)
  BY <1>1, <1>4, SMT DEF registers_of
<1>6. \A field \in DOMAIN rtc : rtc[field] \in 0 .. 255
  <2>1. /\ rtc["seconds"] \in 0 .. 255 /\ rtc["minutes"] \in 0 .. 255
        /\ rtc["hours"] \in 0 .. 255 /\ rtc["date"] \in 0 .. 255
        /\ rtc["month"] \in 0 .. 255 /\ rtc["year"] \in 0 .. 255
    <3>1. /\ digits_byte(tm.tm_sec) \in 0 .. 255 /\ digits_byte(tm.tm_min) \in 0 .. 255
          /\ digits_byte(tm.tm_hour) \in 0 .. 255 /\ digits_byte(tm.tm_mday) \in 0 .. 255
          /\ digits_byte(tm.tm_mon + 1) \in 0 .. 255
          /\ digits_byte(tm.tm_year % 100) \in 0 .. 255
      BY <1>2, <1>3, Zenon
    <3> QED BY <1>5, <3>1, Zenon
  <2> QED BY <1>5, <2>1, Zenon
<1>7. {drift, system_drift} \subseteq Int
  BY Bounds, SMT DEF ClockInv, SystemTimeInv
<1> QED BY <1>6, <1>7 DEF ClockInv, SystemTimeInv, ClockTypeOK

LEMMA TypeInitially == Init => TypeOK
<1> SUFFICES ASSUME Init PROVE TypeOK
  OBVIOUS
<1>1. ClockTypeOK
  BY ClockInitially, ClockTyped
<1>2. BitTypeOK
  BY Zenon DEF Init, BitTypeOK
<1>3. AppTypeOK
  <2>1. 0 \in 0 .. MaxRestarts /\ 0 \in 0 .. MaxFailures
    BY Bounds
  <2> QED BY <2>1, Zenon DEF Init, AtStart, AppTypeOK, Objects, Pins
<1>4. IsrTypeOK
  BY Zenon DEF Init, AtStart, IsrTypeOK, Pins
<1>5. CountTypeOK
  <2>1. count = 0 /\ local_count = 0 /\ fram_store_queue = << >>
        /\ pulses = 0 /\ received = 0 /\ refused = 0
    BY Zenon DEF Init, AtStart
  <2> QED BY <2>1, Bounds, SMT DEF CountTypeOK
<1> QED BY <1>1, <1>2, <1>3, <1>4, <1>5, TypeParts

LEMMA TypesAfterRestart ==
  ASSUME AppTypeOK, esp_restart, restarts' \in 0 .. MaxRestarts
  PROVE  AppTypeOK' /\ IsrTypeOK' /\ CountTypeOK'
<1>1. AppTypeOK' /\ IsrTypeOK'
  BY Zenon DEF esp_restart, AppTypeOK, IsrTypeOK, Objects, Pins
<1>2. CountTypeOK'
  <2>1. /\ count' = 0 /\ local_count' = 0 /\ fram_store_queue' = << >>
        /\ pulses' = 0 /\ received' = 0 /\ refused' = 0
    BY DEF esp_restart
  <2> QED BY <2>1, Bounds, SMT DEF CountTypeOK
<1> QED BY <1>1, <1>2

\* A step keeps the types when the parts that it writes have theirs.
LEMMA AppTypeStep ==
  ASSUME TypeOK, [Next]_vars
  PROVE  BitTypeOK' /\ AppTypeOK'
<1> USE TypeParts
<1>1. CASE Restart
  <2>1. restarts' \in 0 .. MaxRestarts
    BY <1>1, Bounds, SMT DEF Restart, AppTypeOK
  <2>2. BitTypeOK'
    BY <1>1, Zenon DEF Restart, esp_restart, BitTypeOK
  <2> QED BY <1>1, <2>1, <2>2, TypesAfterRestart DEF Restart
<1>2. CASE RestartIncomplete \/ (SendRecord /\ esp_restart)
  <2>1. esp_restart /\ UNCHANGED <<restarts, OSF>> 
    BY <1>2 DEF RestartIncomplete, SendRecord, bounds, rtc_vars
  <2>2. BitTypeOK'
    BY <2>1, Zenon DEF esp_restart, BitTypeOK
  <2> QED BY <2>1, <2>2, TypesAfterRestart DEF AppTypeOK
<1>3. CASE Create
  <2>1. PICK missing \in SUBSET (Objects \ {"count_gatekeeper"}) :
          /\ failures' = failures + Cardinality(missing)
          /\ created' = Objects \ ({"count_gatekeeper"} \cup missing)
          /\ need_to_restart' = (missing # {})
    BY <1>3 DEF Create
  <2>2. Cardinality(missing) \in Nat
    <3>1. IsFiniteSet({} \cup {"fram_store_queue"} \cup {"upload_queue"} \cup {"ack_queue"}
                       \cup {"status_struct_gatekeeper"} \cup {"count_gatekeeper"})
      BY FS_EmptySet, FS_AddElement, Zenon
    <3>2. Objects = {} \cup {"fram_store_queue"} \cup {"upload_queue"} \cup {"ack_queue"}
                    \cup {"status_struct_gatekeeper"} \cup {"count_gatekeeper"}
      BY DEF Objects
    <3> QED BY <2>1, <3>1, <3>2, FS_Subset, FS_CardinalityType
  <2>3. failures' \in 0 .. MaxFailures
    BY <1>3, <2>1, <2>2, Bounds, SMT DEF Create, AppTypeOK
  <2>4. need_to_restart' \in BOOLEAN
    BY <2>1, Zenon
  <2>5. /\ app_pc' = "gpio" /\ created' \subseteq Objects
        /\ UNCHANGED <<OSF, A2F, A2IE, handlers, restarts>>
    BY <1>3, <2>1 DEF Create, rtc_vars
  <2> QED BY <2>3, <2>4, <2>5, Zenon DEF AppTypeOK, BitTypeOK
<1>4. CASE gpio_initial_setup
  <2>1. failures' \in 0 .. MaxFailures
    <3>1. /\ failures' = failures \/ (failures < MaxFailures /\ failures' = failures + 1)
          /\ failures \in 0 .. MaxFailures
      BY <1>4 DEF gpio_initial_setup, AppTypeOK
    <3> QED BY <3>1, Bounds
  <2>2. /\ created' \subseteq Objects /\ handlers' \subseteq Pins
        /\ app_pc' \in {"delay", "check"} /\ UNCHANGED <<OSF, A2F, A2IE, restarts>>
    BY <1>4 DEF gpio_initial_setup, AppTypeOK, Objects, rtc_vars
  <2>3. need_to_restart' \in BOOLEAN
    BY <1>4, Zenon DEF gpio_initial_setup, AppTypeOK, setup_failed
  <2> QED BY <2>1, <2>2, <2>3, Zenon DEF AppTypeOK, BitTypeOK
<1>5. CASE CheckStart
  BY <1>5, Zenon DEF CheckStart, AppTypeOK, BitTypeOK, rtc_vars, bounds
<1>6. CASE time_init
  BY <1>6, Zenon DEF time_init, AppTypeOK, BitTypeOK, bounds
<1>7. CASE Minute
  <2>1. A2F' \in BOOLEAN
    BY <1>7, Zenon DEF Minute, BitTypeOK
  <2>2. UNCHANGED <<OSF, A2IE, app_pc, created, handlers, need_to_restart, restarts, failures>>
    BY <1>7, Zenon DEF Minute, app_vars
  <2> QED BY <2>1, <2>2, Zenon DEF AppTypeOK, BitTypeOK
<1>8. CASE ReceiveRecord
  BY <1>8, Zenon DEF ReceiveRecord, AppTypeOK, BitTypeOK, app_vars, bounds
<1>9. CASE time_sync_notification_cb
  <2>1. /\ OSF' = OSF \/ OSF' = FALSE
        /\ UNCHANGED <<A2F, A2IE, app_pc, created, handlers, need_to_restart, restarts, failures>>
    BY <1>9, Zenon DEF time_sync_notification_cb, app_vars, bounds
  <2> QED BY <2>1, Zenon DEF AppTypeOK, BitTypeOK
<1>10. CASE Pulse \/ EnterHandler \/ counter_isr \/ TakeCount
            \/ (SendRecord /\ ~esp_restart) \/ UNCHANGED vars
  <2>1. UNCHANGED <<rtc_vars, app_vars, bounds>>
    BY <1>10 DEF Pulse, EnterHandler, counter_isr, TakeCount, SendRecord, vars
  <2> QED BY <2>1, Zenon DEF AppTypeOK, BitTypeOK, rtc_vars, app_vars, bounds
<1> QED BY <1>1, <1>2, <1>3, <1>4, <1>5, <1>6, <1>7, <1>8, <1>9, <1>10
        DEF Next, app_main, rtc_alarm_isr

LEMMA IsrTypeStep ==
  ASSUME TypeOK, ClockTypeOK', [Next]_vars
  PROVE  IsrTypeOK' /\ CountTypeOK'
<1> USE TypeParts
<1>1. CASE esp_restart
  <2>1. AppTypeOK /\ 0 \in 0 .. MaxRestarts
    BY Bounds
  <2>2. /\ count' = 0 /\ local_count' = 0 /\ fram_store_queue' = << >>
        /\ pulses' = 0 /\ received' = 0 /\ refused' = 0
        /\ pending' = {} /\ isr_pc' = "idle" /\ holder' = "none"
    BY <1>1 DEF esp_restart
  <2>3. CountTypeOK'
    BY <2>2, Bounds, SMT DEF CountTypeOK
  <2> QED BY <2>2, <2>3 DEF IsrTypeOK
<1>2. CASE Minute
  <2>1. /\ pending' \subseteq Pins
        /\ UNCHANGED <<isr_pc, holder, count, local_count, fram_store_queue, pulses,
                       received, refused>>
    BY <1>2 DEF Minute, Pins
  <2> QED BY <2>1 DEF IsrTypeOK, CountTypeOK
<1>3. CASE Pulse
  <2>1. /\ pending' \subseteq Pins /\ pulses' = pulses + 1
        /\ UNCHANGED <<isr_pc, holder, count, local_count, fram_store_queue,
                       received, refused>>
    BY <1>3 DEF Pulse, Pins, IsrTypeOK, isr_vars
  <2> QED BY <2>1 DEF IsrTypeOK, CountTypeOK
<1>4. CASE EnterHandler
  <2>1. /\ pending' \subseteq Pins /\ isr_pc' \in Pins /\ holder' \in {"none"} \cup Pins
        /\ UNCHANGED <<count, local_count, fram_store_queue, pulses, received, refused>>
    BY <1>4 DEF EnterHandler, IsrTypeOK, history
  <2> QED BY <2>1 DEF IsrTypeOK, CountTypeOK
<1>5. CASE counter_isr
  <2>1. /\ isr_pc' = "idle" /\ holder' \in {holder, "none"} /\ count' \in {count, count + 1}
        /\ UNCHANGED <<pending, local_count, fram_store_queue, pulses, received, refused>>
    BY <1>5 DEF counter_isr, history
  <2> QED BY <2>1 DEF IsrTypeOK, CountTypeOK
<1>6. CASE TakeCount
  <2>1. /\ isr_pc' \in {"idle", "send"} /\ holder' \in {holder, "none"}
        /\ count' \in {count, 0} /\ local_count' \in {local_count, count}
        /\ UNCHANGED <<pending, fram_store_queue, pulses, received, refused>>
    BY <1>6 DEF TakeCount, count_after_alarm, holder_after_alarm, history
  <2> QED BY <2>1 DEF IsrTypeOK, CountTypeOK
<1>7. CASE SendRecord /\ ~esp_restart
  <2>1. /\ isr_pc' = "idle" /\ local_count' = 0
        /\ UNCHANGED <<pending, holder, count, pulses, received>>
    BY <1>7 DEF SendRecord
  <2>2. \/ /\ fram_store_queue' = Append(fram_store_queue,
                                        [time |-> system_time, count |-> local_count])
           /\ Len(fram_store_queue) < StoreQueueLength /\ refused' = refused
        \/ fram_store_queue' = fram_store_queue /\ refused' = refused + local_count
    BY <1>7 DEF SendRecord, HasRoom
  <2>3. [time |-> system_time, count |-> local_count] \in Telemetry
    BY DEF Telemetry, ClockTypeOK, CountTypeOK
  <2>4. CASE fram_store_queue' = fram_store_queue /\ refused' = refused + local_count
    BY <2>1, <2>4 DEF IsrTypeOK, CountTypeOK
  <2>5. CASE /\ fram_store_queue' = Append(fram_store_queue,
                                        [time |-> system_time, count |-> local_count])
             /\ Len(fram_store_queue) < StoreQueueLength /\ refused' = refused
    <3>1. /\ fram_store_queue' \in Seq(Telemetry)
          /\ Len(fram_store_queue') <= StoreQueueLength
      BY <2>3, <2>5, AppendProperties, Bounds DEF CountTypeOK
    <3> QED BY <2>1, <2>5, <3>1 DEF IsrTypeOK, CountTypeOK
  <2> QED BY <2>2, <2>4, <2>5
<1>8. CASE ReceiveRecord
  <2>1. /\ fram_store_queue \in Seq(Telemetry) /\ fram_store_queue # << >>
        /\ received' = received + Head(fram_store_queue).count
        /\ fram_store_queue' = Tail(fram_store_queue)
        /\ UNCHANGED <<pending, isr_pc, holder, count, local_count, pulses, refused>>
    BY <1>8 DEF ReceiveRecord, isr_vars, CountTypeOK
  <2>2. /\ Head(fram_store_queue) \in Telemetry /\ fram_store_queue' \in Seq(Telemetry)
        /\ Len(fram_store_queue') = Len(fram_store_queue) - 1
    BY <2>1, HeadTailProperties
  <2>3. received' \in Nat /\ Len(fram_store_queue') <= StoreQueueLength
    BY <2>1, <2>2, Bounds DEF CountTypeOK, Telemetry
  <2> QED BY <2>1, <2>2, <2>3 DEF IsrTypeOK, CountTypeOK
<1>9. CASE \/ Create \/ gpio_initial_setup \/ CheckStart \/ time_init
           \/ time_sync_notification_cb \/ UNCHANGED vars
  <2>1. UNCHANGED <<pending, isr_pc, holder, count, local_count, fram_store_queue, pulses,
                    received, refused>>
    BY <1>9 DEF Create, gpio_initial_setup, CheckStart, time_init, time_sync_notification_cb,
                vars, isr_vars, history
  <2> QED BY <2>1 DEF IsrTypeOK, CountTypeOK
<1> QED BY <1>1, <1>2, <1>3, <1>4, <1>5, <1>6, <1>7, <1>8, <1>9
        DEF Next, Restart, app_main, RestartIncomplete, rtc_alarm_isr

(***************************************************************************)
(* Every variable has its type: the registers hold bytes, no pulse count   *)
(* goes below zero, and fram_store_queue never has more records than were  *)
(* made room for (gpio.c:53-85, app_main.c:149).                           *)
(***************************************************************************)
THEOREM MeteringTypes == Spec => []TypeOK
<1>1. TypeOK /\ ClockInv /\ ClockInv' /\ [Next]_vars => TypeOK'
  <2> SUFFICES ASSUME TypeOK, ClockInv', [Next]_vars PROVE TypeOK'
    OBVIOUS
  <2>1. ClockTypeOK'
    BY ClockTyped, PTL
  <2>2. BitTypeOK' /\ AppTypeOK'
    BY AppTypeStep
  <2>3. IsrTypeOK' /\ CountTypeOK'
    BY <2>1, IsrTypeStep
  <2> QED BY <2>1, <2>2, <2>3 DEF TypeOK, ClockTypeOK, BitTypeOK, AppTypeOK, IsrTypeOK,
                                  CountTypeOK, Telemetry
<1> QED BY <1>1, TypeInitially, ClockAlways, PTL DEF Spec

\* Whether a pulse waits, or is in its handler, as a number.
LEMMA Waiting ==
  \A S : Cardinality({"counter"} \cap S) = IF "counter" \in S THEN 1 ELSE 0
<1> SUFFICES ASSUME NEW S
             PROVE  Cardinality({"counter"} \cap S) = IF "counter" \in S THEN 1 ELSE 0
  OBVIOUS
<1>1. CASE "counter" \in S
  <2>1. {"counter"} \cap S = {"counter"}
    BY <1>1
  <2> QED BY <1>1, <2>1, FS_Singleton
<1>2. CASE "counter" \notin S
  <2>1. {"counter"} \cap S = {}
    BY <1>2
  <2> QED BY <1>2, <2>1, FS_EmptySet
<1> QED BY <1>1, <1>2

\* The pulses of CountedOnce, place by place.
InHandler == (IF "counter" \in pending THEN 1 ELSE 0) + (IF isr_pc = "counter" THEN 1 ELSE 0)
Held == IF isr_pc = "send" THEN local_count ELSE 0
Counted == InHandler + count + Held + Sum(fram_store_queue) + received + refused

LEMMA HeldTimes ==
  \A n \in Nat : \A pc : n * (IF pc = "send" THEN 1 ELSE 0) = IF pc = "send" THEN n ELSE 0
OBVIOUS

LEMMA SumTyped == \A records \in Seq(Telemetry) : Sum(records) \in Int
<1> SUFFICES ASSUME NEW records \in Seq(Telemetry) PROVE Sum(records) \in Int
  OBVIOUS
<1>1. PICK f : Sums(f, records) /\ Sum(records) = f[Len(records)]
  BY SumOfPrefixes
<1> QED BY <1>1 DEF Sums

LEMMA CountedStep ==
  ASSUME TypeOK, TypeOK', MutexInv, CountedOnce, [Next]_vars
  PROVE  CountedOnce'
<1>1. /\ IsrTypeOK /\ CountTypeOK /\ IsrTypeOK' /\ CountTypeOK' /\ ClockTypeOK
      /\ Sum(fram_store_queue) \in Int /\ Sum(fram_store_queue') \in Int
  <2>1. TypeOK' => CountTypeOK' /\ IsrTypeOK'
    BY TypeParts, PTL
  <2> QED BY <2>1, TypeParts, SumTyped DEF CountTypeOK
<1>2. /\ count \in Nat /\ local_count \in Nat /\ received \in Nat /\ refused \in Nat
      /\ fram_store_queue \in Seq(Telemetry)
  BY <1>1 DEF CountTypeOK
<1>3. pulses = Counted
  <2>1. /\ Cardinality({"counter"} \cap pending) = IF "counter" \in pending THEN 1 ELSE 0
        /\ Cardinality({"counter"} \cap {isr_pc}) = IF isr_pc = "counter" THEN 1 ELSE 0
    BY Waiting
  <2>2. local_count * (IF isr_pc = "send" THEN 1 ELSE 0) = Held
    BY <1>2, HeldTimes DEF Held
  <2> QED BY <2>1, <2>2 DEF CountedOnce, Counted, InHandler
<1>4. SUFFICES pulses' = Counted'
  <2>1. /\ Cardinality({"counter"} \cap pending') = IF "counter" \in pending' THEN 1 ELSE 0
        /\ Cardinality({"counter"} \cap {isr_pc'}) = IF isr_pc' = "counter" THEN 1 ELSE 0
    BY Waiting
  <2>2. local_count' * (IF isr_pc' = "send" THEN 1 ELSE 0) = Held'
    BY <1>1, HeldTimes DEF Held, CountTypeOK
  <2> QED BY <2>1, <2>2 DEF CountedOnce, Counted, InHandler
<1>5. CASE esp_restart
  <2>1. /\ count' = 0 /\ local_count' = 0 /\ fram_store_queue' = << >>
        /\ pulses' = 0 /\ received' = 0 /\ refused' = 0 /\ pending' = {} /\ isr_pc' = "idle"
    BY <1>5 DEF esp_restart
  <2>2. Sum(fram_store_queue') = 0
    BY <2>1, SumOfNone
  <2> QED BY <2>1, <2>2 DEF Counted, InHandler, Held
<1>6. CASE Minute
  <2>1. /\ pending = {} /\ isr_pc = "idle" /\ "counter" \notin pending'
        /\ UNCHANGED <<isr_pc, count, local_count, fram_store_queue, pulses, received, refused>>
    BY <1>6 DEF Minute
  <2> QED BY <1>3, <2>1 DEF Counted, InHandler, Held
<1>7. CASE Pulse
  <2>1. /\ "counter" \notin pending /\ "counter" \in pending' /\ pulses' = pulses + 1
        /\ UNCHANGED <<isr_pc, count, local_count, fram_store_queue, received, refused>>
    BY <1>7 DEF Pulse, isr_vars
  <2>2. InHandler' = InHandler + 1 /\ InHandler \in Int /\ Held' = Held /\ Held \in Int
    BY <1>2, <2>1 DEF InHandler, Held
  <2> QED BY <1>1, <1>2, <1>3, <2>1, <2>2 DEF Counted
<1>8. CASE EnterHandler
  <2>1. PICK pin \in pending : isr_pc = "idle" /\ pending' = pending \ {pin} /\ isr_pc' = pin
    BY <1>8 DEF EnterHandler
  <2>2. /\ UNCHANGED <<count, local_count, fram_store_queue, pulses, received, refused>>
        /\ pin \in {"alarm", "counter"}
    BY <1>1, <1>8 DEF EnterHandler, IsrTypeOK, Pins, history
  <2>3. InHandler' = InHandler /\ Held' = Held
    BY <2>1, <2>2 DEF InHandler, Held
  <2> QED BY <1>3, <2>2, <2>3 DEF Counted
<1>9. CASE counter_isr
  <2>1. /\ isr_pc = "counter" /\ isr_pc' = "idle" /\ count' = count + 1
        /\ UNCHANGED <<pending, local_count, fram_store_queue, pulses, received, refused>>
    BY <1>9 DEF counter_isr, MutexInv, NeverWithoutMutex, Pins, history
  <2>2. InHandler = InHandler' + 1 /\ InHandler' \in Int /\ Held' = Held /\ Held \in Int
    BY <1>2, <2>1 DEF InHandler, Held
  <2> QED BY <1>1, <1>2, <1>3, <2>1, <2>2 DEF Counted
<1>10. CASE TakeCount
  <2>1. /\ isr_pc = "alarm" /\ isr_pc' = "send" /\ local_count' = count /\ count' = 0
        /\ UNCHANGED <<pending, fram_store_queue, pulses, received, refused>>
    BY <1>10 DEF TakeCount, MutexInv, NeverWithoutMutex, Pins, count_after_alarm, history
  <2>2. InHandler' = InHandler /\ InHandler \in Int /\ Held = 0 /\ Held' = count
    BY <1>2, <2>1 DEF InHandler, Held
  <2> QED BY <1>1, <1>2, <1>3, <2>1, <2>2 DEF Counted
<1>11. CASE SendRecord /\ ~esp_restart
  <2> DEFINE telemetry == [time |-> system_time, count |-> local_count]
  <2>1. /\ isr_pc = "send" /\ isr_pc' = "idle"
        /\ UNCHANGED <<pending, count, pulses, received>>
    BY <1>11 DEF SendRecord
  <2>2. \/ fram_store_queue' = Append(fram_store_queue, telemetry) /\ refused' = refused
        \/ fram_store_queue' = fram_store_queue /\ refused' = refused + local_count
    BY <1>11 DEF SendRecord
  <2>3. telemetry \in Telemetry /\ telemetry.count = local_count
    BY <1>1 DEF Telemetry, ClockTypeOK, CountTypeOK
  <2>4. InHandler' = InHandler /\ InHandler \in Int /\ Held = local_count /\ Held' = 0
    BY <2>1 DEF InHandler, Held
  <2>5. Sum(fram_store_queue') + refused' = Sum(fram_store_queue) + refused + local_count
        /\ Sum(fram_store_queue') \in Int /\ refused' \in Int
    <3> HIDE DEF telemetry
    <3>1. Sum(Append(fram_store_queue, telemetry)) = Sum(fram_store_queue) + telemetry.count
      BY <1>2, <2>3, SumOfAppend
    <3>2. CASE fram_store_queue' = Append(fram_store_queue, telemetry) /\ refused' = refused
      BY <1>1, <1>2, <2>3, <3>1, <3>2
    <3>3. CASE fram_store_queue' = fram_store_queue /\ refused' = refused + local_count
      BY <1>1, <1>2, <3>3
    <3> QED BY <2>2, <3>2, <3>3
  <2> HIDE DEF telemetry
  <2>6. Counted' = InHandler' + count' + Held' + Sum(fram_store_queue') + received' + refused'
    BY DEF Counted
  <2>7. pulses = InHandler + count + Held + Sum(fram_store_queue) + received + refused
    BY <1>3 DEF Counted
  <2>8. /\ pulses' = pulses /\ count' = count /\ received' = received
        /\ count \in Int /\ received \in Int /\ refused \in Int
        /\ Sum(fram_store_queue) \in Int /\ local_count \in Int
    BY <1>1, <1>2, <2>1
  <2> QED BY <2>4, <2>5, <2>6, <2>7, <2>8, SMT
<1>12. CASE ReceiveRecord
  <2>1. /\ fram_store_queue # << >> /\ fram_store_queue' = Tail(fram_store_queue)
        /\ received' = received + Head(fram_store_queue).count
        /\ UNCHANGED <<pending, isr_pc, count, local_count, pulses, refused>>
    BY <1>12 DEF ReceiveRecord, isr_vars
  <2>2. /\ Sum(fram_store_queue) = Head(fram_store_queue).count + Sum(fram_store_queue')
        /\ Head(fram_store_queue).count \in Int /\ Sum(fram_store_queue') \in Int
    <3>1. Head(fram_store_queue) \in Telemetry
      BY <1>2, <2>1, HeadTailProperties
    <3>2. Sum(fram_store_queue) = Head(fram_store_queue).count + Sum(fram_store_queue')
      BY <1>2, <2>1, SumOfTail
    <3> QED BY <1>1, <3>1, <3>2 DEF Telemetry
  <2>3. InHandler' = InHandler /\ InHandler \in Int /\ Held' = Held /\ Held \in Int
    BY <1>2, <2>1 DEF InHandler, Held
  <2> QED BY <1>1, <1>2, <1>3, <2>1, <2>2, <2>3, SMTT(60) DEF Counted
<1>13. CASE \/ Create \/ gpio_initial_setup \/ CheckStart \/ time_init
            \/ time_sync_notification_cb \/ UNCHANGED vars
  <2>1. UNCHANGED <<pending, isr_pc, count, local_count, fram_store_queue, pulses,
                    received, refused>>
    BY <1>13 DEF Create, gpio_initial_setup, CheckStart, time_init, time_sync_notification_cb,
                 vars, isr_vars, history
  <2> QED BY <1>3, <2>1 DEF Counted, InHandler, Held
<1> QED BY <1>5, <1>6, <1>7, <1>8, <1>9, <1>10, <1>11, <1>12, <1>13
        DEF Next, Restart, app_main, RestartIncomplete, rtc_alarm_isr

(***************************************************************************)
(* Every pulse since the start is in exactly one place, however many there *)
(* are and however the handlers follow each other: none is dropped, and    *)
(* none is in two records (gpio.c:53-85).                                  *)
(***************************************************************************)
THEOREM PulsesCountedOnce == Spec => []CountedOnce
<1>1. Init => CountedOnce
  <2> SUFFICES ASSUME Init PROVE CountedOnce
    OBVIOUS
  <2>1. /\ count = 0 /\ local_count = 0 /\ fram_store_queue = << >>
        /\ pulses = 0 /\ received = 0 /\ refused = 0 /\ pending = {} /\ isr_pc = "idle"
    BY DEF Init, AtStart
  <2> QED BY <2>1, Waiting, SumOfNone DEF CountedOnce
<1>2. TypeOK /\ TypeOK' /\ MutexInv /\ CountedOnce /\ [Next]_vars => CountedOnce'
  BY CountedStep
<1> QED BY <1>1, <1>2, MeteringTypes, MutexAlways, PTL DEF Spec
===============================================================================
