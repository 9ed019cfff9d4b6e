------------------------------- MODULE RtcCodec -------------------------------
(***************************************************************************)
(* Times and the calendar registers of the DS3231: what rtc_set_date_time  *)
(* writes to them and what rtc_get_unix makes of what it reads.  gmtime    *)
(* and mktime are the C library's, for UTC, and Advance is what the chip   *)
(* does by itself.                                                         *)
(***************************************************************************)
EXTENDS Integers

\* struct tm; tm_mon counts from 0 and tm_year from 1900.
IsLeap(year) == year % 4 = 0 /\ (year % 100 # 0 \/ year % 400 = 0)

\* Days in a year before a month, and those of a month.
DaysBefore(month, leap) ==
  <<0, 31, 59, 90, 120, 151, 181, 212, 243, 273, 304, 334, 365>>[month]
    + (IF leap /\ month > 2 THEN 1 ELSE 0)
DaysOf(month, leap) == DaysBefore(month + 1, leap) - DaysBefore(month, leap)

\* Days from the epoch to a year.
LeapYearsUntil(year) == year \div 4 - year \div 100 + year \div 400
YearStart(year) == 365 * (year - 1970) + LeapYearsUntil(year - 1) - LeapYearsUntil(1969)

\* A time in the century that the two digits of the year stand for.
InCentury(unix) == unix \div 86400 \in YearStart(2000) .. YearStart(2100) - 1

mktime(tm) ==
  LET year == tm.tm_year + 1900
      days == YearStart(year) + DaysBefore(tm.tm_mon + 1, IsLeap(year)) + tm.tm_mday - 1
  IN 86400 * days + 3600 * tm.tm_hour + 60 * tm.tm_min + tm.tm_sec

gmtime(unix) ==
  LET days  == unix \div 86400
      year  == CHOOSE y \in 1970 .. 2099 : days \in YearStart(y) .. YearStart(y + 1) - 1
      day   == days - YearStart(year)
      month == CHOOSE m \in 1 .. 12 :
                 day \in DaysBefore(m, IsLeap(year)) .. DaysBefore(m + 1, IsLeap(year)) - 1
  IN [tm_sec |-> unix % 60, tm_min |-> (unix \div 60) % 60, tm_hour |-> (unix \div 3600) % 24,
      tm_mday |-> day - DaysBefore(month, IsLeap(year)) + 1,
      tm_mon |-> month - 1, tm_year |-> year - 1900]
-------------------------------------------------------------------------------
\* The digits of a number below 100 in the halves of a byte.
digits_byte(n) == 16 * (n \div 10) + (n % 10)

\* Slip of hours_byte: the bit for the twenties is taken for an hour format's.
hours_byte_without_twenties(h) == 16 * (IF h >= 10 THEN 1 ELSE 0) + ((h % 20) % 10)

\* Bit 6 is 0 for the 24 hour format, bits 5 and 4 are the first digit.
hours_byte(h) == 32 * (IF h >= 20 THEN 1 ELSE 0)
                   + 16 * (IF h >= 10 /\ h <= 19 THEN 1 ELSE 0)
                   + ((h % 20) % 10)

\* The registers that rtc_set_date_time writes.
registers_of(tm) ==
  [seconds |-> digits_byte(tm.tm_sec),
   minutes |-> digits_byte(tm.tm_min),
   hours   |-> hours_byte(tm.tm_hour),
   date    |-> digits_byte(tm.tm_mday),
   month   |-> digits_byte(tm.tm_mon + 1),
   year    |-> digits_byte(tm.tm_year % 100)]

bcd_to_uint8(val) == val - 6 * (val \div 16)

\* Bit 6 set is the 12 hour format, and bit 5 then means the afternoon.
bcd_to_bin_24h(bcdHour) ==
  IF (bcdHour \div 64) % 2 = 1
  THEN bcd_to_uint8(bcdHour % 32) + (IF (bcdHour \div 32) % 2 = 1 THEN 12 ELSE 0)
  ELSE bcd_to_uint8(bcdHour)

\* What rtc_get_unix gives to mktime.  Bit 7 of the month's is the century.
tm_of(registers) ==
  [tm_sec  |-> bcd_to_uint8(registers.seconds % 128),
   tm_min  |-> bcd_to_uint8(registers.minutes),
   tm_hour |-> bcd_to_bin_24h(registers.hours),
   tm_mday |-> bcd_to_uint8(registers.date),
   tm_mon  |-> bcd_to_uint8(registers.month % 128) - 1,
   tm_year |-> bcd_to_uint8(registers.year) + 2000 - 1900]
-------------------------------------------------------------------------------
\* The chip counts in these digits; it takes every fourth year for a leap year.
Digits(byte) == 10 * (byte \div 16) + (byte % 16)

Advance(registers, s) ==
  LET second == Digits(registers.seconds) + s
      minute == Digits(registers.minutes) + second \div 60
      hour   == Digits(registers.hours) + minute \div 60
      leap   == Digits(registers.year) % 4 = 0
      days   == DaysOf(Digits(registers.month), leap)
      day    == Digits(registers.date) - 1 + hour \div 24
      month  == Digits(registers.month) - 1 + day \div days
      year   == Digits(registers.year) + month \div 12
  IN [seconds |-> digits_byte(second % 60), minutes |-> digits_byte(minute % 60),
      hours |-> digits_byte(hour % 24), date |-> digits_byte((day % days) + 1),
      month |-> digits_byte((month % 12) + 1), year |-> digits_byte(year % 100)]

\* A chip that was never set.
NeverSet == [seconds |-> 0, minutes |-> 0, hours |-> 0, date |-> 1, month |-> 1, year |-> 0]
===============================================================================
