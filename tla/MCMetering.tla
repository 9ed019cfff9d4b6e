------------------------------ MODULE MCMetering ------------------------------
(***************************************************************************)
(* Metering from times just before the calendar's boundaries.              *)
(***************************************************************************)
EXTENDS Metering

At(year, month, day, hour, minute) ==
  mktime([tm_sec |-> 0, tm_min |-> minute, tm_hour |-> hour, tm_mday |-> day,
          tm_mon |-> month - 1, tm_year |-> year - 1900])

MCStarts == {At(2021, 2, 28, 23, 58), At(2023, 12, 31, 23, 59), At(2024, 2, 28, 23, 59),
             At(2024, 2, 29, 23, 59), At(2025, 9, 30, 23, 59), At(2029, 10, 9, 9, 59),
             At(2035, 1, 19, 19, 59)}
===============================================================================
