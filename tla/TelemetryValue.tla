----------------------------- MODULE TelemetryValue -----------------------------
(***************************************************************************)
(* A telemetry value is the time in seconds in its upper half and the      *)
(* minute's count in its lower half (gpio.c, rtc_alarm_isr).  Shift stands *)
(* for 2^32.                                                               *)
(***************************************************************************)
EXTENDS Integers

CONSTANTS Telemetry,               \* the values that occur
          Shift,
          CONFIG_LAST_KNOWN_UNIX   \* a time in the past; clocks before it are wrong

ASSUME ValueAssumption == /\ Telemetry \subseteq Nat /\ 0 \in Telemetry
                          /\ Shift \in Nat \ {0}
                          /\ CONFIG_LAST_KNOWN_UNIX \in Nat

unix_time(t) == t \div Shift

\* What the FRAM task takes for a valid record.
valid(t) == unix_time(t) > CONFIG_LAST_KNOWN_UNIX
===============================================================================
