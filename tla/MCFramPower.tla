------------------------------ MODULE MCFramPower ------------------------------
(***************************************************************************)
(* FramPower with four slots, 4, 8, 12 and 16.  With eight values to a     *)
(* byte the pointers are 04, 10, 14 and 20 in octal, so every second step  *)
(* carries, and a torn one can point beyond the end or to the pointers     *)
(* themselves, where the upper half of a record becomes `bottom'.          *)
(***************************************************************************)
EXTENDS FramPower

MCTelemetry == {65, 2049}   \* 0101 and 4001 in octal
===============================================================================
