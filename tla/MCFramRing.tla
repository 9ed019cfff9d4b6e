------------------------------ MODULE MCFramRing ------------------------------
(***************************************************************************)
(* FramRing with five slots: every position of both pointers, full with    *)
(* one and with two slots free, and wrapped records, are all reached.      *)
(***************************************************************************)
EXTENDS FramRing

MCLimit == 40
MCTelemetry == {0, 1, 2}
===============================================================================
