------------------------------- MODULE MCRtcClock -------------------------------
(***************************************************************************)
(* RtcClock with a queue of two, two restarts and two failed transfers.    *)
(***************************************************************************)
EXTENDS RtcClock
===============================================================================
