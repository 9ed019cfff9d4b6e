----------------------------- MODULE MCStatusReport -----------------------------
(***************************************************************************)
(* StatusReport with an hour of two minutes, a minute_count that overflows *)
(* at six, one turn of the upload task's loop later, and one kind of error *)
(* that either task may count.                                             *)
(***************************************************************************)
EXTENDS StatusReport

CONSTANTS error

MCErrors == {error}
MCFramLevels == {1}
MCRssis == {-1}
===============================================================================
