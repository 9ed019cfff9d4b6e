------------------------------ MODULE MCConnectivity ------------------------------
(***************************************************************************)
(* Connectivity with limits of one, a JWT of two ticks, a device delivered *)
(* with version 1 and configurations that ask for two others.              *)
(***************************************************************************)
EXTENDS Connectivity

MCConfigs == {[version |-> "2", url |-> "u2"], [version |-> "3", url |-> "u3"]}

\* No update is offered.
MCSettled == {[version |-> "1", url |-> "u1"]}
===============================================================================
