-------------------------- MODULE MCTelemetryPipeline --------------------------
(***************************************************************************)
(* TelemetryPipeline with two valid values, one with a time in the past    *)
(* and 0, and small budgets for what the environment does.                 *)
(***************************************************************************)
EXTENDS TelemetryPipeline

MCTelemetry == {0, 10, 20, 30}

MCBudget(alarms, clears, restarts, losses, glitches) ==
  [e \in Events |-> CASE e = "alarm" -> alarms
                      [] e = "early_clear" -> clears
                      [] e = "restart_request" -> restarts
                      [] e = "power_loss" -> losses
                      [] e = "glitch" -> glitches]

NoGlitch == MCBudget(3, 1, 1, 1, 0)
OneGlitch == MCBudget(2, 0, 1, 1, 1)
PowerCut == MCBudget(1, 0, 0, 1, 0)
===============================================================================
