----------------------------- MODULE PhaseProtocol -----------------------------
(***************************************************************************)
(* What the lifecycle of an experiment promises to whoever reads its       *)
(* phase: the experiment moves along the transition table, a failure is    *)
(* never forgotten, and a failed experiment never becomes a success.       *)
(* The table alone does not say so: it lets "failed" reach "cleaning_up"   *)
(* and "cleaning_up" reach "success".                                      *)
(***************************************************************************)
EXTENDS ExperimentPhases

VARIABLES
  phase,     \* the phase a reader sees
  failed     \* some step of the experiment has raised

vars == <<phase, failed>>

Init == phase = "created" /\ ~failed

\* The next phase of the pipeline, open only to a run in which nothing failed.
Progress ==
  /\ ~failed
  /\ \E target \in Phases \ {"failed"} :
       /\ CanTransition(phase, target)
       /\ phase' = target
  /\ UNCHANGED failed

\* A step before the clean-up raises.
Fail ==
  /\ CanTransition(phase, "failed")
  /\ phase' = "failed"
  /\ failed' = TRUE

\* The clean-up itself raises: the table has no way back, the phase stays.
CleanupFails ==
  /\ phase = "cleaning_up"
  /\ failed' = TRUE
  /\ UNCHANGED phase

\* A failed experiment is cleaned up.
CleanUpAfterFailure ==
  /\ phase = "failed"
  /\ phase' = "cleaning_up"
  /\ UNCHANGED failed

Next == Progress \/ Fail \/ CleanupFails \/ CleanUpAfterFailure

Spec == Init /\ [][Next]_vars
=============================================================================
