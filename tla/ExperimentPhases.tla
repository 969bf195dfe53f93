--------------------------- MODULE ExperimentPhases ---------------------------
(***************************************************************************)
(* The phases of an experiment and the transition table that StateMachine  *)
(* builds from its pipeline.  Every module that moves an experiment        *)
(* through its phases uses this table.                                     *)
(***************************************************************************)
EXTENDS Naturals, Sequences

\* The order of a run in which nothing fails.
Pipeline ==
  << "created", "preparing", "workload_starting", "warmup", "baseline",
     "planning", "validating", "injecting", "observing", "recovering",
     "evaluating", "cleaning_up", "success" >>

Phases == {Pipeline[i] : i \in 1..Len(Pipeline)} \cup {"failed"}

\* The legal moves: one step down the pipeline; to "failed" from every phase
\* but the last two; from "failed" to the clean-up and nowhere else.
Transitions ==
  {<<Pipeline[i], Pipeline[i + 1]>> : i \in 1..(Len(Pipeline) - 1)}
    \cup {<<Pipeline[i], "failed">> : i \in 1..(Len(Pipeline) - 2)}
    \cup {<<"failed", "cleaning_up">>}

CanTransition(current, target) == <<current, target>> \in Transitions

\* The phases that Orchestrator.run walks through before the clean-up.
ExecutionSequence ==
  << "preparing", "workload_starting", "warmup", "baseline", "planning",
     "validating", "injecting", "observing", "recovering", "evaluating" >>

HandlerPhases ==
  {ExecutionSequence[i] : i \in 1..Len(ExecutionSequence)} \cup {"cleaning_up"}
=============================================================================
