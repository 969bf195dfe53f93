------------------------------- MODULE Lifecycle -------------------------------
(***************************************************************************)
(* Orchestrator.run over StateMachine: the common lifecycle of the Direct  *)
(* and the Propagation mode.  A phase handler is a black box that returns, *)
(* raises an Exception, or is interrupted (KeyboardInterrupt, SystemExit:  *)
(* what "except Exception" does not catch).  Module DirectRunner gives the *)
(* handlers a body.                                                        *)
(***************************************************************************)
EXTENDS ExperimentPhases

VARIABLES
  handlers,   \* the phases that have a handler, an argument of run
  phase,      \* ExperimentState.phase
  history,    \* ExperimentState.history: the pairs <<from_phase, to_phase>>
  results,    \* the keys of ExperimentState.step_results
  error,      \* what ExperimentState.error tells of: {} is None
  pc,         \* where run stands
  step,       \* the position of the for loop in the execution sequence
  cleanups    \* how each call of the clean-up handler ended

vars == <<handlers, phase, history, results, error, pc, step, cleanups>>

Causes == {"failure", "cleanup"}
Ends   == {"returned", "raised"}
Stops  == {"done", "escaped", "interrupted"}
Places == {"loop", "handler", "cleanup", "finish", "except", "last_cleanup"} \cup Stops

Init ==
  /\ handlers \in SUBSET HandlerPhases
  /\ phase = "created"
  /\ history = <<>>
  /\ results = {}
  /\ error = {}
  /\ pc = "loop"
  /\ step = 1
  /\ cleanups = <<>>

\* StateMachine.transition: an illegal move raises InvalidStateTransition,
\* which the try block catches and the except block lets out of run.
Move(target, next, illegal) ==
  IF CanTransition(phase, target)
  THEN /\ phase' = target
       /\ history' = Append(history, <<phase, target>>)
       /\ pc' = next
  ELSE /\ UNCHANGED <<phase, history>>
       /\ pc' = illegal

HandlerOf(target, place, otherwise) ==
  IF target \in handlers THEN place ELSE otherwise

-----------------------------------------------------------------------------
\* The try block.

EnterPhase ==
  /\ pc = "loop"
  /\ step <= Len(ExecutionSequence)
  /\ LET target == ExecutionSequence[step]
     IN  Move(target, HandlerOf(target, "handler", "loop"), "except")
  /\ step' = step + 1
  /\ UNCHANGED <<handlers, results, error, cleanups>>

\* Variant: the result is filed under the phase the experiment came from.
HandlerReturnsMisfiled ==
  /\ pc = "handler"
  /\ results' = results \cup {history[Len(history)][1]}
  /\ pc' = "loop"
  /\ UNCHANGED <<handlers, phase, history, error, step, cleanups>>

HandlerReturns ==
  /\ pc = "handler"
  /\ results' = results \cup {phase}
  /\ pc' = "loop"
  /\ UNCHANGED <<handlers, phase, history, error, step, cleanups>>

HandlerRaises ==
  /\ pc = "handler"
  /\ pc' = "except"
  /\ UNCHANGED <<handlers, phase, history, results, error, step, cleanups>>

EnterCleanup ==
  /\ pc = "loop"
  /\ step > Len(ExecutionSequence)
  /\ Move("cleaning_up", HandlerOf("cleaning_up", "cleanup", "finish"), "except")
  /\ UNCHANGED <<handlers, results, error, step, cleanups>>

CleanupReturns ==
  /\ pc = "cleanup"
  /\ results' = results \cup {"cleaning_up"}
  /\ cleanups' = Append(cleanups, "returned")
  /\ pc' = "finish"
  /\ UNCHANGED <<handlers, phase, history, error, step>>

CleanupRaises ==
  /\ pc = "cleanup"
  /\ cleanups' = Append(cleanups, "raised")
  /\ pc' = "except"
  /\ UNCHANGED <<handlers, phase, history, results, error, step>>

Finish ==
  /\ pc = "finish"
  /\ Move("success", "done", "except")
  /\ UNCHANGED <<handlers, results, error, step, cleanups>>

-----------------------------------------------------------------------------
\* The except block.

\* Variant: fail is called in every phase, "cleaning_up" included.
FailAnywhere ==
  /\ pc = "except"
  /\ phase # "failed"
  /\ Move("failed", "except", "escaped")
  /\ error' = IF CanTransition(phase, "failed") THEN {"failure"} ELSE error
  /\ UNCHANGED <<handlers, results, step, cleanups>>

\* Variant: the phase changes and the message is lost.
FailSilently ==
  /\ pc = "except"
  /\ phase \notin {"failed", "cleaning_up"}
  /\ Move("failed", "except", "escaped")
  /\ UNCHANGED <<handlers, results, error, step, cleanups>>

\* StateMachine.fail: the transition first, then the message.
Fail ==
  /\ pc = "except"
  /\ phase \notin {"failed", "cleaning_up"}
  /\ Move("failed", "except", "escaped")
  /\ error' = IF CanTransition(phase, "failed") THEN {"failure"} ELSE error
  /\ UNCHANGED <<handlers, results, step, cleanups>>

EnterFailureCleanup ==
  /\ pc = "except"
  /\ phase = "failed"
  /\ Move("cleaning_up", "except", "escaped")
  /\ UNCHANGED <<handlers, results, error, step, cleanups>>

\* Variant: a failure is not cleaned up after.
SkipLastCleanup ==
  /\ pc = "except"
  /\ phase = "cleaning_up"
  /\ pc' = "done"
  /\ UNCHANGED <<handlers, phase, history, results, error, step, cleanups>>

BeginLastCleanup ==
  /\ pc = "except"
  /\ phase = "cleaning_up"
  /\ pc' = HandlerOf("cleaning_up", "last_cleanup", "done")
  /\ UNCHANGED <<handlers, phase, history, results, error, step, cleanups>>

\* Variant: a clean-up that works turns the failure into a success.
LastCleanupForgives ==
  /\ pc = "last_cleanup"
  /\ results' = results \cup {"cleaning_up"}
  /\ cleanups' = Append(cleanups, "returned")
  /\ pc' = "finish"
  /\ UNCHANGED <<handlers, phase, history, error, step>>

LastCleanupReturns ==
  /\ pc = "last_cleanup"
  /\ results' = results \cup {"cleaning_up"}
  /\ cleanups' = Append(cleanups, "returned")
  /\ pc' = "done"
  /\ UNCHANGED <<handlers, phase, history, error, step>>

LastCleanupRaises ==
  /\ pc = "last_cleanup"
  /\ error' = error \cup {"cleanup"}
  /\ cleanups' = Append(cleanups, "raised")
  /\ pc' = "done"
  /\ UNCHANGED <<handlers, phase, history, results, step>>

\* A BaseException that is no Exception leaves run from inside a handler.
Interrupt ==
  /\ pc \in {"handler", "cleanup", "last_cleanup"}
  /\ pc' = "interrupted"
  /\ UNCHANGED <<handlers, phase, history, results, error, step, cleanups>>

-----------------------------------------------------------------------------
Run ==
  \/ EnterPhase \/ HandlerReturns \/ HandlerRaises
  \/ EnterCleanup \/ CleanupReturns \/ CleanupRaises \/ Finish
  \/ Fail \/ EnterFailureCleanup
  \/ BeginLastCleanup \/ LastCleanupReturns \/ LastCleanupRaises

Next == Run \/ Interrupt

Spec == Init /\ [][Next]_vars

-----------------------------------------------------------------------------
TypeOK ==
  /\ handlers \in SUBSET HandlerPhases
  /\ phase \in Phases
  /\ history \in Seq(Phases \X Phases)
  /\ results \in SUBSET HandlerPhases
  /\ error \in SUBSET Causes
  /\ pc \in Places
  /\ step \in 1..(Len(ExecutionSequence) + 1)
  /\ cleanups \in Seq(Ends)

HasFailed ==
  \/ \E i \in 1..Len(history) : history[i][2] = "failed"
  \/ \E i \in 1..Len(cleanups) : cleanups[i] = "raised"

\* An experiment reported as a success went through every handler it has, the
\* clean-up once, and nothing raised on the way: the except block, which also
\* ends in "cleaning_up", never goes on to "success".
SuccessIsEarned ==
  phase = "success" =>
    /\ ~HasFailed
    /\ handlers = results
    /\ error = {}
    /\ Len(cleanups) <= 1

\* No illegal transition is ever asked for, so InvalidStateTransition never
\* leaves run; fail() asks for "failed" only where the table has it.
NothingEscapes == pc # "escaped"

\* run returns only after it called the clean-up handler, and it calls it a
\* second time only when the first call raised.
CleanedUpOnReturn ==
  /\ pc = "done" /\ "cleaning_up" \in handlers => cleanups # <<>>
  /\ Len(cleanups) <= 2
  /\ Len(cleanups) = 2 => cleanups[1] = "raised"

\* A run that ends without success says why, in error, with one exception: a
\* clean-up that raises the first time and returns the second time leaves the
\* phase at "cleaning_up", error empty and a clean-up result in step_results.
SilentOnlyAfterCleanupRetry ==
  pc = "done" /\ phase # "success" /\ error = {} =>
    cleanups = <<"raised", "returned">>

\* The lifecycle keeps the promise of PhaseProtocol.
Protocol == INSTANCE PhaseProtocol WITH failed <- HasFailed
ImplementsProtocol == Protocol!Spec
=============================================================================
