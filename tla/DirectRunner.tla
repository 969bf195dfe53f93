------------------------------ MODULE DirectRunner ------------------------------
(***************************************************************************)
(* DirectRunner.run: the bodies of the handlers that the lifecycle calls.  *)
(* A handler that returns or raises is the step of Lifecycle of that name  *)
(* with what the handler did; a handler of several calls stands at sub     *)
(* between them, where processes exit, experiments expire and the sampler  *)
(* thread ends.                                                            *)
(***************************************************************************)
EXTENDS Executors

VARIABLES
  handlers, phase, history, results, error, pc, step, cleanups,  \* of Lifecycle
  background,    \* the request has a background workload
  sub,           \* where the running handler stands
  started,       \* background_workload_result: None, or its outcome
  action,        \* action_result
  evaluation,    \* evaluation
  sampler        \* the sampler's thread: not there, running, or told to stop

L == INSTANCE Lifecycle

lifeVars == <<handlers, phase, history, results, error, pc, step, cleanups>>
runVars  == <<background, sub, started, action, evaluation, sampler>>
vars     == <<execVars, lifeVars, runVars>>

Init ==
  /\ ExecInit
  /\ L!Init
  /\ handlers = L!HandlerPhases
  /\ background \in BOOLEAN
  /\ sub = "begin"
  /\ started = "none"
  /\ action = "none"
  /\ evaluation = "none"
  /\ sampler \in {"off", "stopping"}

\* The steps of Orchestrator.run outside the handlers.
Orchestrate ==
  /\ \/ L!EnterPhase \/ L!EnterCleanup \/ L!Finish
     \/ L!Fail \/ L!EnterFailureCleanup \/ L!BeginLastCleanup
  /\ UNCHANGED <<execVars, runVars>>

InHandler(name) == pc = "handler" /\ phase = name /\ sub = "begin"

\* How a handler ends: it returns when it got what it wanted, else it raises.
Ends(good) == IF good THEN L!HandlerReturns ELSE L!HandlerRaises

-----------------------------------------------------------------------------
\* preparing, baseline, planning, recovering: markers and sleeps.
Uneventful ==
  /\ \E name \in {"preparing", "baseline", "planning", "recovering"} : InHandler(name)
  /\ L!HandlerReturns
  /\ UNCHANGED <<execVars, runVars>>

WorkloadStarting ==
  /\ InHandler("workload_starting")
  /\ \/ ~background /\ L!HandlerReturns /\ UNCHANGED <<execVars, started>>
     \/ /\ background
        /\ \E result \in Results :
             /\ BenchbaseStart("background", result)
             /\ started' = IF result = "raised" THEN started ELSE result
             /\ Ends(result = "ok")
  /\ UNCHANGED <<background, sub, action, evaluation, sampler>>

\* sampler.start raises while the thread of an earlier run still samples.
Warmup ==
  /\ InHandler("warmup")
  /\ sampler' = IF sampler = "off" THEN "running" ELSE sampler
  /\ Ends(sampler = "off")
  /\ UNCHANGED <<execVars, background, sub, started, action, evaluation>>

Validating ==
  /\ InHandler("validating")
  /\ \E result \in {"ok", "raised"} : Validates(result) /\ Ends(result = "ok")
  /\ UNCHANGED <<execVars, runVars>>

\* Variant: an exception of start is kept as an action_result.
InjectingKeepsException ==
  /\ InHandler("injecting")
  /\ \E result \in Results :
       /\ RootStart(result)
       /\ action' = IF result = "ok" THEN action ELSE result
       /\ Ends(result = "ok")
  /\ UNCHANGED <<background, sub, started, evaluation, sampler>>

Injecting ==
  /\ InHandler("injecting")
  /\ \E result \in Results :
       /\ RootStart(result)
       /\ action' = IF result = "failed" THEN "failed" ELSE action
       /\ Ends(result = "ok")
  /\ UNCHANGED <<background, sub, started, evaluation, sampler>>

\* observing, for the executors that execute in one call.
Observing ==
  /\ InHandler("observing")
  /\ \E result \in Results :
       /\ RootExecute(result)
       /\ action' = result
       /\ Ends(result = "ok")
  /\ UNCHANGED <<background, sub, started, evaluation, sampler>>

\* observing a BenchBase action: ensure that it runs, wait for it, stop it.
ObservingStarts ==
  /\ InHandler("observing")
  /\ kind = "benchbase"
  /\ \E result \in Results :
       /\ BenchbaseEnsure(result)
       /\ action' = IF result = "failed" THEN "failed" ELSE action
       /\ IF result = "ok" THEN sub' = "wait" /\ UNCHANGED lifeVars
                           ELSE L!HandlerRaises /\ UNCHANGED sub
  /\ UNCHANGED <<background, started, evaluation, sampler>>

ObservingSeesExit ==
  /\ pc = "handler" /\ sub = "wait"
  /\ \E result \in {"ok", "failed"} :
       BenchbaseExit(result) /\ action' = result /\ Ends(result = "ok")
  /\ sub' = "begin"
  /\ UNCHANGED <<execVars, background, started, evaluation, sampler>>

ObservingTimesOut ==
  /\ pc = "handler" /\ sub = "wait"
  /\ \E result \in {"ok", "raised"} :
       /\ BenchbaseStop(result)
       /\ action' = IF result = "ok" THEN "failed" ELSE action
  /\ UNCHANGED process
  /\ sub' = "begin"
  /\ L!HandlerRaises
  /\ UNCHANGED <<background, started, evaluation, sampler>>

\* sampler.stop: the thread is told to stop, and joined for two seconds.
SamplerStop == sampler' = IF sampler = "off" THEN "off" ELSE "stopping"

\* The evaluator raises for a rule that the registry does not have.
Evaluating ==
  /\ InHandler("evaluating")
  /\ SamplerStop
  /\ evaluation' \in {"none", "hit", "miss"}
  /\ Ends(evaluation' = "hit")
  /\ UNCHANGED <<execVars, background, sub, started, action>>

-----------------------------------------------------------------------------
\* The clean-up handler, called in two places of Orchestrator.run.

InCleanup == pc \in {"cleanup", "last_cleanup"}

CleanupEnds(good) ==
  IF good THEN L!CleanupReturns \/ L!LastCleanupReturns
          ELSE L!CleanupRaises \/ L!LastCleanupRaises
CleanupRoot ==
  /\ InCleanup /\ sub = "begin"
  /\ SamplerStop
  /\ \E result \in {"ok", "raised"} :
       /\ RootCleanup(result)
       /\ IF result = "ok" /\ started = "ok"
          THEN sub' = "background" /\ UNCHANGED lifeVars
          ELSE CleanupEnds(result = "ok") /\ UNCHANGED sub
  /\ UNCHANGED <<background, started, action, evaluation>>

CleanupBackground ==
  /\ InCleanup /\ sub = "background"
  /\ \E result \in {"ok", "raised"} : BenchbaseCleanup(result) /\ CleanupEnds(result = "ok")
  /\ sub' = "begin"
  /\ UNCHANGED <<background, started, action, evaluation, sampler>>

-----------------------------------------------------------------------------
Run ==
  \/ Orchestrate \/ Uneventful \/ WorkloadStarting \/ Warmup \/ Validating
  \/ Injecting \/ Observing \/ ObservingStarts \/ ObservingSeesExit
  \/ ObservingTimesOut \/ Evaluating \/ CleanupRoot \/ CleanupBackground

SamplerThreadEnds ==
  /\ sampler = "stopping"
  /\ sampler' = "off"
  /\ UNCHANGED <<execVars, lifeVars, background, sub, started, action, evaluation>>

Outside ==
  /\ WorkloadExits \/ BladeExpires
  /\ UNCHANGED <<lifeVars, runVars>>

\* KeyboardInterrupt passes "except Exception" and leaves everything as it is:
\* nothing looks at the executors any more, so that an interrupt inside a start
\* is as good as one behind it.
Interrupt == L!Interrupt /\ UNCHANGED <<execVars, runVars>>

Next == Run \/ SamplerThreadEnds \/ Outside \/ Interrupt

Spec == Init /\ [][Next]_vars

-----------------------------------------------------------------------------
\* Variant: the oracle decides, whatever became of the clean-up.
StatusOfOracle ==
  IF started = "failed" \/ action = "failed" THEN "SYSTEM_ERROR"
  ELSE IF evaluation = "miss" THEN "EXPERIMENT_MISS"
  ELSE IF evaluation = "hit" THEN "EXPERIMENT_SUCCESS"
  ELSE "SYSTEM_ERROR"

\* DirectRunResult.status, computed when Orchestrator.run is back.
Status ==
  IF started = "failed" \/ action = "failed" THEN "SYSTEM_ERROR"
  ELSE IF evaluation = "miss" THEN "EXPERIMENT_MISS"
  ELSE IF phase = "success" THEN "EXPERIMENT_SUCCESS"
  ELSE "SYSTEM_ERROR"

TypeOK ==
  /\ ExecTypeOK
  /\ L!TypeOK
  /\ background \in BOOLEAN
  /\ sub \in {"begin", "wait", "background"}
  /\ started \in {"none", "ok", "failed"}
  /\ action \in {"none", "ok", "failed"}
  /\ evaluation \in {"none", "hit", "miss"}
  /\ sampler \in {"off", "running", "stopping"}

\* A verdict is about an experiment that took place: neither a failure to
\* execute the action nor one of the background workload is reported as a miss,
\* and a success went through a clean-up that returned the first time.
VerdictsAreEarned ==
  pc = "done" /\ Status # "SYSTEM_ERROR" =>
    /\ action = "ok"
    /\ background => started = "ok"
    /\ Status = "EXPERIMENT_MISS" <=> evaluation = "miss"
    /\ Status = "EXPERIMENT_SUCCESS" => cleanups = <<"returned">>

\* The runner keeps the promise of Custody: it runs no workload twice, loses
\* hold of one only when one is started, and when the last clean-up returned
\* and the destroy of a ChaosBlade experiment did not fail, it holds nothing.
\* The program itself does not ask the latter: a destroy that fails is a
\* clean-up that returned, and the run may be a success.
Holds == INSTANCE Custody WITH
  shared  <- kind = "benchbase",
  held    <- InHand,
  slipped <- OutOfHand,
  ended   <- IF pc \notin L!Stops THEN "no"
             ELSE IF /\ pc = "done"
                     /\ cleanups[Len(cleanups)] = "returned"
                     /\ activeUid = 0
                  THEN "clean" ELSE "unclean"
KeepsCustody == Holds!Spec
=============================================================================
