------------------------------ MODULE DirectProofs ------------------------------
(***************************************************************************)
(* Proofs about DirectRunner.  It runs the lifecycle, so that what is      *)
(* proved of Lifecycle holds of it; from that, and from what each handler  *)
(* leaves behind, follow the verdicts; and from the two invariants         *)
(* together, what is held of processes and experiments at every moment.    *)
(***************************************************************************)
EXTENDS DirectRunner, ExecutorProofs

\* Lifecycle once more, with its theorems.
LP == INSTANCE LifecycleProofs

\* Handler n of the pipeline has returned; it has not, but it may.
Passed(n) ==
  \/ pc = "loop" /\ step >= n
  \/ pc = "handler" /\ step > n
  \/ pc \in {"cleanup", "finish"}
  \/ phase = "success"
Ahead(n) ==
  \/ pc = "loop" /\ step < n
  \/ pc = "handler" /\ step <= n

RunTypes ==
  /\ handlers = L!HandlerPhases
  /\ background \in BOOLEAN
  /\ sub \in {"begin", "wait", "background"}
  /\ started \in {"none", "ok", "failed"}
  /\ action \in {"none", "ok", "failed"}
  /\ evaluation \in {"none", "hit", "miss"}
  /\ sampler \in {"off", "running", "stopping"}

\* What a handler that has returned has left behind: 3 is workload_starting,
\* 9 is observing, 11 is evaluating.
EvidenceInv ==
  /\ sub = "wait" => phase = "observing" /\ pc \in {"handler", "interrupted"}
  /\ Passed(3) => (background => started = "ok")
  /\ Passed(9) => action = "ok"
  /\ Ahead(11) => evaluation = "none"
  /\ evaluation # "none" => action = "ok" /\ (background => started = "ok")

\* The processes are those of handlers that have been called; 8 is injecting.
StartedInv ==
  /\ Ahead(3) => Len(processes) = 0 /\ started = "none"
  /\ Ahead(8) => Len(blades) = 0 /\ \A p \in 1..Len(processes) : processes[p].role = "background"
  /\ started # "ok" => \A p \in 1..Len(processes) : processes[p].role = "root"
  /\ kind # "benchbase" => \A p \in 1..Len(processes) : processes[p].role = "background"

\* What the clean-up has stopped.
EndInv ==
  /\ sub = "background" => pc \in {"cleanup", "last_cleanup", "interrupted"}
  /\ pc = "finish" => ~IsAlive

IInv == LP!IInv /\ RunTypes /\ EvidenceInv

ExecInv == ExecTypeOK /\ Known /\ StartedInv /\ EndInv

-----------------------------------------------------------------------------
\* The instance with the theorems is the instance that DirectRunner has.
LEMMA SameInit == L!Init => LP!Init
  BY DEF L!Init, LP!Init, L!HandlerPhases, LP!HandlerPhases, L!ExecutionSequence, LP!ExecutionSequence

\* Action by action.
LEMMA SameStep == [L!Next]_(L!vars) => [LP!Next]_(LP!vars)
<1> USE DEF L!Move, LP!Move, L!CanTransition, LP!CanTransition, L!Transitions, LP!Transitions,
     L!Pipeline, LP!Pipeline, L!ExecutionSequence, LP!ExecutionSequence, L!HandlerOf, LP!HandlerOf
<1>1. L!EnterPhase => LP!EnterPhase
  BY DEF L!EnterPhase, LP!EnterPhase
<1>2. (L!HandlerReturns => LP!HandlerReturns) /\ (L!HandlerRaises => LP!HandlerRaises)
  BY DEF L!HandlerReturns, LP!HandlerReturns, L!HandlerRaises, LP!HandlerRaises
<1>3. L!EnterCleanup => LP!EnterCleanup
  BY DEF L!EnterCleanup, LP!EnterCleanup
<1>4. (L!CleanupReturns => LP!CleanupReturns) /\ (L!CleanupRaises => LP!CleanupRaises)
  BY DEF L!CleanupReturns, LP!CleanupReturns, L!CleanupRaises, LP!CleanupRaises
<1>5. L!Finish => LP!Finish
  BY DEF L!Finish, LP!Finish
<1>6. L!Fail => LP!Fail
  BY DEF L!Fail, LP!Fail
<1>7. L!EnterFailureCleanup => LP!EnterFailureCleanup
  BY DEF L!EnterFailureCleanup, LP!EnterFailureCleanup
<1>8. L!BeginLastCleanup => LP!BeginLastCleanup
  BY DEF L!BeginLastCleanup, LP!BeginLastCleanup
<1>9. (L!LastCleanupReturns => LP!LastCleanupReturns) /\ (L!LastCleanupRaises => LP!LastCleanupRaises)
  BY DEF L!LastCleanupReturns, LP!LastCleanupReturns, L!LastCleanupRaises, LP!LastCleanupRaises
<1>10. L!Interrupt => LP!Interrupt
  BY DEF L!Interrupt, LP!Interrupt
<1>11. UNCHANGED L!vars => UNCHANGED LP!vars
  BY DEF L!vars, LP!vars
<1> QED
  BY <1>1, <1>2, <1>3, <1>4, <1>5, <1>6, <1>7, <1>8, <1>9, <1>10, <1>11, Zenon
  DEF L!Next, LP!Next, L!Run, LP!Run

\* Every step of the runner is a step of the lifecycle, or none.
LEMMA StepIsLifecycleStep == [Next]_vars => [L!Next]_(L!vars)
<1> SUFFICES ASSUME [Next]_vars
             PROVE  [L!Next]_(L!vars)
  OBVIOUS
<1> USE Zenon DEF L!Next, L!Run, Ends, CleanupEnds
<1>0. UNCHANGED lifeVars => UNCHANGED L!vars
  BY DEF lifeVars, L!vars
<1>1. CASE Orchestrate
  BY <1>1 DEF Orchestrate
<1>2. CASE Uneventful \/ Warmup \/ Validating
  BY <1>2 DEF Uneventful, Warmup, Validating
<1>3. CASE WorkloadStarting
  BY <1>3 DEF WorkloadStarting
<1>4. CASE Injecting \/ Observing \/ Evaluating
  BY <1>4 DEF Injecting, Observing, Evaluating
<1>5. CASE ObservingStarts
  BY <1>0, <1>5 DEF ObservingStarts
<1>6. CASE ObservingSeesExit \/ ObservingTimesOut
  BY <1>6 DEF ObservingSeesExit, ObservingTimesOut
<1>7. CASE CleanupRoot
  BY <1>0, <1>7 DEF CleanupRoot
<1>8. CASE CleanupBackground
  BY <1>8 DEF CleanupBackground
<1>9. CASE SamplerThreadEnds \/ Outside \/ UNCHANGED vars
  BY <1>0, <1>9 DEF SamplerThreadEnds, Outside, vars
<1>10. CASE Interrupt
  BY <1>10 DEF Interrupt
<1> QED
  BY <1>1, <1>2, <1>3, <1>4, <1>5, <1>6, <1>7, <1>8, <1>9, <1>10 DEF Next, Run

\* A run of the runner, seen without what the handlers do, is a run of
\* Orchestrator.run.
THEOREM RunsTheLifecycle == Spec => L!Spec
<1>1. Init => L!Init
  BY DEF Init
<1> QED
  BY <1>1, StepIsLifecycleStep, PTL DEF Spec, L!Spec

\* The lifecycle's inductive invariant is one of the runner.
LEMMA LifecycleStep == LP!IInv /\ [Next]_vars => LP!IInv'
  BY StepIsLifecycleStep, SameStep, LP!StepInductive, Zenon

\* It holds at the start.
LEMMA LifecycleInit == Init => LP!IInv
  BY SameInit, LP!InitInductive, Zenon DEF Init

-----------------------------------------------------------------------------
\* Where the run stands, as the lifecycle's invariant says.
Standing ==
  /\ step \in 1..11
  /\ pc \in L!Places \ {"escaped"}
  /\ pc = "handler" =>
       /\ step \in 2..11
       /\ phase = "workload_starting" <=> step = 3
       /\ phase = "injecting" <=> step = 8
       /\ phase = "observing" <=> step = 9
       /\ phase = "evaluating" <=> step = 11
  /\ phase = "success" => pc = "done"
  /\ phase = "success" => cleanups = <<"returned">>
  /\ pc \in {"cleanup", "finish", "last_cleanup"} => phase = "cleaning_up"

\* It follows from the lifecycle's invariant, for a runner that has all handlers.
LEMMA WhereItStands == handlers = L!HandlerPhases /\ LP!IInv => Standing
<1> SUFFICES ASSUME handlers = L!HandlerPhases, LP!IInv
             PROVE  Standing
  OBVIOUS
<1>1. step \in 1..11 /\ pc \in L!Places \ {"escaped"}
  BY DEF LP!IInv, LP!TypeOK, LP!PlaceInv, LP!ExecutionSequence, LP!Places, L!Places, LP!Stops, L!Stops
<1>2. pc = "handler" => step \in 2..11 /\ phase = LP!Pipeline[step]
  BY <1>1 DEF LP!IInv, LP!PlaceInv
<1>3. /\ phase = "success" => pc = "done"
      /\ pc \in {"cleanup", "finish", "last_cleanup"} => phase = "cleaning_up"
  BY DEF LP!IInv, LP!PlaceInv
<1>4. phase = "success" => cleanups = <<"returned">>
  BY DEF LP!IInv, LP!CleanupInv, L!HandlerPhases
<1> QED
  BY <1>1, <1>2, <1>3, <1>4 DEF Standing, LP!Pipeline

\* The steps of Orchestrator.run between the handlers pass none.
LEMMA BetweenHandlers ==
  ASSUME Standing, Standing', handlers = L!HandlerPhases, NEW n \in 2..11,
         \/ L!EnterPhase \/ L!EnterCleanup \/ L!Finish
         \/ L!Fail \/ L!EnterFailureCleanup \/ L!BeginLastCleanup
  PROVE  /\ Passed(n)' => Passed(n)
         /\ Ahead(n)' => Ahead(n)
         /\ handlers' = handlers
         /\ pc \notin {"handler", "interrupted"}
<1> USE DEF Standing, Passed, Ahead, L!Move
<1>1. CASE L!EnterPhase
  <2>1. pc = "loop" /\ step \in 1..10 /\ step' = step + 1 /\ handlers' = handlers
    BY <1>1 DEF L!EnterPhase, L!ExecutionSequence
  <2>2. L!ExecutionSequence[step] \in handlers
    BY <2>1 DEF L!HandlerPhases, L!ExecutionSequence
  <2>3. pc' \in {"handler", "except"}
    BY <1>1, <2>2 DEF L!EnterPhase, L!HandlerOf
  <2> QED
    BY <2>1, <2>3
<1>2. CASE L!EnterCleanup
  BY <1>2 DEF L!EnterCleanup, L!HandlerOf, L!ExecutionSequence
<1>3. CASE L!Finish
  BY <1>3 DEF L!Finish
<1>4. CASE L!Fail \/ L!EnterFailureCleanup \/ L!BeginLastCleanup
  BY <1>4 DEF L!Fail, L!EnterFailureCleanup, L!BeginLastCleanup, L!HandlerOf
<1> QED
  BY <1>1, <1>2, <1>3, <1>4

\* A handler that returns is passed.
LEMMA ReturnPasses ==
  ASSUME Standing, NEW n \in 2..11, L!HandlerReturns
  PROVE  /\ Passed(n)' => Passed(n) \/ step = n
         /\ Ahead(n)' => Ahead(n) /\ step # n
         /\ pc = "handler" /\ pc' = "loop" /\ phase' = phase /\ handlers' = handlers
  BY DEF Standing, Passed, Ahead, L!HandlerReturns

\* A handler that raises or is interrupted, and a clean-up, pass none.
LEMMA OthersPassNone ==
  ASSUME Standing, NEW n \in 2..11,
         \/ L!HandlerRaises \/ L!Interrupt
         \/ L!CleanupReturns \/ L!CleanupRaises \/ L!LastCleanupReturns \/ L!LastCleanupRaises
  PROVE  /\ Passed(n)' => Passed(n)
         /\ ~Ahead(n)'
         /\ pc \in {"handler", "cleanup", "last_cleanup"}
         /\ phase' = phase /\ handlers' = handlers
  BY DEF Standing, Passed, Ahead, L!HandlerRaises, L!Interrupt, L!CleanupReturns,
         L!CleanupRaises, L!LastCleanupReturns, L!LastCleanupRaises

\* Where a handler is called.
LEMMA InTheHandler ==
  ASSUME Standing, pc = "handler", NEW n \in 2..11
  PROVE  /\ Ahead(n) <=> step <= n
         /\ Passed(n) <=> step > n
  BY DEF Standing, Passed, Ahead

-----------------------------------------------------------------------------
\* Every step keeps the runner's own types and what the handlers left behind.
LEMMA EvidenceStep ==
  ASSUME RunTypes, EvidenceInv, Standing, Standing', [Next]_vars
  PROVE  RunTypes' /\ EvidenceInv'
<1> USE DEF RunTypes, EvidenceInv, Ends, InHandler
<1>0. Standing
  OBVIOUS
<1>1. CASE Orchestrate
  <2>1. UNCHANGED runVars
    BY <1>1 DEF Orchestrate
  <2>2. \/ L!EnterPhase \/ L!EnterCleanup \/ L!Finish
        \/ L!Fail \/ L!EnterFailureCleanup \/ L!BeginLastCleanup
    BY <1>1 DEF Orchestrate
  <2>3. \A n \in 2..11 :
          /\ Passed(n)' => Passed(n)
          /\ Ahead(n)' => Ahead(n)
          /\ handlers' = handlers
          /\ pc \notin {"handler", "interrupted"}
    BY <2>2, BetweenHandlers
  <2>4. sub # "wait"
    BY <2>3
  <2> QED
    BY <2>1, <2>3, <2>4 DEF runVars
<1>2. CASE Uneventful \/ Warmup \/ Validating
  <2>1. /\ L!HandlerReturns \/ L!HandlerRaises
        /\ phase \notin {"workload_starting", "injecting", "observing", "evaluating"}
        /\ sub = "begin" /\ pc = "handler"
        /\ UNCHANGED <<background, sub, started, action, evaluation>>
        /\ sampler' \in {"off", "running", "stopping"}
    BY <1>2 DEF Uneventful, Warmup, Validating, runVars
  <2>2. step \notin {3, 9, 11}
    BY <2>1 DEF Standing
  <2>3. \A n \in {3, 9, 11} : (Passed(n)' => Passed(n)) /\ (Ahead(n)' => Ahead(n)) /\ handlers' = handlers
    BY <2>1, <2>2, ReturnPasses, OthersPassNone
  <2> QED
    BY <2>1, <2>3
<1>3. CASE WorkloadStarting
  <2>1. pc = "handler" /\ step = 3 /\ sub = "begin" /\ evaluation = "none"
    BY <1>3, InTheHandler DEF WorkloadStarting, Standing
  <2>2. /\ UNCHANGED <<background, sub, action, evaluation, sampler>>
        /\ started' \in {"none", "ok", "failed"}
        /\ \/ L!HandlerReturns /\ (background => started' = "ok")
           \/ L!HandlerRaises
    BY <1>3 DEF WorkloadStarting, Results
  <2>3. CASE L!HandlerReturns /\ (background => started' = "ok")
    <3>1. ~Passed(9)' /\ handlers' = handlers
      BY <2>1, <2>3, ReturnPasses, InTheHandler
    <3> QED
      BY <2>1, <2>2, <2>3, <3>1
  <2>4. CASE L!HandlerRaises
    <3>1. ~Passed(3)' /\ ~Passed(9)' /\ handlers' = handlers
      BY <2>1, <2>4, OthersPassNone, InTheHandler
    <3> QED
      BY <2>1, <2>2, <3>1
  <2> QED
    BY <2>2, <2>3, <2>4
<1>4. CASE Injecting
  <2>1. pc = "handler" /\ step = 8 /\ sub = "begin" /\ evaluation = "none"
    BY <1>4, InTheHandler DEF Injecting, Standing
  <2>2. /\ UNCHANGED <<background, sub, started, evaluation, sampler>>
        /\ action' \in {action, "failed"}
        /\ L!HandlerReturns \/ L!HandlerRaises
    BY <1>4 DEF Injecting
  <2>3. ~Passed(9)' /\ handlers' = handlers /\ (Passed(3)' => Passed(3))
    BY <2>1, <2>2, ReturnPasses, OthersPassNone, InTheHandler
  <2> QED
    BY <2>1, <2>2, <2>3
<1>5. CASE Observing
  <2>1. pc = "handler" /\ step = 9 /\ sub = "begin" /\ evaluation = "none"
    BY <1>5, InTheHandler DEF Observing, Standing
  <2>2. /\ UNCHANGED <<background, sub, started, evaluation, sampler>>
        /\ action' \in {"ok", "failed"}
        /\ (L!HandlerReturns /\ action' = "ok") \/ L!HandlerRaises
    BY <1>5 DEF Observing, RootExecute
  <2>3. handlers' = handlers /\ (Passed(3)' => Passed(3))
    BY <2>1, <2>2, ReturnPasses, OthersPassNone, InTheHandler
  <2>4. Passed(9)' => action' = "ok"
    BY <2>1, <2>2, OthersPassNone, InTheHandler
  <2> QED
    BY <2>1, <2>2, <2>3, <2>4
<1>6. CASE ObservingStarts
  <2>1. pc = "handler" /\ step = 9 /\ sub = "begin" /\ evaluation = "none" /\ phase = "observing"
    BY <1>6, InTheHandler DEF ObservingStarts, Standing
  <2>2. /\ UNCHANGED <<background, started, evaluation, sampler>>
        /\ action' \in {action, "failed"}
        /\ \/ sub' = "wait" /\ UNCHANGED lifeVars
           \/ sub' = sub /\ L!HandlerRaises
    BY <1>6 DEF ObservingStarts
  <2>3. CASE sub' = "wait" /\ UNCHANGED lifeVars
    <3>1. pc' = pc /\ phase' = phase /\ step' = step /\ handlers' = handlers
      BY <2>3 DEF lifeVars
    <3>2. ~Passed(9)' /\ (Passed(3)' => Passed(3))
      BY <2>1, <3>1, InTheHandler DEF Passed
    <3> QED
      BY <2>1, <2>2, <2>3, <3>1, <3>2
  <2>4. CASE sub' = sub /\ L!HandlerRaises
    <3>1. ~Passed(9)' /\ (Passed(3)' => Passed(3)) /\ handlers' = handlers
      BY <2>1, <2>4, OthersPassNone, InTheHandler
    <3> QED
      BY <2>1, <2>2, <2>4, <3>1
  <2> QED
    BY <2>2, <2>3, <2>4
<1>7. CASE ObservingSeesExit \/ ObservingTimesOut
  <2>1. pc = "handler" /\ step = 9 /\ evaluation = "none"
    BY <1>7, InTheHandler DEF ObservingSeesExit, ObservingTimesOut, Standing
  <2>2. /\ UNCHANGED <<background, started, evaluation, sampler>>
        /\ sub' = "begin"
        /\ action' \in {"ok", "failed", action}
        /\ (L!HandlerReturns /\ action' = "ok") \/ L!HandlerRaises
    BY <1>7 DEF ObservingSeesExit, ObservingTimesOut
  <2>3. handlers' = handlers /\ (Passed(3)' => Passed(3))
    BY <2>1, <2>2, ReturnPasses, OthersPassNone, InTheHandler
  <2>4. Passed(9)' => action' = "ok"
    BY <2>1, <2>2, OthersPassNone, InTheHandler
  <2> QED
    BY <2>1, <2>2, <2>3, <2>4
<1>8. CASE Evaluating
  <2>1. pc = "handler" /\ step = 11 /\ sub = "begin" /\ Passed(3) /\ Passed(9)
    BY <1>8, InTheHandler DEF Evaluating, Standing
  <2>2. /\ UNCHANGED <<background, sub, started, action>>
        /\ evaluation' \in {"none", "hit", "miss"}
        /\ sampler' \in {"off", "running", "stopping"}
        /\ L!HandlerReturns \/ L!HandlerRaises
    BY <1>8 DEF Evaluating, SamplerStop
  <2>3. ~Ahead(11)' /\ handlers' = handlers
    BY <2>1, <2>2, ReturnPasses, OthersPassNone
  <2> QED
    BY <2>1, <2>2, <2>3
<1>9. CASE CleanupRoot \/ CleanupBackground
  <2>1. /\ UNCHANGED <<background, started, action, evaluation>>
        /\ InCleanup
        /\ sub' \in {"begin", "background"}
        /\ sampler' \in {"off", "running", "stopping"}
        /\ \/ UNCHANGED lifeVars
           \/ L!CleanupReturns \/ L!LastCleanupReturns \/ L!CleanupRaises \/ L!LastCleanupRaises
    BY <1>9 DEF CleanupRoot, CleanupBackground, SamplerStop, CleanupEnds
  <2>2. CASE UNCHANGED lifeVars
    <3>1. \A n \in {3, 9, 11} : (Passed(n)' => Passed(n)) /\ (Ahead(n)' => Ahead(n))
      BY <2>2 DEF lifeVars, Passed, Ahead
    <3> QED
      BY <2>1, <2>2, <3>1 DEF lifeVars
  <2>3. CASE L!CleanupReturns \/ L!LastCleanupReturns \/ L!CleanupRaises \/ L!LastCleanupRaises
    <3>1. \A n \in {3, 9, 11} : (Passed(n)' => Passed(n)) /\ ~Ahead(n)' /\ handlers' = handlers
      BY <2>3, OthersPassNone
    <3> QED
      BY <2>1, <3>1
  <2> QED
    BY <2>1, <2>2, <2>3
<1>10. CASE SamplerThreadEnds \/ Outside \/ UNCHANGED vars
  <2>1. /\ UNCHANGED <<lifeVars, background, sub, started, action, evaluation>>
        /\ sampler' \in {"off", "running", "stopping"}
    BY <1>10 DEF SamplerThreadEnds, Outside, runVars, vars
  <2>2. \A n \in {3, 9, 11} : (Passed(n)' => Passed(n)) /\ (Ahead(n)' => Ahead(n))
    BY <2>1 DEF lifeVars, Passed, Ahead
  <2> QED
    BY <2>1, <2>2 DEF lifeVars
<1>11. CASE Interrupt
  <2>1. UNCHANGED runVars /\ L!Interrupt
    BY <1>11 DEF Interrupt
  <2>2. /\ \A n \in {3, 9, 11} : (Passed(n)' => Passed(n)) /\ ~Ahead(n)'
        /\ handlers' = handlers /\ phase' = phase /\ pc' = "interrupted"
    BY <2>1, OthersPassNone DEF L!Interrupt
  <2> QED
    BY <2>1, <2>2 DEF runVars
<1> QED
  BY <1>1, <1>2, <1>3, <1>4, <1>5, <1>6, <1>7, <1>8, <1>9, <1>10, <1>11 DEF Next, Run

\* The invariant holds of the initial states, and every step keeps it.
LEMMA InitInductive == Init => IInv
<1> SUFFICES ASSUME Init
             PROVE  IInv
  OBVIOUS
<1>1. LP!IInv
  BY LifecycleInit
<1>2. pc = "loop" /\ step = 1 /\ phase = "created"
  BY DEF Init, L!Init
<1>3. RunTypes /\ EvidenceInv
  BY <1>2 DEF Init, RunTypes, EvidenceInv, Passed, Ahead
<1> QED
  BY <1>1, <1>3 DEF IInv

\* The lifecycle's part and the runner's part, together.
LEMMA StepInductive == IInv /\ [Next]_vars => IInv'
<1> SUFFICES ASSUME IInv, [Next]_vars
             PROVE  IInv'
  OBVIOUS
<1>1. LP!IInv /\ LP!IInv'
  BY LifecycleStep DEF IInv
<1>2. Standing
  BY <1>1, WhereItStands DEF IInv, RunTypes
<1>3. handlers' = handlers
  BY StepIsLifecycleStep DEF L!Next, L!Run, L!vars,
     L!EnterPhase, L!HandlerReturns, L!HandlerRaises, L!EnterCleanup, L!CleanupReturns,
     L!CleanupRaises, L!Finish, L!Fail, L!EnterFailureCleanup, L!BeginLastCleanup,
     L!LastCleanupReturns, L!LastCleanupRaises, L!Interrupt
<1>4. Standing'
  <2>1. (handlers = L!HandlerPhases)'
    BY <1>3 DEF IInv, RunTypes, L!HandlerPhases, L!ExecutionSequence
  <2>2. (handlers = L!HandlerPhases /\ LP!IInv => Standing)'
    BY WhereItStands, PTL
  <2> QED
    BY <1>1, <2>1, <2>2
<1>5. RunTypes' /\ EvidenceInv'
  BY <1>2, <1>4, EvidenceStep DEF IInv
<1> QED
  BY <1>1, <1>5 DEF IInv

\* So it is an invariant.
LEMMA Inductive == Spec => []IInv
  BY InitInductive, StepInductive, PTL DEF Spec

\* DirectRunResult.status is a verdict only if the action succeeded and the
\* background workload, if there is one, was started; it is a miss exactly when
\* the oracle said so, and a success only after a clean-up that returned the
\* first time, whatever the executors and processes do.  Whether the background
\* still ran when the action did is not said: the runner does not ask.
THEOREM VerdictsEarned == Spec => []VerdictsAreEarned
<1>1. IInv => VerdictsAreEarned
  <2> SUFFICES ASSUME IInv, pc = "done", Status # "SYSTEM_ERROR"
               PROVE  /\ action = "ok"
                      /\ background => started = "ok"
                      /\ Status = "EXPERIMENT_MISS" <=> evaluation = "miss"
                      /\ Status = "EXPERIMENT_SUCCESS" => cleanups = <<"returned">>
    BY DEF VerdictsAreEarned
  <2>1. Standing /\ RunTypes /\ EvidenceInv
    BY WhereItStands DEF IInv, RunTypes
  <2>2. CASE evaluation = "miss"
    BY <2>1, <2>2 DEF EvidenceInv, RunTypes, Status
  <2>3. CASE evaluation # "miss"
    <3>1. phase = "success" /\ Status = "EXPERIMENT_SUCCESS"
      BY <2>3 DEF Status
    <3>2. Passed(3) /\ Passed(9)
      BY <3>1 DEF Passed
    <3> QED
      BY <2>1, <2>3, <3>1, <3>2 DEF EvidenceInv, Standing
  <2> QED
    BY <2>2, <2>3
<1> QED
  BY Inductive, <1>1, PTL

-----------------------------------------------------------------------------
\* Before its own start, or when what is held is over, a workload is alone.
LEMMA AloneFacts ==
  ASSUME ExecTypeOK, Known, StartedInv
  PROVE  /\ Ahead(3) /\ Ahead(8) => Alone /\ RunningOnes = {}
         /\ kind = "benchbase" /\ Ahead(8) => Alone
         /\ kind = "benchbase" /\ ~IsAlive => Alone
  BY AloneWhen DEF StartedInv

-----------------------------------------------------------------------------
\* How the run has ended, as Custody sees it.
Ended ==
  IF pc \notin L!Stops THEN "no"
  ELSE IF pc = "done" /\ cleanups[Len(cleanups)] = "returned" /\ activeUid = 0 THEN "clean"
  ELSE "unclean"

\* What a step of the runner may do to the workloads.
Kept == Keeps(Ended, Ended')

\* Where the steps between the handlers start, and where they do not lead.
LEMMA BetweenPlaces ==
  ASSUME Standing', handlers = L!HandlerPhases,
         \/ L!EnterPhase \/ L!EnterCleanup \/ L!Finish
         \/ L!Fail \/ L!EnterFailureCleanup \/ L!BeginLastCleanup
  PROVE  /\ pc \in {"loop", "finish", "except"}
         /\ pc' = "done" => pc = "finish"
         /\ pc' \notin {"finish", "interrupted", "escaped"}
<1>1. "cleaning_up" \in handlers
  BY DEF L!HandlerPhases
<1>2. pc' # "escaped"
  BY DEF Standing
<1> QED
  BY <1>1, <1>2 DEF L!EnterPhase, L!EnterCleanup, L!Finish, L!Fail, L!EnterFailureCleanup,
     L!BeginLastCleanup, L!Move, L!HandlerOf

\* Steps that are neither a start nor the end of a clean-up keep StartedInv.
LEMMA StartedStays ==
  ASSUME StartedInv,
         Ahead(3)' => Ahead(3), Ahead(8)' => Ahead(8),
         kind' = kind, started' = started, Len(processes') = Len(processes),
         \A q \in 1..Len(processes) : processes'[q].role = processes[q].role,
         ~Ahead(8)' \/ Len(blades') = Len(blades)
  PROVE  StartedInv'
  BY DEF StartedInv

\* The steps between the handlers.
LEMMA OrchestrateKeeps ==
  ASSUME RunTypes, Standing, Standing', ExecInv, Orchestrate
  PROVE  ExecInv' /\ Kept
<1> USE DEF ExecInv
<1>1. UNCHANGED <<execVars, runVars>>
  BY DEF Orchestrate
<1>2. /\ \/ L!EnterPhase \/ L!EnterCleanup \/ L!Finish
         \/ L!Fail \/ L!EnterFailureCleanup \/ L!BeginLastCleanup
      /\ handlers = L!HandlerPhases
  BY DEF Orchestrate, RunTypes
<1>3. /\ pc \in {"loop", "finish", "except"}
      /\ pc' = "done" => pc = "finish"
      /\ pc' \notin {"finish", "interrupted", "escaped"}
  BY <1>2, BetweenPlaces
<1>4. ExecTypeOK' /\ Known' /\ Frees /\ (IsAlive' => IsAlive)
  BY <1>1, QuietKeeps DEF execVars, ExecTypeOK
<1>5. StartedInv'
  <2>1. \A n \in {3, 8} : Ahead(n)' => Ahead(n)
    BY <1>2, BetweenHandlers
  <2> QED
    BY <1>1, <2>1, StartedStays DEF execVars, runVars
<1>6. EndInv'
  <2>1. sub' = sub /\ sub # "background"
    BY <1>1, <1>3 DEF EndInv, runVars
  <2> QED
    BY <1>3, <2>1 DEF EndInv
<1>7. Ended = "no"
  BY <1>3 DEF Ended, L!Stops
<1>8. CASE pc' # "done"
  BY <1>3, <1>4, <1>5, <1>6, <1>7, <1>8, FreesDrops DEF Kept, Keeps, Ended, L!Stops
<1>9. CASE pc' = "done"
  <2>1. ~IsAlive'
    BY <1>3, <1>4, <1>9 DEF EndInv
  <2>2. Ended' = "unclean" \/ (Ended' = "clean" /\ activeUid' = 0)
    BY <1>9 DEF Ended, L!Stops
  <2>3. Kept
    BY <1>4, <1>7, <2>1, <2>2, EndsClean DEF Kept, Keeps
  <2> QED
    BY <1>4, <1>5, <1>6, <2>3
<1> QED
  BY <1>8, <1>9

\* The steps of a handler: it stays inside, returns or raises.
LEMMA HandlerSteps ==
  ASSUME Standing, pc = "handler",
         L!HandlerReturns \/ L!HandlerRaises \/ UNCHANGED lifeVars
  PROVE  /\ Ended = "no" /\ Ended' = "no"
         /\ pc' \in {"handler", "loop", "except"}
         /\ \A n \in {3, 8} : Ahead(n)' => Ahead(n)
         /\ step = 3 /\ ~(UNCHANGED lifeVars) => ~Ahead(3)'
         /\ step >= 8 /\ (step = 8 => ~(UNCHANGED lifeVars)) => ~Ahead(8)' /\ ~Ahead(3)'
<1>1. pc' \in {"handler", "loop", "except"}
  BY DEF L!HandlerReturns, L!HandlerRaises, lifeVars
<1>2. Ended = "no" /\ Ended' = "no"
  BY <1>1 DEF Ended, L!Stops
<1>3. step' = step /\ step \in 2..11
  BY DEF L!HandlerReturns, L!HandlerRaises, lifeVars, Standing
<1>4. pc' = "handler" => UNCHANGED lifeVars
  BY DEF L!HandlerReturns, L!HandlerRaises
<1> QED
  BY <1>1, <1>2, <1>3, <1>4 DEF Ahead

\* A handler that leaves the executors alone.
LEMMA QuietHandlerKeeps ==
  ASSUME Standing, ExecInv, pc = "handler",
         L!HandlerReturns \/ L!HandlerRaises,
         UNCHANGED <<execVars, started>>, sub' \in {sub, "begin"}
  PROVE  ExecInv' /\ Kept
<1> USE DEF ExecInv
<1>1. /\ Ended = "no" /\ Ended' = "no"
      /\ pc' \in {"handler", "loop", "except"}
      /\ \A n \in {3, 8} : Ahead(n)' => Ahead(n)
  BY HandlerSteps
<1>2. ExecTypeOK' /\ Known' /\ Frees /\ (IsAlive' => IsAlive)
  BY QuietKeeps DEF execVars, ExecTypeOK
<1>3. StartedInv'
  BY <1>1, StartedStays DEF execVars
<1>4. EndInv'
  BY <1>1 DEF EndInv
<1> QED
  BY <1>1, <1>2, <1>3, <1>4, FreesDrops DEF Kept, Keeps

\* The background workload is started.
LEMMA WorkloadStartingKeeps ==
  ASSUME Standing, ExecInv, WorkloadStarting
  PROVE  ExecInv' /\ Kept
<1> USE DEF ExecInv, InHandler, Ends
<1>1. pc = "handler" /\ sub = "begin" /\ sub' = sub /\ step = 3
  BY DEF WorkloadStarting, Standing
<1>2. CASE ~background
  BY <1>1, <1>2, QuietHandlerKeeps DEF WorkloadStarting
<1>3. CASE background
  <2>1. PICK result \in Results :
          /\ BenchbaseStart("background", result)
          /\ started' = IF result = "raised" THEN started ELSE result
          /\ L!HandlerReturns \/ L!HandlerRaises
    BY <1>3 DEF WorkloadStarting
  <2>2. Ahead(3) /\ Alone /\ RunningOnes = {}
    BY <1>1, AloneFacts DEF Ahead
  <2>3. Ended = "no" /\ Ended' = "no" /\ pc' \in {"loop", "except"} /\ ~Ahead(3)'
    BY <1>1, <2>1, HandlerSteps DEF L!HandlerReturns, L!HandlerRaises, Ahead
  <2>4. /\ ExecTypeOK' /\ Known'
        /\ kind' = kind /\ blades' = blades
        /\ \A p \in 1..Len(processes') :
             \/ processes'[p].role = "background" /\ result = "ok"
             \/ p \in 1..Len(processes) /\ processes'[p].role = processes[p].role
        /\ Drops \/ Takes
    BY <2>1, <2>2, StartKeeps DEF Roles
  <2>5. Len(processes) = 0 /\ started = "none" /\ Len(blades) = 0
    BY <1>1, <2>2 DEF StartedInv, Ahead
  <2>6. result # "ok" => 1..Len(processes') = {}
    BY <2>1, <2>5 DEF BenchbaseStart
  <2>7. result = "ok" => started' = "ok"
    BY <2>1
  <2>8. StartedInv'
    BY <2>3, <2>4, <2>5, <2>6, <2>7 DEF StartedInv
  <2>9. EndInv'
    BY <1>1, <2>3 DEF EndInv
  <2> QED
    BY <2>3, <2>4, <2>8, <2>9 DEF Kept, Keeps
<1> QED
  BY <1>2, <1>3

\* A workload of the root action is started, by start or by execute.
LEMMA RootStarts ==
  ASSUME Standing, ExecInv, pc = "handler", step \in {8, 9}, kind = "benchbase", sub = "begin",
         step = 8 \/ ~IsAlive, sub' # "background", started' = started,
         L!HandlerReturns \/ L!HandlerRaises \/ (step = 9 /\ UNCHANGED lifeVars),
         NEW result, BenchbaseStart("root", result)
  PROVE  ExecInv' /\ Kept
<1> USE DEF ExecInv
<1>1. Alone
  BY AloneFacts DEF Ahead
<1>2. /\ Ended = "no" /\ Ended' = "no" /\ pc' \in {"handler", "loop", "except"}
      /\ ~Ahead(3)' /\ ~Ahead(8)'
  <2>1. CASE L!HandlerReturns \/ L!HandlerRaises
    BY <2>1, HandlerSteps DEF L!HandlerReturns, L!HandlerRaises, Ahead
  <2>2. CASE step = 9 /\ UNCHANGED lifeVars
    BY <2>2, HandlerSteps
  <2> QED
    BY <2>1, <2>2
<1>3. /\ ExecTypeOK' /\ Known'
      /\ kind' = kind
      /\ \A p \in 1..Len(processes') :
           \/ processes'[p].role = "root" /\ result = "ok"
           \/ p \in 1..Len(processes) /\ processes'[p].role = processes[p].role
      /\ Drops \/ Takes
  BY <1>1, StartKeeps DEF Roles
<1>4. StartedInv'
  BY <1>2, <1>3 DEF StartedInv
<1>5. EndInv'
  BY <1>2 DEF EndInv
<1> QED
  BY <1>2, <1>3, <1>4, <1>5 DEF Kept, Keeps

\* An operation of the executors that starts no process.
LEMMA NoProcessKeeps ==
  ASSUME Standing, ExecInv, pc = "handler", step \in {8, 9},
         L!HandlerReturns \/ L!HandlerRaises \/ (step = 9 /\ UNCHANGED lifeVars),
         sub' # "background", started' = started,
         ExecTypeOK', Known', Drops \/ Takes \/ Slips,
         kind' = kind, Len(processes') = Len(processes),
         \A q \in 1..Len(processes) : processes'[q].role = processes[q].role
  PROVE  ExecInv' /\ Kept
<1> USE DEF ExecInv
<1>1. /\ Ended = "no" /\ Ended' = "no" /\ pc' \in {"handler", "loop", "except"}
      /\ ~Ahead(3)' /\ ~Ahead(8)'
  <2>1. CASE L!HandlerReturns \/ L!HandlerRaises
    BY <2>1, HandlerSteps DEF L!HandlerReturns, L!HandlerRaises, Ahead
  <2>2. CASE step = 9 /\ UNCHANGED lifeVars
    BY <2>2, HandlerSteps
  <2> QED
    BY <2>1, <2>2
<1>2. StartedInv'
  BY <1>1 DEF StartedInv
<1>3. EndInv'
  BY <1>1 DEF EndInv
<1> QED
  BY <1>1, <1>2, <1>3 DEF Kept, Keeps

\* The root action is started.
LEMMA InjectingKeeps ==
  ASSUME Standing, ExecInv, Injecting
  PROVE  ExecInv' /\ Kept
<1> USE DEF InHandler, Ends
<1>1. pc = "handler" /\ sub = "begin" /\ sub' = sub /\ step = 8 /\ started' = started
  BY DEF Injecting, Standing
<1>2. PICK result \in Results : RootStart(result) /\ (L!HandlerReturns \/ L!HandlerRaises)
  BY DEF Injecting
<1>3. CASE UNCHANGED execVars
  BY <1>1, <1>2, <1>3, QuietHandlerKeeps
<1>4. CASE kind = "benchbase" /\ BenchbaseStart("root", result)
  BY <1>1, <1>2, <1>4, RootStarts
<1>5. CASE kind = "chaosblade" /\ ChaosStart(result)
  <2>1. LiveBlades = {} /\ \A p \in 1..Len(processes) : processes[p].role = "background"
    BY <1>1, <1>5 DEF ExecInv, StartedInv, Ahead, LiveBlades
  <2>2. /\ ExecTypeOK' /\ Known' /\ UNCHANGED <<kind, processes, process>>
        /\ Drops \/ Takes \/ Slips
    BY <1>5, <2>1, ChaosStartKeeps DEF ExecInv
  <2> QED
    BY <1>1, <1>2, <2>2, NoProcessKeeps
<1>6. CASE stopEvent' = FALSE /\ UNCHANGED <<kind, wellFormed, processes, process, blades, activeUid, backupTable>>
  <2>1. ExecTypeOK' /\ Known' /\ Frees /\ (IsAlive' => IsAlive)
    BY <1>6, QuietKeeps DEF ExecInv, ExecTypeOK
  <2> QED
    BY <1>1, <1>2, <1>6, <2>1, FreesDrops, NoProcessKeeps
<1> QED
  BY <1>2, <1>3, <1>4, <1>5, <1>6 DEF RootStart

\* The root action is executed in one call.
LEMMA ObservingKeeps ==
  ASSUME Standing, ExecInv, Observing
  PROVE  ExecInv' /\ Kept
<1> USE DEF InHandler, Ends
<1>1. pc = "handler" /\ sub = "begin" /\ sub' = sub /\ step = 9 /\ started' = started
  BY DEF Observing, Standing
<1>2. PICK result \in Results : RootExecute(result) /\ (L!HandlerReturns \/ L!HandlerRaises)
  BY DEF Observing
<1>3. CASE UNCHANGED execVars
  BY <1>1, <1>2, <1>3, QuietHandlerKeeps
<1>4. CASE CreateTable(result)
  <2>1. ExecTypeOK' /\ Known' /\ Frees /\ (IsAlive' => IsAlive)
    BY <1>4, QuietKeeps DEF ExecInv, ExecTypeOK, CreateTable
  <2> QED
    BY <1>1, <1>2, <1>4, <2>1, FreesDrops, NoProcessKeeps DEF CreateTable
<1>5. CASE kind = "chaosblade" /\ activeUid = 0 /\ ChaosStart(result)
  <2>1. LiveBlades = {} /\ \A p \in 1..Len(processes) : processes[p].role = "background"
    BY <1>5 DEF ExecInv, StartedInv, Known, Unorphaned, LiveBlades
  <2>2. /\ ExecTypeOK' /\ Known' /\ UNCHANGED <<kind, processes, process>>
        /\ Drops \/ Takes \/ Slips
    BY <1>5, <2>1, ChaosStartKeeps DEF ExecInv
  <2> QED
    BY <1>1, <1>2, <2>2, NoProcessKeeps
<1>6. activeUid \in Nat
  BY DEF ExecInv, ExecTypeOK
<1> QED
  BY <1>2, <1>3, <1>4, <1>5, <1>6 DEF RootExecute

\* A BenchBase action is executed: ensured, waited for, stopped.
LEMMA ObservingBenchbaseKeeps ==
  ASSUME Standing, ExecInv, EvidenceInv,
         ObservingStarts \/ ObservingSeesExit \/ ObservingTimesOut
  PROVE  ExecInv' /\ Kept
<1> USE DEF InHandler, Ends
<1>1. pc = "handler" /\ step = 9 /\ started' = started
  BY DEF ObservingStarts, ObservingSeesExit, ObservingTimesOut, EvidenceInv, Standing
<1>2. CASE ObservingStarts
  <2>1. PICK result \in Results :
          /\ BenchbaseEnsure(result)
          /\ \/ sub' = "wait" /\ UNCHANGED lifeVars
             \/ L!HandlerRaises /\ UNCHANGED sub
    BY <1>2 DEF ObservingStarts
  <2>2. kind = "benchbase" /\ sub = "begin"
    BY <1>2 DEF ObservingStarts
  <2>3. CASE UNCHANGED execVars
    <3>1. ExecTypeOK' /\ Known' /\ Frees /\ (IsAlive' => IsAlive)
      BY <2>3, QuietKeeps DEF ExecInv, ExecTypeOK, execVars
    <3> QED
      BY <1>1, <2>1, <2>2, <2>3, <3>1, FreesDrops, NoProcessKeeps DEF execVars
  <2>4. CASE ~IsAlive /\ BenchbaseStart("root", result)
    BY <1>1, <2>1, <2>2, <2>4, RootStarts
  <2> QED
    BY <2>1, <2>3, <2>4 DEF BenchbaseEnsure
<1>3. CASE ObservingSeesExit
  BY <1>1, <1>3, QuietHandlerKeeps DEF ObservingSeesExit
<1>4. CASE ObservingTimesOut
  <2>1. PICK result \in {"ok", "raised"} : BenchbaseStop(result)
    BY <1>4 DEF ObservingTimesOut
  <2>2. process' = process /\ sub' = "begin" /\ L!HandlerRaises
    BY <1>4 DEF ObservingTimesOut
  <2>3. /\ ExecTypeOK' /\ Known' /\ Frees /\ (IsAlive' => IsAlive)
        /\ kind' = kind /\ Len(processes') = Len(processes)
        /\ \A q \in 1..Len(processes) : processes'[q].role = processes[q].role
    BY <2>1, <2>2, StopKeeps DEF ExecInv
  <2> QED
    BY <1>1, <2>2, <2>3, FreesDrops, NoProcessKeeps
<1> QED
  BY <1>2, <1>3, <1>4

\* The parts of the clean-up, wherever run calls it.
LEMMA CleanupKeeps ==
  ASSUME Standing, ExecInv, InCleanup, NEW good \in BOOLEAN,
         CleanupEnds(good) \/ (UNCHANGED lifeVars /\ good),
         UNCHANGED lifeVars => sub' = "background",
         CleanupEnds(good) => sub' = "begin" /\ (good => ~IsAlive'),
         started' = started, ExecTypeOK', Known', Frees,
         kind' = kind, Len(processes') = Len(processes),
         \A q \in 1..Len(processes) : processes'[q].role = processes[q].role
  PROVE  ExecInv' /\ Kept
<1> USE DEF ExecInv, InCleanup
<1>1. pc' \notin {"loop", "handler"} /\ Ended = "no"
  BY DEF CleanupEnds, L!CleanupReturns, L!LastCleanupReturns, L!CleanupRaises,
         L!LastCleanupRaises, lifeVars, Ended, L!Stops
<1>2. StartedInv'
  BY <1>1 DEF StartedInv, Ahead
<1>3. CASE UNCHANGED lifeVars /\ good
  <2>1. pc' = pc /\ Ended' = Ended
    BY <1>1, <1>3 DEF lifeVars, Ended
  <2>2. EndInv'
    BY <1>3, <2>1 DEF EndInv
  <2> QED
    BY <1>2, <2>1, <2>2, FreesDrops DEF Kept, Keeps
<1>4. CASE CleanupEnds(good)
  <2>1. pc' = "finish" => good
    BY <1>4 DEF CleanupEnds, L!CleanupRaises, L!LastCleanupRaises
  <2>2. EndInv'
    BY <1>4, <2>1 DEF EndInv
  <2>3. pc' \in {"finish", "except", "done"}
    BY <1>4 DEF CleanupEnds, L!CleanupReturns, L!LastCleanupReturns, L!CleanupRaises, L!LastCleanupRaises
  <2>4. CASE good
    <3>1. Ended' = "no" \/ Ended' = "unclean" \/ (Ended' = "clean" /\ activeUid' = 0)
      BY <2>3 DEF Ended, L!Stops
    <3>2. Kept
      BY <1>1, <1>4, <2>4, <3>1, FreesDrops, EndsClean DEF Kept, Keeps
    <3> QED
      BY <1>2, <2>2, <3>2
  <2>5. CASE ~good
    <3>1. pc' = "done" => cleanups' = Append(cleanups, "raised")
      BY <1>4, <2>5 DEF CleanupEnds, L!CleanupRaises, L!LastCleanupRaises
    <3>2. Ended' \in {"no", "unclean"}
      BY <2>3, <3>1 DEF Ended, L!Stops
    <3> QED
      BY <1>1, <1>2, <2>2, <3>2, FreesDrops DEF Kept, Keeps
  <2> QED
    BY <2>4, <2>5
<1> QED
  BY <1>3, <1>4

\* The first half of the clean-up, or all of it.
LEMMA CleanupRootKeeps ==
  ASSUME RunTypes, Standing, ExecInv, CleanupRoot
  PROVE  ExecInv' /\ Kept
<1>1. PICK result \in {"ok", "raised"} :
        /\ RootCleanup(result)
        /\ IF result = "ok" /\ started = "ok"
           THEN sub' = "background" /\ UNCHANGED lifeVars
           ELSE CleanupEnds(result = "ok") /\ UNCHANGED sub
  BY DEF CleanupRoot
<1>2. InCleanup /\ sub = "begin" /\ started' = started
  BY DEF CleanupRoot
<1> DEFINE good == result = "ok"
<1>3. /\ ExecTypeOK' /\ Known' /\ Frees /\ (IsAlive' => IsAlive)
      /\ kind' = kind /\ Len(processes') = Len(processes)
      /\ \A q \in 1..Len(processes) : processes'[q].role = processes[q].role
      /\ kind = "benchbase" /\ good => ~IsAlive'
      /\ kind # "benchbase" => good /\ UNCHANGED <<processes, process>>
  <2>1. CASE kind = "benchbase" /\ BenchbaseCleanup(result)
    <3>1. BenchbaseStop(result) /\ (process' = process \/ (process' = 0 /\ result = "ok"))
      BY <2>1 DEF BenchbaseCleanup
    <3> QED
      BY <2>1, <3>1, StopKeeps DEF ExecInv
  <2>2. CASE kind = "chaosblade" /\ result = "ok" /\ ChaosStop
    BY <2>2, ChaosEndKeeps DEF ExecInv
  <2>3. CASE kind \in {"sql", "table"} /\ result = "ok" /\ UNCHANGED execVars
    BY <2>3, QuietKeeps DEF ExecInv, ExecTypeOK, execVars
  <2>4. CASE /\ kind = "transaction" /\ result = "ok" /\ stopEvent' = TRUE
             /\ UNCHANGED <<kind, wellFormed, processes, process, blades, activeUid, backupTable>>
    BY <2>4, QuietKeeps DEF ExecInv, ExecTypeOK
  <2> QED
    BY <1>1, <2>1, <2>2, <2>3, <2>4 DEF RootCleanup
<1>4. kind # "benchbase" /\ started # "ok" => ~IsAlive'
  <2> SUFFICES ASSUME kind # "benchbase", started # "ok"
               PROVE  ~IsAlive'
    OBVIOUS
  <2>1. Len(processes) = 0
    BY DEF ExecInv, StartedInv, ExecTypeOK
  <2>2. process' = 0
    BY <1>3, <2>1 DEF ExecTypeOK
  <2> QED
    BY <2>2 DEF IsAlive
<1>5. CASE good /\ started = "ok"
  <2>1. sub' = "background" /\ UNCHANGED lifeVars /\ good
    BY <1>1, <1>5
  <2>2. ~CleanupEnds(good)
    BY <1>2, <2>1 DEF CleanupEnds, InCleanup, lifeVars, L!CleanupReturns, L!LastCleanupReturns
  <2> HIDE DEF good
  <2> QED
    BY <1>2, <1>3, <2>1, <2>2, CleanupKeeps
<1>6. CASE ~(good /\ started = "ok")
  <2>1. CleanupEnds(good) /\ sub' = "begin"
    BY <1>1, <1>2, <1>6
  <2>2. ~(UNCHANGED lifeVars)
    BY <1>2, <2>1 DEF CleanupEnds, InCleanup, lifeVars, L!CleanupReturns, L!LastCleanupReturns,
       L!CleanupRaises, L!LastCleanupRaises
  <2>3. good => ~IsAlive'
    BY <1>3, <1>4, <1>6
  <2>4. good \in BOOLEAN
    OBVIOUS
  <2> HIDE DEF good
  <2> QED
    BY <1>2, <1>3, <2>1, <2>2, <2>3, <2>4, CleanupKeeps
<1> QED
  BY <1>5, <1>6

\* The second half of the clean-up.
LEMMA CleanupBackgroundKeeps ==
  ASSUME Standing, ExecInv, CleanupBackground
  PROVE  ExecInv' /\ Kept
<1>1. PICK result \in {"ok", "raised"} : BenchbaseCleanup(result) /\ CleanupEnds(result = "ok")
  BY DEF CleanupBackground
<1>2. InCleanup /\ sub' = "begin" /\ started' = started
  BY DEF CleanupBackground
<1> DEFINE good == result = "ok"
<1>3. BenchbaseStop(result) /\ (process' = process \/ (process' = 0 /\ result = "ok"))
  BY <1>1 DEF BenchbaseCleanup
<1>4. /\ ExecTypeOK' /\ Known' /\ Frees /\ (IsAlive' => IsAlive)
      /\ kind' = kind /\ Len(processes') = Len(processes)
      /\ \A q \in 1..Len(processes) : processes'[q].role = processes[q].role
      /\ good => ~IsAlive'
  BY <1>3, StopKeeps DEF ExecInv
<1>5. CleanupEnds(good) /\ good \in BOOLEAN
  BY <1>1
<1>6. ~(UNCHANGED lifeVars)
  BY <1>2, <1>5 DEF CleanupEnds, InCleanup, lifeVars, L!CleanupReturns, L!LastCleanupReturns,
     L!CleanupRaises, L!LastCleanupRaises
<1> HIDE DEF good
<1> QED
  BY <1>2, <1>4, <1>5, <1>6, CleanupKeeps

\* What happens outside, and steps of the sampler's thread.
LEMMA OutsideKeeps ==
  ASSUME Standing, ExecInv, SamplerThreadEnds \/ Outside \/ UNCHANGED vars
  PROVE  ExecInv' /\ Kept
<1> USE DEF ExecInv
<1>1. UNCHANGED <<lifeVars, sub, started>>
  BY DEF SamplerThreadEnds, Outside, vars, runVars
<1>2. /\ ExecTypeOK' /\ Known' /\ Drops /\ (IsAlive' => IsAlive) /\ kind' = kind
      /\ activeUid' = activeUid
      /\ Len(processes') = Len(processes) /\ Len(blades') = Len(blades)
      /\ \A q \in 1..Len(processes) : processes'[q].role = processes[q].role
  <2>1. CASE UNCHANGED execVars
    BY <2>1, QuietKeeps, FreesDrops DEF execVars, ExecTypeOK
  <2>2. CASE WorkloadExits
    <3>1. PICK p \in RunningOnes \cup LostOnes, code \in {"zero", "nonzero"} :
            processes' = [processes EXCEPT ![p].status = code]
      BY <2>2 DEF WorkloadExits
    <3> QED
      BY <2>2, <3>1, EndKeeps DEF WorkloadExits
  <2>3. CASE BladeExpires
    BY <2>3, ChaosEndKeeps
  <2> QED
    BY <2>1, <2>2, <2>3 DEF SamplerThreadEnds, Outside, vars
<1>3. Ended' = Ended /\ pc' = pc /\ \A n \in {3, 8} : Ahead(n)' <=> Ahead(n)
  BY <1>1, <1>2 DEF lifeVars, Ended, Ahead
<1>4. StartedInv'
  BY <1>1, <1>2, <1>3, StartedStays
<1>5. EndInv'
  BY <1>1, <1>2, <1>3 DEF EndInv
<1> QED
  BY <1>2, <1>3, <1>4, <1>5 DEF Kept, Keeps

\* An interrupt leaves everything as it is, and ends the run unclean.
LEMMA InterruptKeeps ==
  ASSUME Standing, ExecInv, Interrupt
  PROVE  ExecInv' /\ Kept
<1> USE DEF ExecInv
<1>1. /\ UNCHANGED <<execVars, runVars>>
      /\ pc \in {"handler", "cleanup", "last_cleanup"} /\ pc' = "interrupted"
  BY DEF Interrupt, L!Interrupt
<1>2. ExecTypeOK' /\ Known' /\ Frees /\ (IsAlive' => IsAlive)
  BY <1>1, QuietKeeps DEF execVars, ExecTypeOK
<1>3. StartedInv'
  BY <1>1, StartedStays DEF execVars, runVars, Ahead
<1>4. EndInv'
  BY <1>1 DEF EndInv, InCleanup
<1> QED
  BY <1>1, <1>2, <1>3, <1>4 DEF Kept, Keeps, Ended, L!Stops

\* Every step keeps what is said of the executors.
LEMMA ExecStep ==
  ASSUME RunTypes, EvidenceInv, Standing, Standing', ExecInv, [Next]_vars
  PROVE  ExecInv' /\ Kept
<1>1. CASE Uneventful \/ Warmup \/ Validating \/ Evaluating
  <2>1. /\ pc = "handler"
        /\ L!HandlerReturns \/ L!HandlerRaises
        /\ UNCHANGED <<execVars, started>> /\ sub' = sub
    BY <1>1 DEF Uneventful, Warmup, Validating, Evaluating, InHandler, Ends, runVars
  <2> QED
    BY <2>1, QuietHandlerKeeps
<1> QED
  BY <1>1, OrchestrateKeeps, WorkloadStartingKeeps, InjectingKeeps, ObservingKeeps,
     ObservingBenchbaseKeeps, CleanupRootKeeps, CleanupBackgroundKeeps, OutsideKeeps,
     InterruptKeeps DEF Next, Run

\* The executors at the start.
LEMMA ExecInitInductive == Init => ExecInv
<1> SUFFICES ASSUME Init
             PROVE  ExecInv
  OBVIOUS
<1>1. /\ ExecInit
      /\ pc = "loop" /\ step = 1 /\ sub = "begin" /\ started = "none"
  BY DEF Init, L!Init
<1>2. ExecTypeOK /\ Known /\ Len(processes) = 0 /\ Len(blades) = 0
  BY <1>1, ExecInitHolds
<1>3. StartedInv /\ EndInv
  BY <1>1, <1>2 DEF StartedInv, EndInv, Ahead
<1> QED
  BY <1>2, <1>3 DEF ExecInv

\* The runner's invariant says where it stands.
LEMMA StandingEverywhere == IInv => Standing
  BY WhereItStands DEF IInv, RunTypes

\* What is said of the executors is an invariant, on top of the first one.
LEMMA ExecInductive == Spec => []ExecInv
<1>1. IInv /\ IInv' /\ ExecInv /\ [Next]_vars => ExecInv'
  <2> SUFFICES ASSUME IInv, IInv', ExecInv, [Next]_vars
               PROVE  ExecInv'
    OBVIOUS
  <2>1. Standing /\ RunTypes /\ EvidenceInv
    BY StandingEverywhere DEF IInv
  <2>2. Standing'
    <3>1. (IInv => Standing)'
      BY StandingEverywhere, PTL
    <3> QED
      BY <3>1
  <2> QED
    BY <2>1, <2>2, ExecStep
<1> QED
  BY ExecInitInductive, Inductive, <1>1, PTL DEF Spec

\* DirectRunner's variables, the lifecycle's and the executors' have their types.
THEOREM TypeCorrect == Spec => []TypeOK
<1>1. IInv /\ ExecInv => TypeOK
  BY DEF IInv, ExecInv, RunTypes, TypeOK, LP!IInv, LP!TypeOK, L!TypeOK, LP!HandlerPhases,
     L!HandlerPhases, LP!ExecutionSequence, L!ExecutionSequence, LP!Phases, L!Phases,
     LP!Pipeline, L!Pipeline, LP!Causes, L!Causes, LP!Places, L!Places, LP!Stops, L!Stops,
     LP!Ends, L!Ends
<1> QED
  BY Inductive, ExecInductive, <1>1, PTL

\* A process or an experiment that runs is one that the executor holds, whatever
\* raises, times out or is interrupted: BenchBaseExecutor.process and
\* ChaosExecutor.active_uid are overwritten only when nothing else runs, but for
\* a background workload that shares the executor with a BenchBase root action.
THEOREM NothingOrphaned == Spec => []Unorphaned
  BY ExecInductive, PTL DEF ExecInv, Known

-----------------------------------------------------------------------------
\* A step that keeps is one of Custody, or none.
LEMMA KeptRefines ==
  ASSUME kind' = kind, Kept
  PROVE  [Holds!Next]_(Holds!vars)
<1> USE DEF Holds!Next, Holds!vars
<1>1. CASE Ended' = Ended /\ Drops
  BY <1>1 DEF Drops, Holds!Drop, Ended
<1>2. CASE Ended = "no" /\ Ended' = "no" /\ Takes
  BY <1>2 DEF Takes, Holds!Acquire, Holds!Role, Ended
<1>3. CASE Ended = "no" /\ Ended' = "no" /\ Slips
  BY <1>3 DEF Slips, Holds!AcquireUntold, Ended
<1>4. CASE Ended = "no" /\ Ended' = "unclean" /\ Frees
  BY <1>4 DEF Frees, Holds!EndUnclean, Ended
<1>5. CASE Ended = "no" /\ Ended' = "clean" /\ Frees /\ InHand' = {}
  BY <1>5 DEF Frees, Holds!EndClean, Ended
<1> QED
  BY <1>1, <1>2, <1>3, <1>4, <1>5 DEF Kept, Keeps

\* The type of the root action does not change.
LEMMA KindStays == [Next]_vars => kind' = kind
  BY DEF Next, Run, Orchestrate, Uneventful, WorkloadStarting, Warmup, Validating, Injecting,
     Observing, ObservingStarts, ObservingSeesExit, ObservingTimesOut, Evaluating, CleanupRoot,
     CleanupBackground, SamplerThreadEnds, Outside, Interrupt, vars, execVars,
     BenchbaseStart, BenchbaseStop, BenchbaseCleanup, BenchbaseEnsure, ChaosStart, ChaosStop,
     RootStart, CreateTable, RootExecute, RootCleanup, WorkloadExits, BladeExpires

\* DirectRunner.run implements Custody, of processes and of ChaosBlade
\* experiments: it holds at most one workload of each role, starts none once it
\* has ended, loses hold of one only when it starts one, and when it is done
\* after a clean-up that returned and no destroy has failed, it ends with nothing
\* that it could have stopped.
THEOREM Custodian == Spec => KeepsCustody
<1>1. Init => Holds!Init
  <2> SUFFICES ASSUME Init
               PROVE  Holds!Init
    OBVIOUS
  <2>1. ExecInit /\ pc = "loop"
    BY DEF Init, L!Init
  <2>2. InHand = {} /\ OutOfHand = {}
    BY <2>1, ExecInitHolds
  <2> QED
    BY <2>1, <2>2 DEF Holds!Init, L!Stops
<1>2. IInv /\ IInv' /\ ExecInv /\ ExecInv' /\ [Next]_vars => [Holds!Next]_(Holds!vars)
  <2> SUFFICES ASSUME IInv, IInv', ExecInv, ExecInv', [Next]_vars
               PROVE  [Holds!Next]_(Holds!vars)
    OBVIOUS
  <2>1. Standing /\ RunTypes /\ EvidenceInv
    BY StandingEverywhere DEF IInv
  <2>2. Standing'
    <3>1. (IInv => Standing)'
      BY StandingEverywhere, PTL
    <3> QED
      BY <3>1
  <2>3. Kept
    BY <2>1, <2>2, ExecStep
  <2> QED
    BY <2>3, KindStays, KeptRefines
<1> QED
  BY Inductive, ExecInductive, <1>1, <1>2, PTL DEF Spec, Holds!Spec, KeepsCustody
=============================================================================
