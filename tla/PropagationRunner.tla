--------------------------- MODULE PropagationRunner ---------------------------
(***************************************************************************)
(* PropagationRunner.run: a background workload, one root action, and the  *)
(* clean-up in a finally block that every way out of the try block passes: *)
(* the end, the early return, an exception and an interrupt.  What the     *)
(* graph evaluation says of the observations is an input here.             *)
(***************************************************************************)
EXTENDS Executors

VARIABLES
  background,   \* the request has a background workload
  pc,           \* where run stands
  exit,         \* how the try block was left: "end", "return", "raise" or
                \* "interrupt"
  started,      \* background_result: None, or its outcome
  root,         \* root_result: None, or its outcome
  alive,        \* background_alive_before_cleanup: None, True or False
  cleaned,      \* cleanup_success
  cleanups,     \* the clean-ups that returned, in their order
  sampler,      \* the sampler's thread: not there, running, or told to stop
  status        \* ResultStatus of the result, "none" before there is one

runVars ==
  <<background, pc, exit, started, root, alive, cleaned, cleanups, sampler, status>>
vars == <<execVars, runVars>>

Stops  == {"done", "raised", "interrupted"}
InTry  == {"background", "sample", "inject", "execute", "wait", "observe", "early"}
Places == InTry \cup {"finally", "root", "last", "result"} \cup Stops

Init ==
  /\ ExecInit
  /\ background \in BOOLEAN
  /\ pc = "background"
  /\ exit = "end"
  /\ started = "none"
  /\ root = "none"
  /\ alive = "unknown"
  /\ cleaned = FALSE
  /\ cleanups = <<>>
  /\ sampler \in {"off", "stopping"}
  /\ status = "none"

\* Leaving the try block runs the finally block first.
Leave(how) == pc' = "finally" /\ exit' = how
Stay(place) == pc' = place /\ UNCHANGED exit

-----------------------------------------------------------------------------
\* The try block.

StartBackground ==
  /\ pc = "background"
  /\ \/ ~background /\ Stay("sample") /\ UNCHANGED <<execVars, started>>
     \/ /\ background
        /\ \E result \in Results :
             /\ BenchbaseStart("background", result)
             /\ started' = IF result = "raised" THEN started ELSE result
             /\ \/ result = "ok" /\ Stay("sample")
                \/ result = "failed" /\ Stay("early")
                \/ result = "raised" /\ Leave("raise")
  /\ UNCHANGED <<background, root, alive, cleaned, cleanups, sampler, status>>

\* Variant: a verdict does not ask whether the clean-up succeeded.
VerdictWithoutCleanup(graphHit, ranAlive, ranClean) ==
  IF root = "ok" /\ (background => started = "ok") /\ ranAlive # "dead"
  THEN IF graphHit THEN "EXPERIMENT_SUCCESS" ELSE "EXPERIMENT_MISS"
  ELSE "SYSTEM_ERROR"

\* _result: the graph hit or not, and everything that must hold for a verdict.
\* liveness is None for a run without a background workload.
Verdict(graphHit, ranAlive, ranClean) ==
  IF /\ root = "ok"
     /\ background => started = "ok"
     /\ ranAlive # "dead"
     /\ ranClean
  THEN IF graphHit THEN "EXPERIMENT_SUCCESS" ELSE "EXPERIMENT_MISS"
  ELSE "SYSTEM_ERROR"

\* "return self._result(...)" evaluates its result before the finally block.
\* The observation provider may raise.
EarlyResult ==
  /\ pc = "early"
  /\ \/ \E hit \in BOOLEAN : status' = Verdict(hit, "dead", FALSE) /\ Leave("return")
     \/ Leave("raise") /\ UNCHANGED status
  /\ UNCHANGED <<execVars, background, started, root, alive, cleaned, cleanups, sampler>>

\* sampler.start raises while the thread of an earlier run still samples.
StartSampling ==
  /\ pc = "sample"
  /\ IF sampler = "off" THEN sampler' = "running" /\ Stay("inject")
                       ELSE Leave("raise") /\ UNCHANGED sampler
  /\ UNCHANGED <<execVars, background, started, root, alive, cleaned, cleanups, status>>

\* Variant: an exception of start is kept as the root_result.
InjectKeepsException ==
  /\ pc = "inject"
  /\ \E result \in Results :
       /\ RootStart(result)
       /\ root' = result
       /\ IF result = "ok" THEN Stay("execute") ELSE Stay("observe")
  /\ UNCHANGED <<background, started, alive, cleaned, cleanups, sampler, status>>

Inject ==
  /\ pc = "inject"
  /\ \E result \in Results :
       /\ RootStart(result)
       /\ root' = IF result = "raised" THEN root ELSE result
       /\ \/ result = "ok" /\ Stay("execute")
          \/ result = "failed" /\ Stay("observe")
          \/ result = "raised" /\ Leave("raise")
  /\ UNCHANGED <<background, started, alive, cleaned, cleanups, sampler, status>>

Execute ==
  /\ pc = "execute"
  /\ \E result \in Results : RootExecute(result) /\ root' = result
  /\ Stay("observe")
  /\ UNCHANGED <<background, started, alive, cleaned, cleanups, sampler, status>>

\* execute of a BenchBase action: ensure that it runs, wait for it, stop it.
ExecuteStarts ==
  /\ pc = "execute"
  /\ kind = "benchbase"
  /\ \E result \in Results :
       /\ BenchbaseEnsure(result)
       /\ root' = IF result = "failed" THEN "failed" ELSE root
       /\ \/ result = "ok" /\ Stay("wait")
          \/ result = "failed" /\ Stay("observe")
          \/ result = "raised" /\ Leave("raise")
  /\ UNCHANGED <<background, started, alive, cleaned, cleanups, sampler, status>>

ExecuteSeesExit ==
  /\ pc = "wait"
  /\ \E result \in {"ok", "failed"} : BenchbaseExit(result) /\ root' = result
  /\ Stay("observe")
  /\ UNCHANGED <<execVars, background, started, alive, cleaned, cleanups, sampler, status>>

ExecuteTimesOut ==
  /\ pc = "wait"
  /\ \/ BenchbaseStop("ok") /\ root' = "failed" /\ Stay("observe")
     \/ BenchbaseStop("raised") /\ UNCHANGED root /\ Leave("raise")
  /\ UNCHANGED process
  /\ UNCHANGED <<background, started, alive, cleaned, cleanups, sampler, status>>

Observe ==
  /\ pc = "observe"
  /\ Leave("end")
  /\ UNCHANGED <<execVars, background, started, root, alive, cleaned, cleanups,
                 sampler, status>>

-----------------------------------------------------------------------------
\* The finally block.

\* sampler.stop and _background_alive, which asks the process that the
\* executor holds.
EnterFinally ==
  /\ pc = "finally"
  /\ sampler' = IF sampler = "off" THEN "off" ELSE "stopping"
  /\ alive' = IF started # "ok" THEN alive ELSE IF IsAlive THEN "alive" ELSE "dead"
  /\ pc' = "root"
  /\ UNCHANGED <<execVars, background, exit, started, root, cleaned, cleanups, status>>

\* Where run goes after the finally block.
AfterFinally ==
  pc' = CASE exit = "end" -> "result" [] exit = "return" -> "done" [] OTHER -> "raised"

CleanupRoot ==
  /\ pc = "root"
  /\ \/ /\ RootCleanup("ok")
        /\ cleanups' = Append(cleanups, "root")
        /\ IF started = "ok" THEN pc' = "last" /\ UNCHANGED cleaned
                             ELSE AfterFinally /\ cleaned' = TRUE
     \/ RootCleanup("raised") /\ AfterFinally /\ UNCHANGED <<cleaned, cleanups>>
  /\ UNCHANGED <<background, exit, started, root, alive, sampler, status>>

CleanupBackground ==
  /\ pc = "last"
  /\ \/ /\ BenchbaseCleanup("ok")
        /\ cleanups' = Append(cleanups, "background")
        /\ cleaned' = TRUE
     \/ BenchbaseCleanup("raised") /\ UNCHANGED <<cleaned, cleanups>>
  /\ AfterFinally
  /\ UNCHANGED <<background, exit, started, root, alive, sampler, status>>

Result ==
  /\ pc = "result"
  /\ \/ \E hit \in BOOLEAN : status' = Verdict(hit, alive, cleaned) /\ pc' = "done"
     \/ pc' = "raised" /\ UNCHANGED status
  /\ UNCHANGED <<execVars, background, exit, started, root, alive, cleaned, cleanups, sampler>>

-----------------------------------------------------------------------------
Run ==
  \/ StartBackground \/ EarlyResult \/ StartSampling \/ Inject \/ Execute
  \/ ExecuteStarts \/ ExecuteSeesExit \/ ExecuteTimesOut \/ Observe
  \/ EnterFinally \/ CleanupRoot \/ CleanupBackground \/ Result

\* A KeyboardInterrupt in the try block still runs the finally block; one in
\* the finally block, or later, leaves run.
Interrupt ==
  /\ \/ pc \in InTry /\ Leave("interrupt")
     \/ pc \in {"finally", "root", "last", "result"} /\ Stay("interrupted")
  /\ UNCHANGED <<execVars, background, started, root, alive, cleaned, cleanups,
                 sampler, status>>

\* One that comes inside a start or an execute finds the workload there and
\* background_result or root_result not assigned.
InterruptedStart ==
  /\ \/ pc = "background" /\ background /\ BenchbaseStartInterrupted("background")
     \/ pc = "inject" /\ RootStartInterrupted
     \/ pc = "execute" /\ RootExecuteInterrupted
  /\ Leave("interrupt")
  /\ UNCHANGED <<background, started, root, alive, cleaned, cleanups, sampler, status>>

SamplerThreadEnds ==
  /\ sampler = "stopping"
  /\ sampler' = "off"
  /\ UNCHANGED <<execVars, background, pc, exit, started, root, alive, cleaned,
                 cleanups, status>>

Outside == (WorkloadExits \/ BladeExpires) /\ UNCHANGED runVars

Next == Run \/ Interrupt \/ InterruptedStart \/ SamplerThreadEnds \/ Outside

Spec == Init /\ [][Next]_vars

\* Every wait of the runner has a timeout; no fairness is assumed of processes.
FairSpec == Spec /\ WF_vars(Run)

-----------------------------------------------------------------------------
TypeOK ==
  /\ ExecTypeOK
  /\ background \in BOOLEAN
  /\ pc \in Places
  /\ exit \in {"end", "return", "raise", "interrupt"}
  /\ started \in {"none", "ok", "failed"}
  /\ root \in {"none", "ok", "failed"}
  /\ alive \in {"unknown", "alive", "dead"}
  /\ cleaned \in BOOLEAN
  /\ cleanups \in Seq(Roles)
  /\ sampler \in {"off", "running", "stopping"}
  /\ status \in {"none", "EXPERIMENT_SUCCESS", "EXPERIMENT_MISS", "SYSTEM_ERROR"}

\* A miss, like a success, is a verdict on an experiment that took place: the
\* root action succeeded, the background workload was there to the end of the
\* observation, and the clean-ups that were due had all returned.
VerdictsAreEarned ==
  pc = "done" /\ status # "SYSTEM_ERROR" =>
    /\ root = "ok"
    /\ background => started = "ok" /\ alive = "alive"
    /\ cleanups = IF background THEN <<"root", "background">> ELSE <<"root">>

\* An interrupt came before background_result was assigned: the finally block
\* takes the run for one without a background workload and leaves it alone.
Unnoticed == exit = "interrupt" /\ background /\ started = "none"

\* The runner keeps the promise of Custody: it runs no workload twice, loses
\* hold of one only when one is started, and when the clean-ups that were due
\* returned, the destroy of a ChaosBlade experiment did not fail and no
\* interrupt hid the background, it holds nothing.  The program itself does not
\* ask the last two: a destroy that fails leaves cleanup_success True.
Holds == INSTANCE Custody WITH
  shared  <- kind = "benchbase",
  held    <- InHand,
  slipped <- OutOfHand,
  ended   <- IF pc \notin Stops THEN "no"
             ELSE IF cleaned /\ activeUid = 0 /\ ~Unnoticed THEN "clean" ELSE "unclean"
KeepsCustody == Holds!Spec

\* Every run ends, whatever the processes it waits for do.
Terminates == <>(pc \in Stops)
=============================================================================
