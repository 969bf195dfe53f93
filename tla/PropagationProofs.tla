-------------------------- MODULE PropagationProofs ----------------------------
(***************************************************************************)
(* Proofs about PropagationRunner: what a verdict says about the root      *)
(* action, the background workload and the clean-ups, and what is held of  *)
(* processes and experiments at every moment, whatever the processes do    *)
(* and however the executors fail.                                         *)
(***************************************************************************)
EXTENDS PropagationRunner, ExecutorProofs

\* Types of what run keeps itself; nothing is assumed of the executors.
RunTypes ==
  /\ background \in BOOLEAN
  /\ pc \in Places
  /\ exit \in {"end", "return", "raise", "interrupt"}
  /\ started \in {"none", "ok", "failed"}
  /\ alive \in {"unknown", "alive", "dead"}
  /\ cleaned \in BOOLEAN

\* Before the finally block nothing is cleaned up; in it, what has been is
\* determined by the place.
CleanupInv ==
  /\ pc \in InTry \cup {"finally", "root"} => ~cleaned /\ cleanups = <<>>
  /\ pc = "last" => ~cleaned /\ cleanups = <<"root">> /\ started = "ok"
  /\ pc = "result" /\ cleaned =>
       cleanups = IF started = "ok" THEN <<"root", "background">> ELSE <<"root">>

\* The background workload is asked before it is cleaned up.
AliveInv ==
  /\ started = "ok" => background
  /\ pc \in {"root", "last", "result"} /\ started = "ok" => alive # "unknown"

\* There is no status before the end, except that of the early return.
StatusInv ==
  /\ pc # "done" => status = IF exit = "return" THEN "SYSTEM_ERROR" ELSE "none"
  /\ pc \in InTry \cup {"result"} => exit = "end"

IInv == RunTypes /\ CleanupInv /\ AliveInv /\ StatusInv /\ VerdictsAreEarned

-----------------------------------------------------------------------------
\* Without a root action that succeeded, a clean-up or a living background
\* workload, there is nothing but a system error to report.
LEMMA VerdictNeeds ==
  ASSUME NEW graphHit \in BOOLEAN, NEW ranAlive, NEW ranClean,
         Verdict(graphHit, ranAlive, ranClean) # "SYSTEM_ERROR"
  PROVE  root = "ok" /\ (background => started = "ok") /\ ranAlive # "dead" /\ ranClean
  BY DEF Verdict

\* What the second clean-up makes of the list.
LEMMA TwoCleanups == Append(<<"root">>, "background") = <<"root", "background">>
<1>1. /\ <<"root">> \in Seq(Roles) /\ Len(<<"root">>) = 1 /\ <<"root">>[1] = "root"
      /\ <<"root", "background">> \in Seq(Roles) /\ Len(<<"root", "background">>) = 2
      /\ <<"root", "background">>[1] = "root" /\ <<"root", "background">>[2] = "background"
      /\ "background" \in Roles
  BY DEF Roles
<1>2. /\ Append(<<"root">>, "background") \in Seq(Roles)
      /\ Len(Append(<<"root">>, "background")) = 2
      /\ Append(<<"root">>, "background")[1] = "root"
      /\ Append(<<"root">>, "background")[2] = "background"
  BY <1>1, AppendProperties
<1>3. \A i \in 1..2 : i = 1 \/ i = 2
  OBVIOUS
<1>4. QED
  BY <1>1, <1>2, <1>3, SeqEqual

\* The invariant holds at first.
LEMMA InitInductive == Init => IInv
  BY DEF Init, IInv, RunTypes, CleanupInv, AliveInv, StatusInv, VerdictsAreEarned, Places, InTry, Stops

\* The steps of the try block: what they change is none of the clean-up's.
LEMMA TryStep ==
  ASSUME IInv, pc \in InTry,
         \/ pc' \in InTry /\ UNCHANGED exit
         \/ pc' = "finally" /\ exit' \in {"end", "raise", "interrupt"},
         started' \in {"none", "ok", "failed"}, started' = "ok" => background,
         UNCHANGED <<background, alive, cleaned, cleanups, status>>
  PROVE  IInv'
<1>1. RunTypes'
  BY DEF IInv, RunTypes, Places
<1>2. CleanupInv' /\ AliveInv'
  BY DEF IInv, CleanupInv, AliveInv, InTry
<1>3. StatusInv' /\ VerdictsAreEarned'
  BY DEF IInv, StatusInv, VerdictsAreEarned, InTry
<1>4. QED
  BY <1>1, <1>2, <1>3 DEF IInv

\* Every step keeps the invariant.
LEMMA StepInductive == IInv /\ [Next]_vars => IInv'
<1> SUFFICES ASSUME IInv, [Next]_vars
             PROVE  IInv'
  OBVIOUS
<1>1. CASE StartBackground \/ StartSampling \/ Inject \/ Execute \/ ExecuteStarts
  <2>1. pc \in InTry /\ UNCHANGED <<background, alive, cleaned, cleanups, status>>
    BY <1>1 DEF StartBackground, StartSampling, Inject, Execute, ExecuteStarts, InTry
  <2>2. \/ pc' \in InTry /\ UNCHANGED exit
        \/ pc' = "finally" /\ exit' \in {"end", "raise", "interrupt"}
    BY <1>1 DEF StartBackground, StartSampling, Inject, Execute, ExecuteStarts, InTry, Leave, Stay
  <2>3. started' \in {"none", "ok", "failed"} /\ (started' = "ok" => background)
    BY <1>1 DEF StartBackground, StartSampling, Inject, Execute, ExecuteStarts, Results,
                IInv, RunTypes, AliveInv
  <2>4. QED
    BY <2>1, <2>2, <2>3, TryStep
<1>2. CASE ExecuteSeesExit \/ ExecuteTimesOut \/ Observe \/ InterruptedStart
           \/ (Interrupt /\ pc \in InTry)
  <2>1. pc \in InTry /\ UNCHANGED <<background, alive, cleaned, cleanups, status, started>>
    BY <1>2 DEF ExecuteSeesExit, ExecuteTimesOut, Observe, Interrupt, InterruptedStart, InTry
  <2>2. \/ pc' \in InTry /\ UNCHANGED exit
        \/ pc' = "finally" /\ exit' \in {"end", "raise", "interrupt"}
    BY <1>2 DEF ExecuteSeesExit, ExecuteTimesOut, Observe, Interrupt, InterruptedStart, InTry,
                Leave, Stay
  <2>3. started' \in {"none", "ok", "failed"} /\ (started' = "ok" => background)
    BY <2>1 DEF IInv, RunTypes, AliveInv
  <2>4. QED
    BY <2>1, <2>2, <2>3, TryStep
<1>3. CASE EarlyResult
  <2>1. /\ pc = "early" /\ pc' = "finally"
        /\ UNCHANGED <<background, started, root, alive, cleaned, cleanups>>
    BY <1>3 DEF EarlyResult, Leave
  <2>2. \/ exit' = "return" /\ status' = "SYSTEM_ERROR"
        \/ exit' = "raise" /\ UNCHANGED status
    BY <1>3, VerdictNeeds DEF EarlyResult, Leave
  <2>3. RunTypes' /\ CleanupInv' /\ AliveInv'
    BY <2>1, <2>2 DEF IInv, RunTypes, CleanupInv, AliveInv, Places, InTry
  <2>4. StatusInv' /\ VerdictsAreEarned'
    BY <2>1, <2>2 DEF IInv, StatusInv, VerdictsAreEarned, InTry
  <2>5. QED
    BY <2>3, <2>4 DEF IInv
<1>4. CASE EnterFinally
  <2>1. /\ pc = "finally" /\ pc' = "root"
        /\ started = "ok" => alive' \in {"alive", "dead"}
        /\ alive' \in {alive, "alive", "dead"}
        /\ UNCHANGED <<background, exit, started, root, cleaned, cleanups, status>>
    BY <1>4 DEF EnterFinally
  <2>2. RunTypes' /\ CleanupInv' /\ AliveInv'
    BY <2>1 DEF IInv, RunTypes, CleanupInv, AliveInv, Places, InTry
  <2>3. StatusInv' /\ VerdictsAreEarned'
    BY <2>1 DEF IInv, StatusInv, VerdictsAreEarned, InTry
  <2>4. QED
    BY <2>2, <2>3 DEF IInv
<1>5. CASE CleanupRoot \/ CleanupBackground
  <2>1. /\ pc \in {"root", "last"}
        /\ UNCHANGED <<background, exit, started, root, alive, status>>
    BY <1>5 DEF CleanupRoot, CleanupBackground
  <2>2. CASE /\ pc = "root" /\ pc' = "last" /\ started = "ok"
             /\ cleanups' = Append(cleanups, "root") /\ UNCHANGED cleaned
    <3>1. cleanups = <<>> /\ ~cleaned
      BY <2>2 DEF IInv, CleanupInv
    <3>2. cleanups' = <<"root">>
      BY <2>2, <3>1
    <3>3. RunTypes' /\ CleanupInv' /\ AliveInv'
      BY <2>1, <2>2, <3>1, <3>2 DEF IInv, RunTypes, CleanupInv, AliveInv, Places, InTry
    <3>4. StatusInv' /\ VerdictsAreEarned'
      BY <2>1, <2>2 DEF IInv, StatusInv, VerdictsAreEarned, InTry
    <3>5. QED
      BY <3>3, <3>4 DEF IInv
  <2>3. CASE AfterFinally /\ (cleaned' => cleanups' = IF started = "ok" THEN <<"root", "background">> ELSE <<"root">>)
             /\ cleaned' \in BOOLEAN
    <3>1. \/ exit = "end" /\ pc' = "result"
          \/ exit = "return" /\ pc' = "done" /\ status = "SYSTEM_ERROR"
          \/ exit \in {"raise", "interrupt"} /\ pc' = "raised"
      BY <2>1, <2>3 DEF IInv, RunTypes, StatusInv, AfterFinally
    <3>2. RunTypes' /\ CleanupInv' /\ AliveInv'
      BY <2>1, <2>3, <3>1 DEF IInv, RunTypes, CleanupInv, AliveInv, Places, Stops, InTry
    <3>3. StatusInv' /\ VerdictsAreEarned'
      BY <2>1, <3>1 DEF IInv, StatusInv, VerdictsAreEarned, InTry
    <3>4. QED
      BY <3>2, <3>3 DEF IInv
  <2>4. CASE CleanupRoot
    <3>1. cleanups = <<>> /\ ~cleaned
      BY <2>4 DEF CleanupRoot, IInv, CleanupInv
    <3>2. cleanups' = Append(cleanups, "root") => cleanups' = <<"root">>
      BY <3>1
    <3>3. QED
      BY <2>2, <2>3, <2>4, <3>1, <3>2 DEF CleanupRoot, IInv, RunTypes
  <2>5. CASE CleanupBackground
    <3>1. cleanups = <<"root">> /\ ~cleaned /\ started = "ok"
      BY <2>5 DEF CleanupBackground, IInv, CleanupInv
    <3>2. cleanups' = Append(cleanups, "background") => cleanups' = <<"root", "background">>
      BY <3>1, TwoCleanups
    <3>3. AfterFinally /\ (\/ cleaned' = TRUE /\ cleanups' = Append(cleanups, "background")
                           \/ UNCHANGED <<cleaned, cleanups>>)
      BY <2>5 DEF CleanupBackground
    <3>4. cleaned' \in BOOLEAN
      BY <3>3 DEF IInv, RunTypes
    <3>5. cleaned' => cleanups' = <<"root", "background">>
      BY <3>1, <3>2, <3>3
    <3>6. QED
      BY <2>3, <3>1, <3>3, <3>4, <3>5
  <2>6. QED
    BY <1>5, <2>4, <2>5
<1>6. CASE Result
  <2>1. /\ pc = "result" /\ pc' \in {"done", "raised"}
        /\ UNCHANGED <<background, exit, started, root, alive, cleaned, cleanups>>
    BY <1>6 DEF Result
  <2>2. RunTypes' /\ CleanupInv' /\ AliveInv'
    BY <2>1 DEF IInv, RunTypes, CleanupInv, AliveInv, Places, Stops, InTry
  <2>3. CASE pc' = "raised" /\ UNCHANGED status
    <3>1. StatusInv' /\ VerdictsAreEarned'
      BY <2>1, <2>3 DEF IInv, StatusInv, VerdictsAreEarned, InTry
    <3>2. QED
      BY <2>2, <3>1 DEF IInv
  <2>4. CASE pc' = "done" /\ \E hit \in BOOLEAN : status' = Verdict(hit, alive, cleaned)
    <3>1. status' # "SYSTEM_ERROR" =>
            root = "ok" /\ (background => started = "ok") /\ alive # "dead" /\ cleaned
      BY <2>4, VerdictNeeds
    <3>2. started = "ok" => background /\ alive # "unknown"
      BY <2>1 DEF IInv, AliveInv
    <3>3. cleaned => cleanups = IF started = "ok" THEN <<"root", "background">> ELSE <<"root">>
      BY <2>1 DEF IInv, CleanupInv
    <3>4. VerdictsAreEarned'
      BY <2>1, <3>1, <3>2, <3>3 DEF IInv, RunTypes, VerdictsAreEarned
    <3>5. StatusInv'
      BY <2>4 DEF StatusInv, InTry
    <3>6. QED
      BY <2>2, <3>4, <3>5 DEF IInv
  <2>5. QED
    BY <1>6, <2>3, <2>4 DEF Result
<1>7. CASE Interrupt /\ pc \notin InTry
  <2>1. /\ pc \in {"finally", "root", "last", "result"} /\ pc' = "interrupted"
        /\ UNCHANGED <<background, exit, started, root, alive, cleaned, cleanups, status>>
    BY <1>7 DEF Interrupt, Stay
  <2>2. RunTypes' /\ CleanupInv' /\ AliveInv'
    BY <2>1 DEF IInv, RunTypes, CleanupInv, AliveInv, Places, Stops, InTry
  <2>3. StatusInv' /\ VerdictsAreEarned'
    BY <2>1 DEF IInv, StatusInv, VerdictsAreEarned, InTry
  <2>4. QED
    BY <2>2, <2>3 DEF IInv
<1>8. CASE SamplerThreadEnds \/ Outside \/ UNCHANGED vars
  <2>1. UNCHANGED <<background, pc, exit, started, root, alive, cleaned, cleanups, status>>
    BY <1>8 DEF SamplerThreadEnds, Outside, vars, runVars
  <2>2. QED
    BY <2>1 DEF IInv, RunTypes, CleanupInv, AliveInv, StatusInv, VerdictsAreEarned
<1>9. QED
  BY <1>1, <1>2, <1>3, <1>4, <1>5, <1>6, <1>7, <1>8 DEF Next, Run

-----------------------------------------------------------------------------
\* A verdict, of success or of a miss, is about an experiment whose root action
\* succeeded, whose background workload was there to the end, and whose
\* clean-ups all returned, in their order.
THEOREM VerdictsEarned == Spec => []VerdictsAreEarned
<1>1. IInv => VerdictsAreEarned
  BY DEF IInv
<1>2. QED
  BY InitInductive, StepInductive, <1>1, PTL DEF Spec
-----------------------------------------------------------------------------
\* What run holds of processes and experiments.

\* The places before anything of the root action is started.
Before == {"background", "early", "sample", "inject"}

Only(role) == \A p \in 1..Len(processes) : processes[p].role = role

\* The processes and experiments are those of starts that have been called, and
\* a background workload is one that run knows of, or that an interrupt hid.
StartedInv ==
  /\ pc = "background" => Len(processes) = 0 /\ started = "none"
  /\ pc \in Before => Len(blades) = 0 /\ Only("background")
  /\ started # "ok" => Unnoticed \/ Only("root")
  /\ kind # "benchbase" => Only("background")

\* A clean-up that is done has stopped what the executor held, unless it did not
\* know of it.
EndInv == cleaned /\ ~Unnoticed => ~IsAlive

ExecInv == ExecTypeOK /\ Known /\ StartedInv /\ EndInv

\* How the run has ended, as Custody sees it.
Ended ==
  IF pc \notin Stops THEN "no"
  ELSE IF cleaned /\ activeUid = 0 /\ ~Unnoticed THEN "clean" ELSE "unclean"

\* What a step of the runner may do to the workloads.
Kept == Keeps(Ended, Ended')

\* The executors' invariant holds at first.
LEMMA ExecInitInductive == Init => ExecInv
<1> SUFFICES ASSUME Init
             PROVE  ExecInv
  OBVIOUS
<1>1. ExecInit /\ started = "none" /\ ~cleaned
  BY DEF Init
<1>2. ExecTypeOK /\ Known /\ Len(processes) = 0 /\ Len(blades) = 0
  BY <1>1, ExecInitHolds
<1> QED
  BY <1>1, <1>2 DEF ExecInv, StartedInv, Only, EndInv

\* What an interrupt hid from run stays hidden.
LEMMA StaysUnnoticed ==
  ASSUME IInv, [Next]_vars, Unnoticed
  PROVE  Unnoticed'
<1>1. pc \notin InTry /\ exit = "interrupt" /\ background /\ started = "none"
  BY DEF Unnoticed, IInv, StatusInv
<1>2. UNCHANGED <<exit, background, started>>
  BY <1>1 DEF Next, Run, StartBackground, EarlyResult, StartSampling, Inject, Execute,
     ExecuteStarts, ExecuteSeesExit, ExecuteTimesOut, Observe, EnterFinally, CleanupRoot,
     CleanupBackground, Result, Interrupt, InterruptedStart, SamplerThreadEnds, Outside,
     vars, runVars, InTry, Stay
<1> QED
  BY <1>1, <1>2 DEF Unnoticed

\* A step that starts nothing, and does not return to a place before the start.
LEMMA CalmKeeps ==
  ASSUME ExecInv, ExecTypeOK', Known', Frees, IsAlive' => IsAlive, Unnoticed => Unnoticed',
         kind' = kind, started' = started, Len(processes') = Len(processes),
         \A p \in 1..Len(processes) : processes'[p].role = processes[p].role,
         pc' \in Before => pc \in Before /\ Len(blades') = Len(blades),
         pc' = "background" => pc = "background",
         pc \notin Stops \/ UNCHANGED <<pc, cleaned, activeUid, exit, background>>,
         cleaned' /\ ~Unnoticed' => cleaned \/ ~IsAlive'
  PROVE  ExecInv' /\ Kept
<1>1. StartedInv'
  BY DEF ExecInv, StartedInv, Only
<1>2. EndInv'
  BY DEF ExecInv, EndInv
<1>3. Ended' = Ended \/ (Ended = "no" /\ Ended' \in {"clean", "unclean"})
  BY DEF Ended, Unnoticed
<1>4. Ended' = "clean" => activeUid' = 0 /\ ~IsAlive'
  BY <1>2 DEF Ended, EndInv
<1>5. Kept
  <2>1. CASE Ended' = Ended
    BY <2>1, FreesDrops DEF Kept, Keeps
  <2>2. CASE Ended = "no" /\ Ended' = "clean"
    BY <1>4, <2>2, EndsClean DEF Kept
  <2>3. CASE Ended = "no" /\ Ended' = "unclean"
    BY <2>3 DEF Kept, Keeps
  <2> QED
    BY <1>3, <2>1, <2>2, <2>3
<1> QED
  BY <1>1, <1>2, <1>5 DEF ExecInv

\* The same when the executors do nothing, or what no process sees.
LEMMA CalmExecutors ==
  ASSUME ExecInv, UNCHANGED <<kind, wellFormed, processes, process, blades, activeUid, started>>,
         backupTable' \in BOOLEAN, stopEvent' \in BOOLEAN, Unnoticed => Unnoticed',
         pc' \in Before => pc \in Before, pc' = "background" => pc = "background",
         pc \notin Stops \/ UNCHANGED <<pc, cleaned, exit, background>>,
         cleaned' /\ ~Unnoticed' => cleaned \/ ~IsAlive'
  PROVE  ExecInv' /\ Kept
<1>1. ExecTypeOK' /\ Known' /\ Frees /\ (IsAlive' => IsAlive)
  BY QuietKeeps DEF ExecInv
<1> QED
  BY <1>1, CalmKeeps

\* The background workload starts when there is no other process, and its start
\* may be interrupted.
LEMMA StartBackgroundKeeps ==
  ASSUME IInv, ExecInv, StartBackground \/ (InterruptedStart /\ pc = "background")
  PROVE  ExecInv' /\ Kept
<1>1. /\ pc = "background" /\ pc' \in {"sample", "early", "finally"}
      /\ ~cleaned /\ cleaned' = cleaned /\ exit = "end" /\ background' = background
      /\ started = "none" /\ Len(processes) = 0 /\ Len(blades) = 0
  BY DEF StartBackground, InterruptedStart, Stay, Leave, IInv, CleanupInv, StatusInv, InTry,
         ExecInv, StartedInv, Before
<1>2. Ended = "no" /\ Ended' = "no"
  BY <1>1 DEF Ended, Stops
<1>3. Alone /\ RunningOnes = {}
  BY <1>1, AloneWhen DEF ExecInv
<1>4. CASE StartBackground /\ ~background
  <2>1. UNCHANGED <<execVars, started>>
    BY <1>4 DEF StartBackground
  <2> QED
    BY <1>1, <2>1, CalmExecutors DEF execVars, ExecInv, ExecTypeOK, Before, Stops, Unnoticed
<1>5. ASSUME ExecTypeOK', Known', kind' = kind, blades' = blades, Drops \/ Takes \/ Slips,
             started' = "ok" \/ Unnoticed' \/ Len(processes') = 0,
             \A p \in 1..Len(processes') :
               \/ processes'[p].role = "background"
               \/ p \in 1..Len(processes) /\ processes'[p].role = processes[p].role
      PROVE  ExecInv' /\ Kept
  <2>1. \A p \in 1..Len(processes') : processes'[p].role = "background"
    BY <1>1, <1>5
  <2>2. StartedInv'
    BY <1>1, <1>5, <2>1 DEF StartedInv, Only, Before
  <2> QED
    BY <1>1, <1>2, <1>5, <2>2 DEF ExecInv, EndInv, Kept, Keeps
<1>6. CASE StartBackground /\ background
  <2>1. PICK result \in Results :
          /\ BenchbaseStart("background", result)
          /\ started' = IF result = "raised" THEN started ELSE result
    BY <1>6 DEF StartBackground
  <2>2. result = "ok" => started' = "ok"
    BY <2>1
  <2>3. result # "ok" => Len(processes') = 0
    BY <1>1, <2>1 DEF BenchbaseStart
  <2> QED
    BY <1>3, <1>5, <2>1, <2>2, <2>3, StartKeeps DEF ExecInv, Roles
<1>7. CASE InterruptedStart
  <2>1. Unnoticed' /\ started' = started /\ BenchbaseStartInterrupted("background")
    BY <1>1, <1>7 DEF InterruptedStart, Leave, Unnoticed
  <2> QED
    BY <1>3, <1>5, <2>1, InterruptedKeeps DEF ExecInv, Roles
<1> QED
  BY <1>1, <1>4, <1>6, <1>7

\* A BenchBase root action starts when nothing else runs that it does not take over.
LEMMA RootKeeps ==
  ASSUME ExecInv, Alone, kind = "benchbase", Unnoticed => Unnoticed',
         (\E result \in Results : BenchbaseStart("root", result)) \/ BenchbaseStartInterrupted("root"),
         pc \notin Stops, pc' \notin Before \cup Stops, started' = started, ~cleaned'
  PROVE  ExecInv' /\ Kept
<1>1. /\ ExecTypeOK' /\ Known'
      /\ kind' = kind
      /\ \A p \in 1..Len(processes') :
           \/ processes'[p].role = "root"
           \/ p \in 1..Len(processes) /\ processes'[p].role = processes[p].role
      /\ Drops \/ Takes \/ Slips
  BY StartKeeps, InterruptedKeeps DEF ExecInv, Roles
<1>2. StartedInv'
  BY <1>1 DEF ExecInv, StartedInv, Only, Before
<1>3. Ended = "no" /\ Ended' = "no"
  BY DEF Ended
<1> QED
  BY <1>1, <1>2, <1>3 DEF ExecInv, EndInv, Kept, Keeps

\* An experiment is created when there is none that is live.
LEMMA ChaosKeeps ==
  ASSUME ExecInv, kind = "chaosblade", activeUid = 0 \/ Len(blades) = 0,
         NEW result, ChaosStart(result), Unnoticed => Unnoticed',
         UNCHANGED <<started, cleaned>>, ~cleaned, pc \notin Stops, pc' \notin Before \cup Stops
  PROVE  ExecInv' /\ Kept
<1>1. /\ LiveBlades = {}
      /\ \A p \in 1..Len(processes) : processes[p].role = "background"
  BY DEF ExecInv, Known, Unorphaned, LiveBlades, StartedInv, Only
<1>2. /\ ExecTypeOK' /\ Known' /\ (IsAlive' <=> IsAlive)
      /\ UNCHANGED <<kind, processes, process>>
      /\ Drops \/ Takes \/ Slips
  BY <1>1, ChaosStartKeeps DEF ExecInv
<1>3. StartedInv' /\ EndInv'
  BY <1>2 DEF ExecInv, StartedInv, EndInv, Only, Before
<1>4. Ended = "no" /\ Ended' = "no"
  BY DEF Ended
<1> QED
  BY <1>2, <1>3, <1>4 DEF ExecInv, Kept, Keeps

\* The start of the root action, which may be interrupted.
LEMMA InjectKeeps ==
  ASSUME IInv, ExecInv, Unnoticed => Unnoticed', Inject \/ (InterruptedStart /\ pc = "inject")
  PROVE  ExecInv' /\ Kept
<1>1. (\E result \in Results : RootStart(result)) \/ RootStartInterrupted
  BY DEF Inject, InterruptedStart
<1>2. /\ pc = "inject" /\ pc' \notin Before \cup Stops /\ pc \notin Stops
      /\ UNCHANGED <<started, cleaned>> /\ ~cleaned
  BY DEF Inject, InterruptedStart, Stay, Leave, Before, Stops, IInv, CleanupInv, InTry
<1>3. Len(blades) = 0 /\ Only("background")
  BY <1>2 DEF ExecInv, StartedInv, Before
<1>4. CASE kind = "benchbase" /\ (\/ \E result \in Results : BenchbaseStart("root", result)
                                  \/ BenchbaseStartInterrupted("root"))
  <2>1. Alone
    BY <1>3, <1>4, AloneWhen DEF ExecInv, Only
  <2> QED
    BY <1>2, <1>4, <2>1, RootKeeps
<1>5. CASE kind = "chaosblade" /\ \E result \in Results : ChaosStart(result)
  BY <1>2, <1>3, <1>5, ChaosKeeps
<1>6. CASE UNCHANGED execVars \/ (stopEvent' = FALSE /\
             UNCHANGED <<kind, wellFormed, processes, process, blades, activeUid, backupTable>>)
  BY <1>2, <1>6, CalmExecutors DEF execVars, ExecInv, ExecTypeOK, Before
<1> QED
  BY <1>1, <1>4, <1>5, <1>6 DEF RootStart, RootStartInterrupted, ChaosStartInterrupted, Results

\* execute of the executors that do it in one call, which may be interrupted.
LEMMA ExecuteKeeps ==
  ASSUME IInv, ExecInv, Unnoticed => Unnoticed', Execute \/ (InterruptedStart /\ pc = "execute")
  PROVE  ExecInv' /\ Kept
<1>1. (\E result \in Results : RootExecute(result)) \/ RootExecuteInterrupted
  BY DEF Execute, InterruptedStart
<1>2. /\ pc' \notin Before \cup Stops /\ pc \notin Stops
      /\ UNCHANGED <<started, cleaned>> /\ ~cleaned
  BY DEF Execute, InterruptedStart, Stay, Leave, Before, Stops, IInv, CleanupInv, InTry
<1>3. CASE kind = "chaosblade" /\ activeUid = 0 /\ \E result \in Results : ChaosStart(result)
  BY <1>2, <1>3, ChaosKeeps
<1>4. CASE UNCHANGED execVars \/ (\E result : CreateTable(result))
  BY <1>2, <1>4, CalmExecutors DEF CreateTable, execVars, ExecInv, ExecTypeOK, Before
<1>5. CASE kind = "benchbase" /\ ~IsAlive /\ BenchbaseStartInterrupted("root")
  <2>1. Alone
    BY <1>5, AloneWhen DEF ExecInv
  <2> QED
    BY <1>2, <1>5, <2>1, RootKeeps
<1>6. CASE \E result \in Results : RootExecute(result)
  BY <1>3, <1>4, <1>6 DEF RootExecute
<1>7. CASE RootExecuteInterrupted
  BY <1>3, <1>4, <1>5, <1>7 DEF RootExecuteInterrupted, ChaosStartInterrupted, Results
<1> QED
  BY <1>1, <1>6, <1>7

\* execute of a BenchBase action.
LEMMA ExecuteBenchbaseKeeps ==
  ASSUME IInv, ExecInv, Unnoticed => Unnoticed',
         ExecuteStarts \/ ExecuteSeesExit \/ ExecuteTimesOut
  PROVE  ExecInv' /\ Kept
<1>1. /\ pc' \notin Before \cup Stops /\ pc \notin Stops
      /\ UNCHANGED <<started, cleaned>> /\ ~cleaned
  BY DEF ExecuteStarts, ExecuteSeesExit, ExecuteTimesOut, Stay, Leave, Before, Stops,
         IInv, CleanupInv, InTry
<1>2. CASE ExecuteStarts
  <2>1. PICK result \in Results : BenchbaseEnsure(result)
    BY <1>2 DEF ExecuteStarts
  <2>2. CASE UNCHANGED execVars
    BY <1>1, <2>2, CalmExecutors DEF execVars, ExecInv, ExecTypeOK, Before
  <2>3. CASE ~IsAlive /\ BenchbaseStart("root", result)
    <3>1. kind = "benchbase"
      BY <1>2 DEF ExecuteStarts
    <3>2. Alone
      BY <2>3, <3>1, AloneWhen DEF ExecInv
    <3> QED
      BY <1>1, <2>3, <3>1, <3>2, RootKeeps
  <2> QED
    BY <2>1, <2>2, <2>3 DEF BenchbaseEnsure
<1>3. CASE ExecuteSeesExit
  <2>1. UNCHANGED execVars
    BY <1>3 DEF ExecuteSeesExit
  <2> QED
    BY <1>1, <2>1, CalmExecutors DEF execVars, ExecInv, ExecTypeOK, Before
<1>4. CASE ExecuteTimesOut
  <2>1. PICK result \in Results : BenchbaseStop(result)
    BY <1>4 DEF ExecuteTimesOut, Results
  <2>2. process' = process
    BY <1>4 DEF ExecuteTimesOut
  <2>3. /\ ExecTypeOK' /\ Known' /\ Frees /\ (IsAlive' => IsAlive) /\ kind' = kind
        /\ Len(processes') = Len(processes)
        /\ \A p \in 1..Len(processes) : processes'[p].role = processes[p].role
    BY <2>1, <2>2, StopKeeps DEF ExecInv
  <2> QED
    BY <1>1, <2>3, CalmKeeps DEF Before
<1> QED
  BY <1>2, <1>3, <1>4

\* A clean-up of BenchBaseExecutor.
LEMMA CleanupKeeps ==
  ASSUME ExecInv, NEW result, BenchbaseCleanup(result), started' = started,
         Unnoticed => Unnoticed',
         pc \notin Stops, pc' \notin Before, cleaned' = cleaned \/ result = "ok"
  PROVE  ExecInv' /\ Kept
<1>1. /\ ExecTypeOK' /\ Known' /\ Frees /\ (IsAlive' => IsAlive) /\ kind' = kind
      /\ Len(processes') = Len(processes)
      /\ \A p \in 1..Len(processes) : processes'[p].role = processes[p].role
      /\ result = "ok" => ~IsAlive'
  BY StopKeeps DEF ExecInv, BenchbaseCleanup
<1> QED
  BY <1>1, CalmKeeps DEF Before

\* The finally block: of an executor other than BenchBaseExecutor, nothing is
\* held that the background's clean-up does not stop, unless it was hidden.
LEMMA FinallyKeeps ==
  ASSUME IInv, ExecInv, Unnoticed => Unnoticed', CleanupRoot \/ CleanupBackground
  PROVE  ExecInv' /\ Kept
<1>1. /\ pc \in {"root", "last"} /\ pc' \notin Before /\ pc \notin Stops
      /\ started' = started
  BY DEF CleanupRoot, CleanupBackground, AfterFinally, IInv, RunTypes, Before, Stops
<1>2. CASE CleanupBackground
  <2>1. \E result \in Results : BenchbaseCleanup(result) /\ (cleaned' = cleaned \/ result = "ok")
    BY <1>2 DEF CleanupBackground, Results
  <2> QED
    BY <1>1, <2>1, CleanupKeeps
<1>3. CASE CleanupRoot
  <2>1. PICK result \in Results :
          /\ RootCleanup(result)
          /\ cleaned' = cleaned \/ (result = "ok" /\ started # "ok")
    BY <1>3 DEF CleanupRoot, Results
  <2>2. CASE BenchbaseCleanup(result)
    BY <1>1, <2>1, <2>2, CleanupKeeps
  <2>3. CASE kind # "benchbase"
    <3>1. started # "ok" /\ ~Unnoticed => Len(processes) = 0
      BY <2>3 DEF ExecInv, StartedInv, Only, ExecTypeOK
    <3>2. started # "ok" /\ ~Unnoticed => ~IsAlive
      BY <3>1 DEF ExecInv, ExecTypeOK, IsAlive
    <3>3. /\ UNCHANGED <<kind, processes, process>> /\ Len(blades') = Len(blades)
          /\ ExecTypeOK' /\ Known' /\ Frees /\ (IsAlive' <=> IsAlive)
      <4>1. CASE ChaosStop
        BY <4>1, ChaosEndKeeps DEF ExecInv
      <4>2. CASE ~ChaosStop
        <5>1. UNCHANGED <<kind, wellFormed, processes, process, blades, activeUid>>
          BY <2>1, <2>3, <4>2 DEF RootCleanup, execVars
        <5>2. stopEvent' \in BOOLEAN /\ backupTable' \in BOOLEAN
          BY <2>1, <2>3, <4>2 DEF RootCleanup, execVars, ExecInv, ExecTypeOK
        <5> QED
          BY <5>1, <5>2, QuietKeeps DEF ExecInv
      <4> QED
        BY <4>1, <4>2
    <3>4. Unnoticed' => Unnoticed
      BY <1>3 DEF CleanupRoot, Unnoticed
    <3>5. cleaned' /\ ~Unnoticed' => cleaned \/ ~IsAlive'
      BY <2>1, <3>2, <3>3
    <3> QED
      BY <1>1, <3>3, <3>5, CalmKeeps DEF Before
  <2> QED
    BY <2>1, <2>2, <2>3 DEF RootCleanup
<1> QED
  BY <1>2, <1>3

\* What ends by itself.
LEMMA OutsideKeeps ==
  ASSUME ExecInv, Outside
  PROVE  ExecInv' /\ Kept
<1>1. UNCHANGED runVars
  BY DEF Outside
<1>2. /\ ExecTypeOK' /\ Known' /\ Drops /\ (IsAlive' => IsAlive)
      /\ kind' = kind /\ activeUid' = activeUid
      /\ Len(processes') = Len(processes) /\ Len(blades') = Len(blades)
      /\ \A q \in 1..Len(processes) : processes'[q].role = processes[q].role
  <2>1. CASE WorkloadExits
    <3>1. PICK p \in RunningOnes \cup LostOnes, code \in {"zero", "nonzero"} :
            processes' = [processes EXCEPT ![p].status = code]
      BY <2>1 DEF WorkloadExits
    <3> QED
      BY <2>1, <3>1, EndKeeps DEF WorkloadExits, ExecInv
  <2>2. CASE BladeExpires
    BY <2>2, ChaosEndKeeps DEF ExecInv
  <2> QED
    BY <2>1, <2>2 DEF Outside
<1>3. Ended' = Ended /\ (Unnoticed' <=> Unnoticed)
  BY <1>1, <1>2 DEF Ended, Unnoticed, runVars
<1>4. StartedInv' /\ EndInv'
  BY <1>1, <1>2, <1>3 DEF ExecInv, StartedInv, EndInv, Only, runVars
<1> QED
  BY <1>2, <1>3, <1>4 DEF ExecInv, Kept, Keeps

\* Every step keeps what is held in order.
LEMMA ExecStep == IInv /\ ExecInv /\ [Next]_vars => ExecInv' /\ Kept
<1> SUFFICES ASSUME IInv, ExecInv, [Next]_vars
             PROVE  ExecInv' /\ Kept
  OBVIOUS
<1>0. Unnoticed => Unnoticed'
  BY StaysUnnoticed
<1>1. CASE EarlyResult \/ StartSampling \/ Observe \/ EnterFinally \/ Result \/ Interrupt
           \/ SamplerThreadEnds \/ UNCHANGED vars
  <2>1. UNCHANGED <<execVars, started, cleaned, background>>
    BY <1>1 DEF EarlyResult, StartSampling, Observe, EnterFinally, Result, Interrupt,
                SamplerThreadEnds, vars, runVars
  <2>2. /\ pc' \in Before => pc \in Before
        /\ pc' = "background" => pc = "background"
        /\ pc \notin Stops \/ (pc' = pc /\ exit' = exit)
    BY <1>1 DEF EarlyResult, StartSampling, Observe, EnterFinally, Result, Interrupt,
                SamplerThreadEnds, vars, runVars, Leave, Stay, Before, Stops, InTry
  <2> QED
    BY <1>0, <2>1, <2>2, CalmExecutors DEF execVars, ExecInv, ExecTypeOK
<1>2. CASE InterruptedStart
  <2>1. pc \in {"background", "inject", "execute"}
    BY <1>2 DEF InterruptedStart
  <2> QED
    BY <1>0, <1>2, <2>1, StartBackgroundKeeps, InjectKeeps, ExecuteKeeps
<1> QED
  BY <1>0, <1>1, <1>2, StartBackgroundKeeps, InjectKeeps, ExecuteKeeps, ExecuteBenchbaseKeeps,
     FinallyKeeps, OutsideKeeps DEF Next, Run

\* Both invariants, of every run.
LEMMA Inductive == Spec => [](IInv /\ ExecInv)
<1>1. IInv /\ ExecInv /\ [Next]_vars => (IInv /\ ExecInv)'
  BY StepInductive, ExecStep
<1> QED
  BY InitInductive, ExecInitInductive, <1>1, PTL DEF Spec

-----------------------------------------------------------------------------
\* What IInv leaves out of the types, as no other invariant needs it.
RestTypes ==
  /\ root \in {"none", "ok", "failed"}
  /\ cleanups \in Seq(Roles)
  /\ sampler \in {"off", "running", "stopping"}
  /\ status \in {"none", "EXPERIMENT_SUCCESS", "EXPERIMENT_MISS", "SYSTEM_ERROR"}

\* Every step keeps the rest of the types.
LEMMA RestStep == RestTypes /\ [Next]_vars => RestTypes'
<1> SUFFICES ASSUME RestTypes, [Next]_vars
             PROVE  RestTypes'
  OBVIOUS
<1> USE DEF RestTypes
<1>1. ASSUME NEW hit \in BOOLEAN, NEW ranAlive, NEW ranClean
      PROVE  Verdict(hit, ranAlive, ranClean) \in {"EXPERIMENT_SUCCESS", "EXPERIMENT_MISS", "SYSTEM_ERROR"}
  BY DEF Verdict
<1>2. \A role \in Roles : Append(cleanups, role) \in Seq(Roles)
  OBVIOUS
<1>3. CASE StartBackground \/ EarlyResult \/ StartSampling \/ Observe \/ EnterFinally \/ Result
  BY <1>1, <1>3 DEF StartBackground, EarlyResult, StartSampling, Observe, EnterFinally, Result
<1>4. CASE Inject \/ Execute \/ ExecuteStarts \/ ExecuteSeesExit \/ ExecuteTimesOut
           \/ InterruptedStart
  BY <1>4 DEF InterruptedStart, Inject, Execute, ExecuteStarts, ExecuteSeesExit, ExecuteTimesOut, Results, RootExecute
<1>5. CASE CleanupRoot \/ CleanupBackground
  BY <1>2, <1>5 DEF CleanupRoot, CleanupBackground, Roles
<1>6. CASE Interrupt \/ SamplerThreadEnds \/ Outside \/ UNCHANGED vars
  BY <1>6 DEF Interrupt, SamplerThreadEnds, Outside, vars, runVars
<1> QED
  BY <1>3, <1>4, <1>5, <1>6 DEF Next, Run

\* PropagationRunner's variables and the executors' have their types.
THEOREM TypeCorrect == Spec => []TypeOK
<1>1. Init => RestTypes
  BY DEF Init, RestTypes
<1>2. IInv /\ ExecInv /\ RestTypes => TypeOK
  BY DEF IInv, RunTypes, ExecInv, RestTypes, TypeOK
<1> QED
  BY Inductive, <1>1, <1>2, RestStep, PTL DEF Spec

\* A process or an experiment that runs is one that the executor holds, in this
\* runner as well: the background starts before there is any other, the root
\* action when nothing that is counted runs, and every way out of the try block
\* passes the same clean-ups.
THEOREM NothingOrphaned == Spec => []Unorphaned
  BY Inductive, PTL DEF ExecInv, Known

\* A step that keeps is one of Custody, or none.
LEMMA KeptRefines ==
  ASSUME kind' = kind, Kept
  PROVE  [Holds!Next]_(Holds!vars)
<1> USE DEF Holds!Next, Holds!vars
<1>1. CASE Ended' = Ended /\ Drops
  BY <1>1 DEF Drops, Holds!Drop, Ended
<1>2. CASE Ended = "no" /\ Ended' = "no" /\ Takes
  BY <1>2 DEF Takes, Holds!Acquire, Holds!Role, Ended
<1>3. CASE Ended = "no" /\ Ended' = "no" /\ Slips
  BY <1>3 DEF Slips, Holds!AcquireUntold, Ended
<1>4. CASE Ended = "no" /\ Ended' = "unclean" /\ Frees
  BY <1>4 DEF Frees, Holds!EndUnclean, Ended
<1>5. CASE Ended = "no" /\ Ended' = "clean" /\ Frees /\ InHand' = {}
  BY <1>5 DEF Frees, Holds!EndClean, Ended
<1> QED
  BY <1>1, <1>2, <1>3, <1>4, <1>5 DEF Kept, Keeps

\* The type of the root action does not change.
LEMMA KindStays == [Next]_vars => kind' = kind
  BY DEF Next, Run, StartBackground, EarlyResult, StartSampling, Inject, Execute, ExecuteStarts,
     ExecuteSeesExit, ExecuteTimesOut, Observe, EnterFinally, CleanupRoot, CleanupBackground,
     Result, Interrupt, InterruptedStart, SamplerThreadEnds, Outside, vars, execVars,
     BenchbaseStart, BenchbaseStartInterrupted, BenchbaseStop, BenchbaseCleanup, BenchbaseEnsure,
     ChaosStart, ChaosStartInterrupted, ChaosStop, RootStart, RootStartInterrupted, CreateTable,
     RootExecute, RootExecuteInterrupted, RootCleanup, WorkloadExits, BladeExpires

\* PropagationRunner.run implements Custody, of processes and of ChaosBlade
\* experiments: it holds at most one workload of each role, starts none once it
\* has ended, loses hold of one only when it starts one, and when the clean-ups
\* that were due have returned, no destroy has failed and no interrupt has hidden
\* the background, it ends with nothing that it could have stopped.
THEOREM Custodian == Spec => KeepsCustody
<1>1. Init => Holds!Init
  <2> SUFFICES ASSUME Init
               PROVE  Holds!Init
    OBVIOUS
  <2>1. ExecInit /\ pc = "background"
    BY DEF Init
  <2>2. InHand = {} /\ OutOfHand = {}
    BY <2>1, ExecInitHolds
  <2> QED
    BY <2>1, <2>2 DEF Holds!Init, Stops
<1>2. IInv /\ ExecInv /\ [Next]_vars => [Holds!Next]_(Holds!vars)
  BY ExecStep, KindStays, KeptRefines
<1> QED
  BY Inductive, <1>1, <1>2, PTL DEF Spec, Holds!Spec, KeepsCustody
==============================================================================
