-------------------------------- MODULE Sampling --------------------------------
(***************************************************************************)
(* MetricsSampler and ExperimentTimeline: the thread that samples and the  *)
(* thread of the experiment, which marks the phases, share the timeline,   *)
(* the stop event and self.timeline.  One sampler serves several runs of   *)
(* PropagationRunner.run.                                                  *)
(*                                                                         *)
(* What a metric is worth depends on when the server was read: before the  *)
(* injection was marked, after the mark, or after the root action was      *)
(* started.  A reading is therefore its run and one of these three times.  *)
(* One provider stands for all of them, and one raw counter for what it    *)
(* collects.                                                               *)
(***************************************************************************)
EXTENDS Naturals, Sequences

CONSTANTS
  MaxRuns,     \* bound: how many runs share the sampler
  MaxRounds    \* bound: how many rounds a sampler thread makes

ASSUME SamplingAssumption == MaxRuns \in Nat \ {0} /\ MaxRounds \in Nat

VARIABLES
  run,       \* which run of PropagationRunner.run this is
  at,        \* where it stands
  acted,     \* the root action of this run was started
  stopping,  \* _stop
  timeline,  \* self.timeline: the run whose timeline it is, 0 for None
  previous,  \* _previous_buffer_pool: a reading, 0 for None
  markers,   \* the phases that were marked, run by run
  samples,   \* the samples that were added, run by run
  thread     \* the sampler threads, run by run

samplingVars == <<run, at, acted, stopping, timeline, previous, markers, samples, thread>>

Runs   == 1..MaxRuns
Phases == <<"warmup", "baseline", "injection", "observing", "recovery", "stopped">>

\* A reading of run r before the injection's mark, after it, and after the
\* start of the root action.
Before(r) == 3 * r
Marked(r) == 3 * r + 1
After(r)  == 3 * r + 2
Reading   == IF acted THEN After(run) ELSE IF at = "act" THEN Marked(run) ELSE Before(run)
Readings  == 0..After(MaxRuns)

NoThread == [pc |-> "none", into |-> 0, value |-> 0, label |-> "warmup", rounds |-> 0]

SamplingInit ==
  /\ run = 1
  /\ at = "start"
  /\ acted = FALSE
  /\ stopping = FALSE
  /\ timeline = 0
  /\ previous = 0
  /\ markers = [r \in Runs |-> <<"warmup">>]
  /\ samples = [r \in Runs |-> <<>>]
  /\ thread = [r \in Runs |-> NoThread]

-----------------------------------------------------------------------------
\* The thread of the experiment

Running == \E r \in Runs : thread[r].pc \notin {"none", "done"}

Mark(r, phase) == markers' = [markers EXCEPT ![r] = Append(@, phase)]

Launch ==
  /\ timeline' = run
  /\ Mark(run, "warmup")
  /\ stopping' = FALSE
  /\ thread' = [thread EXCEPT ![run] = [NoThread EXCEPT !.pc = "loop"]]
  /\ at' = "baseline"
  /\ UNCHANGED <<run, acted, samples>>

\* Variant: the reading of the run before is the first run's previous one.
StartKeepsPrevious == at = "start" /\ ~Running /\ Launch /\ UNCHANGED previous

\* start makes a thread, unless one that outlived its join is still running.
Start == at = "start" /\ ~Running /\ Launch /\ previous' = 0

\* The background workload does not start, or sampler.start raises.
NoStart ==
  /\ at = "start"
  /\ at' = "stop"
  /\ UNCHANGED <<run, acted, stopping, timeline, previous, markers, samples, thread>>

\* set_phase, in the order of the run.
SetPhase ==
  /\ at \in {"baseline", "injection", "observing", "recovery"}
  /\ Mark(timeline, at)
  /\ at' = CASE at = "baseline"  -> "injection"
             [] at = "injection" -> "act"
             [] at = "observing" -> "recovery"
             [] at = "recovery"  -> "stop"
  /\ UNCHANGED <<run, acted, stopping, timeline, previous, samples, thread>>

\* dispatcher.start and dispatcher.execute.
Act ==
  /\ at = "act"
  /\ acted' = TRUE
  /\ at' \in {"observing", "stop"}
  /\ UNCHANGED <<run, stopping, timeline, previous, markers, samples, thread>>

Interrupted ==
  /\ at \in {"baseline", "injection", "observing", "recovery"}
  /\ at' = "stop"
  /\ UNCHANGED <<run, acted, stopping, timeline, previous, markers, samples, thread>>

Stop ==
  /\ at = "stop"
  /\ stopping' = TRUE
  /\ at' = "join"
  /\ UNCHANGED <<run, acted, timeline, previous, markers, samples, thread>>

\* join with a timeout: it returns whether the thread has ended or not.
Join ==
  /\ at = "join"
  /\ IF timeline = 0 THEN UNCHANGED markers ELSE Mark(timeline, "stopped")
  /\ at' = "evaluated"
  /\ UNCHANGED <<run, acted, stopping, timeline, previous, samples, thread>>

NextRun ==
  /\ at = "evaluated"
  /\ run < MaxRuns
  /\ run' = run + 1
  /\ at' = "start"
  /\ acted' = FALSE
  /\ UNCHANGED <<stopping, timeline, previous, markers, samples, thread>>

-----------------------------------------------------------------------------
\* The thread of the sampler

Step(r, from, to) ==
  /\ thread[r].pc = from
  /\ thread' = [thread EXCEPT ![r] = to]

\* The next round begins with nothing at hand.
Idle(r) == [thread[r] EXCEPT !.pc = "loop", !.into = 0, !.label = "warmup"]

Rest == UNCHANGED <<run, at, acted, stopping, timeline, markers>>

\* The loop's condition; collect_once is given the timeline of this moment.
Loop(r) ==
  /\ Step(r, "loop",
          IF stopping THEN [thread[r] EXCEPT !.pc = "done"]
          ELSE [thread[r] EXCEPT !.pc = "collect", !.into = timeline, !.rounds = @ + 1])
  /\ stopping \/ thread[r].rounds < MaxRounds
  /\ Rest /\ UNCHANGED <<previous, samples>>

\* provider.collect reads the server or raises, which is a warning.
Collect(r) ==
  /\ \/ Step(r, "collect", [thread[r] EXCEPT !.pc = "label", !.value = Reading])
     \/ Step(r, "collect", Idle(r))
  /\ Rest /\ UNCHANGED <<previous, samples>>

CurrentPhase(r) == markers[r][Len(markers[r])]

\* add_sample reads the phase and appends the sample, each under the lock.
Label(r) ==
  /\ Step(r, "label", [thread[r] EXCEPT !.pc = "append", !.label = CurrentPhase(thread[r].into)])
  /\ Rest /\ UNCHANGED <<previous, samples>>

Sample(r, metric, since) ==
  [metric |-> metric, since |-> since, read |-> thread[r].value, label |-> thread[r].label]

Add(r) ==
  /\ Step(r, "append", [thread[r] EXCEPT !.pc = "derive"])
  /\ samples' = [samples EXCEPT ![thread[r].into] = Append(@, Sample(r, "raw", thread[r].value))]
  /\ Rest /\ UNCHANGED previous

\* _record_buffer_pool_delta: the first reading has nothing to compare with.
Derive(r) ==
  /\ \/ previous = 0 /\ Step(r, "derive", Idle(r)) /\ previous' = thread[r].value
     \/ /\ previous # 0
        /\ Step(r, "derive",
                [thread[r] EXCEPT !.pc = "delta", !.into = timeline, !.label = CurrentPhase(timeline)])
        /\ UNCHANGED previous
  /\ Rest /\ UNCHANGED samples

\* Variant: the difference is taken to the sum of all readings.
AddDeltaToSum(r) ==
  /\ Step(r, "delta", Idle(r))
  /\ samples' = [samples EXCEPT ![thread[r].into] = Append(@, Sample(r, "delta", previous))]
  /\ previous' = previous + thread[r].value
  /\ Rest

AddDelta(r) ==
  /\ Step(r, "delta", Idle(r))
  /\ samples' = [samples EXCEPT ![thread[r].into] = Append(@, Sample(r, "delta", previous))]
  /\ previous' = thread[r].value
  /\ Rest

-----------------------------------------------------------------------------
Experiment == Start \/ NoStart \/ SetPhase \/ Act \/ Interrupted \/ Stop \/ Join \/ NextRun

Sampler(r) == Loop(r) \/ Collect(r) \/ Label(r) \/ Add(r) \/ Derive(r) \/ AddDelta(r)

SamplingNext == Experiment \/ \E r \in Runs : Sampler(r)

SamplingSpec == SamplingInit /\ [][SamplingNext]_samplingVars

-----------------------------------------------------------------------------
PhaseNames == {Phases[i] : i \in 1..Len(Phases)}
SampleType == [metric : {"raw", "delta"}, since : Readings, read : Readings, label : PhaseNames]

SamplingTypeOK ==
  /\ run \in Runs
  /\ at \in {"start", "act", "stop", "join", "evaluated"} \cup PhaseNames
  /\ acted \in BOOLEAN
  /\ stopping \in BOOLEAN
  /\ timeline \in 0..MaxRuns
  /\ previous \in Readings
  /\ \A r \in Runs :
       /\ \A i \in 1..Len(markers[r]) : markers[r][i] \in PhaseNames
       /\ \A i \in 1..Len(samples[r]) : samples[r][i] \in SampleType
       /\ thread[r].pc \in {"none", "loop", "collect", "label", "append", "derive", "delta", "done"}
       /\ thread[r].into \in 0..MaxRuns
       /\ thread[r].value \in Readings
       /\ thread[r].label \in PhaseNames
       /\ thread[r].rounds \in 0..MaxRounds

\* What counts as the baseline was read before the root action, and in the
\* same run: neither the late label of a sample nor a counter's difference
\* carries the anomaly, or another run, into the reference.
BaselineIsClean ==
  \A r \in Runs : \A i \in 1..Len(samples[r]) :
    samples[r][i].label = "baseline" =>
      samples[r][i].since >= Before(r) /\ samples[r][i].read < After(r)
=============================================================================
