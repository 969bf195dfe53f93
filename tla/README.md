# A verification project for the DBA incident reproduction agent

The program (`src/db_repro_agent`, driven by `src/anomalychains/run_cases.py`)
reproduces database incidents on a MySQL server. An LLM proposes a root action,
the program runs it under a background workload, samples the server, decides
from the samples whether the anomaly, or a whole chain of anomalies, showed up,
cleans up, and with reflection tries again. This directory holds TLA+ modules
of its control logic, TLC runs over small instances, and TLAPS proofs about ten
of them.

    tlc -workers 2 -config Lifecycle.cfg Lifecycle      # a run
    tlapm LifecycleProofs.tla                           # the proofs

`PROJECT.json` lists components, runs, hazards, findings and theorems, maps every
definition to the lines it models, and gives for every property a plausible bug
("Variant" in the modules) with which the run finds the property violated.

## The system

| Component | State it keeps | Operations | What makes it correct |
|---|---|---|---|
| `runtime/state_machine.py`, `runtime/orchestrator.py` | phase, history, step results, error | `run`: handlers phase by phase, failure path, clean-up | no success after a failure; clean-up always called; no illegal transition escapes |
| `execution/dispatcher.py` and five executors | process handle, blade uid, stop event, threads | validate, start, execute, stop, cleanup, is_alive | what is started can be stopped; nothing is started twice; a failure is a result, not a miss |
| `reproduction/direct_runner.py` | one run's results | handlers given to the orchestrator | a verdict is about an action that was carried out, after a background that started |
| `reproduction/propagation_runner.py` | one run's results | one `try`/`finally` | a verdict is about an experiment that took place, with a background workload that lives through the observation |
| `metrics/sampler.py`, `timeline.py`, `collector.py`, `buffer_pool.py` | timeline, previous reading, stop event; two threads | start, sample loop, mark, stop | baseline samples are from before the action and of one run; pressure on the buffer pool is found only where pages were missed |
| `evaluation/evidence_engine.py`, `incident_evaluator.py` | none | judge rules over samples and snapshots | a hit is what the numbers say, and degraded evidence is named |
| `graph/validator.py`, `evaluation/graph_evaluator.py`, `edge_evaluator.py` | in-degrees, queue, order | topological sort, prefix, failed node | exactly the acyclic graphs are accepted; prefix, failed node and verdict agree |
| `agent/llm_client.py` | one call | `generate_action`, two endpoints, retries | every call ends |
| `agent/chain_agent.py`, `runtime/artifact_store.py` | attempts, records, directories | generate, gate, run, reflect, persist, retry | no retry before the record is on disk; no run overwrites another's record |
| `runtime/experiment_setup.py`, `run_cases.py`, `preflight.py` | global variables of the server, payload, `result.json` | capture, prepare, undo, restore, report | a server left changed is reported; no verdict is on disk before the restore |
| `metrics/mysql_metrics.py` | the previous reading | `collect`: counters, rates, lock probes | the rates add up to what the server did, whatever readings fail; a drop is found where one is, and only there |
| `agent/chain_reflector.py`, `action_generator.py`, `runtime/action_validator.py`, `safety.py` | none | rules on the last attempt, limits on plans | whoever follows the advice gets on and is not rejected for it |
| MySQL adapter, probes, system metrics, post agent, CLI, config | connections, a previous value | I/O, parsing, prompts | not modelled |

How they interact: `run_cases.run_case` brackets a case with the instrumentation
and calls a runner, directly or through `ChainAgent`. A runner calls the
dispatcher, marks the phases of the timeline, starts and stops the sampler's
thread and at the end hands timeline and snapshots to the evaluators. The
sampler's thread shares the timeline, the stop event and the previous
reading with the runner's thread. `TransactionExecutor` runs one thread per actor, which
meet in the server's row locks. BenchBase processes and ChaosBlade experiments
live outside and end by themselves.

Where it is hard: exceptions and `KeyboardInterrupt` between any two calls of a
run; a clean-up that fails; a shared executor whose handle is overwritten;
samples that are labelled later than they were read; a sampler thread that
outlives its `join(timeout=2)`; deadlocks, lost connections and lost answers of
commits; a crash between the files of an attempt; a server whose variables are half
restored; providers that fail just when the snapshot is taken; rates over rounds
that took longer, or have nothing to be compared with; advice that two rules pull
in two directions. `PROJECT.json`
("hazards") lists them line by line, the ones that no property covers included.

## The modules

| Module | Models | Notes |
|---|---|---|
| `ExperimentPhases` | the transition table and the orchestrator's sequence | constants only, shared by the next two |
| `PhaseProtocol` | abstract: the phases, and whether something has failed | what `Lifecycle` implements |
| `Lifecycle` | `Orchestrator.run` and `ExperimentStateMachine` | any subset of handlers, each of which may return, raise or be interrupted; one action per branch of `run` |
| `*Proofs` | | theorems about `Lifecycle`, `GraphEvaluation`, `CaseRun`, `Transactions`, `ReflectionLoop` and `Adaptation` (both in `ReflectionProofs`), `Executors`, `DirectRunner`, `PropagationRunner`, `Sampling`, `Evidence` and `Throughput`; `ServerProofs` is about `CaseRun` and `Transactions`, `ChainProofs` about `GraphEvaluation` and `Sampling`, `EvidenceProofs` about `Evidence` and `Throughput` |
| `Executors` | dispatcher, BenchBase, ChaosBlade and SQL executors | operators with the result their caller sees, and one for a start or an execute that an interrupt cuts short; no `Next` of its own |
| `Custody` | abstract: the processes and ChaosBlade experiments that run, those a runner can stop (`held`) and those it cannot (`slipped`). It holds at most one of each role, one slips away only when one is started, and it ends clean only when it holds none | what both runners implement |
| `DirectRunner` | `DirectRunner.run` | `Lifecycle` and `Executors` composed: a handler's end is a step of `Lifecycle` together with what the handler did |
| `PropagationRunner` | `PropagationRunner.run` | the `try` and `finally` blocks with every exit |
| `Sampling` | sampler, timeline, collector | two threads; a reading is a point in time, not a number |
| `Fractions` | the arithmetic of the metrics | exact fractions, shared by the next two |
| `Throughput`, `MCThroughput` | MySQL provider, buffer pool windows, the rules of throughput and pressure | the server's work tick by tick, which only the properties see |
| `Transactions` | `TransactionExecutor` over a lock table | one `pc` per actor; server, deadlock detection and sessions are external |
| `GraphEvaluation`, `MCGraphEvaluation` | validator and graph evaluator | the sort pass by pass, the diagnosis as operators |
| `Evidence`, `MCEvidence` | evidence engine, incident evaluator, `_observations` | pure rules over the samples of one run |
| `LLMClient` | `generate_action` | endpoints, retries, fall-back |
| `ReflectionLoop` | `reproduce_chain_with_reflection`, `_persist_attempt` | extends `LLMClient`; crashes, reruns over the same directory |
| `Adaptation`, `MCAdaptation` | `ChainReflector.reflect`, the limits of validator and safety gate, `_action_metrics` | extends `ReflectionLoop`: each of its steps together with what it does to plan and advice |
| `CaseRun` | `run_case`, preflight, instrumentation | several cases, one after another, on one server |

State and code: variables have the names of the fields they stand for where
there is one (`phase`, `history`, `activeUid`, `process`, `stopping`, `previous`,
`attempt`, `records`, `pending`, `status`, ...). `pc`, `at` and `sub` say where
a function stands. A call is one step where
nothing can come in between that the properties would see, and several where
something can: a thread, a process that exits, an interrupt, a crash.
Variables marked "(external)" or "history" are the world's or the
properties' own and do not exist in the program.

Choices that a reader should know:

* A handler, a provider or a statement that does I/O is a nondeterministic
  choice of its outcomes (returns, fails, raises). What depends on its outcome is
  written out.
* Calls that time out on the client may have taken effect on the server:
  `CREATE TABLE`, `blade create`, `blade destroy`, `COMMIT`.
* `KeyboardInterrupt` is possible inside handlers and between calls of the
  runners; it passes `except Exception`. An interrupt in the middle of a
  `finally` block leaves the rest of the block undone, as in Python. In
  `PropagationRunner` it also comes inside a start or an execute, when the workload is
  there and neither the executor's handle nor the runner's result is assigned yet
  (`InterruptedStart`). In `DirectRunner` an interrupt ends the run at once, so one
  inside a start is no different from one after it.
* In `ReflectionLoop`, what the reflector and the two gates say is free. `Adaptation`
  adds the numbers: which advice the shipped reflector gives, and which limits the
  gates have. Whether a failure is retried stays free (`ChainAgent` takes any
  reflector), and so is the gates' verdict on a plan's text. The LLM follows the
  advice, or thinks of another plan.
* `Throughput` abstracts from everything but the order of ticks, rounds and marks. A
  question asks for one page; `qps` stands for `tps`; a restart is possible once. A
  round reads the clock and the counters in one step, then probes for locks for any
  number of ticks, in which the server works on, and then stamps its samples: `qps` is
  divided by the time between the counters' readings, the physical reads by the time
  between the samples' timestamps, as in the code. The samples of one round are
  stamped in the same tick, though a phase may be marked between two of them.

## The runs

All runs finish in under four minutes. `CHECK_DEADLOCK FALSE` is in every
configuration because every one of these systems ends: a run returns, or is
interrupted or crashed. Where the end is promised it is a property (`Terminates`,
`RunEnds`), so a model that stops in the middle would be found.

| Run | Instance | Properties |
|---|---|---|
| `lifecycle` | all 2^11 sets of handlers, exceptions and interrupts everywhere; 110592 states | `SuccessIsEarned`: a success went through all handlers, without exception, with one clean-up. `NothingEscapes`: no illegal transition is asked for. `CleanedUpOnReturn`: clean-up is called before `run` returns, and twice only if it raised. `SilentOnlyAfterCleanupRetry`: the one way to end without success and without an error in the state. `ImplementsProtocol` |
| `direct` | five kinds of root action, with and without background workload, ill-formed actions, an existing backup table; 17168 states | `VerdictsAreEarned`: a verdict is about an action that succeeded, after a background whose start returned ok; whether the background still ran is not asked by this runner. `Unorphaned`: a process or experiment that was told of and runs can still be stopped. `KeepsCustody`: refinement of `Custody` |
| `propagation` | the same, with `FairSpec`; 26112 states | `VerdictsAreEarned`: the same, and the background was alive when it was asked before its clean-up. `KeepsCustody`, `Terminates` |
| `reflection` | 3 attempts, 2 runs over one directory, 1 retry per endpoint, windows of 10 and 60 seconds under a limit of 15, plans of all four kinds; 183496 states | `RecordsPrecedeRetry`: before an action is run, all earlier attempts are on disk and the last one's reflection is in the request. `ReturnedIsRecorded`, `DirectoriesAreKept`, `RunEnds`. `AdviceMakesProgress`: an advised duration is never taken back, stays only when it fills the window, and passes the gates where the window does |
| `case` | two cases in a row, three global variables; 2743 states | `ChangeIsReported`, `VerdictAfterRestore` |
| `sampling` | two runs sharing a sampler, two rounds each; 1.66 million states | `BaselineIsClean` |
| `rates` | three ticks of usual, disk-bound, slow and disk-bound, or idle work, failed readings, slow probes, a restart, marks in the middle of a round; 7.40 million states | `RatesTile`: the rates add up to the work between the first reading and the last. `DropIsADrop`, `DropIsFound`: the rules of throughput against the work that was done. `PressureIsMisses`: the same for the buffer pool, whatever time the rounds take |
| `transactions` | two actors, every pair of plans of up to two statements over two rows; 79496 states | `AllOrNothing`, `NothingHeld`, `Terminates` |
| `graph` | all graphs over three nodes and an unknown name, something listed twice or an unknown root, all observations with two times, one of two lag windows and a mechanism that holds or not for each edge; 1.15 million states | `OrderIsTopological`, `RejectsExactlyCycles`, `DiagnosisIsSound` |
| `evidence` | a counter or a gauge over three levels, four samples, eight oracles from the registry and the tests; 143524 states | `FlatIsDegraded`, `GrowthIsTheRuns`: a spill is growth that a sample of the run saw after the baseline's last, and slow queries came after the baseline's first. `HitMatchesWindow` |
| `failure_is_not_a_miss`, `any_drop_is_found` | see Findings | one property each, violated |

Why the bounds are enough. `Lifecycle` has no bound: the sequence is finite and
all sets of handlers are initial states. The runners start each role at most
once, or twice where `execute` starts a workload again; the sequence of
processes is as long as the code can make it. Two runs of the sampler show what one
leaves to the next, and two rounds a sample before and one after any
event. Two actors and two rows have the
shortest deadlock. Three nodes have the cycles of length one to three,
the diamond's halves and the isolated node. Two retry rounds have a first, a
middle and a last attempt; a second run over the directory has the collision.
Two cases have a server that an earlier case left changed. Four samples are the
two of the baseline and the two of the observation that consecutive rules
need; three levels have growth, decline and a zero baseline. Three ticks have four
readings: the first, which has no rate, one interval of the baseline, one across the
mark and one of the anomaly, or two of either; a tick may bring two questions, one
or none, so a drop to half and to nothing, and a round that failed in
between. The tick that asks half as much and misses every page has twice the share of
missed pages of one that misses one of two, and no more of them: with a slow probe
before it the code finds pressure there. A window of 10 seconds is below the limit of the gates and one of 60, the
default, above; plans are shorter and longer than the first; a required size of 9
is above the limit of 8.

Fairness. Most runs check safety and state none. `PropagationRunner` has weak
fairness of the run's own thread, because every wait in it has a timeout: it
does not assume that a process exits. `Transactions` has weak fairness of the
waiting thread, of each actor unless it waits for a row, and of the server
noticing that a session's client is gone. That a lock wait times out is *not*
assumed: the deadlock detection of the server, which rolls a victim back, is
enough. `Adaptation` has weak fairness of the loop: a request is answered
or times out (`request_timeout_seconds`), and an action that is run comes to an
end, which for the runner is `PropagationRunner!Terminates`.

Conditions inside the properties. `Unorphaned` excludes the
background's role when a BenchBase root action runs on a BenchBase background
workload: both share one `BenchBaseExecutor`, and `start` drops the handle of the first
(`benchbase_executor.py:35`). The background process then runs on without
anybody who could stop it. It also leaves out what the executors were never told of: an experiment
whose `create` told no uid, a process whose start was interrupted. `KeepsCustody` leaves
nothing out. These are steps of `Custody`, with which a workload slips from `held`, or is never
in it; any other way to lose one is a violation. A "clean" end, after which
nothing is held, asks for more than the program does. A `destroy` that fails returns
a result that nobody reads (`chaos_executor.py:63`, `propagation_runner.py:139`): the clean-up
counts as a success, the run may be one, and the experiment still runs. `Custody` calls such an end unclean
(`activeUid = 0` is asked). So it does with an interrupt between the start of the background and the
assignment of `background_result` (`propagation_runner.py:100`): the `finally` block
does not clean the background up and still sets `cleanup_success` (`Unnoticed`).
`NothingHeld` excepts sessions that lost their client, which the
server ends in its own time. `VerdictAfterRestore` is about runs without
reflection: the reflection mode writes `result.json` before the restore.
`GrowthIsTheRuns` asks of slow queries only that they came
after the baseline's first sample, because the code counts those of the baseline and of the recovery too.
`VerdictsAreEarned` of the direct runner says nothing of a background that ends during the observation.
`DropIsADrop` asks for samples in both windows and a baseline that is not idle:
without them the ratio is 0.0, which counts as a drop. `DropIsFound` asks that the
first reading is not one of the baseline (see Findings). Both, and
`PressureIsMisses`, are about a server that is not restarted: a counter that has
outgrown its old value by the next reading hides the restart. `PressureIsMisses` always promises a tick that missed twice the share of pages;
twice as many missed pages only where the probes' delays did not inflate the
comparison (`NotInflated`). `AdviceMakesProgress`
promises acceptance only where the window is within
`max_action_duration_seconds`; with the defaults (60 and 15) it is not, and an
advised duration above 15 is rejected.

## Findings

* `failure_is_not_a_miss`: the reflection mode reports every run without a
  success as `experiment_miss` (`run_cases.py:438`), also when the last action
  failed to execute; `steps.md:790-792` says a failed execution is a system
  error and is not to be mixed with a miss.
* `any_drop_is_found`: the provider's first reading has no predecessor and
  returns a `qps` of 0.0 (`mysql_metrics.py:99`). The runners mark the baseline right
  after starting the sampler, so this rate is usually the baseline's first sample.
  It lowers the baseline's mean, in the counterexample to half, and a drop that
  lasts through the whole anomaly is a miss; `steps.md:699-704` wants a
  baseline of 100 and an injection of 69 to be a hit.

Observations without a contradicted document, most of them hazards in `PROJECT.json`:

* a metric that was never sampled has a `qps_ratio` of 0.0, which counts as a drop;
* the nodes about the redo log are a hit for any decrease of `tps` at all;
* the buffer pool's window of the anomaly starts with the interval that the mark
  falls into, which may hold reads of the baseline (`buffer_pool.py:78`);
* `slow_queries_delta` starts at the first sample of the baseline, so slow queries of
  the baseline itself make the node a hit;
* the rule of the reflector about throughput needs `baseline_qps` or
  `injection_qps`, which no caller supplies, and the rules about a required
  concurrency or number of terminals need metrics of the same kind;
* the physical reads per second are divided by the time between samples, which are stamped
  after three lock probes (`buffer_pool.py:82`): a slow probe shortens the next interval and can double
  them, so that pressure is found where no tick missed twice as many pages;
* a `destroy` that failed, and an interrupt right after the background was started, leave
  `cleanup_success` true with a workload running;
* the direct runner gives a verdict also when the background ended before the observation did;
* no gate limits the duration of a ChaosBlade action or the number of terminals;
* a probe of the lock tables that fails counts as no locks, and nobody reads the
  flag that says so; `io_wait_ratio` is an average since the host's boot;
* the times of chain nodes are made from sample indexes; the
  table that `create_table` makes is dropped by no clean-up; a degraded DELTA rule
  compares the counter's absolute value.

## The proofs

TLC checks instances; the theorems below hold for every value of the constants.

**`LifecycleProofs`**, for every set of handlers. The invariants that are run
are not inductive: `SuccessIsEarned` says nothing of the states on the way to a
success. The inductive invariant `IInv` adds to the types

* `PlaceInv`: the place in `run` determines which phase the machine is in, and
  that the sequence is followed step by step;
* `ClearInv`: while the sequence is being tried, and after a success, nothing has
  been raised, the history has no `failed` and the error is empty;
* `ResultInv`: the handlers of the phases that were passed have left results;
* `CleanupInv`: how often the clean-up has run, and how, at every place.

Each action has a proof step with one sub-step per conjunct. From `IInv` follow
`TypeCorrect`, `EscapeFree`, `SuccessEarned` and `CleanedUp`; `Refinement` shows
that every step is a step of `PhaseProtocol` or a stutter, under
`failed <- HasFailed`. `SilentOnlyOnRetry` needs one more invariant, `SilentInv`: on the
way through the failure path, no error means that the clean-up was called before and raised.

**`ChainProofs`**, on graphs, for every finite set of nodes that are naturals (the code's
names with an order on them, `GraphAssumption`). `IInv` is the types,
`SortInv` (the count of a node is the number of its sources not visited yet, the
queue is exactly the unvisited nodes with count 0, and the order is topological)
and `AcceptInv` (what is judged has no flaw, no unknown name, and was sorted completely). From it follow `TypeCorrect`, `TopologicalOrder` and
`CyclesRejected`. This one needs a graph-theoretic argument in both
directions: along a topological order no set of nodes can have all its
predecessors inside (lemma `CycleIsNotVisited`, by the least position), and if
the sort stops early the nodes left over are such a set (`UnvisitedAreCyclic`).
The least position comes from lemma `Least`, by induction on the naturals
through a set, because theorems with an operator parameter cannot be used.
`DiagnosesAreSound` goes on from there: the prefix and the failed node end at the
first position without a hit, or without success (`FirstNotHit`, `PrefixEnds`), and the edges
of an accepted graph point forward in the order (`EdgesPointForward`).

**`ServerProofs`**, on cases, for any number of them. `IInv` is the types with `ServerInv`
(what was captured is what the case found; during `restore` the variables passed so
far are back), `StatusInv` (a status other than `system_error` is not on its way to
the file before all of them are) and `FileInv` (only the reflection mode has a file
before the end). From it follow `CaseTypeCorrect`, `ChangesAreReported` and
`VerdictsFollowRestore`.

**`ServerProofs`**, on transactions, for every finite set of actors, all rows and all lengths of
plans; the assumption `TransactionsAssumption` keeps `Nobody`, the owner of a free row, apart
from the actors. The invariant is stated actor by actor: an open transaction has
written exactly the rows of the statements so far and still has its client
(`OpenInv`), an actor outside its transaction owns no row (`OwnerInv`), and what it
returned says what became durable (`ResultInv`). A step of one actor disturbs no
other (`Bystander`, `OthersStand`). From it follow `TypeCorrect`, `ActorsAreAtomic`
and `NothingIsHeld`, deadlocks, lost connections and lost answers included.

**`ReflectionProofs`**, for every number of rounds, runs and client retries.
`RecordsInv` ties the length of the records and the request's feedback to the
attempt, `PastInv` says that the attempts left behind failed and are on disk, and
`DirectoryInv` counts the files of the attempt's own directory. Crashes and reruns
over old directories are steps like the others. From it follow `TypeCorrect`,
`RecordsComeFirst`, `ReturnedRunsAreRecorded` and, as an action property,
`EarlierRunsAreKept`.

Its second half is about `Adaptation`, for every window, limit and requirement.
`ImplementsLoop` shows that `AdaptSpec` implies the loop's `Spec`, so all of the above holds
of it too. `AdviceInv` (an advised duration fits the window, and a plan that follows
the advice has it until the next reflection) gives `AdaptTypeCorrect` and the
action property `AdviceProgresses`.

**`ExecutorProofs`** is about the executors alone, whoever calls them, and has lemmas
only, for the next two. `Known` is `Unorphaned` and what keeps it. What an operation may do to the workloads
in hand and out of hand is in three formulas: `Frees` (it stops one that is held), `Takes` (it starts
one, of a role of which it holds none, and loses the other role's only if they share an
executor) and `Slips` (it starts one and is not told). A start before which nothing of its kind runs takes
or slips (`StartKeeps`, `LostKeeps`, `InterruptedKeeps`, `ChaosStartKeeps`), a stop frees (`StopKeeps`,
`ChaosEndKeeps`), an end by itself drops (`EndKeeps`, `ChaosEndKeeps`), and what is left with no live process and no
uid is nothing (`EndsClean`). `Described` unfolds what the two sets are once for all of them.

**`DirectProofs`**, of the composition. `RunsTheLifecycle` shows that every step of the
runner is a step of `Lifecycle` or none, so the inductive invariant of
`LifecycleProofs` (an instance of it) is one of the runner, too. With it `EvidenceInv`
says what each handler that was passed has left behind, from which `VerdictsEarned`
follows, for executors that do what they like. About the executors, `StartedInv` says
which processes and experiments there can be before each start (so that a start never takes the place
of something that runs) and `EndInv` that no process is held when the run ends after a clean-up that returned. From these
follow `TypeCorrect`, `NothingOrphaned` and the refinement of `Custody` (`Custodian`).

**`PropagationProofs`**. `VerdictsEarned` assumes nothing of what executors and
their processes do: the verdict depends only on what `run` itself keeps. `IInv` says
which clean-ups have run at every place (`CleanupInv`), that the background is asked
whether it is alive before it is cleaned up (`AliveInv`), and where a status can come
from (`StatusInv`). The executors come in with `StartedInv` and `EndInv`, as in
`DirectProofs`, but along the `try` and `finally` blocks, where an interrupt leaves
the rest of a block undone, and where `EndInv` holds only if no interrupt hid the
background (`StaysUnnoticed`). From these follow `TypeCorrect`, `NothingOrphaned`, which no run
checks of this runner, and the refinement of `Custody` (`Custodian`).

**`ChainProofs`**, on sampling, for every number of runs and of rounds:
`SamplingTypeCorrect` and `BaselineStaysClean`. A reading is a point in time and these only grow, which is
what the invariant uses: a timeline in its baseline phase is of the present run, before
the action (`ExperimentInv`); a thread writes into the timeline of its own run and
has read its value since that run began (`ThreadInv`); and so has the
reading that differences are taken to (`PreviousInv`).

**`EvidenceProofs`**, on the evidence, for all levels, any number of samples and all rules. The rules are
folds over the samples, and what a fold computes needs an induction. The
library's theorems on induction take an operator, so the proofs go through
sets instead: what 0 is in, and with each number the next, has all numbers up
to n (`UpTo`, from `Least`). `FoldExists` shows with it that the recursive
function behind `FoldLeft` exists, and a lemma for each fold says what it does step by
step (`TotalRuns`, `ValuesRun`, `GreatestIsIn`, `LongestRunRuns`). `LongestIsWindow` is the
heart of `HitsMatchWindows`: the counter that is set back by each sample
that fails the rule, and its maximum, find the same as a search through all windows.
The invariant `EvidenceInv` says for each of the moments in `grown` what
holds as long as the counter has not grown since: it is still worth the last sample of
the baseline, or the first one, or the first snapshot (`SinceTheLast`,
`SinceTheFirst`, `SinceTheSnapshot`). From it follow `GrowthsAreTheRuns` and
`FlatsAreDegraded`. The second one needs `RulesAssumption`, that a snapshot rule
is not satisfied by a difference of 0: of the rules in
`config/evidence_rules.yaml` none is, but a rule "at least 0" would make every counter evidence.

**`EvidenceProofs`**, on the rates, for all work of the server, however long it is watched
(`ThroughputAssumption`: what a tick brings are naturals). `RatesInv` says what the
readings are at every moment, and `RatesInvariant` that they always are so:

* `Rows`: they are in the order of their time; each has the counters of the work since
  the server's start (`CountersOf`, `Since`) and a rate made of the reading
  before; and `previous` is the last of them;
* `Stamped`: a reading's samples have a time between that of its counters and that of the
  next reading's;
* `Labelled`: all but the last have all their labels, and the labels of one metric follow the
  order of the phases, though a phase may be marked between two samples of a reading.

The rest is arithmetic, with two obstacles. The sum that `Grown` takes over a set goes
through its elements in an order that is not told: `SumFunctionIs` shows that it is the sum
in whatever order, and `RangeSums` that over a range it is a difference of two.
And means of fractions have unlike denominators: `MeanBounds` bounds them by the bounds of
the numbers. With these, `RatesTileTheTime` adds growths up, reading by reading;
`DropsAreDrops` and `SustainedDropsAreFound` bound the two means by the slowest tick of
the anomaly, or of the baseline; and `PressureMissesPages` closes the pairs
(missed, asked) that are no pressure under addition (`RangeIn`, `SetIn`, `SharesAdd`, `MissesAdd`).
`LongerIsLess` and `ReadsBounds` turn physical reads over the time between samples into reads over
the time between counters, as far as `NotInflated` lets them. `Labelled` is what puts the ticks of the injection's intervals after the baseline's (`WindowsAre`).

Model-checked only: all liveness (`Terminates` of the runner and of the
transactions, `RunEnds`; fairness and ENABLED are out of the prover's reach). Every
safety invariant and every action property of a passing run has a theorem.
No module here uses a RECURSIVE operator.

## What is not modelled, and why

* MySQL adapter and probes: a connection per statement, closed at its end, and a
  result that says success or failure. Their outcomes are choices in the other modules.
* System metrics and slow log: readings of psutil and of log lines. The gauges and lock
  probes of the MySQL provider: one query each, without state.
* Post agent, post reflector, context builder, root selector, incidents: assembly of
  prompts and lists; the post agent is a placeholder in the code too.
* Configuration, CLI, logging, Pydantic models: declarations and wording.
* Texts: SQL guards of the validator and the safety gate, allow-list of
  commands. Their verdict is a choice in `ReflectionLoop`.
* Preflight's conditions on files, versions and variables: one verdict in `CaseRun`.
* Floats: all numbers are exact, and NaN is a value in `Evidence`.
* Builders of actions and the artifact index: no behaviour.

## Plan

Order of work; all of it is done.

1. Lifecycle with its abstract protocol and proofs; executors; both runners and `Custody`.
2. Sampling, transactions.
3. Graph evaluation with proofs; evidence.
4. Reflection loop with the LLM client; case runner with preflight.
5. Reflector rules and the gates' limits, composed into the reflection loop (`Adaptation`).
6. The MySQL provider's rates and the buffer pool windows (`Throughput`).
7. Proofs about `CaseRun`, `Transactions`, `ReflectionLoop` and `Adaptation`,
   `Executors`, `DirectRunner`, `PropagationRunner`, `Sampling`, `Evidence` and
   `Throughput`, and of `DiagnosisIsSound`.
