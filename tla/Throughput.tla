------------------------------- MODULE Throughput -------------------------------
(***************************************************************************)
(* The rates that a chain's nodes are judged by.  MySQLMetricsProvider     *)
(* turns the growth of the server's counters between two of its readings   *)
(* into rates, the sampler labels what it returns with the phase of the    *)
(* moment, and _observations with infer_node_hit compare the phases:       *)
(* throughput by the means of the rates, the pressure on the buffer pool   *)
(* by the raw counters.                                                    *)
(*                                                                         *)
(* Time is counted in ticks, the sampler's interval.  In a tick the server *)
(* is asked some questions, each of which requests one page, and some of   *)
(* the pages are read from disk.  qps stands for tps too, which is taken   *)
(* from the commits in the same way.  The injection's phase includes the   *)
(* observation's, which is never told from it here.                        *)
(*                                                                         *)
(* A round reads the counters, then asks the server three times for its    *)
(* locks, which takes any number of ticks, and then adds its samples, with *)
(* the time that it is by then.                                            *)
(***************************************************************************)
EXTENDS Fractions, FiniteSetsExt

CONSTANTS
  Work,     \* bound: what a tick may bring, [asked, missed]
  MaxClock  \* bound: how many ticks there are

ASSUME ThroughputAssumption ==
  /\ Work \subseteq [asked : Nat, missed : Nat]
  /\ MaxClock \in Nat

VARIABLES
  clock,     \* the tick that has passed last
  done,      \* history: the server's work, tick by tick
  started,   \* the tick after which the server was started, 0 for long before
  phase,     \* the timeline's current phase
  tried,     \* the tick in which the sampler's last round began, or ended; -1 for none
  previous,  \* _previous and _previous_at, or None
  readings   \* what the provider returned, with the labels of the samples so far

ratesVars == <<clock, done, started, phase, tried, previous, readings>>

Phases       == <<"warmup", "baseline", "injection", "recovery", "stopped">>
PhaseSet     == ToSet(Phases)
ActivePhases == {"injection", "recovery"}

None == [at |-> -1, asked |-> 0, missed |-> 0]

-----------------------------------------------------------------------------
\* MySQLMetricsProvider

\* SHOW GLOBAL STATUS: what the server has done since it was started.
Grown(field, from, to) ==
  SumFunction([t \in (from + 1)..to |-> done[t][field]])

Status == [at |-> clock, asked |-> Grown("asked", started, clock),
           missed |-> Grown("missed", started, clock)]

\* Variant: the growth is not divided by the time that it took.
QpsPerRound(now) ==
  IF previous = None THEN Num(0) ELSE Num(Max({0, now.asked - previous.asked}))

\* collect: the growth since the reading before, per second between the two
\* times at which the counters were read; 0 when there is none, and when the
\* counter is below it.
Qps(now) ==
  IF previous = None THEN Num(0)
  ELSE <<Max({0, now.asked - previous.asked}), now.at - previous.at>>

\* The samples have no label yet; their timestamp is the counters' at the least.
Reading(now) == [counters |-> now, qps |-> Qps(now), labels |-> <<>>, stamp |-> now.at]

-----------------------------------------------------------------------------
RatesInit ==
  /\ clock = 0
  /\ done = <<>>
  /\ started = 0
  /\ phase = "warmup"
  /\ tried = -1
  /\ previous = None
  /\ readings = <<>>

\* A round's samples, in the order in which collect returns the metrics.
Metrics == <<"reads", "requests", "qps">>

Resting == readings # <<>> => Len(Last(readings).labels) = Len(Metrics)

\* The probes for locks, before the first sample.
Probing == ~Resting /\ Last(readings).labels = <<>>

\* The sampler's next round begins in the tick after the one in which its last
\* ended.  A round takes what its probes take: the samples are added at once.
Tick ==
  /\ Probing \/ (Resting /\ tried = clock /\ phase # "stopped")
  /\ clock < MaxClock
  /\ clock' = clock + 1
  /\ \E work \in Work : done' = Append(done, work)
  /\ UNCHANGED <<started, phase, tried, previous, readings>>

\* The server comes back with its counters at 0.
Restart ==
  /\ started = 0
  /\ tried < clock /\ clock > 0
  /\ started' = clock
  /\ UNCHANGED <<clock, done, phase, tried, previous, readings>>

MarkPhase ==
  /\ phase # "stopped"
  /\ phase' = Phases[CHOOSE i \in 2..Len(Phases) : Phases[i - 1] = phase]
  /\ UNCHANGED <<clock, done, started, tried, previous, readings>>

Round ==
  /\ Resting
  /\ phase # "stopped"
  /\ tried < clock
  /\ tried' = clock
  /\ UNCHANGED <<clock, done, started, phase>>

Collect ==
  /\ Round
  /\ previous' = Status
  /\ readings' = Append(readings, Reading(Status))

\* Variant: a status that cannot be read makes collect start afresh.
CollectForgets == Round /\ previous' = None /\ UNCHANGED readings

\* Variant: a status that cannot be read is one without counters.
CollectNothing ==
  /\ Round
  /\ previous' = [None EXCEPT !.at = clock]
  /\ readings' = Append(readings, Reading(previous'))

\* _read_status raises, and the collector goes on without this round.
CollectFails == Round /\ UNCHANGED <<previous, readings>>

\* add_sample, metric by metric; the sampler waits for its interval after them.
AddSample ==
  /\ ~Resting
  /\ readings' = [readings EXCEPT ![Len(readings)].labels = Append(@, phase),
                                  ![Len(readings)].stamp = clock]
  /\ tried' = clock
  /\ UNCHANGED <<clock, done, started, phase, previous>>

RatesNext == Tick \/ Restart \/ MarkPhase \/ Collect \/ CollectFails \/ AddSample

RatesSpec == RatesInit /\ [][RatesNext]_ratesVars

-----------------------------------------------------------------------------
\* _observations and infer_node_hit

LabelOf(i, metric) == readings[i].labels[CHOOSE m \in 1..Len(Metrics) : Metrics[m] = metric]

Rated(labels) == {i \in DOMAIN readings : LabelOf(i, "qps") \in labels}

Rates(labels) ==
  InOrder([i \in Rated(labels) |-> readings[i].qps], Len(readings))

\* Every node that looks at qps_ratio or tps_ratio alone, and its threshold.
Threshold == [qps_drop |-> <<7, 10>>, write_throughput_drop |-> <<7, 10>>,
              network_latency |-> <<7, 10>>, redo_log_pressure |-> <<1, 1>>]

Dropped(node) == Less(RatioOfMeans(Rates(ActivePhases), Rates({"baseline"})), Threshold[node])

\* summarize_buffer_pool_window: the neighbours among the raw readings; only
\* the baseline's window asks for the phase of the earlier one.
In(i, phases) == LabelOf(i, "reads") \in phases /\ LabelOf(i, "requests") \in phases

\* Variant: the phase of the earlier one is not looked at.
NeighboursByLater(phases) == {i \in DOMAIN readings : i > 1 /\ In(i, phases)}

Neighbours(phases) ==
  {i \in DOMAIN readings :
     i > 1 /\ In(i, phases) /\ (phases = {"baseline"} => In(i - 1, phases))}

\* derive_buffer_pool_delta: a counter that fell, no request, or no time between
\* the samples is no interval.
Change(i, field) == readings[i].counters[field] - readings[i - 1].counters[field]

Elapsed(i) == readings[i].stamp - readings[i - 1].stamp

Intervals(phases) ==
  {i \in Neighbours(phases) : Change(i, "missed") >= 0 /\ Change(i, "asked") > 0 /\ Elapsed(i) > 0}

MissRatio(phases) ==
  LET Changes(field) == SumFunction([i \in Intervals(phases) |-> Change(i, field)])
  IN <<Changes("missed"), Changes("asked")>>

PhysicalReads(phases) ==
  Mean(InOrder([i \in Intervals(phases) |-> <<Change(i, "missed"), Elapsed(i)>>],
               Len(readings)))

\* Both windows are valid where they have an interval.
BufferPoolPressure ==
  LET base == {"baseline"}  window == {"injection"}
      AtLeast(x, y) == ~Less(x, y)
      Twice(x) == <<2 * x[1], x[2]>>
  IN /\ Intervals(base) # {} /\ Intervals(window) # {}
     /\ AtLeast(MissRatio(window), <<5, 100>>)
     /\ AtLeast(MissRatio(window), Twice(MissRatio(base)))
     /\ AtLeast(PhysicalReads(window), Num(1))
     /\ AtLeast(PhysicalReads(window), Twice(PhysicalReads(base)))

-----------------------------------------------------------------------------
Judged == phase = "stopped" /\ Resting

\* The ticks whose work is in the rates, or intervals, of some readings.
Ticks(chosen) ==
  UNION {(readings[i - 1].counters.at + 1)..readings[i].counters.at : i \in chosen \ {1}}

\* The rates tile the time between the first reading and the last, whatever
\* readings fail in between: every question is in one rate, and none is in two.
\* A restart of the server takes questions out of them, never more than there
\* were: no rate is below 0.
RatesTile ==
  readings # <<>> =>
    LET counted == Total([i \in DOMAIN readings |->
                            IF i = 1 THEN Num(0)
                            ELSE <<readings[i].qps[1] * Change(i, "at"), readings[i].qps[2]>>])
        asked == Num(Grown("asked", readings[1].counters.at, Last(readings).counters.at))
    IN /\ \A i \in DOMAIN readings : ~Less(readings[i].qps, Num(0))
       /\ Same(counted, asked) \/ (started > 0 /\ Less(counted, asked))

\* A chain's node finds a drop of the throughput only where one was: some tick
\* after the last rate of the baseline brought less than the threshold's share
\* of some tick of the baseline.  This asks for samples in both and for a
\* baseline that is not idle; without them the ratio is 0, which is a hit.
DropIsADrop ==
  Judged /\ started = 0 /\ Rated(ActivePhases) # {} /\ Less(Num(0), MeanOrZero(Rates({"baseline"}))) =>
    \A node \in DOMAIN Threshold :
      Dropped(node) =>
        \E slow \in Ticks(Rated(ActivePhases)), usual \in Ticks(Rated({"baseline"})) :
          Less(Num(done[slow].asked), <<Threshold[node][1] * done[usual].asked, Threshold[node][2]>>)

\* Every tick of the anomaly's rates brought less than the threshold's share of
\* every tick of the baseline's.
Sustained(node) ==
  /\ Ticks(Rated(ActivePhases)) # {} /\ Ticks(Rated({"baseline"})) # {}
  /\ \A slow \in Ticks(Rated(ActivePhases)), usual \in Ticks(Rated({"baseline"})) :
       Less(Num(done[slow].asked), <<Threshold[node][1] * done[usual].asked, Threshold[node][2]>>)

\* A drop that lasts is found, where the first reading, which has nothing to be
\* compared with and is given the rate 0, is not one of the baseline.
DropIsFound ==
  Judged /\ started = 0 =>
    \A node \in DOMAIN Threshold :
      Sustained(node) /\ 1 \notin Rated({"baseline"}) => Dropped(node)

\* How long a round's probes took: the samples' time is later than the counters'.
Late(i) == readings[i].stamp - readings[i].counters.at

\* The physical reads are divided by the time between the samples.  This is no
\* less than the time in which they were counted if the probes of an interval's
\* earlier round took no longer than those of its later one, and no more if they
\* took no less.
NotInflated ==
  /\ \A i \in Intervals({"injection"}) : Late(i - 1) <= Late(i)
  /\ \A i \in Intervals({"baseline"}) : Late(i) <= Late(i - 1)

\* Pressure on the buffer pool is found only where pages were missed: between
\* the last reading of the baseline and the last before the recovery some tick
\* missed twice the share of pages that some tick between the baseline's first
\* and last reading did, however long the rounds took.  Some tick also missed
\* twice as many; but here slow probes for locks can make the difference, so this
\* asks that they did not add to the injection's reads, or take from the
\* baseline's.
PressureIsMisses ==
  Judged /\ started = 0 /\ BufferPoolPressure =>
    LET At(phases) == {readings[i].counters.at : i \in {j \in DOMAIN readings : LabelOf(j, "reads") \in phases}}
        window == (Max(At({"baseline"})) + 1)..Max(At({"injection"}))
        base   == (Min(At({"baseline"})) + 1)..Max(At({"baseline"}))
    IN /\ \E bad \in window, usual \in base :
            /\ done[bad].missed > 0
            /\ done[bad].missed * done[usual].asked >= 2 * done[usual].missed * done[bad].asked
       /\ NotInflated =>
            \E bad \in window, usual \in base :
              done[bad].missed > 0 /\ done[bad].missed >= 2 * done[usual].missed

\* What steps.md asks of the rule of qps_drop: a baseline of 100 questions a
\* second and an injection with 69 are a hit.  The first reading's rate of 0
\* counts as one of the baseline's.
AnyDropIsFound ==
  Judged /\ started = 0 => (Sustained("qps_drop") => Dropped("qps_drop"))
================================================================================
