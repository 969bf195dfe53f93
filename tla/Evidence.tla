-------------------------------- MODULE Evidence --------------------------------
(***************************************************************************)
(* What the numbers of one run say: EvidenceEngine and IncidentEvaluator,  *)
(* which judge a direct reproduction by a rule of the registry, and        *)
(* _observations with infer_node_hit, which find the anomalies of a chain. *)
(*                                                                         *)
(* One metric is sampled.  It is a counter of the server, which only grows *)
(* while the server runs, or a gauge.  A sample is the phase that          *)
(* it is labelled with and a number, which is a fraction or NaN.           *)
(***************************************************************************)
EXTENDS Fractions

CONSTANTS
  Levels,      \* bound: what the metric is worth
  MaxSamples,  \* bound: how many samples a run takes
  Oracles      \* pairs of an oracle rule and a severity rule, or NoRule

NoRule == [aggregation |-> "none"]

ASSUME EvidenceAssumption == Levels \subseteq Nat /\ MaxSamples \in Nat

VARIABLES
  cumulative,  \* the metric is a counter
  level,       \* the counter
  at,          \* where the run stands
  timeline,    \* the samples
  pre, post,   \* the snapshots: whether every provider answered, and the number
  grown        \* history: the moments after which the counter grew

vars == <<cumulative, level, at, timeline, pre, post, grown>>

Labels  == {"baseline", "injection", "observing", "recovery"}
Active  == {"injection", "observing", "recovery"}
Places  == Labels \cup {"captured", "acted", "stopped"}
Moments == {"begun", "sampled", "captured"}

-----------------------------------------------------------------------------
\* Numbers

Numbers == {Num(n) : n \in Levels} \cup {NaN}

\* Python's max and min keep the first of what they cannot compare.
Greatest(s) == FoldLeft(LAMBDA m, x : IF Less(m, x) THEN x ELSE m, s[1], s)
Smallest(s) == FoldLeft(LAMBDA m, x : IF Less(x, m) THEN x ELSE m, s[1], s)
P95(s)      == SortSeq(s, Less)[(95 * Len(s) + 99) \div 100]

Values(samples, labels) ==
  FoldLeft(LAMBDA chosen, s : IF s.label \in labels THEN Append(chosen, s.value) ELSE chosen,
           <<>>, samples)

-----------------------------------------------------------------------------
\* EvidenceEngine

Compare(x, rule) ==
  Finite(x) /\ CASE rule.operator = "gt"  -> Less(rule.threshold, x)
                 [] rule.operator = "gte" -> ~Less(x, rule.threshold)
                 [] rule.operator = "lt"  -> Less(x, rule.threshold)
                 [] rule.operator = "lte" -> ~Less(rule.threshold, x)
                 [] rule.operator = "eq"  -> Same(x, rule.threshold)

\* An oracle rule is what EvidenceRule admits, with a threshold that is a
\* number; and a snapshot rule of config/evidence_rules.yaml asks for growth,
\* a difference above 0.
ASSUME RulesAssumption ==
  \A pair \in Oracles :
    /\ pair[1].consecutive \in Nat \ {0}
    /\ pair[1].threshold \in Int \X (Nat \ {0})
    /\ pair[1].operator \in {"gt", "gte", "lt", "lte", "eq"}
    /\ pair[1].source = "snapshot" => ~Compare(Num(0), pair[1])

Aggregate(s, aggregation) ==
  CASE aggregation \in {"mean", "ratio", "delta"} -> Mean(s)
    [] aggregation = "max"   -> Greatest(s)
    [] aggregation = "min"   -> Smallest(s)
    [] aggregation = "count" -> Total(s)
    [] aggregation = "p95"   -> P95(s)

\* A rule without a reference value is compared as if it were 0.
Reference(rule, current, baseline) ==
  CASE rule.reference = "baseline"     -> Mean(baseline)
    [] rule.reference = "window_start" -> current[1]
    [] OTHER                           -> Num(0)

Comparison(rule, x, reference) ==
  CASE rule.aggregation = "ratio" -> Over(x, reference)
    [] rule.aggregation = "delta" -> Minus(x, reference)
    [] OTHER                      -> x

\* Variant: the samples that satisfy the rule, wherever they are.
CountSatisfied(rule, current, reference) ==
  FoldLeft(LAMBDA n, x : IF Compare(Comparison(rule, x, reference), rule) THEN n + 1 ELSE n,
           0, current)

\* The most samples in a row that satisfy the rule.
LongestRun(rule, current, reference) ==
  LET Count(counts, x) ==
        LET run == IF Compare(Comparison(rule, x, reference), rule)
                   THEN counts[1] + 1 ELSE 0
        IN <<run, IF run > counts[2] THEN run ELSE counts[2]>>
  IN FoldLeft(Count, <<0, 0>>, current)[2]

Evaluate(rule, samples) ==
  LET current   == Values(samples, {"observing"})
      baseline  == Values(samples, {"baseline"})
      reference == Reference(rule, current, baseline)
      aggregate == Aggregate(current, rule.aggregation)
  IN IF current = <<>> THEN "missing"
     ELSE IF \/ \E i \in DOMAIN current : ~Finite(current[i])
             \/ \E i \in DOMAIN baseline : ~Finite(baseline[i])
             \/ rule.reference = "baseline" /\ (baseline = <<>> \/ reference[1] = 0)
     THEN "invalid"
     ELSE IF /\ Compare(Comparison(rule, aggregate, reference), rule)
             /\ LongestRun(rule, current, reference) >= rule.consecutive
     THEN "hit" ELSE "miss"

Absent == <<0, -1>>

\* Variant: the number after the action is compared as it is.
EvaluateLastSnapshot(rule) ==
  IF pre.value = Absent \/ post.value = Absent THEN "missing"
  ELSE IF Compare(post.value, rule) THEN "hit" ELSE "miss"

EvaluateSnapshot(rule) ==
  IF pre.value = Absent \/ post.value = Absent THEN "missing"
  ELSE IF ~Finite(pre.value) \/ ~Finite(post.value) THEN "invalid"
  ELSE IF Compare(Minus(post.value, pre.value), rule) THEN "hit" ELSE "miss"

-----------------------------------------------------------------------------
\* IncidentEvaluator.evaluate, which does not ask for the source of the
\* severity rule.

BothCaptured == pre.ok /\ post.ok

\* Variant: the samples that stand in for the snapshots are not mentioned.
JudgeSilently(oracle, severity) ==
  LET bySnapshot == oracle.source = "snapshot" /\ BothCaptured
  IN [evidence |-> IF bySnapshot THEN EvaluateSnapshot(oracle) ELSE Evaluate(oracle, timeline),
      severity |-> "none",
      degraded |-> severity # NoRule /\ ~BothCaptured]

Judge(oracle, severity) ==
  LET bySnapshot == oracle.source = "snapshot" /\ BothCaptured
  IN [evidence |-> IF bySnapshot THEN EvaluateSnapshot(oracle) ELSE Evaluate(oracle, timeline),
      severity |-> IF severity = NoRule THEN "none"
                   ELSE IF BothCaptured THEN EvaluateSnapshot(severity)
                   ELSE Evaluate(severity, timeline),
      degraded |-> \/ ~bySnapshot /\ oracle.source = "snapshot"
                   \/ severity # NoRule /\ ~BothCaptured]

-----------------------------------------------------------------------------
\* _observations: the numbers of a chain's nodes, and infer_node_hit for the
\* families of nodes that look at one metric each.

Ratio == RatioOfMeans(Values(timeline, Active), Values(timeline, {"baseline"}))

Delta ==
  LET current == Values(timeline, Active)
      base    == Values(timeline, {"baseline"})
  IN IF current = <<>> \/ base = <<>> THEN Num(0) ELSE Minus(Last(current), base[1])

\* Variant: the recovery belongs to the window.
WindowDeltaWithRecovery ==
  LET current == Values(timeline, Active)
      base    == Values(timeline, {"baseline"})
  IN IF current = <<>> \/ base = <<>> THEN Num(0)
     ELSE Greatest(<<Num(0), Minus(Last(current), Last(base))>>)

WindowDelta ==
  LET current == Values(timeline, {"injection", "observing"})
      base    == Values(timeline, {"baseline"})
  IN IF current = <<>> \/ base = <<>> THEN Num(0)
     ELSE Greatest(<<Num(0), Minus(Last(current), Last(base))>>)

MaxValue == LET current == Values(timeline, Active)
            IN IF current = <<>> THEN Num(0) ELSE Greatest(current)

NodeNumber(node) ==
  CASE node = "slow_query"                   -> Delta
    [] node = "sort_hash_spill"              -> WindowDelta
    [] node \in {"qps_drop", "connections_up"} -> Ratio
    [] node = "table_blocking"               -> MaxValue

NodeHit(node) ==
  CASE node = "qps_drop"       -> Less(NodeNumber(node), <<7, 10>>)
    [] node = "connections_up" -> Less(<<12, 10>>, NodeNumber(node))
    [] OTHER                   -> Less(Num(0), NodeNumber(node))

-----------------------------------------------------------------------------
NotTaken == [ok |-> FALSE, value |-> Absent]

Init ==
  /\ cumulative \in BOOLEAN
  /\ level \in IF cumulative THEN Levels ELSE {0}
  /\ at = "baseline"
  /\ timeline = <<>>
  /\ pre = NotTaken
  /\ post = NotTaken
  /\ grown = {}

\* Which moments a growth of the counter comes after: the first sample of the
\* baseline; before the recovery the last one, and the snapshot.
Passed ==
  {m \in Moments :
     CASE m = "begun"    -> Values(timeline, {"baseline"}) # <<>>
       [] m = "sampled"  -> at # "recovery"
       [] m = "captured" -> at \notin {"baseline", "recovery"}}

\* The server works, by itself or because of the root action.
Grow ==
  /\ cumulative
  /\ at # "stopped"
  /\ \E n \in Levels : n > level /\ level' = n
  /\ grown' = grown \cup Passed
  /\ UNCHANGED <<cumulative, at, timeline, pre, post>>

Label == CASE at = "captured" -> "baseline" [] at = "acted" -> "observing" [] OTHER -> at

\* MetricsSampler adds what the provider returns; a provider that raises adds
\* nothing.
Sample ==
  /\ at # "stopped"
  /\ Len(timeline) < MaxSamples
  /\ \E x \in IF cumulative THEN {Num(level)} ELSE Numbers :
       timeline' = Append(timeline, [label |-> Label, value |-> x])
  /\ grown' = IF Label = "baseline" THEN grown \ {"sampled"} ELSE grown
  /\ UNCHANGED <<cumulative, level, at, pre, post>>

\* MetricsCollector.snapshot: this metric's provider, or another one, raises,
\* or the metric is not among those of the snapshot.  The registry asks for the
\* snapshots of counters only; of a gauge they are not looked at.
Snapshots == IF cumulative THEN [ok : BOOLEAN, value : {Num(level), Absent}] ELSE {NotTaken}

Capture ==
  /\ at = "baseline"
  /\ at' = "captured"
  /\ pre' \in Snapshots
  /\ UNCHANGED <<cumulative, level, timeline, post, grown>>

Mark ==
  /\ at = "captured"
  /\ at' = "injection"
  /\ UNCHANGED <<cumulative, level, timeline, pre, post, grown>>

Observe ==
  /\ at = "injection"
  /\ at' = "observing"
  /\ UNCHANGED <<cumulative, level, timeline, pre, post, grown>>

\* dispatcher.execute has returned.
CaptureAgain ==
  /\ at = "observing"
  /\ at' = "acted"
  /\ post' \in Snapshots
  /\ UNCHANGED <<cumulative, level, timeline, pre, grown>>

Recover ==
  /\ at = "acted"
  /\ at' = "recovery"
  /\ UNCHANGED <<cumulative, level, timeline, pre, post, grown>>

Stop ==
  /\ at = "recovery"
  /\ at' = "stopped"
  /\ UNCHANGED <<cumulative, level, timeline, pre, post, grown>>

Next == Grow \/ Sample \/ Capture \/ Mark \/ Observe \/ CaptureAgain \/ Recover \/ Stop

Spec == Init /\ [][Next]_vars

-----------------------------------------------------------------------------
\* A counter that did not grow after the snapshot before the injection is no
\* evidence of an anomaly, whatever it was worth before: where a snapshot rule
\* is a hit without it, by the samples, the evaluation says that it is degraded.
FlatIsDegraded ==
  cumulative /\ at = "stopped" /\ "captured" \notin grown =>
    \A pair \in Oracles :
      /\ pair[1].source = "snapshot"
      /\ Judge(pair[1], pair[2]).evidence = "hit"
      => Judge(pair[1], pair[2]).degraded

\* What a chain's node takes for the run's own growth of a counter is that: a
\* spill is found only where the counter grew after the last sample of the
\* baseline and before the recovery, and slow queries only where it grew after
\* the first one, whatever it was worth before the run.
GrowthIsTheRuns ==
  cumulative /\ at = "stopped" =>
    /\ NodeHit("sort_hash_spill") => "sampled" \in grown
    /\ NodeHit("slow_query") => "begun" \in grown

\* A rule on the samples is a hit where the samples of the observation are
\* numbers, a baseline it needs is not 0, and as many samples as it asks for,
\* one after another, satisfy it, as their aggregate does.
HitMatchesWindow ==
  at = "stopped" =>
    \A pair \in Oracles :
      LET rule      == pair[1]
          current   == Values(timeline, {"observing"})
          baseline  == Values(timeline, {"baseline"})
          reference == Reference(rule, current, baseline)
          Satisfied(x) == Compare(Comparison(rule, x, reference), rule)
      IN Evaluate(rule, timeline) = "hit" <=>
           /\ current # <<>>
           /\ \A s \in ToSet(current) \cup ToSet(baseline) : Finite(s)
           /\ rule.reference = "baseline" => baseline # <<>> /\ Less(Num(0), reference)
           /\ Satisfied(Aggregate(current, rule.aggregation))
           /\ \E i \in DOMAIN current :
                /\ i + rule.consecutive - 1 <= Len(current)
                /\ \A j \in i..(i + rule.consecutive - 1) : Satisfied(current[j])
=============================================================================
