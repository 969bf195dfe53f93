------------------------------- MODULE MCEvidence -------------------------------
(***************************************************************************)
(* Evidence with rules of config/evidence_rules.yaml, thresholds scaled to *)
(* the levels, and rules of the tests for what the registry does not use.  *)
(***************************************************************************)
EXTENDS Evidence

Rule(aggregation, reference, operator, threshold, consecutive, source) ==
  [aggregation |-> aggregation, reference |-> reference, operator |-> operator,
   threshold |-> threshold, consecutive |-> consecutive, source |-> source]

row_lock           == Rule("delta", "snapshot", "gt", Num(0), 1, "snapshot")
row_lock_severe    == Rule("delta", "snapshot", "gte", Num(2), 1, "snapshot")
slow_query         == Rule("delta", "snapshot", "gte", Num(1), 1, "snapshot")
qps_drop           == Rule("ratio", "baseline", "lt", <<7, 10>>, 1, "timeline")
active_lock_wait   == Rule("max", "absolute", "gt", Num(0), 1, "timeline")
sql_cpu_pressure   == Rule("delta", "baseline", "gte", Num(1), 1, "timeline")
metadata_lock_wait == Rule("count", "snapshot", "gt", Num(0), 1, "timeline")
cpu                == Rule("mean", "absolute", "gte", Num(1), 2, "timeline")
growth             == Rule("delta", "window_start", "lte", Num(0), 2, "timeline")

RegistryOracles ==
  {<<row_lock, row_lock_severe>>}
    \cup {<<rule, NoRule>> : rule \in {slow_query, qps_drop, active_lock_wait,
            sql_cpu_pressure, metadata_lock_wait, cpu, growth}}
=============================================================================
