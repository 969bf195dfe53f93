------------------------------- MODULE Adaptation -------------------------------
(***************************************************************************)
(* The reflection loop with what it adapts: the numbers of an action plan, *)
(* the limits that the two gates hold it to, what the attempt missed, and  *)
(* the change that ChainReflector recommends for the next plan, which the  *)
(* LLM may follow or not.  The numbers are seconds and counts; the text of *)
(* the plans is what the gates may reject besides.                         *)
(***************************************************************************)
EXTENDS Integers, FiniteSetsExt, ReflectionLoop

CONSTANTS
  Windows,        \* experiment.injection_seconds of the profiles
  MaxDuration,    \* agent_limits.max_action_duration_seconds
  MaxConcurrency, \* agent_limits.max_concurrency
  Required,       \* required_concurrency, or _terminals, of an attempt's metrics;
                  \* 0 for none, which is all that run_cases supplies
  Fresh           \* bound: the plans that the LLM thinks of by itself

Types == {"sql", "transaction", "benchbase", "chaosblade"}
Plan  == [type : Types, duration : Nat, size : Nat, holder : Nat]

ASSUME AdaptationAssumption ==
  /\ Windows \subseteq Nat \ {0}
  /\ {MaxDuration, MaxConcurrency} \subseteq Nat \ {0}
  /\ Required \subseteq Nat
  /\ Fresh \subseteq Plan

VARIABLES
  window,    \* the injection window of this experiment
  plan,      \* the plan's type, duration_sec, its concurrency, terminals or number
             \* of actors, and the longest delay that an actor holds its locks for
  missed,    \* what the failed node or edge of the attempt is about
  advice,    \* recommended_changes: the field and the value
  followed   \* history: the plan is the last one with the advice applied

adaptVars == <<window, plan, missed, advice, followed>>
allVars   == <<vars, adaptVars>>

NoPlan     == [type |-> "sql", duration |-> 0, size |-> 0, holder |-> 0]
Change(field, value) == [field |-> field, value |-> value]
Regenerate == Change("none", 0)

-----------------------------------------------------------------------------
\* ActionValidator.validate and SafetyChecker.check, as far as they look at
\* numbers: neither the terminals nor the duration of a ChaosBlade action has a limit.
Valid(p) ==
  /\ p.type # "chaosblade" => p.duration <= MaxDuration
  /\ p.type \in {"sql", "transaction"} => p.size <= MaxConcurrency

Safe(p) == p.type # "chaosblade" => p.duration <= MaxDuration

-----------------------------------------------------------------------------
\* ChainReflector.reflect: the first rule that applies.  The rule about qps_ratio
\* does not, because no attempt's metrics have the throughput it asks for.
TooLong  == plan.duration > window
TooFew(required)  == plan.type \in {"sql", "benchbase"} /\ required > plan.size
LockTooShort == "lock" \in missed /\ plan.holder > 0

\* Variant: the longer duration is not held to the budget.
LongerUnbounded == Change("duration", plan.duration + 5)

\* The budget of the request is the whole window, in every round.
Longer == Change("duration", Max({1, Min({plan.duration + 5, window})}))

Recommend(required) ==
  IF outcome # "miss" THEN Regenerate
  ELSE IF TooLong THEN Change("duration", window)
  ELSE IF TooFew(required) THEN Change("size", Max({plan.size + 1, required}))
  ELSE IF LockTooShort THEN Change("holder", plan.holder + 5)
  ELSE IF "slow_query" \in missed THEN Longer
  ELSE Regenerate

-----------------------------------------------------------------------------
AdaptInit ==
  /\ Init
  /\ window \in Windows
  /\ plan = NoPlan
  /\ missed = {}
  /\ advice = Regenerate
  /\ followed = FALSE

\* The request carries the advice; a plan that follows it is the last one with
\* the field changed.
Following ==
  IF advice.field = "none" THEN {}
  ELSE {[plan EXCEPT ![advice.field] = advice.value]}

Propose ==
  /\ Generated
  /\ IF pc' # "validate" THEN UNCHANGED <<plan, followed>>
     ELSE \/ feedback > 0 /\ plan' \in Following /\ followed' = TRUE
          \/ plan' \in Fresh /\ followed' = FALSE
  /\ UNCHANGED <<window, missed, advice>>

\* Both gates look at the text of the plan too.
Admit ==
  /\ Validate
  /\ pc' = "attempt" => Valid(plan) /\ Safe(plan)
  /\ UNCHANGED adaptVars

\* A chain fails at a node or at an edge, which names two.
Attempt ==
  /\ RunAttempt
  /\ missed' \in IF outcome' = "miss" THEN SUBSET {"lock", "slow_query"} ELSE {{}}
  /\ UNCHANGED <<window, plan, advice, followed>>

Advise ==
  /\ Reflect
  /\ \E required \in Required : advice' = Recommend(required)
  /\ missed' = {}
  /\ UNCHANGED <<window, plan, followed>>

Keep == MakeDirectory \/ Write \/ Written \/ Return \/ Retry

AdaptLoop ==
  \/ Propose
  \/ (Generate \/ Ask) /\ UNCHANGED adaptVars
  \/ (Admit \/ Attempt \/ Advise \/ (Keep /\ UNCHANGED adaptVars)) /\ UNCHANGED clientVars

StartOver ==
  /\ RunAgain
  /\ plan' = NoPlan
  /\ missed' = {}
  /\ advice' = Regenerate
  /\ followed' = FALSE
  /\ UNCHANGED window

AdaptNext == AdaptLoop \/ (Crash /\ UNCHANGED adaptVars) \/ StartOver

\* Every request is answered or times out, and so does an action that is run.
AdaptSpec == AdaptInit /\ [][AdaptNext]_allVars /\ WF_allVars(AdaptLoop)

-----------------------------------------------------------------------------
AdaptTypeOK ==
  /\ TypeOK
  /\ window \in Windows
  /\ plan \in Plan
  /\ missed \subseteq {"lock", "slow_query"}
  /\ advice \in [field : {"none", "duration", "size", "holder"}, value : Nat]
  /\ followed \in BOOLEAN

\* Whoever follows the reflector gets on.  A plan whose duration is the advised
\* one is never told to go back, though two rules pull at the duration, and is
\* told to stay as it is only when it fills the window; and where the window is
\* within the limits of the gates, they have nothing against that duration.
AdviceMakesProgress ==
  [][LET advised == followed /\ advice.field = "duration"
     IN /\ pc = "reflect" /\ pc' = "directory" /\ advised /\ advice'.field = "duration"
           => \/ advice'.value > plan.duration
              \/ advice'.value = plan.duration /\ plan.duration = window
        /\ pc = "validate" /\ pc' # "crashed" /\ advised
           => plan.duration <= window /\ (window <= MaxDuration => plan.duration <= MaxDuration)]_allVars
=================================================================================
