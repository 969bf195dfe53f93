----------------------------- MODULE ReflectionLoop -----------------------------
(***************************************************************************)
(* ChainAgent.reproduce_chain_with_reflection: generate an action plan,    *)
(* pass it through the two gates, run it, keep the attempt in the          *)
(* ArtifactStore, reflect and retry.  The loop may raise or crash between  *)
(* any two steps, and may be run again over the same experiment directory. *)
(***************************************************************************)
EXTENDS Sequences, LLMClient

CONSTANTS
  MaxRetryRounds,   \* max_retry_rounds
  MaxRuns           \* bound: how often the loop is run over one experiment

ASSUME LoopAssumption == MaxRetryRounds \in Nat /\ MaxRuns \in Nat \ {0}

VARIABLES
  run,       \* which run of the loop this is
  pc,        \* where it stands
  attempt,   \* attempt
  feedback,  \* the attempt whose reflection the request carries, 0 for None
  outcome,   \* how the attempt ended
  retryable, \* ReflectionResult.retryable
  written,   \* how many files of the attempt are in place
  records,   \* the outcomes in records, attempt by attempt
  disk       \* the attempt directories: whose they are and what they hold

loopVars == <<run, pc, attempt, feedback, outcome, retryable, written, records, disk>>
vars == <<loopVars, clientVars>>

Attempts == 1..(MaxRetryRounds + 1)
Outcomes == {"success", "miss", "failed", "rejected"}
Ended    == {"returned", "raised", "crashed"}
Places   == {"generate", "asking", "validate", "attempt", "reflect", "directory", "write", "next"} \cup Ended

\* What _persist_attempt writes, in its order; a success has no reflection.
FilesOf(result) ==
  <<"action_plan", "action_result", "evaluation">>
    \o IF result = "success" THEN <<>> ELSE <<"reflection">>

NoDisk == [a \in {} |-> 0]

Init ==
  /\ ClientInit
  /\ run = 1
  /\ pc = "generate"
  /\ attempt = 1
  /\ feedback = 0
  /\ outcome = "none"
  /\ retryable = FALSE
  /\ written = 0
  /\ records = <<>>
  /\ disk = NoDisk

-----------------------------------------------------------------------------
Rest == UNCHANGED <<run, attempt, feedback, outcome, retryable, written, records, disk>>

Generate ==
  /\ pc = "generate"
  /\ GenerateAction
  /\ pc' = "asking"
  /\ Rest

Ask == pc = "asking" /\ Request /\ UNCHANGED loopVars

\* An LLM error, or output that is no ActionPlan, leaves the loop.
Generated ==
  /\ pc = "asking"
  /\ \/ call.result = "object" /\ pc' \in {"validate", "raised"}
     \/ call.result = "error" /\ pc' = "raised"
  /\ call' = NoCall
  /\ UNCHANGED api_mode
  /\ Rest

\* A plan that a gate rejects is an attempt that failed without being run.
Validate ==
  /\ pc = "validate"
  /\ \/ pc' = "attempt" /\ UNCHANGED outcome
     \/ pc' = "reflect" /\ outcome' = "rejected"
  /\ UNCHANGED <<run, attempt, feedback, retryable, written, records, disk>>

\* attempt_runner, a PropagationRunner: it returns an outcome or raises.
RunAttempt ==
  /\ pc = "attempt"
  /\ \/ outcome' = "success" /\ pc' = "directory" /\ records' = Append(records, "success")
     \/ outcome' \in {"miss", "failed"} /\ pc' = "reflect" /\ UNCHANGED records
     \/ pc' = "raised" /\ UNCHANGED <<outcome, records>>
  /\ UNCHANGED <<run, attempt, feedback, retryable, written, disk>>

\* ChainReflector always finds a failure retryable; a reflector that is given
\* to ChainAgent may not.
Reflect ==
  /\ pc = "reflect"
  /\ retryable' \in BOOLEAN
  /\ records' = Append(records, outcome)
  /\ pc' = "directory"
  /\ UNCHANGED <<run, attempt, feedback, outcome, written, disk>>

-----------------------------------------------------------------------------
\* _persist_attempt

\* Variant: a directory that exists is taken over.
TakeDirectory ==
  /\ pc = "directory"
  /\ disk' = [a \in DOMAIN disk \cup {attempt} |->
                IF a = attempt THEN [owner |-> run, files |-> {}] ELSE disk[a]]
  /\ pc' = "write"
  /\ written' = 0
  /\ UNCHANGED <<run, attempt, feedback, outcome, retryable, records>>

\* create_attempt_dir: mkdir(exist_ok=False) raises for a directory that an
\* earlier run has left.
MakeDirectory ==
  /\ pc = "directory"
  /\ \/ /\ attempt \notin DOMAIN disk
        /\ disk' = [a \in DOMAIN disk \cup {attempt} |->
                      IF a = attempt THEN [owner |-> run, files |-> {}] ELSE disk[a]]
        /\ pc' = "write"
     \/ pc' = "raised" /\ UNCHANGED disk
  /\ written' = 0
  /\ UNCHANGED <<run, attempt, feedback, outcome, retryable, records>>

\* Variant: an evaluation that cannot be written is skipped.
WriteOrSkip ==
  /\ pc = "write"
  /\ written < Len(FilesOf(outcome))
  /\ disk' \in {disk, [disk EXCEPT ![attempt].files = @ \cup {FilesOf(outcome)[written + 1]}]}
  /\ written' = written + 1
  /\ UNCHANGED <<run, pc, attempt, feedback, outcome, retryable, records>>

\* write_json writes beside the file and renames: the file is there or not.
Write ==
  /\ pc = "write"
  /\ written < Len(FilesOf(outcome))
  /\ \/ /\ disk' = [disk EXCEPT ![attempt].files = @ \cup {FilesOf(outcome)[written + 1]}]
        /\ written' = written + 1
        /\ UNCHANGED pc
     \/ pc' = "raised" /\ UNCHANGED <<written, disk>>
  /\ UNCHANGED <<run, attempt, feedback, outcome, retryable, records>>

Written ==
  /\ pc = "write"
  /\ written = Len(FilesOf(outcome))
  /\ pc' = "next"
  /\ UNCHANGED <<run, attempt, feedback, outcome, retryable, written, records, disk>>

-----------------------------------------------------------------------------
\* Variant: one round more than the budget has.
MayRetryOnceMore == outcome # "success" /\ attempt <= MaxRetryRounds + 1 /\ retryable

MayRetry == outcome # "success" /\ attempt <= MaxRetryRounds /\ retryable

Return ==
  /\ pc = "next"
  /\ ~MayRetry
  /\ pc' = "returned"
  /\ UNCHANGED <<run, attempt, feedback, outcome, retryable, written, records, disk>>

\* Variant: the request that the loop was called with is used again.
RetryWithoutFeedback ==
  /\ pc = "next"
  /\ MayRetry
  /\ attempt' = attempt + 1
  /\ pc' = "generate"
  /\ UNCHANGED <<run, feedback, outcome, retryable, written, records, disk>>

Retry ==
  /\ pc = "next"
  /\ MayRetry
  /\ attempt' = attempt + 1
  /\ feedback' = attempt
  /\ pc' = "generate"
  /\ UNCHANGED <<run, outcome, retryable, written, records, disk>>

Round ==
  \/ Validate \/ RunAttempt \/ Reflect \/ MakeDirectory \/ Write \/ Written
  \/ Return \/ Retry

Loop == Generate \/ Ask \/ Generated \/ (Round /\ UNCHANGED clientVars)

\* The process dies, and the loop is run again: only the disk is left.
Crash ==
  /\ pc \notin Ended
  /\ pc' = "crashed"
  /\ call' = NoCall
  /\ UNCHANGED api_mode
  /\ Rest

RunAgain ==
  /\ pc \in Ended
  /\ run < MaxRuns
  /\ run' = run + 1
  /\ pc' = "generate"
  /\ attempt' = 1
  /\ feedback' = 0
  /\ outcome' = "none"
  /\ retryable' = FALSE
  /\ written' = 0
  /\ records' = <<>>
  /\ UNCHANGED <<clientVars, disk>>

Next == Loop \/ Crash \/ RunAgain

Spec == Init /\ [][Next]_vars

-----------------------------------------------------------------------------
AllFiles == {"action_plan", "action_result", "evaluation", "reflection"}

TypeOK ==
  /\ ClientTypeOK
  /\ run \in 1..MaxRuns
  /\ pc \in Places
  /\ attempt \in Attempts
  /\ feedback \in 0..MaxRetryRounds
  /\ outcome \in Outcomes \cup {"none"}
  /\ retryable \in BOOLEAN
  /\ written \in 0..4
  /\ records \in Seq(Outcomes)
  /\ DOMAIN disk \in SUBSET Attempts
  /\ \A a \in DOMAIN disk : disk[a] \in [owner : 1..MaxRuns, files : SUBSET AllFiles]

\* The directory of attempt a holds, complete, the record of this run.
Recorded(a) ==
  /\ a \in DOMAIN disk
  /\ a \in 1..Len(records)
  /\ disk[a].owner = run
  /\ disk[a].files = {FilesOf(records[a])[i] : i \in 1..Len(FilesOf(records[a]))}

\* Before an action is run, every earlier attempt of the run is on disk with
\* its reflection, and the request carries the reflection of the last one.
RecordsPrecedeRetry ==
  pc = "attempt" =>
    /\ \A a \in 1..(attempt - 1) : Recorded(a) /\ "reflection" \in disk[a].files
    /\ feedback = attempt - 1

\* A run that returns has kept all its attempts, of which only the last can be
\* a success, and it stopped early only for a success or for a reflection that
\* says not to retry.
ReturnedIsRecorded ==
  pc = "returned" =>
    /\ Len(records) = attempt
    /\ \A a \in 1..attempt : Recorded(a)
    /\ \A a \in 1..(attempt - 1) : records[a] # "success"
    /\ records[attempt] = "success" \/ attempt = MaxRetryRounds + 1 \/ ~retryable

\* Artifacts are of one run: no run changes a directory that another one made.
DirectoriesAreKept ==
  [][\A a \in DOMAIN disk :
       /\ a \in DOMAIN disk'
       /\ disk'[a].owner = disk[a].owner
       /\ disk'[a] # disk[a] => disk[a].owner = run]_vars

\* Every run of the loop ends, however often nobody answers and whatever is
\* retried: both budgets, of the requests and of the rounds, are spent.
RunEnds == pc \notin Ended ~> pc \in Ended

\* The status that run_cases reports for a run that returned.
ReportedStatus ==
  IF outcome = "success" THEN "experiment_success" ELSE "experiment_miss"

\* What steps.md asks of the result: an action that failed to execute is not a
\* miss.  The reflection mode reports every run without success as a miss.
FailureIsNotAMiss ==
  pc = "returned" /\ retryable /\ outcome = "failed" => ReportedStatus # "experiment_miss"
=============================================================================
