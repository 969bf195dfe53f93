-------------------------------- MODULE CaseRun --------------------------------
(***************************************************************************)
(* run_case of run_cases.py around MySQLInstrumentation: the global        *)
(* variables of the server are captured, set for the experiment one by     *)
(* one, and restored one by one in a finally block; the outcome is a       *)
(* payload that is returned and a result.json.  Every statement may fail,  *)
(* the process may die, and the next case runs on the server as it is.     *)
(***************************************************************************)
EXTENDS Naturals, Sequences

CONSTANT MaxCases    \* bound: how many cases are run on one server
ASSUME CasesAssumption == MaxCases \in Nat \ {0}

VARIABLES
  case,        \* the number of the case
  reflection,  \* the case is run with the reflection loop
  stage,       \* where run_case stands
  at,          \* the next variable to set
  globals,     \* the global variables of the server (external)
  captured,    \* the values that capture read
  atStart,     \* the server as the case found it
  pending,     \* the exception that the finally block interrupts
  status,      \* payload["status"]
  file         \* the status in result.json, "none" when there is no file

caseVars == <<case, reflection, stage, at, globals, captured, atStart, pending, status, file>>

\* MySQLInstrumentation.VARIABLES, in the order in which they are set.
Variables == <<"slow_query_log", "long_query_time", "log_output">>
Names     == {Variables[i] : i \in 1..Len(Variables)}
Values    == {"original", "desired"}
Early     == {"skipped", "planned", "environment_error"}
Verdicts  == {"experiment_success", "experiment_miss", "system_error"}
Ended     == {"returned", "escaped", "crashed"}
CasePlaces == {"checks", "preflight", "capture", "prepare", "undo", "body", "report", "restore",
              "failing", "write"} \cup Ended

CaseInit ==
  /\ case = 1
  /\ reflection \in BOOLEAN
  /\ stage = "checks"
  /\ at = 1
  /\ globals = [n \in Names |-> "original"]
  /\ captured = globals
  /\ atStart = globals
  /\ pending = "none"
  /\ status = "none"
  /\ file = "none"

-----------------------------------------------------------------------------
\* The early returns, each with its own status; a profile or a configuration
\* that cannot be read is no result at all.  The reflection mode is always a
\* real run.
Checks ==
  /\ stage = "checks"
  /\ \/ stage' \in {"preflight", "failing", "escaped"} /\ UNCHANGED status
     \/ stage' = "write" /\ status' \in Early \ IF reflection THEN {"planned"} ELSE {}
  /\ UNCHANGED <<case, reflection, at, globals, captured, atStart, pending, file>>

\* run_preflight only reads the server, the profile and the files they name.
\* One check that fails stops the case; a warning, like that of a variable that
\* the profile is going to change, does not.
Preflight ==
  /\ stage = "preflight"
  /\ \/ stage' \in {"capture", "failing"} /\ UNCHANGED status
     \/ stage' = "write" /\ status' = "environment_error"
  /\ UNCHANGED <<case, reflection, at, globals, captured, atStart, pending, file>>

Capture ==
  /\ stage = "capture"
  /\ \/ captured' = globals /\ stage' = "prepare"
     \/ stage' = "failing" /\ UNCHANGED captured
  /\ UNCHANGED <<case, reflection, at, globals, atStart, pending, status, file>>

\* One SET GLOBAL; any of them may fail, and so may the connection.
Prepare ==
  /\ stage = "prepare"
  /\ \/ /\ at <= Len(Variables)
        /\ globals' = [globals EXCEPT ![Variables[at]] = "desired"]
        /\ at' = at + 1
        /\ UNCHANGED stage
     \/ at <= Len(Variables) /\ stage' = "undo" /\ at' = 1 /\ UNCHANGED globals
     \/ at > Len(Variables) /\ stage' = "body" /\ at' = 1 /\ UNCHANGED globals
  /\ UNCHANGED <<case, reflection, captured, atStart, pending, status, file>>

\* restore, one SET GLOBAL at a time, on its way to a place that depends on
\* whether it went through.
RestoreStep(done, broken) ==
  \/ /\ at <= Len(Variables)
     /\ globals' = [globals EXCEPT ![Variables[at]] = captured[Variables[at]]]
     /\ at' = at + 1
     /\ UNCHANGED stage
  \/ at <= Len(Variables) /\ stage' = broken /\ UNCHANGED <<at, globals>>
  \/ at > Len(Variables) /\ stage' = done /\ UNCHANGED <<at, globals>>

\* prepare restores what it captured and raises.
Undo ==
  /\ stage = "undo"
  /\ RestoreStep("failing", "failing")
  /\ UNCHANGED <<case, reflection, captured, atStart, pending, status, file>>

-----------------------------------------------------------------------------
\* Variant: every mode writes its result inside the try block.
BodyReports ==
  /\ stage = "body"
  /\ status' \in Verdicts
  /\ stage' = "report"
  /\ UNCHANGED <<case, reflection, at, globals, captured, atStart, pending, file>>

\* The experiment; a run with reflection has no system_error of its own.
Body ==
  /\ stage = "body"
  /\ \/ /\ status' \in IF reflection THEN Verdicts \ {"system_error"} ELSE Verdicts
        /\ stage' = IF reflection THEN "report" ELSE "restore"
        /\ UNCHANGED pending
     \/ pending' \in {"error", "interrupt"} /\ stage' = "restore" /\ UNCHANGED status
  /\ UNCHANGED <<case, reflection, at, globals, captured, atStart, file>>

\* With reflection the result is written inside the try block, before restore.
Report ==
  /\ stage = "report"
  /\ \/ file' = status /\ UNCHANGED pending
     \/ pending' = "error" /\ UNCHANGED file
  /\ stage' = "restore"
  /\ UNCHANGED <<case, reflection, at, globals, captured, atStart, status>>

\* Where the finally block leads when restore went through.
AfterRestore ==
  CASE pending = "error"     -> "failing"
    [] pending = "interrupt" -> "escaped"
    [] pending = "none"      -> IF reflection THEN "returned" ELSE "write"

\* Variant: a restore that fails is not the experiment's concern.
RestoreQuietly ==
  /\ stage = "restore"
  /\ RestoreStep(AfterRestore, AfterRestore)
  /\ UNCHANGED <<case, reflection, captured, atStart, pending, status, file>>

Restore ==
  /\ stage = "restore"
  /\ RestoreStep(AfterRestore, "failing")
  /\ UNCHANGED <<case, reflection, captured, atStart, pending, status, file>>

\* Variant: the exception's kind is the status.
FailingWithKind ==
  /\ stage = "failing"
  /\ status' = pending
  /\ stage' = "write"
  /\ UNCHANGED <<case, reflection, at, globals, captured, atStart, pending, file>>

Failing ==
  /\ stage = "failing"
  /\ status' = "system_error"
  /\ stage' = "write"
  /\ UNCHANGED <<case, reflection, at, globals, captured, atStart, pending, file>>

\* A failed write escapes, except that of the preflight's result, which is
\* inside the try block.
Write ==
  /\ stage = "write"
  /\ \/ file' = status /\ stage' = "returned"
     \/ stage' = "escaped" /\ UNCHANGED file
     \/ status = "environment_error" /\ stage' = "failing" /\ UNCHANGED file
  /\ UNCHANGED <<case, reflection, at, globals, captured, atStart, pending, status>>

-----------------------------------------------------------------------------
Run ==
  \/ Checks \/ Preflight \/ Capture \/ Prepare \/ Undo \/ Body \/ Report \/ Restore \/ Failing \/ Write

Crash ==
  /\ stage \notin Ended
  /\ stage' = "crashed"
  /\ UNCHANGED <<case, reflection, at, globals, captured, atStart, pending, status, file>>

\* The next case of main, or the next start of the program.
NextCase ==
  /\ stage \in Ended
  /\ case < MaxCases
  /\ case' = case + 1
  /\ reflection' \in BOOLEAN
  /\ stage' = "checks"
  /\ at' = 1
  /\ captured' = globals
  /\ atStart' = globals
  /\ pending' = "none"
  /\ status' = "none"
  /\ file' = "none"
  /\ UNCHANGED globals

CaseNext == Run \/ Crash \/ NextCase

CaseSpec == CaseInit /\ [][CaseNext]_caseVars

-----------------------------------------------------------------------------
CaseTypeOK ==
  /\ case \in 1..MaxCases
  /\ reflection \in BOOLEAN
  /\ stage \in CasePlaces
  /\ at \in 1..(Len(Variables) + 1)
  /\ globals \in [Names -> Values]
  /\ captured \in [Names -> Values]
  /\ atStart \in [Names -> Values]
  /\ pending \in {"none", "error", "interrupt"}
  /\ status \in Early \cup Verdicts \cup {"none"}
  /\ file \in Early \cup Verdicts \cup {"none"}

\* A case that returns with the server's variables other than it found them
\* says system_error, whatever the experiment itself found out.
ChangeIsReported ==
  stage = "returned" /\ globals # atStart => status = "system_error"

\* Without reflection, a verdict on disk means that the server is as it was,
\* however the run ends, even in the middle.
VerdictAfterRestore ==
  ~reflection /\ file \in {"experiment_success", "experiment_miss"} => globals = atStart
=============================================================================
