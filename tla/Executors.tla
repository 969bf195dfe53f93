------------------------------- MODULE Executors -------------------------------
(***************************************************************************)
(* What an ActionDispatcher owns, and what its executors do outside it:    *)
(* the BenchBase processes, the ChaosBlade experiments, the backup table   *)
(* and the stop event of the transaction executor.  An operation takes the *)
(* result its caller sees: "ok" and "failed" are ActionResults, "raised"   *)
(* is an exception; an operation that a KeyboardInterrupt cuts short is an *)
(* operator of its own.  DirectRunner and PropagationRunner call them.     *)
(***************************************************************************)
EXTENDS Naturals, Sequences

VARIABLES
  kind,         \* the type of the root action; "table" is the SQL action that
                \* creates a backup table
  wellFormed,   \* the action passes the executor's validate
  processes,    \* BenchBase processes in the order of their Popen (external)
  process,      \* BenchBaseExecutor.process: its place in processes, 0 for None
  blades,       \* ChaosBlade experiments in the order of their creation (external)
  activeUid,    \* ChaosExecutor.active_uid: its place in blades, 0 for None
  backupTable,  \* the backup table exists (external)
  stopEvent     \* TransactionExecutor._stop is set

execVars ==
  <<kind, wellFormed, processes, process, blades, activeUid, backupTable, stopEvent>>

Kinds   == {"sql", "table", "transaction", "benchbase", "chaosblade"}
Roles   == {"background", "root"}
Results == {"ok", "failed", "raised"}

ExecInit ==
  /\ kind \in Kinds
  /\ wellFormed \in BOOLEAN
  /\ processes = <<>>
  /\ process = 0
  /\ blades = <<>>
  /\ activeUid = 0
  /\ backupTable \in BOOLEAN
  /\ stopEvent = FALSE

Running(p)   == processes[p].status = "running"
RunningOnes  == {p \in 1..Len(processes) : Running(p)}
\* Processes that run although their Popen never returned to the executor.
LostOnes     == {p \in 1..Len(processes) : processes[p].status = "lost"}
LiveBlades   == {b \in 1..Len(blades) : blades[b] = "live"}
LostBlades   == {b \in 1..Len(blades) : blades[b] = "lost"}

-----------------------------------------------------------------------------
\* BenchBaseExecutor

\* start: validate raises when the jar or the config is gone, Popen fails with
\* an OSError, or a process starts and takes the place of the one held.
BenchbaseStart(role, result) ==
  /\ UNCHANGED <<kind, wellFormed, blades, activeUid, backupTable, stopEvent>>
  /\ IF result = "ok"
     THEN /\ processes' = Append(processes, [role |-> role, status |-> "running"])
          /\ process' = Len(processes) + 1
     ELSE UNCHANGED <<processes, process>>

\* start, interrupted after the process is there: before the executor has its
\* handle, or after.
BenchbaseStartInterrupted(role) ==
  \/ BenchbaseStart(role, "ok")
  \/ /\ processes' = Append(processes, [role |-> role, status |-> "lost"])
     /\ UNCHANGED <<kind, wellFormed, process, blades, activeUid, backupTable, stopEvent>>

\* poll() of a process that was never started or is over.
IsAlive == process # 0 /\ Running(process)

\* Variant: terminate is sent and nothing waits for the end.
BenchbaseStopWithoutWait(result) ==
  /\ result = "ok"
  /\ UNCHANGED <<kind, wellFormed, processes, blades, activeUid, backupTable, stopEvent>>

\* stop: terminate and wait, then kill and wait; the last wait may raise
\* TimeoutExpired with the process still there.
BenchbaseStop(result) ==
  /\ result \in IF IsAlive THEN {"ok", "raised"} ELSE {"ok"}
  /\ processes' = IF IsAlive /\ result = "ok"
                  THEN [processes EXCEPT ![process].status = "nonzero"] ELSE processes
  /\ UNCHANGED <<kind, wellFormed, blades, activeUid, backupTable, stopEvent>>

BenchbaseCleanup(result) ==
  /\ BenchbaseStop(result)
  /\ process' = IF result = "ok" THEN 0 ELSE process

-----------------------------------------------------------------------------
\* ChaosExecutor

\* start: a create that succeeds makes an experiment, whose uid the output may
\* not tell; one that times out or fails may have made it all the same.  An
\* experiment whose uid nobody learned is lost.  A command that shlex cannot
\* split raises before anything is created.
ChaosStart(result) ==
  /\ UNCHANGED <<kind, wellFormed, processes, process, backupTable, stopEvent>>
  /\ \/ /\ result = "ok"
        /\ \/ blades' = Append(blades, "live") /\ activeUid' = Len(blades) + 1
           \/ blades' = Append(blades, "lost") /\ activeUid' = 0
     \/ /\ result = "failed"
        /\ blades' \in {blades, Append(blades, "lost")}
        /\ UNCHANGED activeUid
     \/ result = "raised" /\ UNCHANGED <<blades, activeUid>>

\* start, interrupted: create made its experiment, with or without a word of it.
ChaosStartInterrupted == ChaosStart("ok") \/ ChaosStart("failed")

\* Variant: the uid is forgotten whether or not destroy succeeded.
ChaosStopForgets ==
  /\ UNCHANGED <<kind, wellFormed, processes, process, backupTable, stopEvent>>
  /\ activeUid' = 0
  /\ \/ activeUid = 0 /\ UNCHANGED blades
     \/ activeUid # 0 /\ blades' \in {blades, [blades EXCEPT ![activeUid] = "gone"]}

\* stop, of which cleanup only relabels the result: nothing to destroy without
\* a uid; a destroy that fails keeps the uid and raises nothing.
ChaosStop ==
  /\ UNCHANGED <<kind, wellFormed, processes, process, backupTable, stopEvent>>
  /\ \/ activeUid = 0 /\ UNCHANGED <<blades, activeUid>>
     \/ /\ activeUid # 0
        /\ blades' = [blades EXCEPT ![activeUid] = "gone"]
        /\ activeUid' \in {0, activeUid}
     \/ activeUid # 0 /\ UNCHANGED <<blades, activeUid>>

-----------------------------------------------------------------------------
\* The dispatcher's operations on the root action.

\* The files that BenchBase needs may vanish; the other validations depend on
\* the action alone.
Validates(result) ==
  IF kind = "benchbase" THEN result \in {"ok", "raised"}
  ELSE result = IF wellFormed THEN "ok" ELSE "raised"

RootStart(result) ==
  \/ Validates("raised") /\ result = "raised" /\ UNCHANGED execVars
  \/ /\ Validates("ok")
     /\ \/ kind = "benchbase"  /\ result \in Results /\ BenchbaseStart("root", result)
        \/ kind = "chaosblade" /\ ChaosStart(result)
        \/ kind \in {"sql", "table"} /\ result = "ok" /\ UNCHANGED execVars
        \/ /\ kind = "transaction"
           /\ result = "ok"
           /\ stopEvent' = FALSE
           /\ UNCHANGED <<kind, wellFormed, processes, process, blades, activeUid, backupTable>>

RootStartInterrupted ==
  /\ Validates("ok")
  /\ \/ kind = "benchbase" /\ BenchbaseStartInterrupted("root")
     \/ kind = "chaosblade" /\ ChaosStartInterrupted

\* CREATE TABLE fails on a table that is there; one that times out on the
\* client may still create it.
CreateTable(result) ==
  /\ backupTable' \in IF backupTable \/ result = "ok" THEN {TRUE} ELSE BOOLEAN
  /\ result = "ok" => ~backupTable
  /\ UNCHANGED <<kind, wellFormed, processes, process, blades, activeUid, stopEvent>>

\* execute, for the executors that do it in one call.
RootExecute(result) ==
  /\ result \in {"ok", "failed"}
  /\ \/ kind \in {"sql", "transaction"} /\ UNCHANGED execVars
     \/ kind = "table" /\ CreateTable(result)
     \/ /\ kind = "chaosblade"
        /\ IF activeUid # 0 THEN result = "ok" /\ UNCHANGED execVars
                            ELSE ChaosStart(result)

\* Variant: execute starts a workload of its own without a look at poll().
BenchbaseEnsureAgain(result) == result \in Results /\ BenchbaseStart("root", result)

\* BenchBaseExecutor.execute starts its workload again when the process it
\* holds is over, and only then waits.
BenchbaseEnsure(result) ==
  /\ result \in Results
  /\ \/ result = "raised" /\ UNCHANGED execVars
     \/ IsAlive /\ result = "ok" /\ UNCHANGED execVars
     \/ ~IsAlive /\ BenchbaseStart("root", result)

\* execute, interrupted in what it starts or in the CREATE TABLE on its way.
RootExecuteInterrupted ==
  \/ kind = "benchbase" /\ ~IsAlive /\ BenchbaseStartInterrupted("root")
  \/ kind = "chaosblade" /\ activeUid = 0 /\ ChaosStartInterrupted
  \/ kind = "table" /\ CreateTable("failed")

BenchbaseExit(result) ==
  /\ ~IsAlive
  /\ result = IF processes[process].status = "zero" THEN "ok" ELSE "failed"

RootCleanup(result) ==
  \/ kind = "benchbase" /\ BenchbaseCleanup(result)
  \/ kind = "chaosblade" /\ result = "ok" /\ ChaosStop
  \/ kind \in {"sql", "table"} /\ result = "ok" /\ UNCHANGED execVars
  \/ /\ kind = "transaction"
     /\ result = "ok"
     /\ stopEvent' = TRUE
     /\ UNCHANGED <<kind, wellFormed, processes, process, blades, activeUid, backupTable>>

-----------------------------------------------------------------------------
\* What happens outside, at any time.

WorkloadExits ==
  /\ \E p \in RunningOnes \cup LostOnes, code \in {"zero", "nonzero"} :
       processes' = [processes EXCEPT ![p].status = code]
  /\ UNCHANGED <<kind, wellFormed, process, blades, activeUid, backupTable, stopEvent>>

BladeExpires ==
  /\ \E b \in LiveBlades \cup LostBlades : blades' = [blades EXCEPT ![b] = "gone"]
  /\ UNCHANGED <<kind, wellFormed, processes, process, activeUid, backupTable, stopEvent>>

-----------------------------------------------------------------------------
ExecTypeOK ==
  /\ kind \in Kinds
  /\ wellFormed \in BOOLEAN
  /\ processes \in Seq([role : Roles, status : {"running", "lost", "zero", "nonzero"}])
  /\ process \in 0..Len(processes)
  /\ blades \in Seq({"live", "lost", "gone"})
  /\ activeUid \in 0..Len(blades)
  /\ backupTable \in BOOLEAN
  /\ stopEvent \in BOOLEAN

\* A BenchBase process that runs is the one the executor holds, which a
\* clean-up can stop; the exception is a BenchBase root action on top of a
\* BenchBase background workload, where start drops the background's handle.
\* A ChaosBlade experiment that runs is the one whose uid the executor holds.
\* What is lost, because its create did not tell the uid or its start was
\* interrupted, is not asked about here; Custody counts it.
Unorphaned ==
  /\ \A p \in RunningOnes :
       p = process \/ (kind = "benchbase" /\ processes[p].role = "background")
  /\ \A b \in LiveBlades : b = activeUid

\* The workloads that run: those whose handle or uid an executor holds, and
\* those that no clean-up can reach.
ProcessLoad(p) == <<processes[p].role, "process", p>>
BladeLoad(b)   == <<"root", "blade", b>>

InHand ==
  {ProcessLoad(p) : p \in {p \in RunningOnes : p = process}} \cup
  {BladeLoad(b) : b \in {b \in LiveBlades : b = activeUid}}

OutOfHand ==
  {ProcessLoad(p) : p \in {p \in RunningOnes : p # process} \cup LostOnes} \cup
  {BladeLoad(b) : b \in {b \in LiveBlades : b # activeUid} \cup LostBlades}
=============================================================================
