----------------------------- MODULE ExecutorProofs -----------------------------
(***************************************************************************)
(* What the operations of the executors keep, whoever calls them: types,   *)
(* that nothing that runs is out of their hands unless it slipped at a     *)
(* start, and what each does to the workloads in hand and out of hand.     *)
(* DirectProofs and PropagationProofs rest on it.                          *)
(***************************************************************************)
EXTENDS Executors, SequenceTheorems, TLAPS

Process == [role : Roles, status : {"running", "lost", "zero", "nonzero"}]

\* Unorphaned, and what makes it hold: the uid that is held is not one that
\* nobody learned, and BenchBase root actions make no experiments.
Known ==
  /\ Unorphaned
  /\ activeUid # 0 => blades[activeUid] # "lost"
  /\ kind = "benchbase" => Len(blades) = 0

\* Nothing runs but a background whose executor the root action takes over.
Alone ==
  /\ \A p \in RunningOnes : kind = "benchbase" /\ processes[p].role = "background"
  /\ Len(blades) = 0

-----------------------------------------------------------------------------
\* What an operation may do to the workloads.  It stops one that it holds;
Frees ==
  \/ UNCHANGED <<InHand, OutOfHand>>
  \/ \E w \in InHand : InHand' = InHand \ {w} /\ UNCHANGED OutOfHand

\* one ends, in hand or not;
Drops ==
  \/ UNCHANGED <<InHand, OutOfHand>>
  \/ \E w \in InHand \cup OutOfHand : InHand' = InHand \ {w} /\ OutOfHand' = OutOfHand \ {w}

\* it starts one, of a role of which it holds none, and may lose the other role's
\* only if they share an executor;
Takes ==
  /\ \E w \in InHand' \ (InHand \cup OutOfHand) :
       /\ InHand' \ {w} \subseteq InHand
       /\ \A other \in InHand : other[1] # w[1] /\ (other \in InHand' \/ kind = "benchbase")
  /\ OutOfHand' = OutOfHand \cup (InHand \ InHand')

\* or it starts one without learning of it.
Slips ==
  /\ \E w \in OutOfHand' : w \notin InHand /\ OutOfHand' = OutOfHand \cup {w}
  /\ UNCHANGED InHand

\* What is in hand and what is not, one by one.
Described ==
  /\ \A w : w \in InHand <=>
       \/ \E p \in 1..Len(processes) :
            p = process /\ processes[p].status = "running" /\ w = <<processes[p].role, "process", p>>
       \/ \E b \in 1..Len(blades) :
            b = activeUid /\ blades[b] = "live" /\ w = <<"root", "blade", b>>
  /\ \A w : w \in OutOfHand <=>
       \/ \E p \in 1..Len(processes) :
            /\ (processes[p].status = "running" /\ p # process) \/ processes[p].status = "lost"
            /\ w = <<processes[p].role, "process", p>>
       \/ \E b \in 1..Len(blades) :
            /\ (blades[b] = "live" /\ b # activeUid) \/ blades[b] = "lost"
            /\ w = <<"root", "blade", b>>

LEMMA Hands == Described
  BY DEF Described, InHand, OutOfHand, RunningOnes, LostOnes, Running, LiveBlades,
         LostBlades, ProcessLoad, BladeLoad

\* Nothing is both.
LEMMA Disjoint == InHand \cap OutOfHand = {}
  BY Hands DEF Described

\* What is freed is dropped.
LEMMA FreesDrops == Frees => Drops
  BY Disjoint DEF Frees, Drops

\* Without a process that is alive or a uid, nothing is in hand.
LEMMA EmptyHands ==
  ASSUME ~IsAlive, activeUid = 0
  PROVE  InHand = {}
  BY Hands DEF Described, IsAlive, Running

\* The workloads are what processes and experiments say.
LEMMA SameLoads ==
  ASSUME UNCHANGED <<processes, process, blades, activeUid>>
  PROVE  Frees /\ (IsAlive' <=> IsAlive)
<1>1. UNCHANGED <<InHand, OutOfHand>>
  BY DEF InHand, OutOfHand, RunningOnes, LostOnes, Running, LiveBlades, LostBlades, ProcessLoad, BladeLoad
<1> QED
  BY <1>1 DEF Frees, IsAlive, Running

-----------------------------------------------------------------------------
\* The executors start with nothing.
LEMMA ExecInitHolds ==
  ASSUME ExecInit
  PROVE  /\ ExecTypeOK /\ Known /\ ~IsAlive
         /\ Len(processes) = 0 /\ Len(blades) = 0
         /\ InHand = {} /\ OutOfHand = {}
<1>1. \A S : <<>> \in Seq(S) /\ Len(<<>>) = 0
  OBVIOUS
<1>2. /\ processes \in Seq(Process)
      /\ blades \in Seq({"live", "lost", "gone"})
      /\ Len(processes) = 0 /\ Len(blades) = 0
  BY <1>1, Zenon DEF ExecInit
<1>3. /\ kind \in Kinds /\ wellFormed \in BOOLEAN /\ process = 0 /\ activeUid = 0
      /\ backupTable \in BOOLEAN /\ stopEvent \in BOOLEAN
  BY Zenon DEF ExecInit
<1>4. ExecTypeOK /\ Known /\ ~IsAlive
  BY <1>2, <1>3 DEF ExecTypeOK, Known, Unorphaned, RunningOnes, LiveBlades, IsAlive, Process
<1>5. InHand = {} /\ OutOfHand = {}
  BY <1>2, Hands DEF Described
<1> QED
  BY <1>2, <1>4, <1>5

\* A process that is added at the end.
LEMMA AppendProcess ==
  ASSUME ExecTypeOK, NEW new \in Process, processes' = Append(processes, new)
  PROVE  /\ processes' \in Seq(Process)
         /\ Len(processes) \in Nat
         /\ Len(processes') = Len(processes) + 1
         /\ \A p \in 1..Len(processes) : processes'[p] = processes[p]
         /\ processes'[Len(processes) + 1] = new
  BY DEF ExecTypeOK, Process

\* A new process, when nothing else runs.
LEMMA StartKeeps ==
  ASSUME ExecTypeOK, Known, Alone,
         NEW role \in Roles, role = "background" => RunningOnes = {},
         NEW result, BenchbaseStart(role, result)
  PROVE  /\ ExecTypeOK' /\ Known'
         /\ kind' = kind /\ blades' = blades
         /\ result # "ok" => processes' = processes /\ process' = process
         /\ \A p \in 1..Len(processes') :
              \/ processes'[p].role = role /\ result = "ok"
              \/ p \in 1..Len(processes) /\ processes'[p].role = processes[p].role
         /\ Drops \/ Takes
<1> USE DEF BenchbaseStart
<1>1. CASE result # "ok"
  <2>1. UNCHANGED <<kind, wellFormed, processes, process, blades, activeUid, backupTable, stopEvent>>
    BY <1>1
  <2>2. Drops
    BY <2>1, SameLoads, FreesDrops
  <2> QED
    BY <1>1, <2>1, <2>2 DEF Known, Unorphaned, Running, RunningOnes, LiveBlades, ExecTypeOK
<1>2. CASE result = "ok"
  <2> DEFINE new == [role |-> role, status |-> "running"]
             at  == Len(processes) + 1
             w   == <<role, "process", at>>
  <2>0. Described /\ Described'
    BY Hands, PTL
  <2>1. /\ processes' = Append(processes, new)
        /\ process' = at
        /\ UNCHANGED <<kind, wellFormed, blades, activeUid, backupTable, stopEvent>>
    BY <1>2
  <2>2. new \in Process /\ new.role = role /\ new.status = "running"
    BY DEF Process
  <2> HIDE DEF new
  <2>3. /\ processes' \in Seq(Process) /\ Len(processes) \in Nat /\ Len(processes') = at
        /\ \A p \in 1..Len(processes) : processes'[p] = processes[p]
        /\ processes'[at] = new
    BY <2>1, <2>2, AppendProcess
  <2>4. ExecTypeOK'
    BY <2>1, <2>3 DEF ExecTypeOK, Process
  <2>5. \A p \in RunningOnes' : p = process' \/ (kind' = "benchbase" /\ processes'[p].role = "background")
    BY <2>1, <2>3 DEF Alone, RunningOnes, Running
  <2>6. Known'
    BY <2>1, <2>5 DEF Known, Unorphaned, LiveBlades
  <2>7. \A p \in 1..Len(processes') :
           \/ processes'[p].role = role
           \/ p \in 1..Len(processes) /\ processes'[p].role = processes[p].role
    BY <2>2, <2>3
  <2>8. /\ \A v \in InHand : v[1] = "background" /\ kind = "benchbase" /\ role # "background"
        /\ w \notin InHand \cup OutOfHand
    <3>1. \A v \in InHand : \E p \in RunningOnes : v = <<processes[p].role, "process", p>>
      BY Hands DEF Described, Alone, RunningOnes, Running
    <3>2. w \notin InHand \cup OutOfHand
      BY Hands, <2>3 DEF Described
    <3> QED
      BY <3>1, <3>2 DEF Alone
  <2>9. InHand' = {w} /\ OutOfHand' = OutOfHand \cup InHand
    <3>1. \A v : v \in InHand' <=> v = w
      BY <2>0, <2>1, <2>2, <2>3 DEF Described, Alone
    <3>2. \A v : v \in OutOfHand' <=> v \in OutOfHand \/ v \in InHand
      <4>1. \A p \in 1..Len(processes') : p = at \/ p \in 1..Len(processes)
        BY <2>3
      <4>2. at \notin 1..Len(processes) /\ at \in 1..Len(processes')
        BY <2>3
      <4> QED
        BY <2>0, <2>1, <2>2, <2>3, <4>1, <4>2 DEF Described, Alone
    <3> QED
      BY <3>1, <3>2
  <2>10. Takes
    <3>1. w[1] = role
      OBVIOUS
    <3> HIDE DEF w
    <3> QED
      BY <2>8, <2>9, <3>1 DEF Takes
  <2> QED
    BY <1>2, <2>1, <2>4, <2>6, <2>7, <2>10
<1> QED
  BY <1>1, <1>2

\* A start that is interrupted before the executor has the handle.
LEMMA LostKeeps ==
  ASSUME ExecTypeOK, Known, NEW role \in Roles,
         processes' = Append(processes, [role |-> role, status |-> "lost"]),
         UNCHANGED <<kind, wellFormed, process, blades, activeUid, backupTable, stopEvent>>
  PROVE  /\ ExecTypeOK' /\ Known' /\ Slips /\ (IsAlive' => IsAlive)
         /\ \A p \in 1..Len(processes') :
              \/ processes'[p].role = role
              \/ p \in 1..Len(processes) /\ processes'[p].role = processes[p].role
<1> DEFINE new == [role |-> role, status |-> "lost"]
           at  == Len(processes) + 1
           w   == <<role, "process", at>>
<1>1. new \in Process /\ new.role = role /\ new.status = "lost"
  BY DEF Process
<1>2. processes' = Append(processes, new)
  OBVIOUS
<1> HIDE DEF new
<1>3. /\ processes' \in Seq(Process) /\ Len(processes) \in Nat /\ Len(processes') = at
      /\ \A p \in 1..Len(processes) : processes'[p] = processes[p]
      /\ processes'[at] = new
  BY <1>1, <1>2, AppendProcess
<1>4. process \in 0..Len(processes)
  BY DEF ExecTypeOK
<1>5. ExecTypeOK'
  BY <1>3, <1>4 DEF ExecTypeOK, Process
<1>6. RunningOnes' = RunningOnes /\ \A p \in RunningOnes : processes'[p] = processes[p]
  BY <1>1, <1>3 DEF RunningOnes, Running
<1>7. Known'
  BY <1>6 DEF Known, Unorphaned, LiveBlades
<1>8. IsAlive' => IsAlive
  BY <1>3, <1>4 DEF IsAlive, Running
<1>9. Slips
  <2>0. Described /\ Described'
    BY Hands, PTL
  <2>1. \A p \in 1..Len(processes') : p = at \/ p \in 1..Len(processes)
    BY <1>3
  <2>2. at \notin 1..Len(processes) /\ at \in 1..Len(processes')
    BY <1>3
  <2>3. \A v : v \in InHand' <=> v \in InHand
    BY <2>0, <2>1, <2>2, <1>1, <1>3 DEF Described
  <2>4. \A v : v \in OutOfHand' <=> v \in OutOfHand \/ v = w
    BY <2>0, <2>1, <2>2, <1>1, <1>3 DEF Described
  <2>5. w \notin InHand
    BY <2>0, <2>2 DEF Described
  <2>6. InHand' = InHand /\ OutOfHand' = OutOfHand \cup {w} /\ w \in OutOfHand'
    BY <2>3, <2>4
  <2> HIDE DEF w
  <2> QED
    BY <2>5, <2>6 DEF Slips
<1> QED
  BY <1>1, <1>3, <1>5, <1>7, <1>8, <1>9

\* A start that is interrupted, before or after.
LEMMA InterruptedKeeps ==
  ASSUME ExecTypeOK, Known, Alone, NEW role \in Roles, role = "background" => RunningOnes = {},
         BenchbaseStartInterrupted(role)
  PROVE  /\ ExecTypeOK' /\ Known'
         /\ kind' = kind /\ blades' = blades
         /\ \A p \in 1..Len(processes') :
              \/ processes'[p].role = role
              \/ p \in 1..Len(processes) /\ processes'[p].role = processes[p].role
         /\ Drops \/ Takes \/ Slips
<1>1. CASE BenchbaseStart(role, "ok")
  BY <1>1, StartKeeps
<1>2. CASE ~BenchbaseStart(role, "ok")
  BY <1>2, LostKeeps DEF BenchbaseStartInterrupted
<1> QED
  BY <1>1, <1>2

\* A process that is stopped, or ends by itself.
LEMMA EndKeeps ==
  ASSUME ExecTypeOK, Known, NEW p \in RunningOnes \cup LostOnes, NEW code \in {"zero", "nonzero"},
         processes' = [processes EXCEPT ![p].status = code],
         UNCHANGED <<kind, wellFormed, blades, activeUid, backupTable, stopEvent>>,
         process' = process \/ (process' = 0 /\ p = process /\ Running(p))
  PROVE  /\ ExecTypeOK' /\ Known' /\ Drops /\ (IsAlive' => IsAlive)
         /\ Len(processes') = Len(processes)
         /\ \A q \in 1..Len(processes) : processes'[q].role = processes[q].role
         /\ p = process /\ Running(p) => Frees /\ ~IsAlive'
<1>0. p \in 1..Len(processes) /\ processes[p].status \in {"running", "lost"}
  BY DEF RunningOnes, LostOnes, Running
<1>1. processes \in Seq(Process) /\ processes[p] \in Process /\ Len(processes) \in Nat
  <2>1. processes \in Seq(Process)
    BY DEF ExecTypeOK, Process
  <2> QED
    BY <1>0, <2>1, ElementOfSeq
<1>2. processes' = [processes EXCEPT ![p] = [processes[p] EXCEPT !.status = code]]
  OBVIOUS
<1>3. [processes[p] EXCEPT !.status = code] \in Process
  BY <1>1 DEF Process
<1>4. /\ processes' \in Seq(Process)
      /\ Len(processes') = Len(processes)
      /\ \A q \in 1..Len(processes) :
           processes'[q] = IF q = p THEN [processes[p] EXCEPT !.status = code] ELSE processes[q]
  BY <1>0, <1>1, <1>2, <1>3, ExceptSeq
<1>5. /\ processes'[p].status = code
      /\ \A q \in 1..Len(processes) : processes'[q].role = processes[q].role
      /\ \A q \in 1..Len(processes) : q # p => processes'[q].status = processes[q].status
  BY <1>0, <1>1, <1>4 DEF Process
<1>6. ExecTypeOK'
  BY <1>1, <1>4 DEF ExecTypeOK, Process
<1>7. \A q \in RunningOnes' : q \in RunningOnes /\ q # p
  BY <1>4, <1>5 DEF RunningOnes, Running
<1>8. Known'
  <2>1. \A q \in RunningOnes' : q = process' \/ (kind' = "benchbase" /\ processes'[q].role = "background")
    BY <1>5, <1>7 DEF Known, Unorphaned, RunningOnes
  <2> QED
    BY <2>1 DEF Known, Unorphaned, LiveBlades
<1>9. IsAlive' => IsAlive
  BY <1>4, <1>5, <1>1 DEF IsAlive, Running, ExecTypeOK
<1> DEFINE w == <<processes[p].role, "process", p>>
<1>10. /\ \A v : v \in InHand' <=> v \in InHand /\ v # w
       /\ \A v : v \in OutOfHand' <=> v \in OutOfHand /\ v # w
       /\ w \in InHand \cup OutOfHand
       /\ p = process /\ Running(p) => w \in InHand
  <2>0. Described /\ Described'
    BY Hands, PTL
  <2>1. \A q \in 1..Len(processes') :
          /\ q \in 1..Len(processes) /\ processes'[q].role = processes[q].role
          /\ processes'[q].status \in {"running", "lost"} <=>
               q # p /\ processes[q].status \in {"running", "lost"}
          /\ q # p => processes'[q].status = processes[q].status
    BY <1>4, <1>5
  <2>2. process' # process => \A q \in 1..Len(processes) : q # p => q # process /\ q # process'
    OBVIOUS
  <2>3. \A v : v \in InHand' <=> v \in InHand /\ v # w
    BY <2>0, <2>1, <2>2, <1>4, <1>5 DEF Described
  <2>4. \A v : v \in OutOfHand' <=> v \in OutOfHand /\ v # w
    BY <2>0, <2>1, <2>2, <1>4, <1>5 DEF Described
  <2> QED
    BY <2>0, <2>3, <2>4, <1>0 DEF Described, Running
<1>11. InHand' = InHand \ {w} /\ OutOfHand' = OutOfHand \ {w}
  BY <1>10
<1> HIDE DEF w
<1>12. Drops
  BY <1>10, <1>11 DEF Drops
<1>13. ASSUME p = process, Running(p)
       PROVE  Frees /\ ~IsAlive'
  <2>1. OutOfHand' = OutOfHand
    BY <1>10, <1>11, <1>13, Disjoint
  <2> QED
    BY <1>0, <1>5, <1>10, <1>11, <1>13, <2>1 DEF Frees, IsAlive, Running
<1> QED
  BY <1>4, <1>5, <1>6, <1>8, <1>9, <1>12, <1>13

\* Stopping what is held; a stop that returned has stopped it.
LEMMA StopKeeps ==
  ASSUME ExecTypeOK, Known, NEW result, BenchbaseStop(result),
         process' = process \/ (process' = 0 /\ result = "ok")
  PROVE  /\ ExecTypeOK' /\ Known' /\ Frees /\ (IsAlive' => IsAlive)
         /\ kind' = kind /\ blades' = blades /\ activeUid' = activeUid
         /\ Len(processes') = Len(processes)
         /\ \A q \in 1..Len(processes) : processes'[q].role = processes[q].role
         /\ result = "ok" => ~IsAlive'
<1> USE DEF BenchbaseStop
<1>1. CASE IsAlive /\ result = "ok"
  <2>1. process \in RunningOnes
    BY <1>1 DEF IsAlive, ExecTypeOK, RunningOnes
  <2>2. Running(process)
    BY <1>1 DEF IsAlive
  <2> QED
    BY <1>1, <2>1, <2>2, EndKeeps
<1>2. CASE ~(IsAlive /\ result = "ok")
  <2>1. /\ UNCHANGED <<kind, wellFormed, processes, blades, activeUid, backupTable, stopEvent>>
        /\ result = "ok" => ~IsAlive
    BY <1>2
  <2>2. process' \in 0..Len(processes)
    BY DEF ExecTypeOK
  <2>3. ExecTypeOK'
    BY <2>1, <2>2 DEF ExecTypeOK
  <2>4. process' # process => ~IsAlive /\ process' = 0
    BY <2>1
  <2>5. Known'
    <3>1. \A q \in RunningOnes : q = process' \/ (kind = "benchbase" /\ processes[q].role = "background")
      BY <2>4 DEF Known, Unorphaned, IsAlive, RunningOnes, Running
    <3> QED
      BY <2>1, <3>1 DEF Known, Unorphaned, RunningOnes, Running, LiveBlades
  <2>6. Frees
    <3>1. CASE process' = process
      BY <2>1, <3>1, SameLoads
    <3>2. CASE process' # process
      <4>0. Described /\ Described'
        BY Hands, PTL
      <4>1. \A q \in 1..Len(processes) : processes[q].status = "running" => q # process /\ q # process'
        BY <2>4, <3>2 DEF IsAlive, Running
      <4>2. (\A v : v \in InHand' <=> v \in InHand) /\ (\A v : v \in OutOfHand' <=> v \in OutOfHand)
        BY <2>1, <4>0, <4>1 DEF Described
      <4> QED
        BY <4>2 DEF Frees
    <3> QED
      BY <3>1, <3>2
  <2>7. IsAlive' => IsAlive /\ result # "ok"
    BY <2>1, <2>4 DEF IsAlive, Running
  <2> QED
    BY <2>1, <2>3, <2>5, <2>6, <2>7
<1> QED
  BY <1>1, <1>2

\* A new experiment, when no experiment is live.
LEMMA ChaosStartKeeps ==
  ASSUME ExecTypeOK, Known, LiveBlades = {}, kind # "benchbase",
         \A p \in 1..Len(processes) : processes[p].role = "background",
         NEW result, ChaosStart(result)
  PROVE  /\ ExecTypeOK' /\ Known' /\ (IsAlive' <=> IsAlive)
         /\ UNCHANGED <<kind, processes, process>>
         /\ Drops \/ Takes \/ Slips
<1>1. /\ UNCHANGED <<kind, wellFormed, processes, process, backupTable, stopEvent>>
      /\ \/ blades' = Append(blades, "live") /\ activeUid' = Len(blades) + 1
         \/ blades' = Append(blades, "lost") /\ activeUid' \in {0, activeUid}
         \/ blades' = blades /\ activeUid' = activeUid
  BY DEF ChaosStart
<1>2. IsAlive' <=> IsAlive
  BY <1>1 DEF IsAlive, Running
<1>3. CASE blades' = blades /\ activeUid' = activeUid
  <2>1. Drops
    BY <1>1, <1>3, SameLoads, FreesDrops
  <2> QED
    BY <1>1, <1>2, <1>3, <2>1 DEF Known, Unorphaned, RunningOnes, Running, LiveBlades, ExecTypeOK
<1>4. ASSUME NEW fate \in {"live", "lost"}, blades' = Append(blades, fate),
             IF fate = "live" THEN activeUid' = Len(blades) + 1 ELSE activeUid' \in {0, activeUid}
      PROVE  ExecTypeOK' /\ Known' /\ (Takes \/ Slips)
  <2> DEFINE at == Len(blades) + 1
             w  == <<"root", "blade", at>>
  <2>1. /\ blades' \in Seq({"live", "lost", "gone"})
        /\ Len(blades') = at
        /\ Len(blades) \in Nat
        /\ \A b \in 1..Len(blades) : blades'[b] = blades[b]
        /\ blades'[at] = fate
    BY <1>4 DEF ExecTypeOK
  <2>2. activeUid \in 0..Len(blades) /\ \A b \in 1..Len(blades') : b \in 1..Len(blades) \/ b = at
    BY <2>1 DEF ExecTypeOK
  <2>3. ExecTypeOK'
    BY <1>1, <1>4, <2>1, <2>2 DEF ExecTypeOK
  <2>4. \A b \in 1..Len(blades) : blades[b] # "live"
    BY DEF LiveBlades
  <2>5. Known'
    <3>1. \A b \in LiveBlades' : b = activeUid'
      BY <1>4, <2>1, <2>2, <2>4 DEF LiveBlades
    <3>2. activeUid' # 0 => blades'[activeUid'] # "lost"
      BY <1>4, <2>1, <2>2 DEF Known
    <3> QED
      BY <1>1, <3>1, <3>2 DEF Known, Unorphaned, RunningOnes, Running
  <2>6. Described /\ Described'
    BY Hands, PTL
  <2>7. w \notin InHand \cup OutOfHand
    BY <2>1, <2>6 DEF Described
  <2>8. CASE fate = "live"
    <3>1. /\ \A v : v \in InHand' <=> v \in InHand \/ v = w
          /\ \A v : v \in OutOfHand' <=> v \in OutOfHand
      BY <1>1, <1>4, <2>1, <2>2, <2>4, <2>6, <2>8 DEF Described
    <3>2. \A v \in InHand : v[1] = "background"
      BY <2>4, <2>6 DEF Described
    <3>3. InHand' = InHand \cup {w} /\ OutOfHand' = OutOfHand /\ w[1] = "root"
      BY <3>1
    <3> HIDE DEF w
    <3> QED
      BY <2>3, <2>5, <2>7, <3>2, <3>3 DEF Takes
  <2>9. CASE fate = "lost"
    <3>1. /\ \A v : v \in InHand' <=> v \in InHand
          /\ \A v : v \in OutOfHand' <=> v \in OutOfHand \/ v = w
      BY <1>1, <1>4, <2>1, <2>2, <2>4, <2>6, <2>9 DEF Described
    <3>2. InHand' = InHand /\ OutOfHand' = OutOfHand \cup {w} /\ w \in OutOfHand'
      BY <3>1
    <3> HIDE DEF w
    <3> QED
      BY <2>3, <2>5, <2>7, <3>2 DEF Slips
  <2> QED
    BY <2>8, <2>9, <1>4
<1> QED
  BY <1>1, <1>2, <1>3, <1>4

\* An experiment that is destroyed, or expires.
LEMMA ChaosEndKeeps ==
  ASSUME ExecTypeOK, Known, ChaosStop \/ BladeExpires
  PROVE  /\ ExecTypeOK' /\ Known' /\ Drops /\ (IsAlive' <=> IsAlive)
         /\ UNCHANGED <<kind, processes, process>> /\ Len(blades') = Len(blades)
         /\ ChaosStop => Frees
         /\ BladeExpires => activeUid' = activeUid
<1>1. PICK b \in 0..Len(blades) :
        /\ UNCHANGED <<kind, wellFormed, processes, process, backupTable, stopEvent>>
        /\ \/ /\ b # 0 /\ blades' = [blades EXCEPT ![b] = "gone"]
              /\ activeUid' = activeUid \/ (activeUid' = 0 /\ b = activeUid)
           \/ b = 0 /\ blades' = blades /\ activeUid' = activeUid
        /\ ChaosStop => b \in {0, activeUid}
        /\ BladeExpires => activeUid' = activeUid
  <2>1. Len(blades) \in Nat /\ activeUid \in 0..Len(blades)
    BY DEF ExecTypeOK
  <2>2. CASE ChaosStop
    <3>1. CASE blades' = blades /\ activeUid' = activeUid
      BY <2>1, <2>2, <3>1 DEF ChaosStop, BladeExpires
    <3>2. CASE ~(blades' = blades /\ activeUid' = activeUid)
      BY <2>1, <2>2, <3>2 DEF ChaosStop, BladeExpires
    <3> QED
      BY <3>1, <3>2
  <2>3. CASE BladeExpires /\ ~ChaosStop
    <3>1. PICK c \in 1..Len(blades) : blades' = [blades EXCEPT ![c] = "gone"]
      BY <2>3 DEF BladeExpires, LiveBlades, LostBlades
    <3>2. UNCHANGED <<kind, wellFormed, processes, process, activeUid, backupTable, stopEvent>>
      BY <2>3 DEF BladeExpires
    <3>3. c \in 0..Len(blades) /\ c # 0
      BY <2>1
    <3> QED
      BY <2>3, <3>1, <3>2, <3>3
  <2> QED
    BY <2>2, <2>3
<1>2. /\ blades' \in Seq({"live", "lost", "gone"})
      /\ Len(blades') = Len(blades) /\ Len(blades) \in Nat
      /\ \A c \in 1..Len(blades) : blades'[c] = IF c = b THEN "gone" ELSE blades[c]
      /\ activeUid \in 0..Len(blades)
  BY <1>1 DEF ExecTypeOK
<1>3. ExecTypeOK'
  BY <1>1, <1>2 DEF ExecTypeOK
<1>4. IsAlive' <=> IsAlive
  BY <1>1 DEF IsAlive, Running
<1>5. Known'
  <2>1. \A c \in LiveBlades' : c = activeUid'
    BY <1>1, <1>2 DEF Known, Unorphaned, LiveBlades
  <2>2. activeUid' # 0 => blades'[activeUid'] # "lost"
    BY <1>1, <1>2 DEF Known
  <2> QED
    BY <1>1, <1>2, <2>1, <2>2 DEF Known, Unorphaned, RunningOnes, Running
<1> DEFINE w == <<"root", "blade", b>>
<1>6. /\ \A v : v \in InHand' <=> v \in InHand /\ v # w
      /\ \A v : v \in OutOfHand' <=> v \in OutOfHand /\ v # w
      /\ b \in {0, activeUid} => w \notin OutOfHand
  <2>0. Described /\ Described'
    BY Hands, PTL
  <2>1. activeUid' # activeUid => \A c \in 1..Len(blades) : c # b => c # activeUid /\ c # activeUid'
    BY <1>1
  <2>2. b \in {0, activeUid} => w \notin OutOfHand
    BY <2>0 DEF Described, Known
  <2>3. \A v : v \in InHand' <=> v \in InHand /\ v # w
    BY <1>1, <1>2, <2>0, <2>1 DEF Described
  <2>4. \A v : v \in OutOfHand' <=> v \in OutOfHand /\ v # w
    BY <1>1, <1>2, <2>0, <2>1 DEF Described
  <2> QED
    BY <2>2, <2>3, <2>4
<1>7. InHand' = InHand \ {w} /\ OutOfHand' = OutOfHand \ {w}
  BY <1>6
<1> HIDE DEF w
<1>8. Drops
  BY <1>7 DEF Drops
<1>9. ChaosStop => Frees
  BY <1>1, <1>6, <1>7 DEF Frees
<1> QED
  BY <1>1, <1>2, <1>3, <1>4, <1>5, <1>8, <1>9

\* The backup table and the stop event are nothing that is held.
LEMMA QuietKeeps ==
  ASSUME ExecTypeOK, Known,
         UNCHANGED <<kind, wellFormed, processes, process, blades, activeUid>>,
         stopEvent' \in BOOLEAN, backupTable' \in BOOLEAN
  PROVE  ExecTypeOK' /\ Known' /\ Frees /\ (IsAlive' <=> IsAlive)
<1>1. Frees /\ (IsAlive' <=> IsAlive)
  BY SameLoads
<1> QED
  BY <1>1 DEF ExecTypeOK, Known, Unorphaned, RunningOnes, Running, LiveBlades

\* When a workload that starts is alone: before anything else did, when all the
\* others are backgrounds that are taken over, or when what is held is over.
LEMMA AloneWhen ==
  ASSUME ExecTypeOK, Known
  PROVE  /\ Len(processes) = 0 /\ Len(blades) = 0 => Alone /\ RunningOnes = {}
         /\ kind = "benchbase" /\ (\A p \in 1..Len(processes) : processes[p].role = "background") => Alone
         /\ kind = "benchbase" /\ ~IsAlive => Alone
<1>1. Len(processes) = 0 /\ Len(blades) = 0 => Alone /\ RunningOnes = {}
  BY DEF Alone, RunningOnes
<1>2. kind = "benchbase" /\ (\A p \in 1..Len(processes) : processes[p].role = "background") => Alone
  BY DEF Alone, RunningOnes, Known
<1>3. kind = "benchbase" /\ ~IsAlive => Alone
  BY DEF IsAlive, Alone, RunningOnes, Known, Unorphaned, Running
<1> QED
  BY <1>1, <1>2, <1>3

-----------------------------------------------------------------------------
\* What a step may do to the workloads, when a runner that had ended as e has
\* ended as f: the steps of Custody.
Keeps(e, f) ==
  \/ f = e /\ Drops
  \/ e = "no" /\ f = "no" /\ (Takes \/ Slips)
  \/ e = "no" /\ f = "unclean" /\ Frees
  \/ e = "no" /\ f = "clean" /\ Frees /\ InHand' = {}

\* The end of a run that leaves nothing in hand.
LEMMA EndsClean ==
  ASSUME Frees, ~IsAlive', activeUid' = 0
  PROVE  Keeps("no", "clean")
<1>1. (~IsAlive /\ activeUid = 0 => InHand = {})'
  BY EmptyHands, PTL
<1> QED
  BY <1>1 DEF Keeps
=============================================================================
