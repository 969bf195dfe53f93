------------------------------ MODULE ServerProofs ------------------------------
(***************************************************************************)
(* Proofs about what the program leaves behind on the MySQL server: the    *)
(* transactions of an action (Transactions), for any actors, rows and      *)
(* numbers of statements; and the global variables that a case sets        *)
(* (CaseRun), for any number of cases.                                     *)
(***************************************************************************)
EXTENDS Transactions, CaseRun, SequenceTheorems, TLAPS

\* Where the thread of an actor has a transaction of its own that is open.
OpenPlaces == {"connect", "check", "execute", "delay", "commit"}

RowsSoFar(a) == {plan[a][i] : i \in 1..(step[a] - 1)}

\* The statement that is next is there, and the last one precedes commit.
StepInv(a) ==
  /\ step[a] <= Len(plan[a]) + 1
  /\ pc[a] = "execute" => step[a] <= Len(plan[a])
  /\ pc[a] = "commit" => step[a] = Len(plan[a]) + 1
  /\ pc[a] = "connect" => step[a] = 1

\* An open transaction has written what the statements so far are about, and
\* its session has a client.
OpenInv(a) ==
  pc[a] \in OpenPlaces =>
    /\ written[a] = RowsSoFar(a)
    /\ durable[a] = {}
    /\ a \notin abandoned
    /\ result[a] = "none"

\* Before and after its transaction an actor has no rows.
OwnerInv(a) ==
  pc[a] \in {"connect", "close", "done"} /\ a \notin abandoned => \A r \in Rows : owner[r] # a

\* What an actor returned says what became of its transaction.
ResultInv(a) ==
  /\ durable[a] \in {{}, RowsOf(a)}
  /\ result[a] = "success" => durable[a] = RowsOf(a)
  /\ pc[a] = "done" => result[a] # "none"
  /\ pc[a] = "close" => result[a] # "none"

ActorInv(a) == StepInv(a) /\ OpenInv(a) /\ OwnerInv(a) /\ ResultInv(a)

\* execute is left when all threads have ended.
VerdictInv ==
  verdict # "running" =>
    /\ \A a \in Actors : pc[a] = "done"
    /\ verdict = "succeeded" => \A a \in Actors : result[a] = "success"

IInv == TypeOK /\ (\A a \in Actors : ActorInv(a)) /\ VerdictInv

-----------------------------------------------------------------------------
\* A plan is a sequence of rows, with at least one and at most MaxSteps.
LEMMA PlansAreSequences ==
  ASSUME NEW p \in Plans
  PROVE  p \in Seq(Rows) /\ Len(p) \in 1..MaxSteps
<1>1. PICK n \in 1..MaxSteps : p \in [1..n -> Rows]
  BY DEF Plans
<1>2. n \in Nat
  BY <1>1, TransactionsAssumption
<1>3. p \in Seq(Rows) /\ Len(p) = n
  BY <1>1, <1>2
<1>4. QED
  BY <1>1, <1>3

\* The plan of an actor is a sequence of rows.
LEMMA PlanFacts ==
  ASSUME TypeOK, NEW a \in Actors
  PROVE  /\ Len(plan[a]) \in 1..MaxSteps
         /\ \A i \in 1..Len(plan[a]) : plan[a][i] \in Rows
<1>1. plan[a] \in Plans
  BY DEF TypeOK
<1>2. QED
  BY <1>1, PlansAreSequences, ElementOfSeq

\* The end of a transaction, with or without its writes, keeps the types and
\* leaves the actor without a row; nobody else is concerned.
LEMMA TransactionEnds ==
  ASSUME TypeOK, NEW a \in Actors, NEW committed \in BOOLEAN, EndTransaction(a, committed)
  PROVE  /\ owner' \in [Rows -> Actors \cup {Nobody}]
         /\ written' \in [Actors -> SUBSET Rows]
         /\ durable' \in [Actors -> SUBSET Rows]
         /\ \A r \in Rows : owner'[r] # a
         /\ \A r \in Rows : owner'[r] \in {owner[r], Nobody}
         /\ \A b \in Actors : b # a => written'[b] = written[b] /\ durable'[b] = durable[b]
         /\ durable'[a] = durable[a] \cup IF committed THEN written[a] ELSE {}
         /\ written'[a] = {}
<1>1. /\ owner' \in [Rows -> Actors \cup {Nobody}]
      /\ \A r \in Rows : owner'[r] # a
      /\ \A r \in Rows : owner'[r] \in {owner[r], Nobody}
  BY TransactionsAssumption DEF EndTransaction, TypeOK
<1>2. /\ written' \in [Actors -> SUBSET Rows]
      /\ \A b \in Actors : b # a => written'[b] = written[b]
      /\ written'[a] = {}
  BY DEF EndTransaction, TypeOK
<1>3. /\ durable' \in [Actors -> SUBSET Rows]
      /\ \A b \in Actors : b # a => durable'[b] = durable[b]
      /\ durable'[a] = durable[a] \cup IF committed THEN written[a] ELSE {}
  BY DEF EndTransaction, TypeOK
<1>4. QED
  BY <1>1, <1>2, <1>3

-----------------------------------------------------------------------------
\* The invariant holds at first.
LEMMA InitInductive == Init => IInv
<1> SUFFICES ASSUME Init
             PROVE  IInv
  OBVIOUS
<1>1. TypeOK
  <2>1. 1 \in 1..(MaxSteps + 1)
    BY TransactionsAssumption
  <2>2. step \in [Actors -> 1..(MaxSteps + 1)]
    BY <2>1 DEF Init
  <2>3. pc \in [Actors -> Places]
    BY DEF Init, Places
  <2>4. owner \in [Rows -> Actors \cup {Nobody}]
    BY DEF Init
  <2>5. written \in [Actors -> SUBSET Rows] /\ durable \in [Actors -> SUBSET Rows]
    BY DEF Init
  <2>6. result \in [Actors -> {"none", "success", "failed", "raised"}]
    BY DEF Init
  <2>7. QED
    BY <2>2, <2>3, <2>4, <2>5, <2>6 DEF Init, TypeOK
<1>2. ASSUME NEW a \in Actors
      PROVE  ActorInv(a)
  <2>1. Len(plan[a]) \in 1..MaxSteps
    BY <1>1, PlanFacts
  <2>2. pc[a] = "connect" /\ step[a] = 1 /\ result[a] = "none" /\ durable[a] = {} /\ written[a] = {}
    BY DEF Init
  <2>3. RowsSoFar(a) = {}
    BY <2>2 DEF RowsSoFar
  <2>4. StepInv(a)
    BY <2>1, <2>2 DEF StepInv
  <2>5. OpenInv(a)
    BY <2>2, <2>3 DEF OpenInv, Init
  <2>6. OwnerInv(a)
    BY TransactionsAssumption DEF Init, OwnerInv
  <2>7. ResultInv(a)
    BY <2>2 DEF ResultInv
  <2>8. QED
    BY <2>4, <2>5, <2>6, <2>7 DEF ActorInv
<1>3. VerdictInv
  BY DEF Init, VerdictInv
<1>4. QED
  BY <1>1, <1>2, <1>3 DEF IInv

\* An actor that a step does not concern, except that others may give up rows
\* or take ones that are free, keeps its invariant.
LEMMA Bystander ==
  ASSUME NEW b \in Actors, ActorInv(b), UNCHANGED plan,
         pc'[b] = pc[b], step'[b] = step[b], result'[b] = result[b],
         written'[b] = written[b], durable'[b] = durable[b],
         b \in abandoned' <=> b \in abandoned,
         \A r \in Rows : owner'[r] = b => owner[r] = b
  PROVE  ActorInv(b)'
<1>1. RowsSoFar(b)' = RowsSoFar(b) /\ RowsOf(b)' = RowsOf(b)
  BY DEF RowsSoFar, RowsOf
<1>2. StepInv(b)'
  BY DEF ActorInv, StepInv
<1>3. OpenInv(b)'
  BY <1>1 DEF ActorInv, OpenInv
<1>4. OwnerInv(b)'
  BY DEF ActorInv, OwnerInv
<1>5. ResultInv(b)'
  BY <1>1 DEF ActorInv, ResultInv
<1>6. QED
  BY <1>2, <1>3, <1>4, <1>5 DEF ActorInv

\* A step of a thread keeps the types.
LEMMA RunActorTyped ==
  ASSUME TypeOK, NEW a \in Actors, ActorInv(a), RunActor(a)
  PROVE  TypeOK'
<1>1. /\ plan' \in [Actors -> Plans]
      /\ verdict' \in {"running", "succeeded", "failed", "raised"}
      /\ stopping' \in BOOLEAN
  BY DEF TypeOK, RunActor, Local, Connect, Check, Execute, ExecuteFails, ExecuteIsVictim,
         ExecuteTimesOut, Delay, Commit, Rollback, Close
<1>2. pc' \in [Actors -> Places]
  BY DEF TypeOK, Places, RunActor, Goto, Connect, Check, Execute, ExecuteFails, ExecuteIsVictim,
         ExecuteTimesOut, Delay, Commit, Rollback, Close
<1>3. step' \in [Actors -> 1..(MaxSteps + 1)]
  <2>1. CASE Execute(a)
    <3>1. step[a] <= Len(plan[a]) /\ step[a] \in 1..(MaxSteps + 1) /\ Len(plan[a]) \in 1..MaxSteps
      BY <2>1, PlanFacts DEF ActorInv, StepInv, Execute, TypeOK
    <3>2. step[a] + 1 \in 1..(MaxSteps + 1)
      BY <3>1, TransactionsAssumption
    <3>3. QED
      BY <2>1, <3>2 DEF Execute, TypeOK
  <2>2. CASE ~Execute(a)
    BY <2>2 DEF TypeOK, RunActor, Connect, Check, ExecuteFails, ExecuteIsVictim,
                ExecuteTimesOut, Delay, Commit, Rollback, Close
  <2>3. QED
    BY <2>1, <2>2
<1>4. result' \in [Actors -> {"none", "success", "failed", "raised"}]
  BY DEF TypeOK, RunActor, Connect, Check, Execute, ExecuteFails, ExecuteIsVictim,
         ExecuteTimesOut, Delay, Commit, Rollback, Close
<1>5. abandoned' \in SUBSET Actors
  BY DEF TypeOK, RunActor, server, Connect, Check, Execute, ExecuteFails, ExecuteIsVictim,
         ExecuteTimesOut, Delay, Commit, Rollback, Close
<1>6. /\ owner' \in [Rows -> Actors \cup {Nobody}]
      /\ written' \in [Actors -> SUBSET Rows]
      /\ durable' \in [Actors -> SUBSET Rows]
  <2>1. CASE Execute(a)
    <3>1. step[a] \in 1..Len(plan[a])
      BY <2>1, PlanFacts DEF ActorInv, StepInv, Execute, TypeOK
    <3>2. Row(a) \in Rows
      BY <3>1, PlanFacts DEF Row
    <3>3. QED
      BY <2>1, <3>2 DEF Execute, TypeOK
  <2>2. CASE \E committed \in BOOLEAN : EndTransaction(a, committed)
    BY <2>2, TransactionEnds
  <2>3. CASE UNCHANGED <<owner, written, durable>>
    BY <2>3 DEF TypeOK
  <2>4. QED
    BY <2>1, <2>2, <2>3
    DEF RunActor, server, Connect, Check, ExecuteFails, ExecuteIsVictim, ExecuteTimesOut, Delay,
        Commit, Rollback, Close
<1>7. QED
  BY <1>1, <1>2, <1>3, <1>4, <1>5, <1>6 DEF TypeOK

\* A step of a thread leaves the other actors alone.
LEMMA OthersStand ==
  ASSUME TypeOK, NEW a \in Actors, ActorInv(a), RunActor(a), NEW b \in Actors, b # a, ActorInv(b)
  PROVE  ActorInv(b)'
<1>1. /\ UNCHANGED plan
      /\ pc'[b] = pc[b]
  BY DEF TypeOK, RunActor, Local, Goto, Connect, Check, Execute, ExecuteFails, ExecuteIsVictim,
         ExecuteTimesOut, Delay, Commit, Rollback, Close
<1>2. step'[b] = step[b] /\ result'[b] = result[b]
  BY DEF TypeOK, RunActor, Connect, Check, Execute, ExecuteFails, ExecuteIsVictim,
         ExecuteTimesOut, Delay, Commit, Rollback, Close
<1>3. b \in abandoned' <=> b \in abandoned
  BY DEF RunActor, server, Connect, Check, Execute, ExecuteFails, ExecuteIsVictim,
         ExecuteTimesOut, Delay, Commit, Rollback, Close
<1>4. /\ written'[b] = written[b] /\ durable'[b] = durable[b]
      /\ \A r \in Rows : owner'[r] = b => owner[r] = b
  <2>1. CASE Execute(a)
    BY <2>1 DEF Execute, TypeOK
  <2>2. CASE \E committed \in BOOLEAN : EndTransaction(a, committed)
    BY <2>2, TransactionEnds, TransactionsAssumption
  <2>3. CASE UNCHANGED <<owner, written, durable>>
    BY <2>3
  <2>4. QED
    BY <2>1, <2>2, <2>3
    DEF RunActor, server, Connect, Check, ExecuteFails, ExecuteIsVictim, ExecuteTimesOut, Delay,
        Commit, Rollback, Close
<1>5. QED
  BY <1>1, <1>2, <1>3, <1>4, Bystander

\* Each step of a thread keeps the invariant of its actor.
LEMMA ActorStands ==
  ASSUME TypeOK, NEW a \in Actors, ActorInv(a), RunActor(a)
  PROVE  ActorInv(a)'
<1> USE DEF ActorInv
<1>1. /\ Len(plan[a]) \in 1..MaxSteps /\ MaxSteps \in Nat
      /\ step[a] \in Nat \ {0}
      /\ pc[a] \in Places
  BY PlanFacts, TransactionsAssumption DEF TypeOK
<1>2. UNCHANGED plan
  BY DEF RunActor, Local, Connect, Check, Execute, ExecuteFails, ExecuteIsVictim,
         ExecuteTimesOut, Delay, Commit, Rollback, Close
<1>3. RowsOf(a)' = RowsOf(a)
  BY <1>2 DEF RowsOf
<1>4. CASE Connect(a) \/ Check(a) \/ ExecuteFails(a) \/ Delay(a)
  <2>1. UNCHANGED <<step, owner, written, durable, abandoned>>
    BY <1>4 DEF Connect, Check, ExecuteFails, Delay, server
  <2>2. RowsSoFar(a)' = RowsSoFar(a)
    BY <1>2, <2>1 DEF RowsSoFar
  <2>3. StepInv(a)'
    BY <1>1, <1>2, <1>4, <2>1 DEF StepInv, TypeOK, Goto, Connect, Check, ExecuteFails, Delay
  <2>4. OpenInv(a)'
    BY <1>4, <2>1, <2>2 DEF OpenInv, OpenPlaces, TypeOK, Goto, Connect, Check, ExecuteFails, Delay
  <2>5. OwnerInv(a)'
    BY <1>4, <2>1 DEF OwnerInv, TypeOK, Goto, Connect, Check, ExecuteFails, Delay
  <2>6. ResultInv(a)'
    BY <1>3, <1>4, <2>1 DEF ResultInv, OpenInv, OpenPlaces, TypeOK, Goto, Connect, Check, ExecuteFails, Delay
  <2>7. QED
    BY <2>3, <2>4, <2>5, <2>6
<1>5. CASE Execute(a)
  <2>1. /\ pc[a] = "execute" /\ pc'[a] = "delay"
        /\ step'[a] = step[a] + 1
        /\ written'[a] = written[a] \cup {Row(a)}
        /\ UNCHANGED <<result, durable, abandoned>>
    BY <1>5 DEF Execute, Goto, TypeOK
  <2>2. RowsSoFar(a)' = RowsSoFar(a) \cup {Row(a)}
    BY <1>1, <1>2, <2>1 DEF RowsSoFar, Row
  <2>3. StepInv(a)'
    BY <1>1, <1>2, <2>1 DEF StepInv
  <2>4. OpenInv(a)'
    BY <2>1, <2>2 DEF OpenInv, OpenPlaces
  <2>5. OwnerInv(a)' /\ ResultInv(a)'
    BY <1>3, <2>1 DEF OwnerInv, ResultInv
  <2>6. QED
    BY <2>3, <2>4, <2>5
<1>6. CASE ExecuteIsVictim(a) \/ ExecuteTimesOut(a)
  <2>1. /\ pc[a] = "execute" /\ pc'[a] = "rollback"
        /\ UNCHANGED <<step, result>>
    BY <1>6 DEF ExecuteIsVictim, ExecuteTimesOut, Goto, TypeOK
  <2>2. durable'[a] = durable[a]
    BY <1>6, TransactionEnds DEF ExecuteIsVictim, ExecuteTimesOut
  <2>3. StepInv(a)' /\ OpenInv(a)' /\ OwnerInv(a)'
    BY <1>2, <2>1 DEF StepInv, OpenInv, OwnerInv, OpenPlaces
  <2>4. ResultInv(a)'
    BY <1>3, <2>1, <2>2 DEF ResultInv
  <2>5. QED
    BY <2>3, <2>4
<1>7. CASE Commit(a)
  <2>1. /\ pc[a] = "commit" /\ UNCHANGED <<step, abandoned>>
        /\ step[a] = Len(plan[a]) + 1
        /\ a \notin abandoned /\ durable[a] = {} /\ result[a] = "none"
        /\ written[a] = RowsSoFar(a)
    BY <1>7 DEF Commit, StepInv, OpenInv, OpenPlaces
  <2>2. written[a] = RowsOf(a)
    BY <1>1, <2>1 DEF RowsSoFar, RowsOf
  <2>3. CASE EndTransaction(a, TRUE)
    <3>1. TRUE \in BOOLEAN
      OBVIOUS
    <3>2. durable'[a] = RowsOf(a) /\ \A r \in Rows : owner'[r] # a
      <4>1. durable'[a] = durable[a] \cup IF TRUE THEN written[a] ELSE {}
        BY <2>3, <3>1, TransactionEnds
      <4>2. durable'[a] = RowsOf(a)
        BY <2>1, <2>2, <4>1
      <4>3. \A r \in Rows : owner'[r] # a
        BY <2>3, <3>1, TransactionEnds
      <4>4. QED
        BY <4>2, <4>3
    <3>3. \/ pc'[a] = "close" /\ result'[a] = "success"
          \/ pc'[a] = "rollback" /\ result'[a] = "none"
      BY <1>7, <2>1 DEF Commit, Goto, TypeOK
    <3>4. StepInv(a)' /\ OpenInv(a)' /\ OwnerInv(a)'
      BY <1>2, <2>1, <3>2, <3>3 DEF StepInv, OpenInv, OwnerInv, OpenPlaces
    <3>5. ResultInv(a)'
      BY <1>3, <3>2, <3>3 DEF ResultInv
    <3>6. QED
      BY <3>4, <3>5
  <2>4. CASE Goto(a, "rollback") /\ UNCHANGED <<result, owner, written, durable>>
    <3>1. pc'[a] = "rollback"
      BY <2>4 DEF Goto, TypeOK
    <3>2. StepInv(a)' /\ OpenInv(a)' /\ OwnerInv(a)' /\ ResultInv(a)'
      BY <1>2, <1>3, <2>1, <2>4, <3>1 DEF StepInv, OpenInv, OwnerInv, ResultInv, OpenPlaces
    <3>3. QED
      BY <3>2
  <2>5. QED
    BY <1>7, <2>3, <2>4 DEF Commit
<1>8. CASE Rollback(a)
  <2>1. /\ pc[a] = "rollback" /\ pc'[a] = "close" /\ result'[a] = "failed"
        /\ UNCHANGED <<step, abandoned>>
    BY <1>8 DEF Rollback, Goto, TypeOK
  <2>2. durable'[a] = durable[a]
    BY <1>8, TransactionEnds DEF Rollback
  <2>3. a \notin abandoned => \A r \in Rows : owner'[r] # a
    BY <1>8, TransactionEnds DEF Rollback
  <2>4. StepInv(a)' /\ OpenInv(a)' /\ OwnerInv(a)'
    BY <1>2, <2>1, <2>3 DEF StepInv, OpenInv, OwnerInv, OpenPlaces
  <2>5. ResultInv(a)'
    BY <1>3, <2>1, <2>2 DEF ResultInv
  <2>6. QED
    BY <2>4, <2>5
<1>9. CASE Close(a)
  <2>1. /\ pc[a] = "close" /\ pc'[a] = "done"
        /\ result'[a] \in {result[a], "raised"}
        /\ UNCHANGED <<step, owner, written, durable, abandoned>>
    BY <1>9 DEF Close, Goto, TypeOK, server
  <2>2. StepInv(a)' /\ OpenInv(a)' /\ OwnerInv(a)'
    BY <1>2, <2>1 DEF StepInv, OpenInv, OwnerInv, OpenPlaces
  <2>3. ResultInv(a)'
    BY <1>3, <2>1 DEF ResultInv
  <2>4. QED
    BY <2>2, <2>3
<1>10. QED
  BY <1>4, <1>5, <1>6, <1>7, <1>8, <1>9 DEF RunActor

-----------------------------------------------------------------------------
\* Every step keeps the invariant.
LEMMA StepInductive == IInv /\ [Next]_vars => IInv'
<1> SUFFICES ASSUME IInv, [Next]_vars
             PROVE  IInv'
  OBVIOUS
<1>1. ASSUME NEW a \in Actors, RunActor(a)
      PROVE  IInv'
  <2>1. TypeOK'
    BY <1>1, RunActorTyped DEF IInv
  <2>2. \A b \in Actors : ActorInv(b)'
    BY <1>1, ActorStands, OthersStand DEF IInv
  <2>3. pc[a] # "done" /\ verdict' = verdict
    BY <1>1 DEF RunActor, Local, Connect, Check, Execute, ExecuteFails, ExecuteIsVictim,
                ExecuteTimesOut, Delay, Commit, Rollback, Close
  <2>4. verdict = "running"
    BY <1>1, <2>3 DEF IInv, VerdictInv
  <2>5. VerdictInv'
    BY <2>3, <2>4 DEF VerdictInv
  <2>6. QED
    BY <2>1, <2>2, <2>5 DEF IInv
<1>2. ASSUME NEW a \in Actors, EndSession(a)
      PROVE  IInv'
  <2>1. /\ a \in abandoned /\ EndTransaction(a, FALSE)
        /\ abandoned' = abandoned \ {a}
        /\ UNCHANGED <<plan, verdict, stopping, pc, step, result>>
    BY <1>2 DEF EndSession
  <2>2. /\ owner' \in [Rows -> Actors \cup {Nobody}]
        /\ written' \in [Actors -> SUBSET Rows]
        /\ durable' \in [Actors -> SUBSET Rows]
        /\ \A r \in Rows : owner'[r] # a
        /\ \A r \in Rows : owner'[r] \in {owner[r], Nobody}
        /\ \A b \in Actors : b # a => written'[b] = written[b] /\ durable'[b] = durable[b]
        /\ durable'[a] = durable[a]
    BY <2>1, TransactionEnds DEF IInv
  <2>3. TypeOK'
    BY <2>1, <2>2 DEF IInv, TypeOK
  <2>4. ActorInv(a)'
    <3>1. RowsOf(a)' = RowsOf(a) /\ ActorInv(a)
      BY <2>1 DEF RowsOf, IInv
    <3>2. pc[a] \notin OpenPlaces
      BY <2>1, <3>1 DEF ActorInv, OpenInv
    <3>3. StepInv(a)' /\ OpenInv(a)' /\ OwnerInv(a)'
      BY <2>1, <2>2, <3>1, <3>2 DEF ActorInv, StepInv, OpenInv, OwnerInv
    <3>4. ResultInv(a)'
      BY <2>1, <2>2, <3>1 DEF ActorInv, ResultInv
    <3>5. QED
      BY <3>3, <3>4 DEF ActorInv
  <2>5. ASSUME NEW b \in Actors, b # a
        PROVE  ActorInv(b)'
    <3>1. \A r \in Rows : owner'[r] = b => owner[r] = b
      BY <2>2, TransactionsAssumption
    <3>2. ActorInv(b) /\ (b \in abandoned' <=> b \in abandoned)
      BY <2>1, <2>5 DEF IInv
    <3>3. QED
      BY <2>1, <2>2, <2>5, <3>1, <3>2, Bystander
  <2>6. VerdictInv'
    BY <2>1 DEF IInv, VerdictInv
  <2>7. QED
    BY <2>3, <2>4, <2>5, <2>6 DEF IInv
<1>3. CASE Return
  <2>1. /\ \A a \in Actors : pc[a] = "done"
        /\ verdict' = Outcome
        /\ UNCHANGED <<plan, stopping, pc, step, result, owner, written, durable, abandoned>>
    BY <1>3 DEF Return, server
  <2>2. TypeOK'
    BY <2>1 DEF IInv, TypeOK, Outcome
  <2>3. \A b \in Actors : ActorInv(b)'
    BY <2>1, Bystander DEF IInv
  <2>4. verdict' = "succeeded" => \A a \in Actors : result[a] = "success"
    <3>1. ASSUME verdict' = "succeeded", NEW a \in Actors
          PROVE  result[a] = "success"
      <4>1. result[a] # "failed" /\ result[a] # "raised"
        BY <2>1, <3>1 DEF Outcome, Results
      <4>2. result[a] # "none"
        BY <2>1 DEF IInv, ActorInv, ResultInv
      <4>3. QED
        BY <4>1, <4>2 DEF IInv, TypeOK
    <3>2. QED
      BY <3>1
  <2>5. QED
    BY <2>1, <2>2, <2>3, <2>4 DEF IInv, VerdictInv
<1>4. CASE Stop \/ UNCHANGED vars
  <2>1. UNCHANGED <<plan, verdict, pc, step, result, owner, written, durable, abandoned>>
    BY <1>4 DEF Stop, vars, server
  <2>2. TypeOK'
    BY <1>4, <2>1 DEF IInv, TypeOK, Stop, vars
  <2>3. \A b \in Actors : ActorInv(b)'
    BY <2>1, Bystander DEF IInv
  <2>4. QED
    BY <2>1, <2>2, <2>3 DEF IInv, VerdictInv
<1>5. QED
  BY <1>1, <1>2, <1>3, <1>4 DEF Next

\* So it holds always.
LEMMA Inductive == Spec => []IInv
  BY InitInductive, StepInductive, PTL DEF Spec

-----------------------------------------------------------------------------
\* Threads, lock table and sessions keep their types.
THEOREM TypeCorrect == Spec => []TypeOK
<1>1. IInv => TypeOK
  BY DEF IInv
<1>2. QED
  BY Inductive, <1>1, PTL

\* Whatever fails, times out, deadlocks or is stopped, and however many actors
\* there are, an actor's statements last together or not at all, and a success
\* of the action says that all of them do.
THEOREM ActorsAreAtomic == Spec => []AllOrNothing
<1>1. IInv => AllOrNothing
  BY DEF IInv, ActorInv, ResultInv, VerdictInv, AllOrNothing
<1>2. QED
  BY Inductive, <1>1, PTL

\* When execute is left, whichever way, a row is locked only by a session whose
\* client the server has not yet found gone.
THEOREM NothingIsHeld == Spec => []NothingHeld
<1>1. IInv => NothingHeld
  BY DEF IInv, TypeOK, ActorInv, OwnerInv, VerdictInv, NothingHeld
<1>2. QED
  BY Inductive, <1>1, PTL

-----------------------------------------------------------------------------
(***************************************************************************)
(* CaseRun: what the status of a case and its result.json say about the    *)
(* server's global variables.                                              *)
(***************************************************************************)

\* The variables that restore has passed, in order, are back.
PutBack == \A i \in 1..(at - 1) : globals[Variables[i]] = captured[Variables[i]]

\* Nobody touches the variables before prepare, and what capture read is what
\* the case found.
ServerInv ==
  /\ captured = atStart
  /\ stage \in {"checks", "preflight", "capture"} => globals = atStart
  /\ stage = "restore" => PutBack
  /\ stage \in {"body", "report"} => at = 1

\* A status other than system_error is not on its way to the file, or returned,
\* before the variables are back.
StatusInv ==
  /\ stage \in {"write", "returned"} /\ status # "system_error" => globals = atStart
  /\ stage \in {"checks", "preflight", "capture", "prepare", "undo", "body"} => status = "none"

\* Only the reflection mode has a file before the end.
FileInv ==
  /\ stage = "report" => reflection
  /\ ~reflection /\ file # "none" => stage = "returned" /\ file = status

CaseInv == CaseTypeOK /\ ServerInv /\ StatusInv /\ FileInv

-----------------------------------------------------------------------------
\* There are three variables, and they are different ones.
LEMMA ThreeVariables ==
  /\ Len(Variables) = 3
  /\ Names = {Variables[i] : i \in 1..3}
  /\ \A i, j \in 1..3 : Variables[i] = Variables[j] => i = j
  BY DEF Variables, Names

\* When restore has gone through, the variables are as the case found them.
LEMMA AllPutBack ==
  ASSUME CaseTypeOK, PutBack, at > Len(Variables)
  PROVE  globals = captured
<1>1. \A n \in Names : globals[n] = captured[n]
  BY ThreeVariables DEF CaseTypeOK, PutBack
<1>2. QED
  BY <1>1 DEF CaseTypeOK

\* One step of restore puts the next variable back.
LEMMA OneMorePutBack ==
  ASSUME CaseTypeOK, PutBack, at <= Len(Variables), UNCHANGED captured, at' = at + 1,
         globals' = [globals EXCEPT ![Variables[at]] = captured[Variables[at]]]
  PROVE  PutBack' /\ globals' \in [Names -> Values] /\ at' \in 1..(Len(Variables) + 1)
<1>1. at \in 1..3
  BY ThreeVariables DEF CaseTypeOK
<1>2. Variables[at] \in Names
  BY <1>1, ThreeVariables
<1>3. globals' \in [Names -> Values]
  BY <1>2 DEF CaseTypeOK
<1>4. ASSUME NEW i \in 1..at
      PROVE  globals'[Variables[i]] = captured[Variables[i]]
  <2>1. i \in 1..3 /\ Variables[i] \in Names
    BY <1>1, ThreeVariables
  <2>2. CASE i = at
    BY <2>1, <2>2 DEF CaseTypeOK
  <2>3. CASE i # at
    <3>1. i \in 1..(at - 1)
      BY <1>1, <2>3
    <3>2. Variables[i] # Variables[at]
      BY <1>1, <2>1, <2>3, ThreeVariables
    <3>3. QED
      BY <2>1, <3>1, <3>2 DEF CaseTypeOK, PutBack
  <2>4. QED
    BY <2>2, <2>3
<1>5. QED
  BY <1>1, <1>3, <1>4, ThreeVariables DEF PutBack

\* A step of restore, wherever it leads, keeps the types of what it changes.
LEMMA RestoreStepTyped ==
  ASSUME CaseTypeOK, NEW done, NEW broken, RestoreStep(done, broken)
  PROVE  /\ globals' \in [Names -> Values]
         /\ at' \in 1..(Len(Variables) + 1)
         /\ stage' \in {stage, done, broken}
<1>1. CASE /\ at <= Len(Variables)
           /\ globals' = [globals EXCEPT ![Variables[at]] = captured[Variables[at]]]
           /\ at' = at + 1
           /\ UNCHANGED stage
  <2>1. at \in 1..3
    BY <1>1, ThreeVariables DEF CaseTypeOK
  <2>2. Variables[at] \in Names
    BY <2>1, ThreeVariables
  <2>3. captured[Variables[at]] \in Values
    BY <2>2 DEF CaseTypeOK
  <2>4. globals' \in [Names -> Values]
    BY <1>1, <2>3 DEF CaseTypeOK
  <2>5. QED
    BY <1>1, <2>1, <2>4, ThreeVariables
<1>2. CASE stage' \in {done, broken} /\ UNCHANGED <<at, globals>>
  BY <1>2 DEF CaseTypeOK
<1>3. QED
  BY <1>1, <1>2 DEF RestoreStep

-----------------------------------------------------------------------------
\* The invariant holds at first.
LEMMA CaseInitInductive == CaseInit => CaseInv
  BY CasesAssumption, ThreeVariables
  DEF CaseInit, CaseInv, CaseTypeOK, ServerInv, StatusInv, FileInv, CasePlaces, Values, Early, Verdicts

\* Every step keeps the invariant.
LEMMA CaseStepInductive == CaseInv /\ [CaseNext]_caseVars => CaseInv'
<1> SUFFICES ASSUME CaseInv, [CaseNext]_caseVars
             PROVE  CaseInv'
  OBVIOUS
<1> USE ThreeVariables DEF CaseInv, CasePlaces, Ended, Early, Verdicts
<1>1. CASE Checks
  BY <1>1 DEF Checks, CaseTypeOK, ServerInv, StatusInv, FileInv
<1>2. CASE Preflight
  BY <1>2 DEF Preflight, CaseTypeOK, ServerInv, StatusInv, FileInv
<1>3. CASE Capture
  BY <1>3 DEF Capture, CaseTypeOK, ServerInv, StatusInv, FileInv
<1>4. CASE Prepare
  <2>1. CaseTypeOK'
    <3>1. CASE at <= 3
      <4>1. Variables[at] \in Names
        BY <3>1 DEF CaseTypeOK
      <4>2. [globals EXCEPT ![Variables[at]] = "desired"] \in [Names -> Values]
        BY <4>1 DEF CaseTypeOK, Values
      <4>3. QED
        BY <1>4, <3>1, <4>2 DEF Prepare, CaseTypeOK
    <3>2. CASE at > 3
      BY <1>4, <3>2 DEF Prepare, CaseTypeOK
    <3>3. QED
      BY <3>1, <3>2 DEF CaseTypeOK
  <2>2. ServerInv'
    BY <1>4 DEF Prepare, ServerInv, PutBack
  <2>3. StatusInv' /\ FileInv'
    BY <1>4 DEF Prepare, StatusInv, FileInv
  <2>4. QED
    BY <2>1, <2>2, <2>3
<1>5. CASE Undo
  <2>1. RestoreStep("failing", "failing")
    BY <1>5 DEF Undo
  <2>2. /\ globals' \in [Names -> Values]
        /\ at' \in 1..(Len(Variables) + 1)
        /\ stage' \in {stage, "failing"}
    BY <2>1, RestoreStepTyped
  <2>3. CaseTypeOK'
    BY <1>5, <2>2 DEF Undo, CaseTypeOK
  <2>4. ServerInv' /\ StatusInv' /\ FileInv'
    BY <1>5, <2>2 DEF Undo, ServerInv, StatusInv, FileInv
  <2>5. QED
    BY <2>3, <2>4
<1>6. CASE Body
  <2>1. CaseTypeOK'
    BY <1>6 DEF Body, CaseTypeOK
  <2>2. ServerInv'
    BY <1>6 DEF Body, ServerInv, PutBack
  <2>3. StatusInv' /\ FileInv'
    BY <1>6 DEF Body, StatusInv, FileInv
  <2>4. QED
    BY <2>1, <2>2, <2>3
<1>7. CASE Report
  <2>1. CaseTypeOK'
    BY <1>7 DEF Report, CaseTypeOK
  <2>2. ServerInv'
    BY <1>7 DEF Report, ServerInv, PutBack
  <2>3. StatusInv' /\ FileInv'
    BY <1>7 DEF Report, StatusInv, FileInv
  <2>4. QED
    BY <2>1, <2>2, <2>3
<1>8. CASE Restore
  <2>1. RestoreStep(AfterRestore, "failing") /\ stage = "restore"
    BY <1>8 DEF Restore
  <2>2. AfterRestore \in {"failing", "escaped", "returned", "write"}
    BY DEF AfterRestore, CaseTypeOK
  <2>3. ~reflection => AfterRestore # "returned"
    BY DEF AfterRestore, CaseTypeOK
  <2>4. /\ globals' \in [Names -> Values]
        /\ at' \in 1..(Len(Variables) + 1)
        /\ stage' \in {stage, AfterRestore, "failing"}
    BY <2>1, RestoreStepTyped
  <2>5. CaseTypeOK'
    BY <1>8, <2>2, <2>4 DEF Restore, CaseTypeOK
  <2>6. CASE at > Len(Variables) /\ stage' = AfterRestore /\ UNCHANGED <<at, globals>>
    <3>1. globals' = atStart
      BY <2>1, <2>6, AllPutBack DEF ServerInv
    <3>2. ServerInv' /\ StatusInv' /\ FileInv'
      BY <1>8, <2>1, <2>2, <2>3, <2>6, <3>1 DEF Restore, ServerInv, StatusInv, FileInv
    <3>3. QED
      BY <2>5, <3>2
  <2>7. CASE stage' = "failing" /\ UNCHANGED <<at, globals>>
    <3>1. ServerInv' /\ StatusInv' /\ FileInv'
      BY <1>8, <2>1, <2>7 DEF Restore, ServerInv, StatusInv, FileInv
    <3>2. QED
      BY <2>5, <3>1
  <2>8. CASE /\ at <= Len(Variables)
             /\ globals' = [globals EXCEPT ![Variables[at]] = captured[Variables[at]]]
             /\ at' = at + 1
             /\ UNCHANGED stage
    <3>1. PutBack'
      BY <1>8, <2>1, <2>8, OneMorePutBack DEF ServerInv, Restore
    <3>2. ServerInv' /\ StatusInv' /\ FileInv'
      BY <1>8, <2>1, <2>8, <3>1 DEF Restore, ServerInv, StatusInv, FileInv
    <3>3. QED
      BY <2>5, <3>2
  <2>9. QED
    BY <2>1, <2>6, <2>7, <2>8 DEF RestoreStep
<1>9. CASE Failing
  BY <1>9 DEF Failing, CaseTypeOK, ServerInv, StatusInv, FileInv
<1>10. CASE Write
  BY <1>10 DEF Write, CaseTypeOK, ServerInv, StatusInv, FileInv
<1>11. CASE Crash
  BY <1>11 DEF Crash, CaseTypeOK, ServerInv, StatusInv, FileInv
<1>12. CASE NextCase
  BY <1>12, CasesAssumption DEF NextCase, CaseTypeOK, ServerInv, StatusInv, FileInv
<1>13. CASE UNCHANGED caseVars
  BY <1>13 DEF caseVars, CaseTypeOK, ServerInv, StatusInv, FileInv, PutBack
<1>14. QED
  BY <1>1, <1>2, <1>3, <1>4, <1>5, <1>6, <1>7, <1>8, <1>9, <1>10, <1>11, <1>12, <1>13
  DEF CaseNext, Run

\* So it holds always.
LEMMA CaseInductive == CaseSpec => []CaseInv
  BY CaseInitInductive, CaseStepInductive, PTL DEF CaseSpec

-----------------------------------------------------------------------------
\* Every variable of the case keeps its type, whatever fails and whenever the
\* process dies.
THEOREM CaseTypeCorrect == CaseSpec => []CaseTypeOK
<1>1. CaseInv => CaseTypeOK
  BY DEF CaseInv
<1>2. QED
  BY CaseInductive, <1>1, PTL

\* A case that returns and leaves the server's variables changed says
\* system_error, over any number of cases on a server whose variables earlier
\* cases may have left behind.
THEOREM ChangesAreReported == CaseSpec => []ChangeIsReported
<1>1. CaseInv => ChangeIsReported
  BY DEF CaseInv, StatusInv, ChangeIsReported
<1>2. QED
  BY CaseInductive, <1>1, PTL

\* Outside the reflection mode, result.json holds a verdict only when the
\* variables are what the case found, so neither a crash nor a restore that
\* fails ever leaves one on a changed server.
THEOREM VerdictsFollowRestore == CaseSpec => []VerdictAfterRestore
<1>1. CaseInv => VerdictAfterRestore
  BY DEF CaseInv, StatusInv, FileInv, VerdictAfterRestore
<1>2. QED
  BY CaseInductive, <1>1, PTL
================================================================================
