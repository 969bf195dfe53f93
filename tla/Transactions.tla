------------------------------ MODULE Transactions ------------------------------
(***************************************************************************)
(* TransactionExecutor.execute: every actor of a transaction action runs   *)
(* its statements in a transaction and a thread of its own, beside the     *)
(* others, while another thread may stop the action.  The server gives a   *)
(* row to one transaction at a time; a statement that waits for a row may  *)
(* get it, be the victim of a deadlock, or time out, in the server or in   *)
(* the client.                                                             *)
(***************************************************************************)
EXTENDS Naturals, Sequences, FiniteSets

CONSTANTS
  Actors,     \* the actor_ids, which validate has found to be different
  Rows,       \* what their statements lock and write
  MaxSteps    \* bound: the statements of an actor

\* Who has a row that is free.
Nobody == "nobody"

ASSUME TransactionsAssumption ==
  /\ IsFiniteSet(Actors) /\ Actors # {} /\ Nobody \notin Actors
  /\ Rows # {}
  /\ MaxSteps \in Nat \ {0}

VARIABLES
  plan,      \* the actors' statements, of which only the row counts
  verdict,   \* the status of the ActionResult, "running" until execute is left
  stopping,  \* _stop
  pc,        \* where the actors' threads stand
  step,      \* the statement that is next
  result,    \* what the actors' threads returned
  owner,     \* the transaction that has a row (external)
  written,   \* what the open transactions have written (external)
  durable,   \* what an actor's transactions have committed (external)
  abandoned  \* sessions whose client is gone (external)

vars == <<plan, verdict, stopping, pc, step, result, owner, written, durable, abandoned>>
server == <<owner, written, durable, abandoned>>

Places == {"connect", "check", "execute", "delay", "commit", "rollback", "close", "done"}
Plans  == UNION {[1..n -> Rows] : n \in 1..MaxSteps}

Init ==
  /\ plan \in [Actors -> Plans]
  /\ verdict = "running"
  /\ stopping = FALSE
  /\ pc = [a \in Actors |-> "connect"]
  /\ step = [a \in Actors |-> 1]
  /\ result = [a \in Actors |-> "none"]
  /\ owner = [r \in Rows |-> Nobody]
  /\ written = [a \in Actors |-> {}]
  /\ durable = [a \in Actors |-> {}]
  /\ abandoned = {}

-----------------------------------------------------------------------------
\* The server

\* The transaction ends, and its writes last or are undone.
EndTransaction(a, committed) ==
  /\ owner' = [r \in Rows |-> IF owner[r] = a THEN Nobody ELSE owner[r]]
  /\ durable' = [durable EXCEPT ![a] = @ \cup IF committed THEN written[a] ELSE {}]
  /\ written' = [written EXCEPT ![a] = {}]

Row(a)      == plan[a][step[a]]
Waiting(a)  == pc[a] = "execute" /\ owner[Row(a)] \notin {Nobody, a}
WaitsFor(a) == owner[Row(a)]

\* Actors that wait for one another in a circle.
Deadlocked(a) ==
  \E S \in SUBSET Actors : a \in S /\ \A b \in S : Waiting(b) /\ WaitsFor(b) \in S

\* The server finds out that the client of a session is gone.
EndSession(a) ==
  /\ a \in abandoned
  /\ EndTransaction(a, FALSE)
  /\ abandoned' = abandoned \ {a}
  /\ UNCHANGED <<plan, verdict, stopping, pc, step, result>>

-----------------------------------------------------------------------------
\* _run_actor

Local == UNCHANGED <<plan, verdict, stopping>>

Goto(a, place) == pc' = [pc EXCEPT ![a] = place]

Connect(a) ==
  /\ pc[a] = "connect"
  /\ \/ Goto(a, "check") /\ UNCHANGED result
     \/ Goto(a, "done") /\ result' = [result EXCEPT ![a] = "failed"]
  /\ Local /\ UNCHANGED <<step, server>>

\* The head of the loop over the steps.
Check(a) ==
  /\ pc[a] = "check"
  /\ Goto(a, IF step[a] > Len(plan[a]) THEN "commit"
             ELSE IF stopping THEN "rollback" ELSE "execute")
  /\ Local /\ UNCHANGED <<step, result, server>>

\* Variant: the connection is left in autocommit mode.
ExecuteAutocommit(a) ==
  /\ pc[a] = "execute"
  /\ ~Waiting(a)
  /\ durable' = [durable EXCEPT ![a] = @ \cup {Row(a)}]
  /\ step' = [step EXCEPT ![a] = @ + 1]
  /\ Goto(a, "delay")
  /\ Local /\ UNCHANGED <<result, owner, written, abandoned>>

Execute(a) ==
  /\ pc[a] = "execute"
  /\ ~Waiting(a)
  /\ owner' = [owner EXCEPT ![Row(a)] = a]
  /\ written' = [written EXCEPT ![a] = @ \cup {Row(a)}]
  /\ step' = [step EXCEPT ![a] = @ + 1]
  /\ Goto(a, "delay")
  /\ Local /\ UNCHANGED <<result, durable, abandoned>>

\* The statement fails: an error, or the server's lock wait timeout.
ExecuteFails(a) ==
  /\ pc[a] = "execute"
  /\ Goto(a, "rollback")
  /\ Local /\ UNCHANGED <<step, result, server>>

\* The server undoes the whole transaction of a deadlock's victim.
ExecuteIsVictim(a) ==
  /\ pc[a] = "execute"
  /\ Deadlocked(a)
  /\ EndTransaction(a, FALSE)
  /\ Goto(a, "rollback")
  /\ Local /\ UNCHANGED <<step, result, abandoned>>

\* The socket times out: the client has no connection any more, the server
\* still has the session.
ExecuteTimesOut(a) ==
  /\ pc[a] = "execute"
  /\ abandoned' = abandoned \cup {a}
  /\ Goto(a, "rollback")
  /\ Local /\ UNCHANGED <<step, result, owner, written, durable>>

\* _stop.wait: it ends with the time or with the stop.
Delay(a) ==
  /\ pc[a] = "delay"
  /\ Goto(a, "check")
  /\ Local /\ UNCHANGED <<step, result, server>>

\* commit: done, not done, or done without an answer.
Commit(a) ==
  /\ pc[a] = "commit"
  /\ \/ /\ EndTransaction(a, TRUE)
        /\ \/ Goto(a, "close") /\ result' = [result EXCEPT ![a] = "success"]
           \/ Goto(a, "rollback") /\ UNCHANGED result
     \/ Goto(a, "rollback") /\ UNCHANGED <<result, owner, written, durable>>
  /\ Local /\ UNCHANGED <<step, abandoned>>

\* Variant: the exception is reported and the connection kept.
RollbackForgotten(a) ==
  /\ pc[a] = "rollback"
  /\ result' = [result EXCEPT ![a] = "failed"]
  /\ Goto(a, "done")
  /\ Local /\ UNCHANGED <<step, server>>

\* rollback raises when the connection is lost; that is not looked at.
Rollback(a) ==
  /\ pc[a] = "rollback"
  /\ result' = [result EXCEPT ![a] = "failed"]
  /\ Goto(a, "close")
  /\ IF a \in abandoned THEN UNCHANGED <<owner, written, durable>> ELSE EndTransaction(a, FALSE)
  /\ Local /\ UNCHANGED <<step, abandoned>>

\* Variant: the finally block returns a result of its own.
CloseReturns(a) ==
  /\ pc[a] = "close"
  /\ Goto(a, "done")
  /\ result' = [result EXCEPT ![a] = "closed"]
  /\ Local /\ UNCHANGED <<step, server>>

\* The finally block; an exception of close replaces what was returned.
Close(a) ==
  /\ pc[a] = "close"
  /\ Goto(a, "done")
  /\ result' \in {result, [result EXCEPT ![a] = "raised"]}
  /\ Local /\ UNCHANGED <<step, server>>

-----------------------------------------------------------------------------
Results == {result[a] : a \in Actors}

Outcome ==
  IF "raised" \in Results THEN "raised"
  ELSE IF "failed" \in Results THEN "failed" ELSE "succeeded"

\* Variant: the first failure is the action's, whatever the others do.
ReturnOnFailure ==
  /\ verdict = "running"
  /\ "failed" \in Results \/ \A a \in Actors : pc[a] = "done"
  /\ verdict' = Outcome
  /\ UNCHANGED <<plan, stopping, pc, step, result, server>>

\* The pool is left when all threads have ended.
Return ==
  /\ verdict = "running"
  /\ \A a \in Actors : pc[a] = "done"
  /\ verdict' = Outcome
  /\ UNCHANGED <<plan, stopping, pc, step, result, server>>

\* stop, from another thread.
Stop ==
  /\ ~stopping
  /\ stopping' = TRUE
  /\ UNCHANGED <<plan, verdict, pc, step, result, server>>

RunActor(a) ==
  \/ Connect(a) \/ Check(a) \/ Execute(a) \/ ExecuteFails(a) \/ ExecuteIsVictim(a)
  \/ ExecuteTimesOut(a) \/ Delay(a) \/ Commit(a) \/ Rollback(a) \/ Close(a)

Next == Return \/ Stop \/ \E a \in Actors : RunActor(a) \/ EndSession(a)

Spec == Init /\ [][Next]_vars

\* A thread goes on unless it waits for a row, which it may do for long: only
\* a deadlock is sure to end, not a wait that some timeout could end.
GoesOn(a) ==
  \/ Connect(a) \/ Check(a) \/ Execute(a) \/ ExecuteIsVictim(a) \/ Delay(a) \/ Commit(a)
  \/ Rollback(a) \/ Close(a)

FairSpec ==
  /\ Spec
  /\ WF_vars(Return)
  /\ \A a \in Actors : WF_vars(GoesOn(a)) /\ WF_vars(EndSession(a))

-----------------------------------------------------------------------------
TypeOK ==
  /\ plan \in [Actors -> Plans]
  /\ verdict \in {"running", "succeeded", "failed", "raised"}
  /\ stopping \in BOOLEAN
  /\ pc \in [Actors -> Places]
  /\ step \in [Actors -> 1..(MaxSteps + 1)]
  /\ result \in [Actors -> {"none", "success", "failed", "raised"}]
  /\ owner \in [Rows -> Actors \cup {Nobody}]
  /\ written \in [Actors -> SUBSET Rows]
  /\ durable \in [Actors -> SUBSET Rows]
  /\ abandoned \in SUBSET Actors

RowsOf(a) == {plan[a][i] : i \in 1..Len(plan[a])}

\* An actor's statements last together or not at all, whichever of them fails
\* and whoever stops the action; and a success says that all actors' do.
AllOrNothing ==
  /\ \A a \in Actors : durable[a] \in {{}, RowsOf(a)}
  /\ verdict = "succeeded" => \A a \in Actors : durable[a] = RowsOf(a)

\* When execute is left, no row is locked any more, so the recovery phase and
\* the next attempt run free, but for sessions that lost their client.
NothingHeld ==
  verdict # "running" => \A r \in Rows : owner[r] \in abandoned \cup {Nobody}

\* Actors that wait for each other, for a failed one or for a session without
\* a client all get through.
Terminates == <>(verdict # "running")
=============================================================================
