---------------------------- MODULE LifecycleProofs ----------------------------
(***************************************************************************)
(* Proofs about Lifecycle: the invariants that its run checks, for every   *)
(* set of handlers, and the refinement of PhaseProtocol.                   *)
(***************************************************************************)
EXTENDS Lifecycle, SequenceTheorems, TLAPS

\* Where run stands says which phase it is in.
PlaceInv ==
  /\ pc = "loop" => phase = Pipeline[step]
  /\ pc = "handler" => step > 1 /\ phase = Pipeline[step]
  /\ pc \in {"cleanup", "finish", "last_cleanup"} => phase = "cleaning_up"
  /\ pc = "cleanup" => "cleaning_up" \in handlers
  /\ pc = "except" => phase \notin {"created", "success"}
  /\ pc = "done" => phase \in {"cleaning_up", "success"}
  /\ phase = "success" => pc = "done"
  /\ pc # "escaped"

\* While the try block runs, and after a success, nothing has raised.
ClearInv ==
  pc \in {"loop", "handler", "cleanup", "finish"} \/ phase = "success" =>
    /\ \A i \in 1..Len(history) : history[i][2] # "failed"
    /\ error = {}

\* The handlers passed so far have left their result.
ResultInv ==
  /\ pc = "loop" => results = handlers \cap {Pipeline[i] : i \in 2..step}
  /\ pc = "handler" =>
       /\ results = handlers \cap {Pipeline[i] : i \in 2..(step - 1)}
       /\ phase \in handlers
  /\ pc = "cleanup" => results = handlers \ {"cleaning_up"}
  /\ pc = "finish" \/ phase = "success" => results = handlers

\* How often the clean-up handler ran, and how it ended.
CleanupInv ==
  /\ pc \in {"loop", "handler", "cleanup"} => cleanups = <<>>
  /\ pc = "finish" \/ phase = "success" =>
       cleanups = IF "cleaning_up" \in handlers THEN <<"returned">> ELSE <<>>
  /\ pc \in {"except", "last_cleanup"} => cleanups \in {<<>>, <<"raised">>}
  /\ pc = "except" /\ phase # "cleaning_up" => cleanups = <<>>
  /\ pc = "done" /\ "cleaning_up" \in handlers => cleanups # <<>>
  /\ cleanups \in {<<>>, <<"returned">>, <<"raised">>,
                   <<"raised", "returned">>, <<"raised", "raised">>}

IInv == TypeOK /\ PlaceInv /\ ClearInv /\ ResultInv /\ CleanupInv

-----------------------------------------------------------------------------
\* The phase that the loop enters at a step is the next one of the pipeline.
LEMMA SequenceIsPipeline ==
  /\ Len(ExecutionSequence) = 10 /\ Len(Pipeline) = 13
  /\ \A i \in 1..10 : ExecutionSequence[i] = Pipeline[i + 1]
  BY DEF ExecutionSequence, Pipeline

\* The moves the code asks for are in the transition table.
LEMMA LegalMoves ==
  /\ \A i \in 1..10 : CanTransition(Pipeline[i], ExecutionSequence[i])
  /\ CanTransition(Pipeline[11], "cleaning_up")
  /\ CanTransition("cleaning_up", "success")
  /\ \A p \in Phases \ {"success", "failed", "cleaning_up"} : CanTransition(p, "failed")
  /\ CanTransition("failed", "cleaning_up")
  BY DEF CanTransition, Transitions, Phases, Pipeline, ExecutionSequence

\* Appending to a sequence of at most one element.
LEMMA AppendToShort ==
  \A e, f \in Ends : Append(<<>>, e) = <<e>> /\ Append(<<f>>, e) = <<f, e>> /\ <<e>> # <<>>
<1> SUFFICES ASSUME NEW e \in Ends, NEW f \in Ends
             PROVE  Append(<<>>, e) = <<e>> /\ Append(<<f>>, e) = <<f, e>> /\ <<e>> # <<>>
  OBVIOUS
<1>1. Append(<<>>, e) = <<e>>
  OBVIOUS
<1>2. Append(<<f>>, e) = <<f, e>>
  <2> DEFINE s == Append(<<f>>, e)
             t == <<f, e>>
  <2>1. s \in Seq(Ends) /\ t \in Seq(Ends) /\ Len(s) = 2 /\ Len(t) = 2
    OBVIOUS
  <2>2. \A i \in 1..Len(s) : s[i] = t[i]
    BY <2>1
  <2> HIDE DEF s, t
  <2>3. s = t
    BY <2>1, <2>2, SeqEqual
  <2>4. QED
    BY <2>3 DEF s, t
<1>3. <<e>> # <<>>
  <2>1. Len(<<e>>) # Len(<<>>)
    OBVIOUS
  <2>2. QED
    BY <2>1
<1>4. QED
  BY <1>1, <1>2, <1>3

\* The initial states satisfy the invariant.
LEMMA InitInductive == Init => IInv
  BY SequenceIsPipeline
  DEF Init, IInv, TypeOK, PlaceInv, ClearInv, ResultInv, CleanupInv,
      Phases, Pipeline, Places, Stops, Causes, Ends

-----------------------------------------------------------------------------
\* Every step of run preserves the invariant, and so does an interrupt.
LEMMA StepInductive == IInv /\ [Next]_vars => IInv'
<1> SUFFICES ASSUME IInv, [Next]_vars
             PROVE  IInv'
  OBVIOUS
<1> USE SequenceIsPipeline DEF IInv, Places, Stops
<1>1. CASE EnterPhase
  <2> DEFINE target == ExecutionSequence[step]
  <2>1. step \in 1..10 /\ phase = Pipeline[step] /\ target = Pipeline[step + 1]
    BY <1>1 DEF EnterPhase, PlaceInv, TypeOK
  <2>2. /\ target \in Phases \cap HandlerPhases
        /\ phase \in Phases
        /\ target \notin {"created", "success", "failed", "cleaning_up"}
    BY <2>1 DEF Phases, HandlerPhases, ExecutionSequence, TypeOK
  <2>3. /\ phase' = target
        /\ history' = Append(history, <<phase, target>>)
        /\ pc' = (IF target \in handlers THEN "handler" ELSE "loop")
        /\ step' = step + 1
        /\ UNCHANGED <<handlers, results, error, cleanups>>
    BY <1>1, <2>1, LegalMoves DEF EnterPhase, Move, HandlerOf
  <2>4. TypeOK'
    BY <2>1, <2>2, <2>3 DEF TypeOK
  <2>5. PlaceInv'
    BY <2>1, <2>2, <2>3, <1>1 DEF PlaceInv, EnterPhase
  <2>6. ClearInv'
    BY <2>1, <2>2, <2>3, <1>1 DEF ClearInv, TypeOK, EnterPhase
  <2>7. ResultInv'
    <3>1. {Pipeline[i] : i \in 2..(step + 1)} = {Pipeline[i] : i \in 2..step} \cup {target}
      BY <2>1
    <3>2. QED
      BY <1>1, <2>1, <2>2, <2>3, <3>1 DEF ResultInv, EnterPhase
  <2>8. CleanupInv'
    BY <2>1, <2>2, <2>3, <1>1 DEF CleanupInv, EnterPhase
  <2>9. QED
    BY <2>4, <2>5, <2>6, <2>7, <2>8
<1>2. CASE HandlerReturns
  <2>1. step \in 2..11 /\ phase = Pipeline[step] /\ phase \in handlers
    BY <1>2 DEF HandlerReturns, PlaceInv, ResultInv, TypeOK
  <2>2. TypeOK'
    BY <1>2, <2>1 DEF HandlerReturns, TypeOK
  <2>3. PlaceInv' /\ ClearInv' /\ CleanupInv'
    BY <1>2, <2>1 DEF HandlerReturns, PlaceInv, ClearInv, CleanupInv
  <2>4. ResultInv'
    <3>1. {Pipeline[i] : i \in 2..step} = {Pipeline[i] : i \in 2..(step - 1)} \cup {phase}
      BY <2>1
    <3>2. phase # "success"
      BY <2>1 DEF Pipeline
    <3>3. QED
      BY <1>2, <2>1, <3>1, <3>2 DEF HandlerReturns, ResultInv
  <2>5. QED
    BY <2>2, <2>3, <2>4
<1>3. CASE HandlerRaises
  <2>1. phase \notin {"created", "success"}
    BY <1>3 DEF HandlerRaises, PlaceInv, TypeOK, Pipeline
  <2>2. QED
    BY <1>3, <2>1 DEF HandlerRaises, TypeOK, PlaceInv, ClearInv, ResultInv, CleanupInv
<1>4. CASE EnterCleanup
  <2>1. step = 11 /\ phase = Pipeline[11]
    BY <1>4 DEF EnterCleanup, PlaceInv, TypeOK
  <2>2. /\ phase' = "cleaning_up"
        /\ history' = Append(history, <<phase, "cleaning_up">>)
        /\ pc' = (IF "cleaning_up" \in handlers THEN "cleanup" ELSE "finish")
        /\ UNCHANGED <<handlers, results, error, step, cleanups>>
    BY <1>4, <2>1, LegalMoves DEF EnterCleanup, Move, HandlerOf
  <2>3. TypeOK'
    BY <2>2 DEF TypeOK, Phases, Pipeline
  <2>4. PlaceInv' /\ CleanupInv'
    BY <1>4, <2>2 DEF EnterCleanup, PlaceInv, CleanupInv
  <2>5. ClearInv'
    BY <1>4, <2>2 DEF EnterCleanup, ClearInv, TypeOK
  <2>6. ResultInv'
    <3>1. HandlerPhases = {Pipeline[i] : i \in 2..11} \cup {"cleaning_up"}
      BY DEF HandlerPhases, ExecutionSequence, Pipeline
    <3>2. "cleaning_up" \notin {Pipeline[i] : i \in 2..11}
      BY DEF Pipeline
    <3>3. results = handlers \ {"cleaning_up"}
      BY <1>4, <2>1, <3>1, <3>2 DEF EnterCleanup, ResultInv, TypeOK
    <3>4. QED
      BY <2>2, <3>3 DEF ResultInv
  <2>7. QED
    BY <2>3, <2>4, <2>5, <2>6
<1>5. CASE CleanupReturns
  <2>1. cleanups = <<>> /\ cleanups' = <<"returned">>
    BY <1>5, AppendToShort DEF CleanupReturns, Ends, CleanupInv
  <2>2. TypeOK'
    BY <1>5 DEF CleanupReturns, TypeOK, HandlerPhases, Ends
  <2>3. PlaceInv' /\ ClearInv'
    BY <1>5, <2>1 DEF CleanupReturns, PlaceInv, ClearInv
  <2>4. ResultInv'
    BY <1>5 DEF CleanupReturns, ResultInv, PlaceInv
  <2>5. CleanupInv'
    BY <1>5, <2>1 DEF CleanupReturns, CleanupInv, PlaceInv, ResultInv
  <2>6. QED
    BY <2>2, <2>3, <2>4, <2>5
<1>6. CASE CleanupRaises
  <2>1. cleanups = <<>> /\ cleanups' = <<"raised">>
    BY <1>6, AppendToShort DEF CleanupRaises, Ends, CleanupInv
  <2>2. TypeOK'
    BY <1>6 DEF CleanupRaises, TypeOK, Ends
  <2>3. PlaceInv' /\ ClearInv' /\ ResultInv'
    BY <1>6, <2>1 DEF CleanupRaises, PlaceInv, ClearInv, ResultInv
  <2>4. CleanupInv'
    BY <1>6, <2>1 DEF CleanupRaises, CleanupInv, PlaceInv
  <2>5. QED
    BY <2>2, <2>3, <2>4
<1>7. CASE Finish
  <2>1. /\ phase = "cleaning_up" /\ phase' = "success" /\ pc' = "done"
        /\ history' = Append(history, <<phase, "success">>)
        /\ UNCHANGED <<handlers, results, error, step, cleanups>>
    BY <1>7, LegalMoves DEF Finish, Move, PlaceInv
  <2>2. TypeOK'
    BY <2>1 DEF TypeOK, Phases, Pipeline
  <2>3. PlaceInv' /\ ResultInv'
    BY <1>7, <2>1 DEF Finish, PlaceInv, ResultInv
  <2>4. CleanupInv'
    BY <1>7, <2>1, AppendToShort DEF Finish, CleanupInv, Ends
  <2>5. ClearInv'
    BY <1>7, <2>1 DEF Finish, ClearInv, TypeOK
  <2>6. QED
    BY <2>2, <2>3, <2>4, <2>5
<1>8. CASE Fail
  <2>1. /\ phase' = "failed" /\ pc' = "except" /\ error' = {"failure"}
        /\ history' = Append(history, <<phase, "failed">>)
        /\ UNCHANGED <<handlers, results, step, cleanups>>
    BY <1>8, LegalMoves DEF Fail, Move, PlaceInv, TypeOK
  <2>2. TypeOK'
    BY <2>1 DEF TypeOK, Phases, Causes
  <2>3. QED
    BY <1>8, <2>1, <2>2 DEF Fail, PlaceInv, ClearInv, ResultInv, CleanupInv
<1>9. CASE EnterFailureCleanup
  <2>1. /\ phase' = "cleaning_up" /\ pc' = "except"
        /\ history' = Append(history, <<phase, "cleaning_up">>)
        /\ UNCHANGED <<handlers, results, error, step, cleanups>>
    BY <1>9, LegalMoves DEF EnterFailureCleanup, Move
  <2>2. TypeOK'
    BY <2>1 DEF TypeOK, Phases, Pipeline
  <2>3. QED
    BY <1>9, <2>1, <2>2 DEF EnterFailureCleanup, PlaceInv, ClearInv, ResultInv, CleanupInv
<1>10. CASE BeginLastCleanup
  BY <1>10 DEF BeginLastCleanup, HandlerOf, TypeOK, PlaceInv, ClearInv, ResultInv, CleanupInv
<1>11. CASE LastCleanupReturns
  <2>1. cleanups' \in {<<"returned">>, <<"raised", "returned">>}
    BY <1>11, AppendToShort DEF LastCleanupReturns, Ends, CleanupInv
  <2>2. TypeOK'
    BY <1>11 DEF LastCleanupReturns, TypeOK, HandlerPhases, Ends
  <2>3. PlaceInv' /\ ClearInv' /\ ResultInv'
    BY <1>11 DEF LastCleanupReturns, PlaceInv, ClearInv, ResultInv
  <2>4. CleanupInv'
    BY <1>11, <2>1 DEF LastCleanupReturns, CleanupInv, PlaceInv
  <2>5. QED
    BY <2>2, <2>3, <2>4
<1>12. CASE LastCleanupRaises
  <2>1. cleanups' \in {<<"raised">>, <<"raised", "raised">>}
    BY <1>12, AppendToShort DEF LastCleanupRaises, Ends, CleanupInv
  <2>2. TypeOK'
    BY <1>12 DEF LastCleanupRaises, TypeOK, Causes, Ends
  <2>3. PlaceInv' /\ ClearInv' /\ ResultInv'
    BY <1>12 DEF LastCleanupRaises, PlaceInv, ClearInv, ResultInv
  <2>4. CleanupInv'
    BY <1>12, <2>1 DEF LastCleanupRaises, CleanupInv, PlaceInv
  <2>5. QED
    BY <2>2, <2>3, <2>4
<1>13. CASE Interrupt
  BY <1>13 DEF Interrupt, TypeOK, PlaceInv, ClearInv, ResultInv, CleanupInv
<1>14. CASE UNCHANGED vars
  BY <1>14 DEF vars, TypeOK, PlaceInv, ClearInv, ResultInv, CleanupInv
<1>15. QED
  BY <1>1, <1>2, <1>3, <1>4, <1>5, <1>6, <1>7, <1>8, <1>9, <1>10, <1>11, <1>12,
     <1>13, <1>14
  DEF Next, Run

\* Every behaviour of the lifecycle satisfies the inductive invariant.
THEOREM Invariance == Spec => []IInv
  BY InitInductive, StepInductive, PTL DEF Spec

-----------------------------------------------------------------------------
(* The invariants that the run of Lifecycle checks. *)

\* The variables of run keep their types.
THEOREM TypeCorrect == Spec => []TypeOK
  BY Invariance, PTL DEF IInv

\* StateMachine.transition never raises InvalidStateTransition out of run.
THEOREM EscapeFree == Spec => []NothingEscapes
<1>1. IInv => NothingEscapes
  BY DEF IInv, PlaceInv, NothingEscapes
<1>2. QED
  BY <1>1, Invariance, PTL

\* A success is a run in which every handler returned and nothing raised.
THEOREM SuccessEarned == Spec => []SuccessIsEarned
<1>1. IInv => SuccessIsEarned
  <2> SUFFICES ASSUME IInv, phase = "success"
               PROVE  /\ ~HasFailed /\ handlers = results /\ error = {}
                      /\ Len(cleanups) <= 1
    BY DEF SuccessIsEarned
  <2>1. cleanups \in {<<>>, <<"returned">>}
    BY DEF IInv, CleanupInv
  <2>2. Len(cleanups) <= 1 /\ \A i \in 1..Len(cleanups) : cleanups[i] # "raised"
    BY <2>1
  <2>3. ~HasFailed /\ error = {}
    BY <2>2 DEF HasFailed, IInv, ClearInv
  <2>4. QED
    BY <2>2, <2>3 DEF IInv, ResultInv
<1>2. QED
  BY <1>1, Invariance, PTL

\* run returns after it called the clean-up handler, which it calls a second
\* time only when the first call raised.
THEOREM CleanedUp == Spec => []CleanedUpOnReturn
<1>1. IInv => CleanedUpOnReturn
  <2> SUFFICES ASSUME IInv PROVE CleanedUpOnReturn
    OBVIOUS
  <2>1. pc = "done" /\ "cleaning_up" \in handlers => cleanups # <<>>
    BY DEF IInv, CleanupInv
  <2>2. cleanups \in {<<>>, <<"returned">>, <<"raised">>,
                      <<"raised", "returned">>, <<"raised", "raised">>}
    BY DEF IInv, CleanupInv
  <2>3. CASE cleanups = <<>>
    <3>1. Len(cleanups) = 0
      BY <2>3
    <3>2. QED
      BY <2>1, <3>1 DEF CleanedUpOnReturn
  <2>4. CASE cleanups = <<"returned">> \/ cleanups = <<"raised">>
    <3>1. Len(cleanups) = 1
      BY <2>4
    <3>2. QED
      BY <2>1, <3>1 DEF CleanedUpOnReturn
  <2>5. CASE cleanups = <<"raised", "returned">> \/ cleanups = <<"raised", "raised">>
    <3>1. Len(cleanups) = 2 /\ cleanups[1] = "raised"
      BY <2>5
    <3>2. QED
      BY <2>1, <3>1 DEF CleanedUpOnReturn
  <2>6. QED
    BY <2>2, <2>3, <2>4, <2>5
<1>2. QED
  BY <1>1, Invariance, PTL

-----------------------------------------------------------------------------
(* A run that ends in silence. *)

\* Once the failure path has left the phase that raised, either the error says
\* so or the clean-up has raised, which only a registered one can.
SilentInv ==
  /\ cleanups # <<>> \/ pc = "last_cleanup" => "cleaning_up" \in handlers
  /\ pc \in {"except", "last_cleanup"} /\ phase \in {"failed", "cleaning_up"} /\ error = {} =>
       cleanups = <<"raised">>
  /\ SilentOnlyAfterCleanupRetry

\* The phases of the try block, from which fail() is called, are none of those.
LEMMA TryingPhases ==
  \A i \in 1..11 : Pipeline[i] \notin {"failed", "cleaning_up"}
  BY DEF Pipeline

\* Every step keeps SilentInv.
LEMMA SilentInductive == IInv /\ SilentInv /\ [Next]_vars => SilentInv'
<1> SUFFICES ASSUME IInv, SilentInv, [Next]_vars
             PROVE  SilentInv'
  OBVIOUS
<1> USE SequenceIsPipeline DEF SilentInv, SilentOnlyAfterCleanupRetry
<1>0. IInv'
  BY StepInductive
<1>1. CASE EnterPhase
  <2>1. step \in 1..10 /\ phase = Pipeline[step]
    BY <1>1 DEF EnterPhase, IInv, PlaceInv, TypeOK
  <2>2. pc' \in {"loop", "handler"} /\ UNCHANGED <<handlers, cleanups>>
    BY <1>1, <2>1, LegalMoves DEF EnterPhase, Move, HandlerOf
  <2>3. QED
    BY <2>2
<1>2. CASE HandlerReturns \/ HandlerRaises
  <2>1. phase \notin {"failed", "cleaning_up"}
    <3>1. step \in 2..11 /\ phase = Pipeline[step]
      BY <1>2 DEF HandlerReturns, HandlerRaises, IInv, PlaceInv, TypeOK
    <3>2. QED
      BY <3>1, TryingPhases
  <2>2. pc' \in {"loop", "except"} /\ UNCHANGED <<handlers, phase, cleanups>>
    BY <1>2 DEF HandlerReturns, HandlerRaises
  <2>3. QED
    BY <2>1, <2>2
<1>3. CASE EnterCleanup
  <2>1. phase = Pipeline[11]
    BY <1>3 DEF EnterCleanup, IInv, PlaceInv, TypeOK
  <2>2. pc' \in {"cleanup", "finish"} /\ UNCHANGED <<handlers, cleanups>>
    BY <1>3, <2>1, LegalMoves DEF EnterCleanup, Move, HandlerOf
  <2>3. QED
    BY <2>2
<1>4. CASE CleanupReturns \/ CleanupRaises
  <2>1. "cleaning_up" \in handlers /\ cleanups = <<>>
    BY <1>4 DEF CleanupReturns, CleanupRaises, IInv, PlaceInv, CleanupInv
  <2>2. "returned" \in Ends /\ "raised" \in Ends
    BY DEF Ends
  <2>3. \/ pc' = "finish" /\ UNCHANGED handlers
        \/ pc' = "except" /\ UNCHANGED handlers /\ cleanups' = <<"raised">>
    BY <1>4, <2>1, <2>2, AppendToShort DEF CleanupReturns, CleanupRaises
  <2>4. QED
    BY <2>1, <2>3
<1>5. CASE Finish
  <2>1. phase' = "success" /\ pc' = "done" /\ UNCHANGED <<handlers, cleanups>>
    BY <1>5, LegalMoves DEF Finish, Move, IInv, PlaceInv
  <2>2. QED
    BY <2>1
<1>6. CASE Fail
  <2>1. /\ pc' = "except" /\ error' = {"failure"}
        /\ UNCHANGED <<handlers, cleanups>>
    BY <1>6, LegalMoves DEF Fail, Move, IInv, PlaceInv, TypeOK
  <2>2. QED
    BY <2>1
<1>7. CASE EnterFailureCleanup
  <2>1. /\ phase = "failed" /\ pc = "except" /\ pc' = "except"
        /\ UNCHANGED <<handlers, error, cleanups>>
    BY <1>7, LegalMoves DEF EnterFailureCleanup, Move
  <2>2. QED
    BY <2>1
<1>8. CASE BeginLastCleanup
  <2>1. /\ pc = "except" /\ phase = "cleaning_up"
        /\ pc' = (IF "cleaning_up" \in handlers THEN "last_cleanup" ELSE "done")
        /\ UNCHANGED <<handlers, phase, error, cleanups>>
    BY <1>8 DEF BeginLastCleanup, HandlerOf
  <2>2. CASE error = {}
    <3>1. cleanups = <<"raised">> /\ cleanups # <<>>
      BY <2>1, <2>2, AppendToShort DEF Ends
    <3>2. QED
      BY <2>1, <3>1
  <2>3. CASE error # {}
    BY <2>1, <2>3
  <2>4. QED
    BY <2>2, <2>3
<1>9. CASE LastCleanupReturns
  <2>1. /\ pc = "last_cleanup" /\ pc' = "done" /\ phase = "cleaning_up"
        /\ cleanups' = Append(cleanups, "returned")
        /\ UNCHANGED <<handlers, phase, error>>
    BY <1>9 DEF LastCleanupReturns, IInv, PlaceInv
  <2>2. "cleaning_up" \in handlers
    BY <2>1
  <2>3. error = {} => cleanups' = <<"raised", "returned">>
    BY <2>1, AppendToShort DEF Ends
  <2>4. QED
    BY <2>1, <2>2, <2>3
<1>10. CASE LastCleanupRaises
  BY <1>10 DEF LastCleanupRaises
<1>11. CASE Interrupt \/ UNCHANGED vars
  BY <1>11 DEF Interrupt, vars
<1>12. QED
  BY <1>1, <1>2, <1>3, <1>4, <1>5, <1>6, <1>7, <1>8, <1>9, <1>10, <1>11 DEF Next, Run

\* A run that ends without success is silent about the reason only when the
\* clean-up raised the first time and returned the second time.
THEOREM SilentOnlyOnRetry == Spec => []SilentOnlyAfterCleanupRetry
<1>1. Init => SilentInv
  BY DEF Init, SilentInv, SilentOnlyAfterCleanupRetry
<1>2. SilentInv => SilentOnlyAfterCleanupRetry
  BY DEF SilentInv
<1>3. QED
  BY <1>1, <1>2, Invariance, SilentInductive, PTL DEF Spec

-----------------------------------------------------------------------------
(* The refinement of PhaseProtocol. *)

\* What a transition adds to the record of failures.
LEMMA FailedAfterMove ==
  ASSUME TypeOK, NEW target \in Phases,
         history' = Append(history, <<phase, target>>), UNCHANGED cleanups
  PROVE  HasFailed' <=> HasFailed \/ target = "failed"
<1>1. history \in Seq(Phases \X Phases) /\ <<phase, target>> \in Phases \X Phases
  BY DEF TypeOK
<1>2. /\ Len(history') = Len(history) + 1
      /\ history'[Len(history) + 1] = <<phase, target>>
      /\ \A i \in 1..Len(history) : history'[i] = history[i]
      /\ Len(history) \in Nat
  BY <1>1
<1>3. (\E i \in 1..Len(history') : history'[i][2] = "failed")
        <=> (\E i \in 1..Len(history) : history[i][2] = "failed") \/ target = "failed"
  BY <1>2
<1>4. QED
  BY <1>3 DEF HasFailed

\* What the end of a call of the clean-up handler adds to it.
LEMMA FailedAfterCleanup ==
  ASSUME TypeOK, NEW e \in Ends, cleanups' = Append(cleanups, e), UNCHANGED history
  PROVE  HasFailed' <=> HasFailed \/ e = "raised"
<1>1. /\ Len(cleanups') = Len(cleanups) + 1
      /\ cleanups'[Len(cleanups) + 1] = e
      /\ \A i \in 1..Len(cleanups) : cleanups'[i] = cleanups[i]
      /\ Len(cleanups) \in Nat
  BY DEF TypeOK
<1>2. (\E i \in 1..Len(cleanups') : cleanups'[i] = "raised")
        <=> (\E i \in 1..Len(cleanups) : cleanups[i] = "raised") \/ e = "raised"
  BY <1>1
<1>3. QED
  BY <1>2 DEF HasFailed

\* Nothing has failed while the try block runs.
LEMMA ClearWhileTrying ==
  ASSUME IInv, pc \in {"loop", "cleanup", "finish"}
  PROVE  ~HasFailed
<1>1. cleanups \in {<<>>, <<"returned">>}
  BY DEF IInv, CleanupInv
<1>2. \A i \in 1..Len(cleanups) : cleanups[i] # "raised"
  BY <1>1
<1>3. QED
  BY <1>2 DEF HasFailed, IInv, ClearInv

\* The protocol's transition table is the lifecycle's.
LEMMA SameTable ==
  /\ Protocol!Phases = Phases
  /\ \A p, q : Protocol!CanTransition(p, q) <=> CanTransition(p, q)
<1>1. Protocol!Pipeline = Pipeline
  BY DEF Protocol!Pipeline, Pipeline
<1>2. Protocol!Transitions = Transitions
  BY <1>1 DEF Protocol!Transitions, Transitions
<1>3. QED
  BY <1>1, <1>2 DEF Protocol!Phases, Phases, Protocol!CanTransition, CanTransition

\* A legal move of a run in which nothing failed is progress.
LEMMA MoveIsProgress ==
  ASSUME NEW target \in Phases \ {"failed"}, CanTransition(phase, target),
         phase' = target, ~HasFailed, ~HasFailed'
  PROVE  Protocol!Next
<1>1. target \in Protocol!Phases \ {"failed"} /\ Protocol!CanTransition(phase, target)
  BY SameTable
<1>2. (\E t \in Protocol!Phases \ {"failed"} :
         Protocol!CanTransition(phase, t) /\ phase' = t)
  BY <1>1
<1>3. HasFailed' = HasFailed
  BY DEF HasFailed
<1>4. Protocol!Progress
  BY <1>2, <1>3 DEF Protocol!Progress
<1>5. QED
  BY <1>4 DEF Protocol!Next

\* Every step of run is a step of the protocol, or leaves its view alone.
LEMMA StepRefines == IInv /\ [Next]_vars => [Protocol!Next]_(Protocol!vars)
<1> SUFFICES ASSUME IInv, [Next]_vars
             PROVE  Protocol!Next \/ UNCHANGED Protocol!vars
  OBVIOUS
<1>0. TypeOK /\ "failed" \in Phases /\ "cleaning_up" \in Phases
  BY DEF IInv, Phases, Pipeline
<1>1. CASE EnterPhase
  <2> DEFINE target == ExecutionSequence[step]
  <2>1. step \in 1..10 /\ phase = Pipeline[step] /\ target = Pipeline[step + 1]
    BY <1>1, SequenceIsPipeline DEF EnterPhase, IInv, PlaceInv, TypeOK
  <2>2. CanTransition(phase, target) /\ target \in Phases \ {"failed"}
    BY <2>1, LegalMoves DEF Phases, Pipeline, ExecutionSequence
  <2>3. phase' = target /\ history' = Append(history, <<phase, target>>) /\ UNCHANGED cleanups
    BY <1>1, <2>2 DEF EnterPhase, Move
  <2>4. ~HasFailed /\ ~HasFailed'
    BY <1>0, <1>1, <2>2, <2>3, FailedAfterMove, ClearWhileTrying DEF EnterPhase
  <2>5. QED
    BY <2>2, <2>3, <2>4, MoveIsProgress
<1>2. CASE EnterCleanup \/ Finish
  <2>1. PICK target \in {"cleaning_up", "success"} :
          /\ CanTransition(phase, target)
          /\ phase' = target
          /\ history' = Append(history, <<phase, target>>)
          /\ UNCHANGED cleanups
    BY <1>2, LegalMoves, SequenceIsPipeline
    DEF EnterCleanup, Finish, Move, IInv, PlaceInv, TypeOK
  <2>2. target \in Phases \ {"failed"}
    BY DEF Phases, Pipeline
  <2>3. ~HasFailed /\ ~HasFailed'
    BY <1>0, <1>2, <2>1, <2>2, FailedAfterMove, ClearWhileTrying DEF EnterCleanup, Finish
  <2>4. QED
    BY <2>1, <2>2, <2>3, MoveIsProgress
<1>3. CASE CleanupReturns \/ LastCleanupReturns
  <2>1. HasFailed' <=> HasFailed
    BY <1>0, <1>3, FailedAfterCleanup DEF CleanupReturns, LastCleanupReturns, Ends
  <2>2. QED
    BY <1>3, <2>1 DEF CleanupReturns, LastCleanupReturns, Protocol!vars
<1>4. CASE CleanupRaises \/ LastCleanupRaises
  <2>1. HasFailed'
    BY <1>0, <1>4, FailedAfterCleanup DEF CleanupRaises, LastCleanupRaises, Ends
  <2>2. phase = "cleaning_up" /\ UNCHANGED phase
    BY <1>4 DEF CleanupRaises, LastCleanupRaises, IInv, PlaceInv
  <2>3. QED
    BY <2>1, <2>2 DEF Protocol!Next, Protocol!CleanupFails
<1>5. CASE Fail
  <2>1. /\ CanTransition(phase, "failed")
        /\ phase' = "failed"
        /\ history' = Append(history, <<phase, "failed">>)
        /\ UNCHANGED cleanups
    BY <1>0, <1>5, LegalMoves DEF Fail, Move, IInv, PlaceInv, TypeOK
  <2>2. HasFailed'
    BY <1>0, <2>1, FailedAfterMove
  <2>3. QED
    BY <2>1, <2>2, SameTable DEF Protocol!Next, Protocol!Fail
<1>6. CASE EnterFailureCleanup
  <2>1. /\ phase = "failed" /\ phase' = "cleaning_up"
        /\ history' = Append(history, <<phase, "cleaning_up">>)
        /\ UNCHANGED cleanups
    BY <1>6, LegalMoves DEF EnterFailureCleanup, Move
  <2>2. HasFailed' <=> HasFailed
    BY <1>0, <2>1, FailedAfterMove
  <2>3. QED
    BY <2>1, <2>2 DEF Protocol!Next, Protocol!CleanUpAfterFailure
<1>7. CASE \/ HandlerReturns \/ HandlerRaises \/ BeginLastCleanup
           \/ Interrupt \/ UNCHANGED vars
  <2>1. UNCHANGED <<phase, history, cleanups>>
    BY <1>7 DEF HandlerReturns, HandlerRaises, BeginLastCleanup, Interrupt, vars
  <2>2. HasFailed' <=> HasFailed
    BY <2>1 DEF HasFailed
  <2>3. QED
    BY <2>1, <2>2 DEF Protocol!vars
<1>8. QED
  BY <1>1, <1>2, <1>3, <1>4, <1>5, <1>6, <1>7 DEF Next, Run

\* The lifecycle implements PhaseProtocol: whoever reads the phase of an
\* experiment sees a failure that is never forgotten and never a success.
THEOREM Refinement == Spec => ImplementsProtocol
<1>1. Init => Protocol!Init
  BY DEF Init, Protocol!Init, HasFailed
<1>2. QED
  BY <1>1, StepRefines, Invariance, PTL DEF Spec, ImplementsProtocol, Protocol!Spec
=============================================================================
