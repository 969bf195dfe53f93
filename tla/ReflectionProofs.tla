--------------------------- MODULE ReflectionProofs ----------------------------
(***************************************************************************)
(* Proofs about ReflectionLoop, for any number of rounds, of requests and  *)
(* of runs over one directory: what is on disk when an action is run, and  *)
(* when a run of the loop returns.  And about Adaptation: the loop with    *)
(* its plans and advice is the reflection loop, so that what is proved of  *)
(* the one holds of the other, and the advice makes progress for every     *)
(* window, limit and demand.                                               *)
(***************************************************************************)
EXTENDS Adaptation, SequenceTheorems, TLAPS

Underway == {"generate", "asking", "validate", "attempt", "reflect"}
Kept     == {"directory", "write", "next", "returned"}

\* The records have the attempts up to this one, or it included, and the
\* request has the reflection of the attempt before.
RecordsInv ==
  /\ pc \in Underway => Len(records) = attempt - 1 /\ feedback = attempt - 1
  /\ pc = "reflect" => outcome \in Outcomes \ {"success"}
  /\ pc \in Kept => Len(records) = attempt /\ records[attempt] = outcome

\* The attempts that this run has left behind failed, and are on disk.
PastInv ==
  pc \in Underway \cup Kept =>
    \A a \in 1..(attempt - 1) : Recorded(a) /\ records[a] # "success"

\* The attempt's own directory, file by file.
DirectoryInv ==
  /\ pc = "write" =>
       /\ attempt \in DOMAIN disk
       /\ disk[attempt].owner = run
       /\ written <= Len(FilesOf(outcome))
       /\ disk[attempt].files = {FilesOf(outcome)[i] : i \in 1..written}
  /\ pc \in {"next", "returned"} => Recorded(attempt)
  /\ pc = "returned" => ~MayRetry

IInv == TypeOK /\ RecordsInv /\ PastInv /\ DirectoryInv

-----------------------------------------------------------------------------
\* The files of an attempt, and that the reflection is one of them unless the
\* attempt was a success.
LEMMA Files ==
  ASSUME NEW result \in Outcomes
  PROVE  /\ Len(FilesOf(result)) \in 3..4
         /\ \A i \in 1..Len(FilesOf(result)) : FilesOf(result)[i] \in AllFiles
         /\ result # "success" => \E i \in 1..Len(FilesOf(result)) : FilesOf(result)[i] = "reflection"
<1> DEFINE first == <<"action_plan", "action_result", "evaluation">>
           last  == IF result = "success" THEN <<>> ELSE <<"reflection">>
<1>1. first \in Seq(AllFiles) /\ Len(first) = 3
  BY DEF AllFiles
<1>2. /\ last \in Seq(AllFiles)
      /\ Len(last) = IF result = "success" THEN 0 ELSE 1
      /\ result # "success" => last[1] = "reflection"
  <2>1. CASE result = "success"
    BY <2>1, EmptySeq
  <2>2. CASE result # "success"
    BY <2>2 DEF AllFiles
  <2>3. QED
    BY <2>1, <2>2
<1>3. FilesOf(result) = first \o last
  BY DEF FilesOf
<1> HIDE DEF first, last
<1>4. /\ FilesOf(result) \in Seq(AllFiles)
      /\ Len(FilesOf(result)) = 3 + Len(last)
      /\ \A i \in 1..(3 + Len(last)) : i > 3 => FilesOf(result)[i] = last[i - 3]
  <2>1. /\ first \o last \in Seq(AllFiles)
        /\ Len(first \o last) = Len(first) + Len(last)
        /\ \A i \in 1..(Len(first) + Len(last)) :
              (first \o last)[i] = IF i <= Len(first) THEN first[i] ELSE last[i - Len(first)]
    BY <1>1, <1>2, ConcatProperties
  <2>2. Len(last) \in Nat
    BY <1>2
  <2>3. QED
    BY <1>1, <1>3, <2>1, <2>2
<1>5. \A i \in 1..Len(FilesOf(result)) : FilesOf(result)[i] \in AllFiles
  BY <1>4, ElementOfSeq
<1>6. result # "success" => FilesOf(result)[4] = "reflection"
  BY <1>2, <1>4
<1>7. QED
  BY <1>2, <1>4, <1>5, <1>6

\* What an attempt leaves on disk depends on nothing but its own directory and
\* record.
LEMMA StillRecorded ==
  ASSUME NEW a, Recorded(a), UNCHANGED run, a \in DOMAIN disk', disk'[a] = disk[a],
         a \in 1..Len(records'), records'[a] = records[a]
  PROVE  Recorded(a)'
  BY DEF Recorded

\* The client's call keeps its type.
LEMMA ClientTyped ==
  ASSUME ClientTypeOK, GenerateAction \/ Request \/ (call' = NoCall /\ UNCHANGED api_mode)
  PROVE  ClientTypeOK'
  BY ClientAssumption
  DEF ClientTypeOK, GenerateAction, Request, Pending, NoResponse, Unsupported, Answer, NoCall, Endpoints, Results

-----------------------------------------------------------------------------
\* The invariant holds at first.
LEMMA InitInductive == Init => IInv
<1> SUFFICES ASSUME Init
             PROVE  IInv
  OBVIOUS
<1>1. ClientTypeOK
  BY ClientAssumption DEF Init, ClientInit, ClientTypeOK, NoCall, Endpoints, Results
<1>2. DOMAIN disk = {} /\ records \in Seq(Outcomes)
  BY EmptySeq DEF Init, NoDisk
<1>3. TypeOK
  <2>1. 1 \in 1..MaxRuns /\ 1 \in Attempts /\ 0 \in 0..MaxRetryRounds
    BY LoopAssumption DEF Attempts
  <2>2. DOMAIN disk \in SUBSET Attempts
    BY <1>2
  <2>3. \A a \in DOMAIN disk : disk[a] \in [owner : 1..MaxRuns, files : SUBSET AllFiles]
    BY <1>2
  <2>4. /\ run \in 1..MaxRuns /\ pc \in Places /\ attempt \in Attempts
        /\ feedback \in 0..MaxRetryRounds /\ outcome \in Outcomes \cup {"none"}
        /\ retryable \in BOOLEAN /\ written \in 0..4
    <3>1. run = 1 /\ pc = "generate" /\ attempt = 1 /\ feedback = 0 /\ outcome = "none"
          /\ retryable = FALSE /\ written = 0
      BY DEF Init
    <3>2. pc \in Places /\ retryable \in BOOLEAN /\ outcome \in Outcomes \cup {"none"}
      BY <3>1 DEF Places
    <3>3. run \in 1..MaxRuns /\ attempt \in Attempts /\ feedback \in 0..MaxRetryRounds
      BY <2>1, <3>1
    <3>4. written \in 0..4
      BY <3>1
    <3>5. QED
      BY <3>2, <3>3, <3>4
  <2>5. QED
    BY <1>1, <1>2, <2>2, <2>3, <2>4 DEF TypeOK
<1>4. RecordsInv /\ PastInv /\ DirectoryInv
  BY EmptySeq DEF Init, RecordsInv, PastInv, DirectoryInv, Underway, Kept
<1>5. QED
  BY <1>3, <1>4 DEF IInv

\* A record that is appended is the last one, and the others stay.
LEMMA OneMore ==
  ASSUME records \in Seq(Outcomes), NEW result \in Outcomes, records' = Append(records, result)
  PROVE  /\ records' \in Seq(Outcomes)
         /\ Len(records) \in Nat
         /\ Len(records') = Len(records) + 1
         /\ records'[Len(records) + 1] = result
         /\ \A i \in 1..Len(records) : records'[i] = records[i]
  BY AppendProperties, LenProperties

\* The steps that are about the records and directories of no attempt.
LEMMA NothingRecorded ==
  ASSUME IInv, pc \in Underway, pc' \in Underway \cup {"raised", "crashed"},
         pc' = "reflect" => outcome' \in Outcomes \ {"success"},
         UNCHANGED <<run, attempt, feedback, records, disk>>
  PROVE  RecordsInv' /\ PastInv' /\ DirectoryInv'
<1>1. \A a : Recorded(a)' <=> Recorded(a)
  BY DEF Recorded
<1>2. RecordsInv'
  BY DEF IInv, RecordsInv, Underway, Kept
<1>3. PastInv'
  BY <1>1 DEF IInv, PastInv
<1>4. DirectoryInv'
  BY DEF DirectoryInv, Underway
<1>5. QED
  BY <1>2, <1>3, <1>4

\* Every step keeps the invariant.
LEMMA StepInductive == IInv /\ [Next]_vars => IInv'
<1> SUFFICES ASSUME IInv, [Next]_vars
             PROVE  IInv'
  OBVIOUS
<1>1. CASE Generate \/ Ask \/ Generated
  <2>1. /\ pc \in Underway /\ pc' \in Underway \cup {"raised"}
        /\ pc' = "reflect" => pc = "reflect"
        /\ UNCHANGED <<run, attempt, feedback, outcome, retryable, written, records, disk>>
    BY <1>1 DEF Generate, Ask, Generated, Rest, loopVars, Underway
  <2>2. ClientTypeOK'
    BY <1>1, ClientTyped DEF IInv, TypeOK, Generate, Ask, Generated
  <2>3. TypeOK'
    BY <2>1, <2>2 DEF IInv, TypeOK, Places, Ended, Underway
  <2>4. RecordsInv' /\ PastInv' /\ DirectoryInv'
    BY <2>1, NothingRecorded DEF IInv, RecordsInv
  <2>5. QED
    BY <2>3, <2>4 DEF IInv
<1>2. CASE Validate /\ UNCHANGED clientVars
  <2>1. /\ pc \in Underway /\ pc' \in {"attempt", "reflect"}
        /\ pc' = "reflect" => outcome' = "rejected"
        /\ outcome' \in {outcome, "rejected"}
        /\ UNCHANGED <<run, attempt, feedback, retryable, written, records, disk, call, api_mode>>
    BY <1>2 DEF Validate, clientVars, Underway
  <2>2. TypeOK'
    BY <2>1 DEF IInv, TypeOK, ClientTypeOK, Places, Outcomes
  <2>3. RecordsInv' /\ PastInv' /\ DirectoryInv'
    BY <2>1, NothingRecorded DEF Underway, Outcomes
  <2>4. QED
    BY <2>2, <2>3 DEF IInv
<1>3. CASE RunAttempt /\ UNCHANGED clientVars
  <2>1. /\ pc = "attempt"
        /\ UNCHANGED <<run, attempt, feedback, retryable, written, disk, call, api_mode>>
    BY <1>3 DEF RunAttempt, clientVars
  <2>2. CASE outcome' = "success" /\ pc' = "directory" /\ records' = Append(records, "success")
    <3>1. /\ records' \in Seq(Outcomes) /\ Len(records) \in Nat
          /\ Len(records') = Len(records) + 1
          /\ records'[Len(records) + 1] = "success"
          /\ \A i \in 1..Len(records) : records'[i] = records[i]
      BY <2>2, OneMore DEF IInv, TypeOK, Outcomes
    <3>2. attempt \in Nat /\ Len(records) = attempt - 1
      BY <2>1 DEF IInv, TypeOK, Attempts, RecordsInv, Underway
    <3>3. TypeOK'
      BY <2>1, <2>2, <3>1 DEF IInv, TypeOK, ClientTypeOK, Places, Outcomes
    <3>4. RecordsInv'
      BY <2>1, <2>2, <3>1, <3>2 DEF RecordsInv, Underway
    <3>5. PastInv'
      BY <2>1, <3>1, <3>2, StillRecorded DEF IInv, PastInv, Underway, Recorded
    <3>6. DirectoryInv'
      BY <2>2 DEF DirectoryInv
    <3>7. QED
      BY <3>3, <3>4, <3>5, <3>6 DEF IInv
  <2>3. CASE /\ pc' \in {"reflect", "raised"}
             /\ outcome' \in {"miss", "failed", outcome}
             /\ pc' = "reflect" => outcome' \in {"miss", "failed"}
             /\ UNCHANGED records
    <3>1. TypeOK'
      BY <2>1, <2>3 DEF IInv, TypeOK, ClientTypeOK, Places, Ended, Outcomes
    <3>2. RecordsInv' /\ PastInv' /\ DirectoryInv'
      BY <2>1, <2>3, NothingRecorded DEF Underway, Outcomes
    <3>3. QED
      BY <3>1, <3>2 DEF IInv
  <2>4. QED
    BY <1>3, <2>2, <2>3 DEF RunAttempt
<1>4. CASE Reflect /\ UNCHANGED clientVars
  <2>1. /\ pc = "reflect" /\ pc' = "directory" /\ retryable' \in BOOLEAN
        /\ records' = Append(records, outcome)
        /\ UNCHANGED <<run, attempt, feedback, outcome, written, disk, call, api_mode>>
    BY <1>4 DEF Reflect, clientVars
  <2>2. outcome \in Outcomes
    BY <2>1 DEF IInv, RecordsInv
  <2>3. /\ records' \in Seq(Outcomes) /\ Len(records) \in Nat
        /\ Len(records') = Len(records) + 1
        /\ records'[Len(records) + 1] = outcome
        /\ \A i \in 1..Len(records) : records'[i] = records[i]
    BY <2>1, <2>2, OneMore DEF IInv, TypeOK
  <2>4. attempt \in Nat /\ Len(records) = attempt - 1
    BY <2>1 DEF IInv, TypeOK, Attempts, RecordsInv, Underway
  <2>5. TypeOK'
    BY <2>1, <2>3 DEF IInv, TypeOK, ClientTypeOK, Places
  <2>6. RecordsInv'
    BY <2>1, <2>3, <2>4 DEF RecordsInv, Underway
  <2>7. PastInv'
    BY <2>1, <2>3, <2>4, StillRecorded DEF IInv, PastInv, Underway, Recorded
  <2>8. DirectoryInv'
    BY <2>1 DEF DirectoryInv
  <2>9. QED
    BY <2>5, <2>6, <2>7, <2>8 DEF IInv
<1>5. CASE MakeDirectory /\ UNCHANGED clientVars
  <2>1. /\ pc = "directory" /\ written' = 0
        /\ UNCHANGED <<run, attempt, feedback, outcome, retryable, records, call, api_mode>>
    BY <1>5 DEF MakeDirectory, clientVars
  <2>2. CASE pc' = "raised" /\ UNCHANGED disk
    <3>1. TypeOK'
      BY <2>1, <2>2 DEF IInv, TypeOK, ClientTypeOK, Places, Ended
    <3>2. RecordsInv' /\ PastInv' /\ DirectoryInv'
      BY <2>2 DEF RecordsInv, PastInv, DirectoryInv, Underway, Kept
    <3>3. QED
      BY <3>1, <3>2 DEF IInv
  <2>3. CASE /\ pc' = "write" /\ attempt \notin DOMAIN disk
             /\ disk' = [a \in DOMAIN disk \cup {attempt} |->
                           IF a = attempt THEN [owner |-> run, files |-> {}] ELSE disk[a]]
    <3>1. /\ DOMAIN disk' = DOMAIN disk \cup {attempt}
          /\ disk'[attempt] = [owner |-> run, files |-> {}]
          /\ \A a \in DOMAIN disk : disk'[a] = disk[a]
      BY <2>3
    <3>2. TypeOK'
      BY <2>1, <2>3, <3>1 DEF IInv, TypeOK, ClientTypeOK, Places
    <3>3. RecordsInv'
      BY <2>1, <2>3 DEF IInv, RecordsInv, Underway, Kept
    <3>4. PastInv'
      BY <2>1, <3>1, StillRecorded DEF IInv, PastInv, Kept, Recorded
    <3>5. DirectoryInv'
      <4>1. outcome \in Outcomes
        BY <2>1 DEF IInv, TypeOK, Attempts, RecordsInv, Kept
      <4>2. Len(FilesOf(outcome)) \in 3..4
        BY <4>1, Files
      <4>3. FilesOf(outcome)' = FilesOf(outcome)
        BY <2>1
      <4>4. QED
        BY <2>1, <2>3, <3>1, <4>2, <4>3 DEF DirectoryInv
    <3>6. QED
      BY <3>2, <3>3, <3>4, <3>5 DEF IInv
  <2>4. QED
    BY <1>5, <2>2, <2>3 DEF MakeDirectory
<1>6. CASE Write /\ UNCHANGED clientVars
  <2>1. /\ pc = "write" /\ written < Len(FilesOf(outcome))
        /\ UNCHANGED <<run, attempt, feedback, outcome, retryable, records, call, api_mode>>
    BY <1>6 DEF Write, clientVars
  <2>2. CASE pc' = "raised" /\ UNCHANGED <<written, disk>>
    <3>1. TypeOK'
      BY <2>1, <2>2 DEF IInv, TypeOK, ClientTypeOK, Places, Ended
    <3>2. RecordsInv' /\ PastInv' /\ DirectoryInv'
      BY <2>2 DEF RecordsInv, PastInv, DirectoryInv, Underway, Kept
    <3>3. QED
      BY <3>1, <3>2 DEF IInv
  <2>3. CASE /\ disk' = [disk EXCEPT ![attempt].files = @ \cup {FilesOf(outcome)[written + 1]}]
             /\ written' = written + 1
             /\ UNCHANGED pc
    <3>1. outcome \in Outcomes /\ attempt \in DOMAIN disk /\ written \in Nat
      BY <2>1 DEF IInv, TypeOK, Attempts, RecordsInv, DirectoryInv, Kept
    <3>2. Len(FilesOf(outcome)) \in 3..4 /\ FilesOf(outcome)[written + 1] \in AllFiles
      BY <2>1, <3>1, Files
    <3>3. disk[attempt] \in [owner : 1..MaxRuns, files : SUBSET AllFiles]
      BY <3>1 DEF IInv, TypeOK
    <3>4. /\ DOMAIN disk' = DOMAIN disk
          /\ disk'[attempt].owner = disk[attempt].owner
          /\ disk'[attempt].files = disk[attempt].files \cup {FilesOf(outcome)[written + 1]}
          /\ disk'[attempt] \in [owner : 1..MaxRuns, files : SUBSET AllFiles]
          /\ \A a \in DOMAIN disk : a # attempt => disk'[a] = disk[a]
      BY <2>3, <3>1, <3>2, <3>3
    <3>5. TypeOK'
      <4>1. written' \in 0..4
        BY <2>1, <2>3, <3>1, <3>2
      <4>2. \A a \in DOMAIN disk' : disk'[a] \in [owner : 1..MaxRuns, files : SUBSET AllFiles]
        BY <3>4 DEF IInv, TypeOK
      <4>3. QED
        BY <2>1, <2>3, <3>4, <4>1, <4>2 DEF IInv, TypeOK, ClientTypeOK
    <3>6. RecordsInv'
      BY <2>1, <2>3 DEF IInv, RecordsInv, Underway, Kept
    <3>7. PastInv'
      BY <2>1, <2>3, <3>4, StillRecorded DEF IInv, PastInv, Kept, Recorded
    <3>8. DirectoryInv'
      <4>1. FilesOf(outcome)' = FilesOf(outcome)
        BY <2>1
      <4>2. disk[attempt].files = {FilesOf(outcome)[i] : i \in 1..written} /\ disk[attempt].owner = run
        BY <2>1 DEF IInv, DirectoryInv
      <4>3. disk'[attempt].files = {FilesOf(outcome)[i] : i \in 1..written'}
        BY <2>3, <3>1, <3>4, <4>2
      <4>4. QED
        BY <2>1, <2>3, <3>1, <3>2, <3>4, <4>1, <4>2, <4>3 DEF DirectoryInv
    <3>9. QED
      BY <3>5, <3>6, <3>7, <3>8 DEF IInv
  <2>4. QED
    BY <1>6, <2>2, <2>3 DEF Write
<1>7. CASE Written /\ UNCHANGED clientVars
  <2>1. /\ pc = "write" /\ pc' = "next" /\ written = Len(FilesOf(outcome))
        /\ UNCHANGED <<run, attempt, feedback, outcome, retryable, written, records, disk, call, api_mode>>
    BY <1>7 DEF Written, clientVars
  <2>2. \A a : Recorded(a)' <=> Recorded(a)
    BY <2>1 DEF Recorded
  <2>3. TypeOK'
    BY <2>1 DEF IInv, TypeOK, ClientTypeOK, Places
  <2>4. RecordsInv' /\ PastInv'
    BY <2>1, <2>2 DEF IInv, RecordsInv, PastInv, Underway, Kept
  <2>5. Recorded(attempt)
    BY <2>1 DEF IInv, TypeOK, Attempts, RecordsInv, DirectoryInv, Kept, Recorded
  <2>6. DirectoryInv'
    BY <2>1, <2>2, <2>5 DEF DirectoryInv
  <2>7. QED
    BY <2>3, <2>4, <2>6 DEF IInv
<1>8. CASE Return /\ UNCHANGED clientVars
  <2>1. /\ pc = "next" /\ pc' = "returned" /\ ~MayRetry
        /\ UNCHANGED <<run, attempt, feedback, outcome, retryable, written, records, disk, call, api_mode>>
    BY <1>8 DEF Return, clientVars
  <2>2. \A a : Recorded(a)' <=> Recorded(a)
    BY <2>1 DEF Recorded
  <2>3. TypeOK'
    BY <2>1 DEF IInv, TypeOK, ClientTypeOK, Places, Ended
  <2>4. RecordsInv' /\ PastInv'
    BY <2>1, <2>2 DEF IInv, RecordsInv, PastInv, Underway, Kept
  <2>5. DirectoryInv'
    BY <2>1, <2>2 DEF IInv, DirectoryInv, MayRetry
  <2>6. QED
    BY <2>3, <2>4, <2>5 DEF IInv
<1>9. CASE Retry /\ UNCHANGED clientVars
  <2>1. /\ pc = "next" /\ MayRetry /\ pc' = "generate"
        /\ attempt' = attempt + 1 /\ feedback' = attempt
        /\ UNCHANGED <<run, outcome, retryable, written, records, disk, call, api_mode>>
    BY <1>9 DEF Retry, clientVars
  <2>2. \A a : Recorded(a)' <=> Recorded(a)
    BY <2>1 DEF Recorded
  <2>3. TypeOK'
    BY <2>1, LoopAssumption DEF IInv, TypeOK, ClientTypeOK, Places, Attempts, MayRetry
  <2>4. RecordsInv'
    BY <2>1 DEF IInv, TypeOK, Attempts, RecordsInv, Underway, Kept
  <2>5. records[attempt] # "success" /\ Recorded(attempt)
    BY <2>1 DEF IInv, RecordsInv, DirectoryInv, MayRetry, Kept
  <2>6. PastInv'
    <3>1. ASSUME NEW a \in 1..attempt
          PROVE  Recorded(a) /\ records[a] # "success"
      <4>1. CASE a = attempt
        BY <2>5, <4>1
      <4>2. CASE a # attempt
        <5>1. a \in 1..(attempt - 1)
          BY <4>2 DEF IInv, TypeOK, Attempts
        <5>2. QED
          BY <2>1, <5>1 DEF IInv, PastInv, Kept
      <4>3. QED
        BY <4>1, <4>2
    <3>2. attempt' - 1 = attempt
      BY <2>1 DEF IInv, TypeOK, Attempts
    <3>3. QED
      BY <2>1, <2>2, <3>1, <3>2 DEF PastInv
  <2>7. DirectoryInv'
    BY <2>1 DEF DirectoryInv
  <2>8. QED
    BY <2>3, <2>4, <2>6, <2>7 DEF IInv
<1>10. CASE Crash
  <2>1. /\ pc' = "crashed" /\ call' = NoCall /\ UNCHANGED api_mode
        /\ UNCHANGED <<run, attempt, feedback, outcome, retryable, written, records, disk>>
    BY <1>10 DEF Crash, Rest
  <2>2. ClientTypeOK'
    BY <2>1, ClientTyped DEF IInv, TypeOK
  <2>3. TypeOK'
    BY <2>1, <2>2 DEF IInv, TypeOK, Places, Ended
  <2>4. RecordsInv' /\ PastInv' /\ DirectoryInv'
    BY <2>1 DEF RecordsInv, PastInv, DirectoryInv, Underway, Kept
  <2>5. QED
    BY <2>3, <2>4 DEF IInv
<1>11. CASE RunAgain
  <2>1. /\ run < MaxRuns /\ run' = run + 1 /\ pc' = "generate" /\ attempt' = 1 /\ feedback' = 0
        /\ outcome' = "none" /\ retryable' = FALSE /\ written' = 0 /\ records' = <<>>
        /\ UNCHANGED <<api_mode, call, disk>>
    BY <1>11 DEF RunAgain, clientVars
  <2>2. records' \in Seq(Outcomes) /\ Len(records') = 0
    BY <2>1, EmptySeq
  <2>3. TypeOK'
    <3>1. run' \in 1..MaxRuns
      BY <2>1, LoopAssumption DEF IInv, TypeOK
    <3>2. 1 \in Attempts /\ 0 \in 0..MaxRetryRounds /\ 0 \in 0..4
      BY LoopAssumption DEF Attempts
    <3>3. ClientTypeOK'
      BY <2>1 DEF IInv, TypeOK, ClientTypeOK
    <3>4. \A a \in DOMAIN disk' : disk'[a] \in [owner : 1..MaxRuns, files : SUBSET AllFiles]
      BY <2>1 DEF IInv, TypeOK
    <3>5. QED
      BY <2>1, <2>2, <3>1, <3>2, <3>3, <3>4 DEF IInv, TypeOK, Places, Attempts
  <2>4. RecordsInv' /\ PastInv' /\ DirectoryInv'
    BY <2>1, <2>2 DEF RecordsInv, PastInv, DirectoryInv, Underway, Kept
  <2>5. QED
    BY <2>3, <2>4 DEF IInv
<1>12. CASE UNCHANGED vars
  <2>1. UNCHANGED <<run, pc, attempt, feedback, outcome, retryable, written, records, disk, api_mode, call>>
    BY <1>12 DEF vars, loopVars, clientVars
  <2>2. \A a : Recorded(a)' <=> Recorded(a)
    BY <2>1 DEF Recorded
  <2>3. TypeOK' /\ RecordsInv' /\ PastInv'
    BY <2>1, <2>2 DEF IInv, TypeOK, ClientTypeOK, RecordsInv, PastInv
  <2>4. DirectoryInv'
    BY <2>1, <2>2 DEF IInv, DirectoryInv, MayRetry
  <2>5. QED
    BY <2>3, <2>4 DEF IInv
<1>13. QED
  BY <1>1, <1>2, <1>3, <1>4, <1>5, <1>6, <1>7, <1>8, <1>9, <1>10, <1>11, <1>12
  DEF Next, Loop, Round

\* So it holds always.
LEMMA Inductive == Spec => []IInv
  BY InitInductive, StepInductive, PTL DEF Spec

-----------------------------------------------------------------------------
\* Loop, client and disk keep their types.
THEOREM TypeCorrect == Spec => []TypeOK
<1>1. IInv => TypeOK
  BY DEF IInv
<1>2. QED
  BY Inductive, <1>1, PTL

\* However often the loop is run over the directory and wherever it crashed,
\* an action is run only when all earlier attempts of the run are on disk with
\* their reflections, the last of which the request carries.
THEOREM RecordsComeFirst == Spec => []RecordsPrecedeRetry
<1>1. ASSUME IInv, pc = "attempt"
      PROVE  RecordsPrecedeRetry
  <2>1. feedback = attempt - 1 /\ pc \in Underway
    BY <1>1 DEF IInv, RecordsInv, Underway
  <2>2. ASSUME NEW a \in 1..(attempt - 1)
        PROVE  Recorded(a) /\ "reflection" \in disk[a].files
    <3>1. Recorded(a) /\ records[a] # "success"
      BY <1>1, <2>1, <2>2 DEF IInv, PastInv
    <3>2. records[a] \in Outcomes
      BY <1>1, <3>1, ElementOfSeq DEF IInv, TypeOK, Recorded
    <3>3. QED
      BY <3>1, <3>2, Files DEF Recorded
  <2>3. QED
    BY <2>1, <2>2 DEF RecordsPrecedeRetry
<1>2. IInv => RecordsPrecedeRetry
  BY <1>1 DEF RecordsPrecedeRetry
<1>3. QED
  BY Inductive, <1>2, PTL

\* A run that returns has all its attempts on disk, and gave up only for one of
\* its reasons, for every budget of rounds.
THEOREM ReturnedRunsAreRecorded == Spec => []ReturnedIsRecorded
<1>1. ASSUME IInv, pc = "returned"
      PROVE  ReturnedIsRecorded
  <2>1. /\ Len(records) = attempt /\ records[attempt] = outcome
        /\ Recorded(attempt) /\ ~MayRetry
        /\ \A a \in 1..(attempt - 1) : Recorded(a) /\ records[a] # "success"
        /\ attempt \in 1..(MaxRetryRounds + 1)
    BY <1>1 DEF IInv, TypeOK, Attempts, RecordsInv, PastInv, DirectoryInv, Kept
  <2>2. \A a \in 1..attempt : Recorded(a)
    <3>1. \A a \in 1..attempt : a = attempt \/ a \in 1..(attempt - 1)
      BY <2>1
    <3>2. QED
      BY <2>1, <3>1
  <2>3. records[attempt] = "success" \/ attempt = MaxRetryRounds + 1 \/ ~retryable
    BY <2>1, LoopAssumption DEF MayRetry
  <2>4. QED
    BY <2>1, <2>2, <2>3 DEF ReturnedIsRecorded
<1>2. IInv => ReturnedIsRecorded
  BY <1>1 DEF ReturnedIsRecorded
<1>3. QED
  BY Inductive, <1>2, PTL

\* No step of any run, crash or rerun changes the directory of an earlier run.
THEOREM EarlierRunsAreKept == Spec => DirectoriesAreKept
<1> DEFINE Kept1 == \A a \in DOMAIN disk :
                      /\ a \in DOMAIN disk'
                      /\ disk'[a].owner = disk[a].owner
                      /\ disk'[a] # disk[a] => disk[a].owner = run
<1>1. IInv /\ [Next]_vars => [Kept1]_vars
  <2> SUFFICES ASSUME IInv, Next
               PROVE  Kept1
    BY DEF vars
  <2>1. CASE UNCHANGED disk
    BY <2>1
  <2>2. CASE MakeDirectory
    BY <2>1, <2>2 DEF MakeDirectory
  <2>3. CASE Write
    <3>1. attempt \in DOMAIN disk /\ disk[attempt].owner = run
      BY <2>3 DEF Write, IInv, DirectoryInv
    <3>2. CASE disk' = [disk EXCEPT ![attempt].files = @ \cup {FilesOf(outcome)[written + 1]}]
      <4>1. disk[attempt] \in [owner : 1..MaxRuns, files : SUBSET AllFiles]
        BY <3>1 DEF IInv, TypeOK
      <4>2. disk'[attempt].owner = disk[attempt].owner
        BY <3>1, <3>2, <4>1
      <4>3. DOMAIN disk' = DOMAIN disk /\ \A a \in DOMAIN disk : a # attempt => disk'[a] = disk[a]
        BY <3>2
      <4>4. QED
        BY <3>1, <4>2, <4>3
    <3>3. QED
      BY <2>1, <2>3, <3>2 DEF Write
  <2>4. QED
    BY <2>1, <2>2, <2>3
    DEF Next, Loop, Round, Generate, Ask, Generated, Rest, loopVars, Validate, RunAttempt, Reflect,
        Written, Return, Retry, Crash, RunAgain
<1>2. QED
  BY Inductive, <1>1, PTL DEF Spec, DirectoriesAreKept

-----------------------------------------------------------------------------
\* Adaptation

\* The advised duration fits the window, and a plan that follows the advice
\* has it, until the next reflection.
AdviceInv ==
  /\ advice.field = "duration" => advice.value \in 0..window
  /\ followed /\ advice.field = "duration" /\ pc \in {"validate", "attempt", "reflect"}
       => plan.duration = advice.value

AdaptInv == AdaptTypeOK /\ AdviceInv

-----------------------------------------------------------------------------
\* The greater of two numbers, as the community module defines it.
LEMMA MaxOfTwo ==
  ASSUME NEW i \in Nat, NEW j \in Nat
  PROVE  Max({i, j}) = IF i >= j THEN i ELSE j
<1>1. Max({i, j}) = CHOOSE x \in {i, j} : \A y \in {i, j} : x >= y
  BY DEF Max
<1>2. \E x \in {i, j} : \A y \in {i, j} : x >= y
  OBVIOUS
<1>3. Max({i, j}) \in {i, j} /\ \A y \in {i, j} : Max({i, j}) >= y
  BY <1>1, <1>2
<1>4. QED
  BY <1>3

\* The smaller of two numbers, as the community module defines it.
LEMMA MinOfTwo ==
  ASSUME NEW i \in Nat, NEW j \in Nat
  PROVE  Min({i, j}) = IF i <= j THEN i ELSE j
<1>1. Min({i, j}) = CHOOSE x \in {i, j} : \A y \in {i, j} : x <= y
  BY DEF Min
<1>2. \E x \in {i, j} : \A y \in {i, j} : x <= y
  OBVIOUS
<1>3. Min({i, j}) \in {i, j} /\ \A y \in {i, j} : Min({i, j}) <= y
  BY <1>1, <1>2
<1>4. QED
  BY <1>3

\* The longer duration is one that the window has room for, and longer than
\* the plan's unless the plan fills the window.
LEMMA LongerFits ==
  ASSUME AdaptTypeOK
  PROVE  /\ Longer.field = "duration"
         /\ Longer.value \in 0..window
         /\ plan.duration <= window =>
              Longer.value > plan.duration \/ (Longer.value = plan.duration /\ plan.duration = window)
<1>1. window \in Nat \ {0} /\ plan.duration \in Nat
  BY AdaptationAssumption DEF AdaptTypeOK, Plan
<1>2. Min({plan.duration + 5, window}) = IF plan.duration + 5 <= window THEN plan.duration + 5 ELSE window
  BY <1>1, MinOfTwo
<1> DEFINE least == Min({plan.duration + 5, window})
<1>3. least \in Nat \ {0} /\ least <= window
  BY <1>1, <1>2
<1>4. Max({1, least}) = least
  BY <1>3, MaxOfTwo
<1>5. Longer = [field |-> "duration", value |-> least]
  BY <1>4 DEF Longer, Change
<1>6. QED
  BY <1>1, <1>2, <1>3, <1>5

\* What the reflector recommends is a change that can be followed; a duration
\* that it recommends fits the window.
LEMMA RecommendFits ==
  ASSUME AdaptTypeOK, NEW required \in Nat
  PROVE  /\ Recommend(required) \in [field : {"none", "duration", "size", "holder"}, value : Nat]
         /\ Recommend(required).field = "duration" =>
              /\ Recommend(required).value \in 0..window
              /\ plan.duration <= window =>
                   \/ Recommend(required).value > plan.duration
                   \/ Recommend(required).value = plan.duration /\ plan.duration = window
<1>1. window \in Nat /\ plan.duration \in Nat /\ plan.size \in Nat /\ plan.holder \in Nat
  BY AdaptationAssumption DEF AdaptTypeOK, Plan
<1>2. Max({plan.size + 1, required}) \in Nat
  BY <1>1, MaxOfTwo
<1>3. Longer = [field |-> "duration", value |-> Longer.value] /\ Longer.value \in 0..window
  BY LongerFits DEF Longer, Change
<1>4. Recommend(required) \in
        {Regenerate, Change("size", Max({plan.size + 1, required})), Change("holder", plan.holder + 5), Longer}
        \/ (TooLong /\ Recommend(required) = Change("duration", window))
  BY DEF Recommend
<1>5. CASE Recommend(required) \in
        {Regenerate, Change("size", Max({plan.size + 1, required})), Change("holder", plan.holder + 5)}
  BY <1>1, <1>2, <1>5 DEF Regenerate, Change
<1>6. CASE Recommend(required) = Longer
  BY <1>1, <1>3, <1>6, LongerFits
<1>7. CASE TooLong /\ Recommend(required) = Change("duration", window)
  BY <1>1, <1>7 DEF TooLong, Change
<1>8. QED
  BY <1>4, <1>5, <1>6, <1>7

-----------------------------------------------------------------------------
\* Plans and advice do not interfere with the loop.
LEMMA StepIsLoopStep == [AdaptNext]_allVars => [Next]_vars
  BY DEF AdaptNext, AdaptLoop, Propose, Admit, Attempt, Advise, Keep, StartOver, Next, Loop, Round, allVars

\* Every behaviour with plans and advice is one of ReflectionLoop: the numbers
\* of the plans only choose among what the loop may do anyway.
THEOREM ImplementsLoop == AdaptSpec => Spec
<1>1. AdaptInit => Init
  BY DEF AdaptInit
<1>2. QED
  BY <1>1, StepIsLoopStep, PTL DEF AdaptSpec, Spec

\* The invariants of the loop hold with plans and advice too.
LEMMA LoopInvariant == AdaptSpec => []IInv
<1>1. AdaptSpec => Spec
  BY ImplementsLoop
<1>2. QED
  BY <1>1, Inductive, PTL

\* A plan that follows a change is a plan, with the value advised.
LEMMA FollowingIsAPlan ==
  ASSUME AdaptTypeOK, NEW p \in Following
  PROVE  /\ p \in Plan
         /\ advice.field = "duration" => p.duration = advice.value
<1>1. /\ advice.field \in {"duration", "size", "holder"} /\ advice.value \in Nat
      /\ p = [plan EXCEPT ![advice.field] = advice.value]
      /\ plan \in [type : Types, duration : Nat, size : Nat, holder : Nat]
  BY DEF Following, AdaptTypeOK, Plan
<1>2. CASE advice.field = "duration"
  BY <1>1, <1>2 DEF Plan
<1>3. CASE advice.field = "size"
  BY <1>1, <1>3 DEF Plan
<1>4. CASE advice.field = "holder"
  BY <1>1, <1>4 DEF Plan
<1>5. QED
  BY <1>1, <1>2, <1>3, <1>4

\* The invariant of plan and advice holds at first.
LEMMA AdaptInitInductive == AdaptInit => AdaptInv
<1> SUFFICES ASSUME AdaptInit
             PROVE  AdaptInv
  OBVIOUS
<1>1. TypeOK
  BY InitInductive DEF AdaptInit, IInv
<1>2. /\ window \in Windows /\ plan = NoPlan /\ missed = {} /\ advice = Regenerate /\ followed = FALSE
  BY DEF AdaptInit
<1>3. plan \in Plan /\ advice \in [field : {"none", "duration", "size", "holder"}, value : Nat]
  BY <1>2 DEF NoPlan, Plan, Types, Regenerate, Change
<1>4. AdviceInv
  BY <1>2 DEF AdviceInv, Regenerate, Change
<1>5. followed \in BOOLEAN
  BY <1>2
<1>6. QED
  BY <1>1, <1>2, <1>3, <1>4, <1>5 DEF AdaptInv, AdaptTypeOK

\* Every step keeps it, given that the loop keeps its own types.
LEMMA AdaptStepInductive == AdaptInv /\ TypeOK' /\ [AdaptNext]_allVars => AdaptInv'
<1> SUFFICES ASSUME AdaptInv, TypeOK', [AdaptNext]_allVars
             PROVE  AdaptInv'
  OBVIOUS
<1>1. AdaptTypeOK /\ AdviceInv
  BY DEF AdaptInv
<1>2. CASE Propose
  <2>1. UNCHANGED <<window, missed, advice>> /\ pc = "asking"
    BY <1>2 DEF Propose, Generated
  <2>2. CASE pc' # "validate" /\ UNCHANGED <<plan, followed>>
    <3>1. pc' = "raised"
      BY <1>2, <2>2 DEF Propose, Generated
    <3>2. AdaptTypeOK' /\ AdviceInv'
      BY <1>1, <2>1, <2>2, <3>1 DEF AdaptTypeOK, AdviceInv
    <3>3. QED
      BY <3>2 DEF AdaptInv
  <2>3. CASE plan' \in Following /\ followed' = TRUE
    <3>1. plan' \in Plan /\ (advice.field = "duration" => plan'.duration = advice.value)
      BY <1>1, <2>3, FollowingIsAPlan
    <3>2. AdaptTypeOK'
      BY <1>1, <2>1, <2>3, <3>1 DEF AdaptTypeOK
    <3>3. AdviceInv'
      BY <1>1, <2>1, <3>1 DEF AdviceInv
    <3>4. QED
      BY <3>2, <3>3 DEF AdaptInv
  <2>4. CASE plan' \in Fresh /\ followed' = FALSE
    <3>1. AdaptTypeOK'
      BY <1>1, <2>1, <2>4, AdaptationAssumption DEF AdaptTypeOK
    <3>2. AdviceInv'
      BY <1>1, <2>1, <2>4 DEF AdviceInv
    <3>3. QED
      BY <3>1, <3>2 DEF AdaptInv
  <2>5. QED
    BY <1>2, <2>2, <2>3, <2>4 DEF Propose
<1>3. CASE Advise
  <2>1. PICK required \in Required : advice' = Recommend(required)
    BY <1>3 DEF Advise
  <2>2. required \in Nat
    BY AdaptationAssumption
  <2>3. missed' = {} /\ UNCHANGED <<window, plan, followed>> /\ pc' = "directory"
    BY <1>3 DEF Advise, Reflect
  <2>4. /\ advice' \in [field : {"none", "duration", "size", "holder"}, value : Nat]
        /\ advice'.field = "duration" => advice'.value \in 0..window
    BY <1>1, <2>1, <2>2, RecommendFits
  <2>5. AdaptTypeOK'
    BY <1>1, <2>3, <2>4 DEF AdaptTypeOK
  <2>6. AdviceInv'
    BY <2>3, <2>4 DEF AdviceInv
  <2>7. QED
    BY <2>5, <2>6 DEF AdaptInv
<1>4. CASE Attempt
  <2>1. /\ UNCHANGED <<window, plan, advice, followed>> /\ missed' \subseteq {"lock", "slow_query"}
        /\ pc = "attempt"
    BY <1>4 DEF Attempt, RunAttempt
  <2>2. AdaptTypeOK' /\ AdviceInv'
    BY <1>1, <2>1 DEF AdaptTypeOK, AdviceInv
  <2>3. QED
    BY <2>2 DEF AdaptInv
<1>5. CASE StartOver
  <2>1. /\ plan' = NoPlan /\ missed' = {} /\ advice' = Regenerate /\ followed' = FALSE
        /\ UNCHANGED window
    BY <1>5 DEF StartOver
  <2>2. plan' \in Plan /\ advice' \in [field : {"none", "duration", "size", "holder"}, value : Nat]
    BY <2>1 DEF NoPlan, Plan, Types, Regenerate, Change
  <2>3. followed' \in BOOLEAN /\ window' \in Windows /\ missed' \subseteq {"lock", "slow_query"}
    BY <1>1, <2>1 DEF AdaptTypeOK
  <2>4. AdviceInv'
    BY <2>1 DEF AdviceInv, Regenerate, Change
  <2>5. QED
    BY <2>2, <2>3, <2>4 DEF AdaptInv, AdaptTypeOK
<1>6. CASE /\ UNCHANGED adaptVars
           /\ pc' \in {"validate", "attempt", "reflect"} => pc \in {"validate", "attempt", "reflect"}
  BY <1>1, <1>6 DEF AdaptInv, AdaptTypeOK, AdviceInv, adaptVars
<1>7. CASE \/ (Generate \/ Ask) /\ UNCHANGED adaptVars
           \/ Admit
           \/ Keep /\ UNCHANGED adaptVars
           \/ Crash /\ UNCHANGED adaptVars
           \/ UNCHANGED allVars
  <2>1. /\ UNCHANGED adaptVars
        /\ pc' \in {"validate", "attempt", "reflect"} => pc \in {"validate", "attempt", "reflect"}
    BY <1>7 DEF Generate, Ask, loopVars, Admit, Validate, Keep, MakeDirectory, Write, Written, Return,
                Retry, Crash, allVars, vars
  <2>2. QED
    BY <1>6, <2>1
<1>8. QED
  BY <1>2, <1>3, <1>4, <1>5, <1>7 DEF AdaptNext, AdaptLoop

\* So it holds always.
LEMMA AdaptInductive == AdaptSpec => []AdaptInv
<1>1. IInv => TypeOK
  BY DEF IInv
<1>2. QED
  BY <1>1, LoopInvariant, AdaptInitInductive, AdaptStepInductive, PTL DEF AdaptSpec

-----------------------------------------------------------------------------
\* Plan and advice keep their types: what the reflector recommends can always
\* be put into a plan.
THEOREM AdaptTypeCorrect == AdaptSpec => []AdaptTypeOK
<1>1. AdaptInv => AdaptTypeOK
  BY DEF AdaptInv
<1>2. QED
  BY AdaptInductive, <1>1, PTL

\* For every window, demand and limit, a plan that follows an advised duration
\* is not told to shorten it, and stays within the window.
THEOREM AdviceProgresses == AdaptSpec => AdviceMakesProgress
<1> DEFINE advised == followed /\ advice.field = "duration"
           Told    == pc = "reflect" /\ pc' = "directory" /\ advised /\ advice'.field = "duration"
           Step    == /\ Told => \/ advice'.value > plan.duration
                                 \/ advice'.value = plan.duration /\ plan.duration = window
                      /\ pc = "validate" /\ pc' # "crashed" /\ advised
                           => plan.duration <= window /\ (window <= MaxDuration => plan.duration <= MaxDuration)
<1>1. AdaptInv /\ [AdaptNext]_allVars => [Step]_allVars
  <2> SUFFICES ASSUME AdaptInv, AdaptNext
               PROVE  Step
    OBVIOUS
  <2>1. AdaptTypeOK /\ AdviceInv
    BY DEF AdaptInv
  <2>2. window \in Nat /\ plan.duration \in Nat /\ MaxDuration \in Nat
    BY <2>1, AdaptationAssumption DEF AdaptTypeOK, Plan
  <2>3. advised /\ pc \in {"validate", "reflect"} => plan.duration <= window
    BY <2>1, <2>2 DEF AdviceInv
  <2>4. Told => Advise
    BY DEF AdaptNext, AdaptLoop, Propose, Generated, Generate, Ask, loopVars, Admit, Validate, Attempt,
           RunAttempt, Keep, MakeDirectory, Write, Written, Return, Retry, Crash, StartOver, RunAgain
  <2>5. ASSUME Told
        PROVE  advice'.value > plan.duration \/ (advice'.value = plan.duration /\ plan.duration = window)
    <3>1. PICK required \in Required : advice' = Recommend(required)
      BY <2>4, <2>5 DEF Advise
    <3>2. required \in Nat
      BY AdaptationAssumption
    <3>3. QED
      BY <2>1, <2>3, <2>5, <3>1, <3>2, RecommendFits
  <2>6. QED
    BY <2>2, <2>3, <2>5
<1>2. QED
  BY AdaptInductive, <1>1, PTL DEF AdaptSpec, AdviceMakesProgress
==============================================================================
