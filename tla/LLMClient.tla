-------------------------------- MODULE LLMClient --------------------------------
(***************************************************************************)
(* OpenAICompatibleClient.generate_action: a request to the Responses      *)
(* endpoint or to Chat Completions, repeated while nobody answers, and the *)
(* fall-back from the one to the other where the service does not have it. *)
(***************************************************************************)
EXTENDS Naturals

CONSTANT MaxRetries    \* max_retries of the client's configuration
ASSUME ClientAssumption == MaxRetries \in Nat

VARIABLES
  api_mode,  \* the configured mode
  call       \* the call under way: its endpoint, the retries so far, its result

clientVars == <<api_mode, call>>

Endpoints == {"responses", "chat_completions"}
Results   == {"idle", "pending", "object", "error"}
NoCall    == [endpoint |-> "responses", retries |-> 0, result |-> "idle"]

ClientInit == api_mode \in Endpoints /\ call = NoCall

GenerateAction ==
  /\ call' = [endpoint |-> api_mode, retries |-> 0, result |-> "pending"]
  /\ UNCHANGED api_mode

Pending == call.result = "pending" /\ UNCHANGED api_mode

\* A time-out or no connection: the same endpoint again, within the budget.
NoResponse ==
  /\ Pending
  /\ call' = IF call.retries < MaxRetries
             THEN [call EXCEPT !.retries = @ + 1]
             ELSE [call EXCEPT !.result = "error"]

\* Variant: each endpoint falls back to the other one.
UnsupportedBothWays ==
  /\ Pending
  /\ \E endpoint \in Endpoints \ {call.endpoint} :
       call' = [endpoint |-> endpoint, retries |-> 0, result |-> "pending"]

\* The service says that it has no such endpoint; Chat Completions is asked
\* with a budget of its own.
Unsupported ==
  /\ Pending
  /\ call' = IF call.endpoint = "responses"
             THEN [endpoint |-> "chat_completions", retries |-> 0, result |-> "pending"]
             ELSE [call EXCEPT !.result = "error"]

\* Any other error, or an answer without a JSON object, ends the call.
Answer ==
  /\ Pending
  /\ \E result \in {"object", "error"} : call' = [call EXCEPT !.result = result]

Request == NoResponse \/ Unsupported \/ Answer

ClientTypeOK ==
  /\ api_mode \in Endpoints
  /\ call \in [endpoint : Endpoints, retries : 0..MaxRetries, result : Results]
=============================================================================
