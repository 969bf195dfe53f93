-------------------------------- MODULE Custody --------------------------------
(***************************************************************************)
(* What a runner promises about the workloads it starts.  It takes hold of *)
(* them while it runs, one of each role at a time, each may end by itself  *)
(* at any time, the runner starts nothing once it has ended, and it ends   *)
(* clean only when it holds nothing.  A workload slips out of its hands    *)
(* only when one is started: the new one, of which the runner was not      *)
(* told, or, if the roles share an executor, the one of the other role.    *)
(* Nothing slips away when the runner cleans up, or when it ends.          *)
(***************************************************************************)

VARIABLES
  shared,   \* the two roles share one executor
  held,     \* the workloads that run and that the runner can stop
  slipped,  \* the workloads that run and that it cannot stop any more
  ended     \* "no"; then "clean", or "unclean" when it may hold something

vars == <<shared, held, slipped, ended>>

Role(w) == w[1]

Init == shared \in BOOLEAN /\ held = {} /\ slipped = {} /\ ended = "no"

Acquire ==
  /\ ended = "no"
  /\ \E w \in held' \ (held \cup slipped) :
       /\ held' \ {w} \subseteq held
       /\ \A other \in held : Role(other) # Role(w) /\ (other \in held' \/ shared)
  /\ slipped' = slipped \cup (held \ held')
  /\ UNCHANGED <<shared, ended>>

AcquireUntold ==
  /\ ended = "no"
  /\ \E w \in slipped' : w \notin held /\ slipped' = slipped \cup {w}
  /\ UNCHANGED <<shared, held, ended>>

\* A workload ends, by itself or because the runner stops it.
Drop ==
  /\ \E w \in held \cup slipped : held' = held \ {w} /\ slipped' = slipped \ {w}
  /\ UNCHANGED <<shared, ended>>

\* The last workload may be dropped in the very step that ends the run.
EndClean   == ended = "no" /\ ended' = "clean" /\ held' = {} /\ UNCHANGED <<shared, slipped>>
EndUnclean ==
  /\ ended = "no"
  /\ ended' = "unclean"
  /\ held' \subseteq held
  /\ UNCHANGED <<shared, slipped>>

Next == Acquire \/ AcquireUntold \/ Drop \/ EndClean \/ EndUnclean

Spec == Init /\ [][Next]_vars
=============================================================================
