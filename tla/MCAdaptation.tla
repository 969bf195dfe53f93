------------------------------ MODULE MCAdaptation ------------------------------
(***************************************************************************)
(* Adaptation with a plan of each kind, and of each kind of outcome.       *)
(***************************************************************************)
EXTENDS Adaptation

Plans(type, durations, size, holder) ==
  {[type |-> type, duration |-> d, size |-> size, holder |-> holder] : d \in durations}

APlanOfEach ==
  Plans("sql", {3, 12}, 1, 0) \cup Plans("transaction", {12}, 2, 5)
    \cup Plans("benchbase", {12}, 4, 0) \cup Plans("chaosblade", {20}, 0, 0)
=================================================================================
