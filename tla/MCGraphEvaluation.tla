--------------------------- MODULE MCGraphEvaluation ---------------------------
(***************************************************************************)
(* GraphEvaluation on all graphs over three nodes and an unknown name.     *)
(***************************************************************************)
EXTENDS GraphEvaluation

\* A window that allows a lag of 0, and one that asks for a lag.
LagWindows == {<<0, 1>>, <<1, 1>>}
=============================================================================
