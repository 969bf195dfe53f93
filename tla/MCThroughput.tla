------------------------------ MODULE MCThroughput ------------------------------
(***************************************************************************)
(* Throughput with ticks that are usual, read from disk, slow and read     *)
(* from disk, or idle.  A tick that reads from disk and asks half as much  *)
(* misses twice the share of pages, but no more of them: that it finds     *)
(* pressure on the buffer pool takes a slow probe.                         *)
(***************************************************************************)
EXTENDS Throughput

FewKinds == {[asked |-> 2, missed |-> 0], [asked |-> 2, missed |-> 1],
             [asked |-> 1, missed |-> 1], [asked |-> 0, missed |-> 0]}
=================================================================================
