------------------------------- MODULE MCGather -------------------------------
(* Constants of the TLC runs of Gather. *)
EXTENDS Gather

MCCollectors == <<"EdgeNodes", "LB">>
=============================================================================
