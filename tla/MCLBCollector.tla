----------------------------- MODULE MCLBCollector -----------------------------
(* Symmetry of the TLC runs of LBCollector. *)
EXTENDS LBCollector, TLC

MCSymmetry ==
    Permutations(Services) \cup Permutations(Pools) \cup Permutations(VirtualServers)
=============================================================================
