---------------------------- MODULE CollectorCycle ----------------------------
(***************************************************************************)
(* What the background collector promises to the rest of the exporter.     *)
(* Cycles run one at a time.  A cycle either replaces the published        *)
(* snapshot by a complete one of its own, or is abandoned and leaves the   *)
(* snapshot as it was ("in case of error, keep the previously acquired     *)
(* data", exporter/prometheus.go:26).                                      *)
(*                                                                         *)
(* A snapshot is complete when it describes some set of management nodes,  *)
(* every core endpoint and both firewall endpoints of each node; the       *)
(* sections of the best-effort collectors may be missing from it.          *)
(***************************************************************************)
EXTENDS Naturals

CONSTANTS Nodes,        \* the management nodes that may be in the cluster
          Sections,     \* the best-effort collectors that are enabled
          MaxCycles     \* bound on the number of cycles

VARIABLES cycle,        \* number of cycles begun
          running,      \* is a cycle under way?
          snapshot      \* the published snapshot

vars == <<cycle, running, snapshot>>

NoSnapshot == [cycle |-> 0, nodes |-> {}, sections |-> {}]

CompleteSnapshots(c) ==
    [cycle : {c}, nodes : SUBSET Nodes, sections : SUBSET Sections]

Init == cycle = 0 /\ running = FALSE /\ snapshot = NoSnapshot

Begin ==
    /\ ~running
    /\ cycle < MaxCycles
    /\ cycle' = cycle + 1
    /\ running' = TRUE
    /\ UNCHANGED snapshot

Publish ==
    /\ running
    /\ snapshot' \in CompleteSnapshots(cycle)
    /\ running' = FALSE
    /\ UNCHANGED cycle

Abandon ==
    /\ running
    /\ running' = FALSE
    /\ UNCHANGED <<cycle, snapshot>>

Next == Begin \/ Publish \/ Abandon

Spec == Init /\ [][Next]_vars
=============================================================================
