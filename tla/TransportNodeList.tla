--------------------------- MODULE TransportNodeList ---------------------------
(* listTransportNodes, which the collectors of edge nodes, tunnels and node *)
(* names share.                                                             *)
EXTENDS FanOut

CONSTANT Nodes   \* transport nodes

(* A node is kept if it has the type asked for. *)
Keep(kept, n, type) == IF n \in type THEN Append(kept, n) ELSE kept

Mutant_AnyType(page, type) == page

(* The loop over the nodes of a page. *)
OfType(page, type) ==
    LET kept[k \in 0..Len(page)] ==
          IF k = 0 THEN <<>> ELSE Keep(kept[k - 1], page[k], type)
    IN  kept[Len(page)]
=============================================================================
