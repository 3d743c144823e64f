------------------------------ MODULE MCExporter ------------------------------
(* Constants of the TLC run of Exporter. *)
EXTENDS Exporter

MCCollectors == <<"EdgeNodes">>

(* Of the node list the slice header: the pointer and the length, the two  *)
(* words that a range over it reads.                                       *)
MCPartsOf == [nodes |-> {"pointer", "length"}, pages |-> {"value"}, sections |-> {"pointer"},
              extracted |-> {"value"}, fetchedAt |-> {"value"}]

(* In the order of processMetrics: the time of the fetch, the node list,   *)
(* what a collector found.                                                 *)
MCReadOrder ==
    <<[field |-> <<"fetchedAt">>, part |-> "value"],
      [field |-> <<"nodes">>, part |-> "pointer"],
      [field |-> <<"nodes">>, part |-> "length"],
      [field |-> <<"sections", "EdgeNodes">>, part |-> "pointer"]>>
=============================================================================
