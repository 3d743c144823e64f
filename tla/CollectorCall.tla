----------------------------- MODULE CollectorCall -----------------------------
(***************************************************************************)
(* What runExtendedCollectors relies on in each collector it calls, and so *)
(* what RunCollector of module Gather takes for granted: a collector that  *)
(* fails has added nothing to the data ("a failure logs but does not abort *)
(* the whole scrape", gather.go:569), and one that has ended, either way,  *)
(* never touches the data again.                                           *)
(***************************************************************************)
CONSTANT Blank      \* the sections as the waves have left them

VARIABLES outcome,  \* "running", "returned" or "failed"
          sections  \* the sections of the data that collectors fill

vars == <<outcome, sections>>

Init == outcome = "running" /\ sections \in Blank

(* A collector may fill its section in several steps, and return. *)
Fill ==
    /\ outcome = "running"
    /\ outcome' \in {"running", "returned"}

Fail ==
    /\ outcome = "running"
    /\ sections \in Blank
    /\ outcome' = "failed"
    /\ UNCHANGED sections

Next == Fill \/ Fail

Spec == Init /\ [][Next]_vars
=============================================================================
