------------------------------ MODULE MCApiClient ------------------------------
(* Constants of the TLC runs of ApiClient. *)
EXTENDS ApiClient

(* The extended collectors: one session for all. *)
OneSession == [c \in Workers \cup {Lister} |-> "shared"]

(* A wave: every goroutine has a copy of the client. *)
OwnSession == [c \in Workers |-> c]
=============================================================================
