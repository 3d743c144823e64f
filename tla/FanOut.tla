-------------------------------- MODULE FanOut --------------------------------
(***************************************************************************)
(* What the extended collectors share: a walk over the pages of a listing, *)
(* one goroutine for each item listed, and a WaitGroup to join them.       *)
(*                                                                         *)
(* One call of one collector is modelled.  Nothing that a call reads was   *)
(* left by an earlier one, so a behaviour starts where a call does.  The   *)
(* listing may change while it is walked: the pages are any sequences of   *)
(* items, and an item that moves from one page to the next is listed twice.*)
(***************************************************************************)
EXTENDS Naturals, Sequences

CONSTANTS MaxPage,    \* bound: items of a page
          MaxListed   \* bound: items of a listing

ASSUME FanOutAssumption == MaxPage \in Nat /\ MaxListed \in Nat

VARIABLES call,     \* where the collector is, or how it returned
          listed,   \* the items of the listing so far
          walks,    \* how the walks that have ended did
          pending   \* the WaitGroup: goroutines that have not called Done

fanOutVars == <<call, listed, walks, pending>>

Ended == {"returned", "failed"}

FanOutInit ==
    /\ call = "listing"
    /\ listed = <<>>
    /\ walks = <<>>
    /\ pending = {}

FanOutTypeOK(Items) ==
    /\ call \in {"listing", "policies", "fetching", "merging"} \cup Ended
    /\ listed \in Seq(Items)
    /\ walks \in Seq({"complete", "broken"})
    /\ pending \subseteq DOMAIN listed

PagesOf(Items) == UNION {[1..n -> Items] : n \in 0..MaxPage}

Paged(page) ==
    /\ Len(listed) + Len(page) <= MaxListed
    /\ listed' = listed \o page

(* A page that names a cursor, so that another request follows. *)
MidPage(page) ==
    /\ page # <<>>
    /\ Paged(page)
    /\ UNCHANGED <<call, walks, pending>>

(* The page without a cursor, which ends the walk. *)
LastPage(page) ==
    /\ Paged(page)
    /\ walks' = Append(walks, "complete")

(* The request of some page fails and the lister returns nil and the error, *)
(* whatever the pages before it listed.                                     *)
BrokenWalk ==
    /\ listed' = <<>>
    /\ walks' = Append(walks, "broken")

(* Of a collector whose listing is all it cannot do without: return err. *)
ListingFails ==
    /\ call = "listing"
    /\ BrokenWalk
    /\ call' = "failed"
    /\ UNCHANGED pending

(* One goroutine for each item, or nothing to do. *)
Spawn ==
    /\ pending' = DOMAIN listed'
    /\ call' = IF listed' = <<>> THEN "returned" ELSE "fetching"

Running(i) == call = "fetching" /\ i \in pending

Done(i) == pending' = pending \ {i}

(* wg.Wait returns. *)
Joined == call = "fetching" /\ pending = {}

(* No item was listed twice. *)
NoRepeats(s) == \A i, j \in DOMAIN s : s[i] = s[j] => i = j
=============================================================================
