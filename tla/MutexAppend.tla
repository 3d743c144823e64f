------------------------------ MODULE MutexAppend ------------------------------
(***************************************************************************)
(* Goroutines of a fan-out that append to one slice under a mutex.         *)
(*                                                                         *)
(* An append is not one step: a goroutine reads the slice and then writes  *)
(* the one that has grown.  The mutex is what keeps another from reading   *)
(* in between.                                                             *)
(***************************************************************************)
EXTENDS FanOut

VARIABLES at,       \* where each goroutine is
          holder,   \* the goroutine that has the mutex, or Nobody
          slice,    \* what a goroutine between its two steps has read
          results   \* the slice they append to

appendVars == <<at, holder, slice, results>>

Nobody == 0

AppendInit ==
    /\ FanOutInit
    /\ at = <<>>
    /\ holder = Nobody
    /\ slice = <<>>
    /\ results = <<>>

AppendTypeOK(Places, Entries) ==
    /\ at \in Seq(Places \cup {"lock", "append", "done"})
    /\ holder \in DOMAIN listed \cup {Nobody}
    /\ slice \in Seq(Seq(Entries))
    /\ results \in Seq(Entries)

SpawnAt(first) ==
    /\ Spawn
    /\ at' = [i \in DOMAIN listed' |-> first]
    /\ slice' = [i \in DOMAIN listed' |-> <<>>]
    /\ UNCHANGED <<holder, results>>

GoTo(i, place) == at' = [at EXCEPT ![i] = place]

(* The goroutine returns, and its deferred call is wg.Done. *)
Return(i) == GoTo(i, "done") /\ Done(i)

Mutant_NoLock(i) ==
    /\ Running(i) /\ at[i] = "lock"
    /\ holder' = i
    /\ slice' = [slice EXCEPT ![i] = results]
    /\ GoTo(i, "append")
    /\ UNCHANGED <<fanOutVars, results>>

(* Lock, and the first half of the append. *)
Lock(i) ==
    /\ Running(i) /\ at[i] = "lock"
    /\ holder = Nobody
    /\ holder' = i
    /\ slice' = [slice EXCEPT ![i] = results]
    /\ GoTo(i, "append")
    /\ UNCHANGED <<fanOutVars, results>>

Mutant_StoreKeepsLock(i, entry) ==
    /\ Running(i) /\ at[i] = "append"
    /\ results' = Append(slice[i], entry)
    /\ slice' = [slice EXCEPT ![i] = <<>>]
    /\ UNCHANGED holder

(* The second half, and Unlock. *)
Store(i, entry) ==
    /\ Running(i) /\ at[i] = "append"
    /\ results' = Append(slice[i], entry)
    /\ slice' = [slice EXCEPT ![i] = <<>>]
    /\ holder' = Nobody

(* Nothing that was to be appended is lost or doubled. *)
Holds(s, entries) == NoRepeats(s) /\ {s[i] : i \in DOMAIN s} = entries
=============================================================================
