---------------------------- MODULE IPPoolCollector ----------------------------
(* collectIPPools: the pools of the management plane, whose list has their  *)
(* usage, and those of policy, with a goroutine each to read it.  Either    *)
(* source may fail without the other.                                       *)
EXTENDS MutexAppend

CONSTANTS IPPoolIDs,
          ShadowPools   \* those that isInventoryShadowPool knows by prefix

VARIABLES mpPools,      \* mpPools
          used,         \* the entries of policy pools whose usage was read
          IPPools       \* data.IPPools

ipPoolVars == <<appendVars, mpPools, used, IPPools>>

(* An entry, known by its place in the list of its source. *)
PoolEntry(source, i) == [Source |-> source, place |-> i]

PoolInit ==
    /\ AppendInit
    /\ mpPools = <<>>
    /\ used = {}
    /\ IPPools = <<>>

MPListingEnds(walk, pools) ==
    /\ walks' = Append(walks, walk)
    /\ mpPools' = pools
    /\ listed' = <<>>
    /\ call' = "policies"
    /\ UNCHANGED <<pending, appendVars, used, IPPools>>

(* listMPIPPools *)
ListMPPools ==
    /\ call = "listing"
    /\ \E page \in PagesOf(IPPoolIDs) :
        \/ MidPage(page) /\ UNCHANGED ipPoolVars
        \/ /\ Len(listed) + Len(page) <= MaxListed
           /\ MPListingEnds("complete", listed \o page)

(* A warning, and no pools of the management plane. *)
MPListingFails == call = "listing" /\ MPListingEnds("broken", <<>>)

(* Goroutines for the pools that are no shadow pools. *)
SpawnUsage ==
    /\ pending' = {i \in DOMAIN listed' : listed'[i] \notin ShadowPools}
    /\ at' = [i \in DOMAIN listed' |-> "usage"]
    /\ slice' = [i \in DOMAIN listed' |-> <<>>]
    /\ call' = "fetching"
    /\ UNCHANGED <<holder, results, mpPools, used, IPPools>>

(* listPolicyResources *)
ListPolicyPools ==
    /\ call = "policies"
    /\ \E page \in PagesOf(IPPoolIDs) :
        \/ MidPage(page) /\ UNCHANGED ipPoolVars
        \/ LastPage(page) /\ SpawnUsage

(* A warning, and no policy pools. *)
PolicyListingFails == call = "policies" /\ BrokenWalk /\ SpawnUsage

(* The pool has no usage (404), or it cannot be read. *)
UsageFails(i) ==
    /\ Running(i) /\ at[i] = "usage"
    /\ Return(i)
    /\ UNCHANGED <<call, listed, walks, holder, slice, results, mpPools, used, IPPools>>

Mutant_UsageUnlocked(i) ==
    /\ Running(i) /\ at[i] = "usage"
    /\ used' = used \cup {PoolEntry("POLICY", i)}
    /\ slice' = [slice EXCEPT ![i] = results]
    /\ GoTo(i, "append")
    /\ UNCHANGED <<fanOutVars, holder, results, mpPools, IPPools>>

Usage(i) ==
    /\ Running(i) /\ at[i] = "usage"
    /\ used' = used \cup {PoolEntry("POLICY", i)}
    /\ GoTo(i, "lock")
    /\ UNCHANGED <<fanOutVars, holder, slice, results, mpPools, IPPools>>

LockPools(i) == Lock(i) /\ UNCHANGED <<mpPools, used, IPPools>>

AppendPool(i) ==
    /\ Store(i, PoolEntry("POLICY", i))
    /\ Return(i)
    /\ UNCHANGED <<call, listed, walks, mpPools, used, IPPools>>

MPEntries == [i \in DOMAIN mpPools |-> PoolEntry("MP", i)]

PoolsCollected ==
    /\ Joined
    /\ IPPools' = MPEntries \o results
    /\ call' = "returned"
    /\ UNCHANGED <<listed, walks, pending, appendVars, mpPools, used>>

PoolGoroutine(i) == UsageFails(i) \/ Usage(i) \/ LockPools(i) \/ AppendPool(i)

PoolNext ==
    \/ ListMPPools
    \/ MPListingFails
    \/ ListPolicyPools
    \/ PolicyListingFails
    \/ \E i \in pending : PoolGoroutine(i)
    \/ PoolsCollected

PoolSpec == PoolInit /\ [][PoolNext]_<<fanOutVars, ipPoolVars>>

-----------------------------------------------------------------------------
(* Properties. *)

PoolEntries == [Source : {"MP", "POLICY"}, place : Nat]

PoolTypeOK ==
    /\ AppendTypeOK({"usage"}, PoolEntries)
    /\ mpPools \in Seq(IPPoolIDs)
    /\ used \subseteq PoolEntries
    /\ IPPools \in Seq(PoolEntries)

Mutant_LabelsWithoutSource(e) ==
    <<IF e.Source = "MP" THEN mpPools[e.place] ELSE listed[e.place]>>

(* The labels of a pool's series. *)
PoolLabels(e) ==
    <<IF e.Source = "MP" THEN mpPools[e.place] ELSE listed[e.place], e.Source>>

(* The section has every pool of the management plane and every policy pool*)
(* whose usage was read, once: none is lost to another goroutine's append,  *)
(* nor to the failure of another pool or of the other source.               *)
PoolsNothingLost ==
    call = "returned" =>
        Holds(IPPools, {PoolEntry("MP", i) : i \in DOMAIN mpPools} \cup used)

(* A pool of the management plane and a policy pool may have the same ID.  *)
(* Two series have the same labels, which makes the registry refuse the    *)
(* whole scrape, only where the listing of one source has named a pool     *)
(* twice: never a pool of one source and a pool of the other, nor a pool   *)
(* that a goroutine appended twice.                                        *)
PoolsApart ==
    \A i, j \in DOMAIN IPPools :
        i # j /\ PoolLabels(IPPools[i]) = PoolLabels(IPPools[j])
        => /\ IPPools[i].Source = IPPools[j].Source
           /\ IPPools[i].place # IPPools[j].place
=============================================================================
