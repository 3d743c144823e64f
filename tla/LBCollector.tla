------------------------------ MODULE LBCollector ------------------------------
(***************************************************************************)
(* collectLB: one goroutine per load balancer service, and a pool that     *)
(* several services reference is claimed, through poolSeen, by the first   *)
(* goroutine that meets it.                                                *)
(*                                                                         *)
(* A goroutine reads its service's detailed-status, which lists the virtual*)
(* servers and pools, and then its statistics, which has their counters and*)
(* the members of the pools.  Both know them by path, and the entries of   *)
(* the result by the ID that a list read earlier has for the path.  An     *)
(* entry carries the paths whose statistics it was given.                  *)
(***************************************************************************)
EXTENDS Naturals, Sequences, FiniteSets

CONSTANTS Services, Pools, VirtualServers,
          NoID      \* the empty ID of what is not in its list

ASSUME LBCollectorAssumption == NoID \notin Pools \cup VirtualServers

VARIABLES main,       \* collectLB: "services", "servers", "pools", "wait", then how it ended
          services,   \* the services found
          vsByPath,   \* the virtual servers of the list
          poolByPath, \* the pools of the list
          poolSeen,   \* the pools claimed
          at,         \* where each fetchLBService is
          reported,   \* the pools of its detailed-status
          claiming,   \* those it has still to look at
          listed,     \* the pools of its statistics
          out,        \* the pools of its result
          servers,    \* the virtual servers of its result
          LBServices  \* the pools of data.LBServices

vars == <<main, services, vsByPath, poolByPath, poolSeen,
          at, reported, claiming, listed, out, servers, LBServices>>

Nothing == [s \in Services |-> {}]
NoEntries == [s \in Services |-> <<>>]

Init ==
    /\ main = "services"
    /\ services = {} /\ vsByPath = {} /\ poolByPath = {} /\ poolSeen = {}
    /\ at = [s \in Services |-> "status"]
    /\ reported = Nothing /\ claiming = Nothing /\ listed = Nothing
    /\ out = NoEntries /\ servers = Nothing /\ LBServices = NoEntries

(* poolByPath[path].ID; no two pools of the list have the same ID. *)
ID(p) == IF p \in poolByPath THEN p ELSE NoID

(* vsByPath[path].ID *)
VSID(v) == IF v \in vsByPath THEN v ELSE NoID

-----------------------------------------------------------------------------
(* collectLB *)

(* listPolicyResources fails, finds no service, or finds some. *)
ListServices ==
    /\ main = "services"
    /\ \/ main' = "failed" /\ UNCHANGED services
       \/ main' = "empty" /\ UNCHANGED services
       \/ main' = "servers" /\ services' \in (SUBSET Services) \ {{}}
    /\ UNCHANGED <<vsByPath, poolByPath, poolSeen, at, reported, claiming, listed,
                   out, servers, LBServices>>

(* buildLBVSPathMap.  If it fails the map is empty, and a virtual server    *)
(* created since is in no map.                                              *)
ListVirtualServers ==
    /\ main = "servers"
    /\ vsByPath' \in SUBSET VirtualServers
    /\ main' = "pools"
    /\ UNCHANGED <<services, poolByPath, poolSeen, at, reported, claiming, listed,
                   out, servers, LBServices>>

(* buildLBPoolPathMap.  If it fails the map is empty, and a pool created    *)
(* since is in no map.                                                      *)
ListPools ==
    /\ main = "pools"
    /\ poolByPath' \in SUBSET Pools
    /\ main' = "wait"
    /\ UNCHANGED <<services, vsByPath, poolSeen, at, reported, claiming, listed,
                   out, servers, LBServices>>

(* wg.Wait returns. *)
Collected ==
    /\ main = "wait"
    /\ \A s \in services : at[s] = "done"
    /\ main' = "done"
    /\ LBServices' = out
    /\ UNCHANGED <<services, vsByPath, poolByPath, poolSeen, at, reported, claiming, listed,
                   out, servers>>

-----------------------------------------------------------------------------
(* fetchLBService *)

Runs(s) == main = "wait" /\ s \in services

VSEntry(v) == [vs |-> v, id |-> VSID(v), given |-> {}]

(* The answer of detailed-status.  A failure, and an answer without         *)
(* results, report nothing.                                                 *)
DetailedStatus(s) ==
    /\ Runs(s) /\ at[s] = "status"
    /\ \E pools \in SUBSET Pools :
         /\ reported' = [reported EXCEPT ![s] = pools]
         /\ claiming' = [claiming EXCEPT ![s] = pools]
    /\ \E vss \in SUBSET VirtualServers :
         servers' = [servers EXCEPT ![s] = {VSEntry(v) : v \in vss}]
    /\ at' = [at EXCEPT ![s] = "claim"]
    /\ UNCHANGED <<main, services, vsByPath, poolByPath, poolSeen, listed, out, LBServices>>

Entry(p) == [pool |-> p, id |-> ID(p), given |-> {}]

Mutant_ClaimUnseen(s, p) ==
    /\ Runs(s) /\ at[s] = "claim"
    /\ p \in claiming[s]
    /\ claiming' = [claiming EXCEPT ![s] = @ \ {p}]
    /\ IF p \in poolSeen
       THEN UNCHANGED <<poolSeen, out>>
       ELSE /\ UNCHANGED poolSeen
            /\ out' = [out EXCEPT ![s] = Append(@, Entry(p))]
    /\ UNCHANGED <<main, services, vsByPath, poolByPath, at, reported, listed, servers, LBServices>>

(* poolSeen.LoadOrStore, and the entry if the pool was not there. *)
Claim(s, p) ==
    /\ Runs(s) /\ at[s] = "claim"
    /\ p \in claiming[s]
    /\ claiming' = [claiming EXCEPT ![s] = @ \ {p}]
    /\ IF p \in poolSeen
       THEN UNCHANGED <<poolSeen, out>>
       ELSE /\ poolSeen' = poolSeen \cup {p}
            /\ out' = [out EXCEPT ![s] = Append(@, Entry(p))]
    /\ UNCHANGED <<main, services, vsByPath, poolByPath, at, reported, listed, servers, LBServices>>

Mutant_FirstByDefault(s, p, i) ==
    \/ out[s][i].id = ID(p) /\ \A j \in 1..(i - 1) : out[s][j].id # ID(p)
    \/ i = 1 /\ \A j \in DOMAIN out[s] : out[s][j].id # ID(p)

(* Is i the entry that the statistics of pool p go to?  The first with the *)
(* ID of p; there is none if another service has claimed p.                *)
Matches(s, p, i) ==
    /\ out[s][i].id = ID(p)
    /\ \A j \in 1..(i - 1) : out[s][j].id # ID(p)

Mutant_StatisticsAdd(s) ==
    /\ Runs(s) /\ at[s] = "claim"
    /\ claiming[s] = {}
    /\ \E p \in Pools :
         /\ listed' = [listed EXCEPT ![s] = {p}]
         /\ out' = [out EXCEPT ![s] = Append(@, [Entry(p) EXCEPT !.given = {p}])]
    /\ at' = [at EXCEPT ![s] = "done"]
    /\ UNCHANGED <<main, services, vsByPath, poolByPath, poolSeen, reported, claiming,
                   servers, LBServices>>

(* Is path the one whose statistics entry e gets?  The one the list has     *)
(* under the ID of e; an entry with the empty ID finds none.                *)
VSMatches(path, e) == path \in vsByPath /\ VSID(path) = e.id

(* The answer of statistics, after which the goroutine is done.  A failure,*)
(* and an answer without results, list no pool.                            *)
Statistics(s) ==
    /\ Runs(s) /\ at[s] = "claim"
    /\ claiming[s] = {}
    /\ \E pools \in SUBSET Pools :
         /\ listed' = [listed EXCEPT ![s] = pools]
         /\ out' = [out EXCEPT ![s] = [i \in DOMAIN @ |->
                [@[i] EXCEPT !.given = {p \in pools : Matches(s, p, i)}]]]
    /\ \E vss \in SUBSET VirtualServers :
         servers' = [servers EXCEPT ![s] =
                {[e EXCEPT !.given = {v \in vss : VSMatches(v, e)}] : e \in @}]
    /\ at' = [at EXCEPT ![s] = "done"]
    /\ UNCHANGED <<main, services, vsByPath, poolByPath, poolSeen, reported, claiming, LBServices>>

Fetch(s) ==
    \/ DetailedStatus(s)
    \/ \E p \in Pools : Claim(s, p)
    \/ Statistics(s)

Next ==
    \/ ListServices
    \/ ListVirtualServers
    \/ ListPools
    \/ Collected
    \/ \E s \in Services : Fetch(s)

Spec == Init /\ [][Next]_vars

-----------------------------------------------------------------------------
(* Properties. *)

(* An entry is of a pool that the service's own detailed-status reports. *)
Entries == Seq([pool : Pools, id : Pools \cup {NoID}, given : SUBSET Pools])

VSEntries == [vs : VirtualServers, id : VirtualServers \cup {NoID}, given : SUBSET VirtualServers]

TypeOK ==
    /\ main \in {"services", "servers", "pools", "wait", "done", "failed", "empty"}
    /\ services \subseteq Services
    /\ vsByPath \subseteq VirtualServers
    /\ poolByPath \subseteq Pools
    /\ poolSeen \subseteq Pools
    /\ at \in [Services -> {"status", "claim", "done"}]
    /\ reported \in [Services -> SUBSET Pools]
    /\ claiming \in [Services -> SUBSET Pools]
    /\ listed \in [Services -> SUBSET Pools]
    /\ out \in [Services -> Entries]
    /\ servers \in [Services -> SUBSET VSEntries]
    /\ LBServices \in [Services -> Entries]
    /\ \A s \in Services : \A i \in DOMAIN out[s] : out[s][i].pool \in reported[s] \ claiming[s]

(* The places of data.LBServices that emitLBMetrics makes series of pool p *)
(* from; entries with an empty ID are skipped.                             *)
Places(p) ==
    UNION {{s} \X {i \in DOMAIN LBServices[s] : LBServices[s][i].id = p} : s \in Services}

(* A pool of the pool list that some service reports has its series exactly*)
(* once, whatever the services share, the requests that fail, and the order*)
(* the goroutines run in: never a duplicate, for which the registry would  *)
(* refuse the whole scrape, and none lost between two goroutines that each *)
(* leave it to the other.                                                  *)
PoolsOnce ==
    main = "done" =>
        \A p \in poolByPath :
            (\E s \in services : p \in reported[s]) => Cardinality(Places(p)) = 1

(* The virtual servers that emitLBMetrics makes series of for a service. *)
Shown(s) == {e \in servers[s] : e.id # NoID}

(* The counters and members of a pool's series are those of that pool,     *)
(* though entries are found by an ID that is empty for any unlisted pool;  *)
(* and the counters of a virtual server are its own.                       *)
OwnStatistics ==
    /\ \A p \in poolByPath : \A place \in Places(p) :
         LET e == LBServices[place[1]][place[2]] IN e.pool = p /\ e.given \subseteq {p}
    /\ \A s \in Services : \A e \in Shown(s) : e.id = e.vs /\ e.given \subseteq {e.vs}

(* The comment on poolSeen (collector_lb.go:159): the pools are deduplicated*)
(* "so each pool/member series appears exactly once".  So a pool that some *)
(* service reports and whose members that service's statistics list has    *)
(* its member series.                                                      *)
MembersOnce ==
    main = "done" =>
        \A p \in poolByPath :
            (\E s \in services : p \in reported[s] \cap listed[s])
            => \E place \in Places(p) : p \in LBServices[place[1]][place[2]].given
=============================================================================
