--------------------------- MODULE LBCollector_proofs --------------------------
(***************************************************************************)
(* Theorems about LBCollector, for every set of services and pools.        *)
(*                                                                         *)
(* ClaimInv says what poolSeen means: it holds exactly the pools that have *)
(* an entry, no two entries are of one pool, and a goroutine has passed a  *)
(* pool of its service only once the pool was claimed, by whomever.  That  *)
(* is why a pool is never left to a goroutine that does not take it.       *)
(***************************************************************************)
EXTENDS LBCollector, FiniteSetTheorems, SequenceTheorems, TLAPS

USE LBCollectorAssumption

(* An entry has the ID of its pool, and statistics of no other pool.       *)
EntryInv ==
    \A s \in Services : \A i \in DOMAIN out[s] :
        /\ out[s][i].id = ID(out[s][i].pool)
        /\ out[s][i].pool \in poolByPath => out[s][i].given \subseteq {out[s][i].pool}

(* A virtual server's entry has its ID and, if it has one, statistics of no *)
(* other.                                                                  *)
ServerInv ==
    /\ \A s \in Services : \A e \in servers[s] :
          /\ e.id = VSID(e.vs)
          /\ e.vs \in vsByPath => e.given \subseteq {e.vs}
    /\ main \in {"services", "servers", "pools"} => servers = Nothing

(* Until the pools are listed, nobody has reported or claimed any.         *)
StartInv ==
    /\ main \in {"services", "servers", "pools"} => out = NoEntries /\ poolSeen = {}
    /\ IF main = "done" THEN LBServices = out ELSE LBServices = NoEntries
    /\ main = "done" => \A s \in services : at[s] = "done"

ClaimInv ==
    /\ \A s \in Services : \A i \in DOMAIN out[s] : out[s][i].pool \in poolSeen
    /\ \A s, t \in Services : \A i \in DOMAIN out[s] : \A j \in DOMAIN out[t] :
          out[s][i].pool = out[t][j].pool => s = t /\ i = j
    /\ \A p \in poolSeen : \E s \in Services : \E i \in DOMAIN out[s] : out[s][i].pool = p
    /\ \A s \in Services : claiming[s] \subseteq reported[s]
    /\ \A s \in Services : reported[s] \ claiming[s] \subseteq poolSeen
    /\ \A s \in Services : at[s] = "status" => reported[s] = {}
    /\ \A s \in Services : at[s] = "done" => claiming[s] = {}

LBInv == TypeOK /\ EntryInv /\ ServerInv /\ StartInv /\ ClaimInv

-----------------------------------------------------------------------------
(* What Statistics does to the entries of service s. *)
LEMMA StatisticsEntries ==
    ASSUME TypeOK, NEW s \in Services, NEW pools \in SUBSET Pools,
           out' = [out EXCEPT ![s] = [i \in DOMAIN @ |->
                     [@[i] EXCEPT !.given = {p \in pools : Matches(s, p, i)}]]]
    PROVE  /\ out' \in [Services -> Entries]
           /\ \A t \in Services : DOMAIN out'[t] = DOMAIN out[t]
           /\ \A t \in Services : \A i \in DOMAIN out[t] :
                 /\ out'[t][i].pool = out[t][i].pool
                 /\ out'[t][i].id = out[t][i].id
                 /\ out'[t][i].given = out[t][i].given
                    \/ out'[t][i].given \subseteq {p \in Pools : out[t][i].id = ID(p)}
<1> DEFINE R == [pool : Pools, id : Pools \cup {NoID}, given : SUBSET Pools]
           G(i) == {p \in pools : Matches(s, p, i)}
           F == [i \in DOMAIN out[s] |-> [out[s][i] EXCEPT !.given = G(i)]]
<1>1. out \in [Services -> Seq(R)]
  BY DEF TypeOK, Entries
<1>2. out' = [out EXCEPT ![s] = F]
  OBVIOUS
<1>3. PICK n \in Nat : out[s] \in [1..n -> R]
  <2> HIDE DEF R
  <2>1. out[s] \in Seq(R)
    BY <1>1
  <2> QED
    BY <2>1, SeqDef
<1>4. \A i \in DOMAIN out[s] :
         /\ F[i] \in R
         /\ F[i].pool = out[s][i].pool
         /\ F[i].id = out[s][i].id
         /\ F[i].given = G(i)
  <2> SUFFICES ASSUME NEW i \in DOMAIN out[s]
               PROVE  /\ F[i] \in R
                      /\ F[i].pool = out[s][i].pool
                      /\ F[i].id = out[s][i].id
                      /\ F[i].given = G(i)
    OBVIOUS
  <2>1. out[s][i] \in R
    BY <1>3
  <2>2. F[i] = [out[s][i] EXCEPT !.given = G(i)]
    OBVIOUS
  <2>3. G(i) \in SUBSET Pools
    OBVIOUS
  <2> HIDE DEF G
  <2> QED
    BY <2>1, <2>2, <2>3
<1>5. \A i \in DOMAIN out[s] : G(i) \subseteq {p \in Pools : out[s][i].id = ID(p)}
  BY DEF Matches
<1>6. DOMAIN F = DOMAIN out[s] /\ DOMAIN F = 1..n
  BY <1>3
<1> HIDE DEF F, G
<1>7. F \in Seq(R)
  <2>1. F = [i \in 1..n |-> F[i]]
    <3>1. F = [i \in DOMAIN out[s] |-> F[i]]
      BY DEF F
    <3> QED
      BY <3>1, <1>6
  <2>2. F \in [1..n -> R]
    BY <1>4, <1>6, <2>1
  <2> HIDE DEF R
  <2> QED
    BY <2>2, <1>3, SeqDef
<1>8. out' \in [Services -> Seq(R)]
  <2> HIDE DEF R
  <2> QED
    BY <1>1, <1>2, <1>7
<1>9. \A t \in Services : out'[t] = IF t = s THEN F ELSE out[t]
  <2> HIDE DEF R
  <2> QED
    BY <1>1, <1>2
<1>10. out' \in [Services -> Entries]
  BY <1>8 DEF Entries
<1> HIDE DEF R
<1>11. \A t \in Services : DOMAIN out'[t] = DOMAIN out[t]
  BY <1>6, <1>9
<1>12. ASSUME NEW t \in Services, NEW i \in DOMAIN out[t]
       PROVE  /\ out'[t][i].pool = out[t][i].pool
              /\ out'[t][i].id = out[t][i].id
              /\ out'[t][i].given = out[t][i].given
                 \/ out'[t][i].given \subseteq {p \in Pools : out[t][i].id = ID(p)}
  <2>1. CASE t = s
    <3>1. out'[t][i] = F[i]
      BY <1>9, <2>1
    <3>2. F[i].pool = out[t][i].pool /\ F[i].id = out[t][i].id /\ F[i].given = G(i)
      BY <1>4, <2>1
    <3>3. G(i) \subseteq {p \in Pools : out[t][i].id = ID(p)}
      BY <1>5, <2>1
    <3> QED
      BY <3>1, <3>2, <3>3
  <2>2. CASE t # s
    BY <1>9, <2>2
  <2> QED
    BY <2>1, <2>2
<1> QED
  BY <1>10, <1>11, <1>12

(* What Claim does to the entries, if it claims. *)
LEMMA ClaimEntries ==
    ASSUME TypeOK, NEW s \in Services, NEW p \in Pools,
           out' = [out EXCEPT ![s] = Append(@, Entry(p))]
    PROVE  /\ out' \in [Services -> Entries]
           /\ \A t \in Services \ {s} : out'[t] = out[t]
           /\ DOMAIN out'[s] = DOMAIN out[s] \cup {Len(out[s]) + 1}
           /\ Len(out[s]) + 1 \notin DOMAIN out[s]
           /\ \A i \in DOMAIN out[s] : out'[s][i] = out[s][i]
           /\ out'[s][Len(out[s]) + 1] = Entry(p)
<1> DEFINE R == [pool : Pools, id : Pools \cup {NoID}, given : SUBSET Pools]
<1>1. out \in [Services -> Seq(R)]
  BY DEF TypeOK, Entries
<1>2. Entry(p) \in R
  BY DEF Entry, ID
<1> HIDE DEF R
<1>3. \A t \in Services : out'[t] = IF t = s THEN Append(out[s], Entry(p)) ELSE out[t]
  BY <1>1
<1>4. out[s] \in Seq(R)
  BY <1>1
<1>5. Append(out[s], Entry(p)) \in Seq(R)
  BY <1>2, <1>4
<1>6. out' \in [Services -> Seq(R)]
  BY <1>1, <1>5
<1>7. out' \in [Services -> Entries]
  BY <1>6 DEF Entries, R
<1>8. /\ DOMAIN out[s] = 1..Len(out[s]) /\ Len(out[s]) \in Nat
      /\ DOMAIN out'[s] = 1..(Len(out[s]) + 1)
      /\ \A i \in 1..Len(out[s]) : out'[s][i] = out[s][i]
      /\ out'[s][Len(out[s]) + 1] = Entry(p)
  <2>1. out'[s] = Append(out[s], Entry(p))
    BY <1>3
  <2>2. DOMAIN out[s] = 1..Len(out[s]) /\ Len(out[s]) \in Nat
    BY <1>4, LenProperties
  <2> QED
    BY <2>1, <2>2, <1>2, <1>4, AppendProperties
<1> QED
  BY <1>3, <1>7, <1>8

(* The virtual servers are local to the goroutine of their service. *)
LEMMA Serving ==
    ASSUME TypeOK, ServerInv, [Next]_vars
    PROVE  ServerInv' /\ servers' \in [Services -> SUBSET VSEntries]
<1> USE DEF TypeOK
<1>1. CASE ListServices
  BY <1>1 DEF ListServices, ServerInv, VSID
<1>2. CASE ListVirtualServers
  BY <1>2 DEF ListVirtualServers, ServerInv, Nothing
<1>3. CASE ListPools
  BY <1>3 DEF ListPools, ServerInv, VSID
<1>4. CASE Collected
  BY <1>4 DEF Collected, ServerInv, VSID
<1>5. ASSUME NEW s \in Services, DetailedStatus(s)
      PROVE  ServerInv' /\ servers' \in [Services -> SUBSET VSEntries]
  <2>1. PICK vss \in SUBSET VirtualServers :
           servers' = [servers EXCEPT ![s] = {VSEntry(v) : v \in vss}]
    BY <1>5 DEF DetailedStatus
  <2>2. main = "wait" /\ main' = main /\ vsByPath' = vsByPath
    BY <1>5 DEF DetailedStatus, Runs
  <2>3. \A v \in vss : /\ VSEntry(v) \in VSEntries
                        /\ VSEntry(v).vs = v /\ VSEntry(v).id = VSID(v) /\ VSEntry(v).given = {}
    BY DEF VSEntry, VSEntries, VSID
  <2> QED
    BY <2>1, <2>2, <2>3 DEF ServerInv, VSID
<1>6. ASSUME NEW s \in Services, NEW p \in Pools, Claim(s, p)
      PROVE  ServerInv' /\ servers' \in [Services -> SUBSET VSEntries]
  BY <1>6 DEF Claim, ServerInv, VSID
<1>7. ASSUME NEW s \in Services, Statistics(s)
      PROVE  ServerInv' /\ servers' \in [Services -> SUBSET VSEntries]
  <2>1. PICK vss \in SUBSET VirtualServers :
           servers' = [servers EXCEPT ![s] =
                {[e EXCEPT !.given = {v \in vss : VSMatches(v, e)}] : e \in @}]
    BY <1>7 DEF Statistics
  <2>2. main = "wait" /\ main' = main /\ vsByPath' = vsByPath
    BY <1>7 DEF Statistics, Runs
  <2> DEFINE G(e) == {v \in vss : VSMatches(v, e)}
             E(e) == [e EXCEPT !.given = G(e)]
  <2>3. ASSUME NEW e \in servers[s]
        PROVE  /\ E(e) \in VSEntries
               /\ E(e).vs = e.vs /\ E(e).id = e.id /\ E(e).given = G(e)
    <3>1. e \in VSEntries /\ G(e) \in SUBSET VirtualServers
      OBVIOUS
    <3> HIDE DEF G
    <3> QED
      BY <3>1 DEF VSEntries
  <2>4. ASSUME NEW e \in servers[s], e.vs \in vsByPath
        PROVE  G(e) \subseteq {e.vs}
    BY <2>4 DEF ServerInv, VSMatches, VSID
  <2>5. servers' = [servers EXCEPT ![s] = {E(e) : e \in servers[s]}]
    BY <2>1
  <2> HIDE DEF E, G
  <2> QED
    BY <2>2, <2>3, <2>4, <2>5 DEF ServerInv, VSID
<1>8. CASE UNCHANGED vars
  BY <1>8 DEF vars, ServerInv, VSID
<1> QED
  BY <1>1, <1>2, <1>3, <1>4, <1>5, <1>6, <1>7, <1>8 DEF Next, Fetch

-----------------------------------------------------------------------------
LEMMA Claiming == Spec => []LBInv
<1>1. Init => LBInv
  <2> SUFFICES ASSUME Init PROVE LBInv
    OBVIOUS
  <2>1. \A s \in Services : out[s] = <<>> /\ DOMAIN out[s] = {} /\ out[s] \in Entries
    BY DEF Init, NoEntries, Entries
  <2>2. TypeOK
    BY <2>1 DEF Init, TypeOK, Nothing, NoEntries
  <2> QED
    BY <2>1, <2>2 DEF Init, LBInv, EntryInv, ServerInv, StartInv, ClaimInv, Nothing
<1>2. LBInv /\ [Next]_vars => LBInv'
  <2> SUFFICES ASSUME LBInv, [Next]_vars PROVE LBInv'
    OBVIOUS
  <2> USE DEF LBInv
  <2>0. ServerInv' /\ servers' \in [Services -> SUBSET VSEntries]
    BY Serving
  <2> USE <2>0
  <2>1. CASE ListServices
    BY <2>1 DEF ListServices, TypeOK, EntryInv, StartInv, ClaimInv, ID
  <2>v. CASE ListVirtualServers
    BY <2>v DEF ListVirtualServers, TypeOK, EntryInv, StartInv, ClaimInv, ID
  <2>2. CASE ListPools
    <3>1. \A s \in Services : DOMAIN out[s] = {} /\ out'[s] = out[s]
      BY <2>2 DEF ListPools, StartInv, NoEntries
    <3> QED
      BY <2>2, <3>1 DEF ListPools, TypeOK, EntryInv, StartInv, ClaimInv
  <2>3. CASE Collected
    BY <2>3 DEF Collected, TypeOK, EntryInv, StartInv, ClaimInv, ID
  <2>4. ASSUME NEW s \in Services, DetailedStatus(s) PROVE LBInv'
    <3>1. PICK pools \in SUBSET Pools :
             /\ reported' = [reported EXCEPT ![s] = pools]
             /\ claiming' = [claiming EXCEPT ![s] = pools]
      BY <2>4 DEF DetailedStatus
    <3>2. DOMAIN out[s] = {}
      BY <2>4 DEF DetailedStatus, TypeOK, ClaimInv
    <3> QED
      BY <2>4, <3>1, <3>2 DEF DetailedStatus, Runs, TypeOK, EntryInv, StartInv, ClaimInv, ID
  <2>5. ASSUME NEW s \in Services, NEW p \in Pools, Claim(s, p) PROVE LBInv'
    <3>1. CASE p \in poolSeen
      BY <2>5, <3>1 DEF Claim, Runs, TypeOK, EntryInv, StartInv, ClaimInv, ID
    <3>2. CASE p \notin poolSeen
      <4> DEFINE n == Len(out[s]) + 1
      <4>1. /\ poolSeen' = poolSeen \cup {p}
            /\ out' = [out EXCEPT ![s] = Append(@, Entry(p))]
            /\ claiming' = [claiming EXCEPT ![s] = @ \ {p}]
            /\ p \in claiming[s] /\ at[s] = "claim" /\ main = "wait"
            /\ UNCHANGED <<main, services, vsByPath, poolByPath, at, reported, listed, servers, LBServices>>
        BY <2>5, <3>2 DEF Claim, Runs
      <4>2. /\ out' \in [Services -> Entries]
            /\ \A t \in Services \ {s} : out'[t] = out[t]
            /\ DOMAIN out'[s] = DOMAIN out[s] \cup {n}
            /\ n \notin DOMAIN out[s]
            /\ \A i \in DOMAIN out[s] : out'[s][i] = out[s][i]
            /\ out'[s][n] = Entry(p)
        BY <4>1, ClaimEntries
      <4> HIDE DEF n
      <4>3. /\ Entry(p).pool = p
            /\ Entry(p).id = ID(p)
            /\ Entry(p).given = {}
        BY DEF Entry
      <4>4. /\ \A t \in Services \ {s} : claiming'[t] = claiming[t]
            /\ claiming'[s] = claiming[s] \ {p}
            /\ claiming' \in [Services -> SUBSET Pools]
        BY <4>1 DEF TypeOK
      <4>5. p \in reported[s]
        BY <4>1 DEF ClaimInv
      <4>6. TypeOK'
        BY <4>1, <4>2, <4>3, <4>4, <4>5 DEF TypeOK
      <4>7. EntryInv'
        BY <4>1, <4>2, <4>3 DEF EntryInv, ID
      <4>8. StartInv'
        BY <4>1 DEF StartInv
      <4>9. ClaimInv'
        <5>1. \A t \in Services : \A i \in DOMAIN out'[t] :
                 \/ t = s /\ i = n /\ out'[t][i].pool = p
                 \/ i \in DOMAIN out[t] /\ out'[t][i] = out[t][i]
          BY <4>2, <4>3
        <5>2. \A t \in Services : \A i \in DOMAIN out[t] :
                 i \in DOMAIN out'[t] /\ out'[t][i] = out[t][i] /\ out[t][i].pool # p
          BY <4>2, <3>2 DEF ClaimInv
        <5>3. \A t \in Services : \A i \in DOMAIN out'[t] : out'[t][i].pool \in poolSeen'
          BY <5>1, <4>1 DEF ClaimInv
        <5>4. \A t, u \in Services : \A i \in DOMAIN out'[t] : \A j \in DOMAIN out'[u] :
                 out'[t][i].pool = out'[u][j].pool => t = u /\ i = j
          BY <5>1, <5>2 DEF ClaimInv
        <5>5. \A q \in poolSeen' : \E t \in Services : \E i \in DOMAIN out'[t] : out'[t][i].pool = q
          BY <5>2, <4>1, <4>2, <4>3 DEF ClaimInv
        <5>6. \A t \in Services : reported'[t] \ claiming'[t] \subseteq poolSeen'
          BY <4>1, <4>4 DEF ClaimInv
        <5>7. \A t \in Services : claiming'[t] \subseteq reported'[t]
          BY <4>1, <4>4 DEF ClaimInv
        <5>8. /\ \A t \in Services : at'[t] = "status" => reported'[t] = {}
              /\ \A t \in Services : at'[t] = "done" => claiming'[t] = {}
          BY <4>1, <4>4 DEF ClaimInv
        <5> QED
          BY <5>3, <5>4, <5>5, <5>6, <5>7, <5>8 DEF ClaimInv
      <4> QED
        BY <4>6, <4>7, <4>8, <4>9
    <3> QED
      BY <3>1, <3>2
  <2>6. ASSUME NEW s \in Services, Statistics(s) PROVE LBInv'
    <3>1. PICK pools \in SUBSET Pools :
             /\ listed' = [listed EXCEPT ![s] = pools]
             /\ out' = [out EXCEPT ![s] = [i \in DOMAIN @ |->
                   [@[i] EXCEPT !.given = {p \in pools : Matches(s, p, i)}]]]
      BY <2>6 DEF Statistics
    <3>2. /\ out' \in [Services -> Entries]
          /\ \A t \in Services : DOMAIN out'[t] = DOMAIN out[t]
          /\ \A t \in Services : \A i \in DOMAIN out[t] :
                /\ out'[t][i].pool = out[t][i].pool
                /\ out'[t][i].id = out[t][i].id
                /\ out'[t][i].given = out[t][i].given
                   \/ out'[t][i].given \subseteq {p \in Pools : out[t][i].id = ID(p)}
      BY <3>1, StatisticsEntries
    <3>3. /\ main = "wait" /\ s \in services /\ at[s] = "claim" /\ claiming[s] = {}
          /\ at' = [at EXCEPT ![s] = "done"]
          /\ UNCHANGED <<main, services, vsByPath, poolByPath, poolSeen, reported, claiming, LBServices>>
      BY <2>6 DEF Statistics, Runs
    <3>4. TypeOK'
      BY <3>1, <3>2, <3>3 DEF TypeOK
    <3>5. EntryInv'
      <4> SUFFICES ASSUME NEW t \in Services, NEW i \in DOMAIN out'[t]
                   PROVE  /\ out'[t][i].id = ID(out'[t][i].pool)
                          /\ out'[t][i].pool \in poolByPath =>
                                out'[t][i].given \subseteq {out'[t][i].pool}
        BY <3>3 DEF EntryInv, ID
      <4>1. i \in DOMAIN out[t]
        BY <3>2
      <4>2. /\ out[t][i].id = ID(out[t][i].pool)
            /\ out[t][i].pool \in poolByPath => out[t][i].given \subseteq {out[t][i].pool}
        BY <4>1 DEF EntryInv
      <4>3. \A p \in Pools, q \in poolByPath : ID(p) = q => p = q
        BY DEF ID, TypeOK
      <4>4. out[t][i].pool \in poolByPath => out[t][i].id = out[t][i].pool
        BY <4>2 DEF ID
      <4> QED
        BY <3>2, <4>1, <4>2, <4>3, <4>4
    <3>6. StartInv'
      BY <3>3 DEF StartInv, TypeOK
    <3>7. ClaimInv'
      <4>1. \A t \in Services : DOMAIN out'[t] = DOMAIN out[t]
                                /\ \A i \in DOMAIN out[t] : out'[t][i].pool = out[t][i].pool
        BY <3>2
      <4>2. \A t \in Services : at'[t] = IF t = s THEN "done" ELSE at[t]
        BY <3>3 DEF TypeOK
      <4>3. \A p \in poolSeen' : \E t \in Services : \E i \in DOMAIN out'[t] : out'[t][i].pool = p
        <5> SUFFICES ASSUME NEW p \in poolSeen
                     PROVE  \E t \in Services : \E i \in DOMAIN out'[t] : out'[t][i].pool = p
          BY <3>3
        <5>1. PICK t \in Services : \E i \in DOMAIN out[t] : out[t][i].pool = p
          BY DEF ClaimInv
        <5> QED
          BY <5>1, <4>1
      <4>4. \A t, u \in Services : \A i \in DOMAIN out'[t] : \A j \in DOMAIN out'[u] :
               out'[t][i].pool = out'[u][j].pool => t = u /\ i = j
        BY <4>1 DEF ClaimInv
      <4>5. \A t \in Services : \A i \in DOMAIN out'[t] : out'[t][i].pool \in poolSeen'
        BY <4>1, <3>3 DEF ClaimInv
      <4> QED
        BY <4>2, <4>3, <4>4, <4>5, <3>3 DEF ClaimInv
    <3> QED
      BY <3>4, <3>5, <3>6, <3>7
  <2>7. CASE UNCHANGED vars
    BY <2>7 DEF vars, TypeOK, EntryInv, StartInv, ClaimInv, ID
  <2> QED
    BY <2>1, <2>v, <2>2, <2>3, <2>4, <2>5, <2>6, <2>7 DEF Next, Fetch
<1> QED
  BY <1>1, <1>2, PTL DEF Spec

(* The types, and that a service's result has entries only of pools of its *)
(* own detailed-status.                                                    *)
THEOREM TypeCorrect == Spec => []TypeOK
BY Claiming, PTL DEF LBInv

(* The entries emitted for a listed pool, when the result is published.    *)
LEMMA PlacesOf ==
    ASSUME LBInv, NEW p \in poolByPath, NEW place
    PROVE  place \in Places(p) <=>
             \E s \in Services : \E i \in DOMAIN LBServices[s] :
                 place = <<s, i>> /\ LBServices[s][i].id = p
BY DEF Places

(* Whatever services there are and share, whatever fails and whoever comes *)
(* first, a listed pool that is reported is emitted exactly once.          *)
THEOREM EachPoolOnce == Spec => []PoolsOnce
<1>1. LBInv => PoolsOnce
  <2> SUFFICES ASSUME LBInv, main = "done", NEW p \in poolByPath, NEW s \in services, p \in reported[s]
               PROVE  Cardinality(Places(p)) = 1
    BY DEF PoolsOnce
  <2> USE DEF LBInv
  <2>1. LBServices = out /\ at[s] = "done" /\ s \in Services /\ p \in Pools
    BY DEF StartInv, TypeOK
  <2>2. p \in poolSeen
    BY <2>1 DEF ClaimInv
  <2>a. PICK t \in Services : \E i \in DOMAIN out[t] : out[t][i].pool = p
    BY <2>2 DEF ClaimInv
  <2>3. PICK i \in DOMAIN out[t] : out[t][i].pool = p
    BY <2>a
  <2>4. out[t][i].id = p
    BY <2>3 DEF EntryInv, ID
  <2>5. \A u \in Services : \A j \in DOMAIN out[u] : out[u][j].id = p => u = t /\ j = i
    <3> SUFFICES ASSUME NEW u \in Services, NEW j \in DOMAIN out[u], out[u][j].id = p
                 PROVE  u = t /\ j = i
      OBVIOUS
    <3>1. ID(out[u][j].pool) = p
      BY DEF EntryInv
    <3>2. out[u][j].pool = p
      BY <3>1, <2>1 DEF ID
    <3> QED
      BY <3>2, <2>3 DEF ClaimInv
  <2>6. Places(p) = {<<t, i>>}
    BY <2>1, <2>3, <2>4, <2>5, PlacesOf
  <2> QED
    BY <2>6, FS_Singleton
<1> QED
  BY <1>1, Claiming, PTL

(* A listed pool is emitted with its own statistics and members only.      *)
THEOREM StatisticsOfItsOwn == Spec => []OwnStatistics
<1>0. ASSUME LBInv, NEW s \in Services, NEW e \in Shown(s)
      PROVE  e.id = e.vs /\ e.given \subseteq {e.vs}
  BY <1>0 DEF Shown, LBInv, ServerInv, VSID
<1>1. LBInv => OwnStatistics
  <2> SUFFICES ASSUME LBInv, NEW p \in poolByPath, NEW place \in Places(p)
               PROVE  /\ LBServices[place[1]][place[2]].pool = p
                      /\ LBServices[place[1]][place[2]].given \subseteq {p}
    BY <1>0 DEF OwnStatistics
  <2>a. PICK s \in Services : \E i \in DOMAIN LBServices[s] :
           place = <<s, i>> /\ LBServices[s][i].id = p
    BY PlacesOf
  <2>1. PICK i \in DOMAIN LBServices[s] : place = <<s, i>> /\ LBServices[s][i].id = p
    BY <2>a
  <2>2. LBServices = out
    <3>1. CASE LBServices = NoEntries
      BY <2>1, <3>1 DEF NoEntries
    <3> QED
      BY <3>1 DEF LBInv, StartInv
  <2>3. /\ out[s][i].id = ID(out[s][i].pool)
        /\ out[s][i].pool \in poolByPath => out[s][i].given \subseteq {out[s][i].pool}
    BY <2>1, <2>2 DEF LBInv, EntryInv
  <2>4. out[s][i].pool = p
    BY <2>1, <2>2, <2>3 DEF ID, LBInv, TypeOK
  <2> QED
    BY <2>1, <2>2, <2>3, <2>4
<1> QED
  BY <1>1, Claiming, PTL
=============================================================================
