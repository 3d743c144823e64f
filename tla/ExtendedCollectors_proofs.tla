----------------------- MODULE ExtendedCollectors_proofs -----------------------
(***************************************************************************)
(* The collectors that list and fan out.  First those that join the        *)
(* results of their goroutines, each alone: every tunnel is kept once, and *)
(* no session and no pool is lost, for any listing, any answers and any    *)
(* order in which they come.  Then their composition: what holds of each   *)
(* alone holds of the seven, and what only the composition is asked:       *)
(* sections come of whole listings, the pools of the two sources are kept  *)
(* apart, and a call keeps the promise of CollectorCall.                   *)
(***************************************************************************)
EXTENDS ExtendedCollectors, BackupHistory_proofs, TLAPS

(* A page is a sequence of items. *)
LEMMA PageIsSeq ==
    ASSUME NEW Items, NEW page \in PagesOf(Items)
    PROVE  page \in Seq(Items)
  BY FanOutAssumption DEF PagesOf

(* A slice grows by one entry. *)
LEMMA AppendOne ==
    ASSUME NEW S, NEW s \in Seq(S), NEW e \in S
    PROVE  /\ Append(s, e) \in Seq(S)
           /\ DOMAIN Append(s, e) = DOMAIN s \cup {Len(s) + 1}
           /\ \A j \in DOMAIN s : Append(s, e)[j] = s[j] /\ j # Len(s) + 1
           /\ Append(s, e)[Len(s) + 1] = e
  OBVIOUS

-----------------------------------------------------------------------------
(* collectTunnels: each label tuple once, and no reported tunnel lost. *)

TunnelAllVars == <<fanOutVars, tunnelVars>>

(* What the flattening needs to know of the types, and of the phases. *)
TunnelPhaseInv ==
    /\ call \in {"listing", "fetching", "merging", "returned", "failed"}
    /\ listed \in Seq(Nodes)
    /\ pending \subseteq DOMAIN listed
    /\ TunnelTypeOK
    /\ call \in {"listing", "fetching", "failed"} =>
         node = 1 /\ pos = 1 /\ seen = {} /\ Tunnels = <<>>
    /\ call \in {"listing", "failed"} => perNode = <<>> /\ pending = {}
    /\ call = "returned" => node \notin DOMAIN perNode

(* The keys seen are those of the tunnels kept, which are met once. *)
SeenInv ==
    /\ seen = {TunnelKey(Tunnels[j]) : j \in DOMAIN Tunnels}
    /\ TunnelsOnce

(* A tunnel that was kept is one that was met. *)
FromInv ==
    \A j \in DOMAIN Tunnels :
        \E i \in DOMAIN perNode : \E k \in DOMAIN perNode[i] :
            Before(i, k, node, pos) /\ perNode[i][k] = Tunnels[j]

(* A tunnel that was met has its key in the map, and was kept if it was the *)
(* first with its labels.                                                   *)
MetInv ==
    \A i \in DOMAIN perNode : \A k \in DOMAIN perNode[i] :
        Before(i, k, node, pos) =>
            /\ TunnelKey(perNode[i][k]) \in seen
            /\ FirstReport(i, k) => \E j \in DOMAIN Tunnels : Tunnels[j] = perNode[i][k]

TunnelIInv == TunnelPhaseInv /\ SeenInv /\ FromInv /\ MetInv

-----------------------------------------------------------------------------
(* The listing only ever holds nodes. *)
LEMMA ListedNodes ==
    ASSUME TunnelPhaseInv, NEW page \in PagesOf(Nodes), Paged(page)
    PROVE  listed' \in Seq(Nodes)
  BY PageIsSeq DEF TunnelPhaseInv, Paged

(* A report of a node makes a record. *)
LEMMA ReportRecords ==
    ASSUME NEW n \in Nodes, NEW reports \in Reports
    PROVE  [k \in DOMAIN reports |-> Tunnel(n, reports[k])] \in Seq(TunnelRecords)
  <1>1. PICK m \in Nat : reports \in [1..m -> LocalIPs \X Remotes \X ReportedStates]
    BY TunnelAssumption DEF Reports
  <1>2. \A k \in 1..m : Tunnel(n, reports[k]) \in TunnelRecords
    <2> TAKE k \in 1..m
    <2>1. reports[k] \in LocalIPs \X Remotes \X ReportedStates
      BY <1>1
    <2>2. reports[k][1] \in LocalIPs /\ reports[k][2] \in Remotes
      BY <2>1
    <2>3. TunnelState(reports[k][3]) \in TunnelStates
      BY DEF TunnelState, TunnelStates
    <2> QED
      BY <2>2, <2>3 DEF Tunnel, TunnelRecords
  <1> QED
    BY <1>1, <1>2

(* The call begins with nothing met. *)
LEMMA TunnelInitInv == TunnelInit => TunnelIInv
  BY DEF TunnelInit, FanOutInit, TunnelIInv, TunnelPhaseInv, TunnelTypeOK, SeenInv, TunnelsOnce, FromInv,
         MetInv

(* While nothing is met the tunnels read so far may be any. *)
LEMMA NothingMet ==
    ASSUME TunnelPhaseInv, node = 1, pos = 1, seen = {}, Tunnels = <<>>
    PROVE  SeenInv /\ FromInv /\ MetInv
  <1>1. SeenInv /\ FromInv
    BY DEF SeenInv, TunnelsOnce, FromInv
  <1>2. \A i \in DOMAIN perNode : \A k \in DOMAIN perNode[i] : ~Before(i, k, 1, 1)
    <2> SUFFICES ASSUME NEW i \in DOMAIN perNode, NEW k \in DOMAIN perNode[i]
                 PROVE  ~Before(i, k, 1, 1)
      OBVIOUS
    <2>1. perNode \in Seq(Seq(TunnelRecords))
      BY DEF TunnelPhaseInv, TunnelTypeOK
    <2>2. i \in Nat \ {0} /\ k \in Nat \ {0}
      BY <2>1
    <2> QED
      BY <2>2 DEF Before
  <1> QED
    BY <1>1, <1>2 DEF MetInv

(* Listing, reading and joining meet no tunnel. *)
LEMMA FetchingKeepsInv ==
    ASSUME TunnelIInv,
           \/ ListTunnelNodes
           \/ TunnelListingFails
           \/ \E i \in pending : FetchTunnels(i)
           \/ TunnelsJoined
    PROVE  TunnelIInv'
  <1> USE DEF TunnelIInv
  <1>1. CASE ListTunnelNodes
    <2>1. PICK page \in PagesOf(Nodes) :
            \/ MidPage(page) /\ UNCHANGED tunnelVars
            \/ /\ LastPage(page)
               /\ Spawn
               /\ perNode' = [i \in DOMAIN listed' |-> <<>>]
               /\ UNCHANGED <<node, pos, seen, Tunnels>>
      BY <1>1 DEF ListTunnelNodes
    <2>2. call = "listing" /\ Paged(page)
      BY <1>1, <2>1 DEF ListTunnelNodes, MidPage, LastPage
    <2>3. listed' \in Seq(Nodes) /\ listed \in Seq(Nodes)
      BY <2>2, ListedNodes DEF TunnelPhaseInv
    <2>4. CASE MidPage(page) /\ UNCHANGED tunnelVars
      <3>1. pending' \subseteq DOMAIN listed'
        <4>1. DOMAIN listed \subseteq DOMAIN listed'
          BY <2>2, <2>3, PageIsSeq DEF Paged
        <4> QED
          BY <2>4, <4>1 DEF TunnelPhaseInv, MidPage
      <3>2. TunnelPhaseInv'
        BY <2>2, <2>3, <2>4, <3>1 DEF TunnelPhaseInv, MidPage, tunnelVars, TunnelTypeOK
      <3> QED
        BY <2>2, <2>4, <3>2, NothingMet DEF tunnelVars, TunnelPhaseInv, SeenInv, TunnelsOnce, FromInv, MetInv,
            FirstReport
    <2>5. CASE LastPage(page) /\ Spawn /\ perNode' = [i \in DOMAIN listed' |-> <<>>]
               /\ UNCHANGED <<node, pos, seen, Tunnels>>
      <3>1. perNode' \in Seq(Seq(TunnelRecords)) /\ DOMAIN perNode' = DOMAIN listed'
        <4>1. PICK n \in Nat : DOMAIN listed' = 1..n
          BY <2>3
        <4>2. perNode' \in [1..n -> Seq(TunnelRecords)]
          BY <2>5, <4>1
        <4> QED
          BY <4>1, <4>2
      <3>2. node' = 1 /\ pos' = 1 /\ seen' = {} /\ Tunnels' = <<>>
        BY <2>2, <2>5 DEF TunnelPhaseInv
      <3>3. call' = "returned" => node' \notin DOMAIN perNode'
        BY <2>5, <3>1 DEF Spawn
      <3>4. call' \in {"fetching", "returned"} /\ pending' \subseteq DOMAIN listed'
        BY <2>5 DEF Spawn
      <3>5. TunnelPhaseInv'
        BY <2>3, <3>1, <3>2, <3>3, <3>4 DEF TunnelPhaseInv, TunnelTypeOK
      <3>6. \A i \in DOMAIN perNode' : DOMAIN perNode'[i] = {}
        BY <2>5
      <3> QED
        BY <3>2, <3>5, <3>6 DEF SeenInv, TunnelsOnce, FromInv, MetInv
    <2> QED
      BY <2>1, <2>4, <2>5
  <1>2. CASE TunnelListingFails
    <2>1. TunnelPhaseInv'
      BY <1>2 DEF TunnelListingFails, ListingFails, BrokenWalk, tunnelVars, TunnelPhaseInv, TunnelTypeOK
    <2> QED
      BY <1>2, <2>1 DEF TunnelListingFails, ListingFails, tunnelVars, SeenInv, TunnelsOnce,
          FromInv, MetInv, FirstReport
  <1>3. ASSUME NEW i \in pending, FetchTunnels(i) PROVE TunnelIInv'
    <2>1. call = "fetching" /\ call' = call /\ listed' = listed /\ pending' \subseteq pending
      BY <1>3 DEF FetchTunnels, Running, Done
    <2>2. perNode' \in Seq(Seq(TunnelRecords))
      <3>1. listed[i] \in Nodes
        BY DEF TunnelPhaseInv
      <3>2. ASSUME NEW reports \in Reports,
                   perNode' = [perNode EXCEPT ![i] =
                                 [k \in DOMAIN reports |-> Tunnel(listed[i], reports[k])]]
            PROVE  perNode' \in Seq(Seq(TunnelRecords))
        <4>1. [k \in DOMAIN reports |-> Tunnel(listed[i], reports[k])] \in Seq(TunnelRecords)
          BY <3>1, ReportRecords
        <4>2. PICK n \in Nat : perNode \in [1..n -> Seq(TunnelRecords)]
          BY DEF TunnelPhaseInv, TunnelTypeOK
        <4>3. perNode' \in [1..n -> Seq(TunnelRecords)]
          BY <3>2, <4>1, <4>2
        <4> QED
          BY <4>3
      <3>3. CASE UNCHANGED perNode
        BY <3>3 DEF TunnelPhaseInv, TunnelTypeOK
      <3> QED
        BY <1>3, <3>2, <3>3 DEF FetchTunnels
    <2>3. node' = 1 /\ pos' = 1 /\ seen' = {} /\ Tunnels' = <<>>
      BY <1>3, <2>1 DEF FetchTunnels, TunnelPhaseInv
    <2>4. TunnelPhaseInv'
      BY <2>1, <2>2, <2>3 DEF TunnelPhaseInv, TunnelTypeOK
    <2>5. (SeenInv /\ FromInv /\ MetInv)'
      <3>1. SeenInv' /\ FromInv'
        BY <2>3 DEF SeenInv, TunnelsOnce, FromInv
      <3>2. ASSUME NEW j \in DOMAIN perNode', NEW k \in DOMAIN perNode'[j]
            PROVE  ~Before(j, k, 1, 1)
        <4>1. j \in Nat \ {0} /\ k \in Nat \ {0}
          BY <2>2
        <4> QED
          BY <4>1 DEF Before
      <3> QED
        BY <2>3, <3>1, <3>2 DEF MetInv
    <2> QED
      BY <2>4, <2>5
  <1>4. CASE TunnelsJoined
    <2>1. TunnelPhaseInv'
      BY <1>4 DEF TunnelsJoined, Joined, TunnelPhaseInv, TunnelTypeOK
    <2> QED
      BY <1>4, <2>1 DEF TunnelsJoined, SeenInv, TunnelsOnce, FromInv, MetInv, FirstReport
  <1> QED
    BY <1>1, <1>2, <1>3, <1>4

(* The types of the place that the flattening has reached. *)
LEMMA PlaceTypes ==
    ASSUME TunnelPhaseInv
    PROVE  /\ node \in Nat \ {0} /\ pos \in Nat \ {0}
           /\ \A i \in DOMAIN perNode :
                /\ i \in Nat \ {0}
                /\ \A k \in DOMAIN perNode[i] : k \in Nat \ {0} /\ perNode[i][k] \in TunnelRecords
  BY DEF TunnelPhaseInv, TunnelTypeOK

(* A tunnel whose labels are new is kept. *)
LEMMA KeepKeepsInv ==
    ASSUME TunnelIInv, KeepTunnel
    PROVE  TunnelIInv'
  <1> USE DEF TunnelIInv
  <1> DEFINE t == perNode[node][pos]
  <1>1. /\ call = "merging" /\ node \in DOMAIN perNode /\ pos \in DOMAIN perNode[node]
        /\ TunnelKey(t) \notin seen
        /\ seen' = seen \cup {TunnelKey(t)}
        /\ Tunnels' = Append(Tunnels, t)
        /\ pos' = pos + 1
        /\ UNCHANGED <<fanOutVars, perNode, node>>
    BY DEF KeepTunnel, Merging
  <1>2. /\ node \in Nat \ {0} /\ pos \in Nat \ {0} /\ t \in TunnelRecords
        /\ Tunnels \in Seq(TunnelRecords)
    BY <1>1, PlaceTypes DEF TunnelPhaseInv, TunnelTypeOK
  <1>3. /\ DOMAIN Tunnels' = DOMAIN Tunnels \cup {Len(Tunnels) + 1}
        /\ \A j \in DOMAIN Tunnels : Tunnels'[j] = Tunnels[j] /\ j # Len(Tunnels) + 1
        /\ Tunnels'[Len(Tunnels) + 1] = t
        /\ Tunnels' \in Seq(TunnelRecords)
    BY <1>1, <1>2
  <1>4. TunnelKey(t) \in Nodes \X LocalIPs \X Remotes
    BY <1>2 DEF TunnelKey, TunnelRecords
  <1>5. TunnelPhaseInv'
    BY <1>1, <1>2, <1>3, <1>4 DEF TunnelPhaseInv, TunnelTypeOK, fanOutVars
  <1>6. SeenInv'
    <2>1. seen' = {TunnelKey(Tunnels'[j]) : j \in DOMAIN Tunnels'}
      BY <1>1, <1>3 DEF SeenInv
    <2>2. \A j \in DOMAIN Tunnels : TunnelKey(Tunnels[j]) # TunnelKey(t)
      BY <1>1 DEF SeenInv
    <2>3. TunnelsOnce'
      BY <1>3, <2>2 DEF SeenInv, TunnelsOnce, TunnelKey, TunnelLabels
    <2> QED
      BY <2>1, <2>3 DEF SeenInv, TunnelKey
  <1>7. \A i \in DOMAIN perNode : \A k \in DOMAIN perNode[i] :
          Before(i, k, node', pos') <=> Before(i, k, node, pos) \/ (i = node /\ k = pos)
    BY <1>1, <1>2, PlaceTypes DEF Before
  <1>8. FromInv'
    BY <1>1, <1>3, <1>7 DEF FromInv
  <1>9. MetInv'
    <2> SUFFICES ASSUME NEW i \in DOMAIN perNode, NEW k \in DOMAIN perNode[i],
                        Before(i, k, node', pos')
                 PROVE  /\ TunnelKey(perNode[i][k]) \in seen'
                        /\ FirstReport(i, k) => \E j \in DOMAIN Tunnels' : Tunnels'[j] = perNode[i][k]
      BY <1>1 DEF MetInv, FirstReport, TunnelKey
    <2>1. CASE Before(i, k, node, pos)
      BY <1>1, <1>3, <2>1 DEF MetInv
    <2>2. CASE i = node /\ k = pos
      BY <1>1, <1>3, <2>2
    <2> QED
      BY <1>7, <2>1, <2>2
  <1> QED
    BY <1>5, <1>6, <1>8, <1>9

(* One whose labels have been met was not the first report of them. *)
LEMMA SkipKeepsInv ==
    ASSUME TunnelIInv, SkipTunnel
    PROVE  TunnelIInv'
  <1> USE DEF TunnelIInv
  <1>1. /\ call = "merging" /\ node \in DOMAIN perNode /\ pos \in DOMAIN perNode[node]
        /\ TunnelKey(perNode[node][pos]) \in seen
        /\ pos' = pos + 1
        /\ UNCHANGED <<fanOutVars, perNode, node, seen, Tunnels>>
    BY DEF SkipTunnel, Merging
  <1>2. node \in Nat \ {0} /\ pos \in Nat \ {0}
    BY PlaceTypes
  <1>3. TunnelPhaseInv'
    BY <1>1, <1>2 DEF TunnelPhaseInv, TunnelTypeOK, fanOutVars
  <1>4. \A i \in DOMAIN perNode : \A k \in DOMAIN perNode[i] :
          Before(i, k, node', pos') <=> Before(i, k, node, pos) \/ (i = node /\ k = pos)
    BY <1>1, <1>2, PlaceTypes DEF Before
  <1>5. ~FirstReport(node, pos)
    <2>1. PICK j \in DOMAIN Tunnels : TunnelKey(Tunnels[j]) = TunnelKey(perNode[node][pos])
      BY <1>1 DEF SeenInv
    <2>2. PICK i \in DOMAIN perNode : \E k \in DOMAIN perNode[i] :
            Before(i, k, node, pos) /\ perNode[i][k] = Tunnels[j]
      BY DEF FromInv
    <2>3. PICK k \in DOMAIN perNode[i] : Before(i, k, node, pos) /\ perNode[i][k] = Tunnels[j]
      BY <2>2
    <2> QED
      BY <2>1, <2>3 DEF FirstReport, TunnelKey, TunnelLabels
  <1>6. SeenInv' /\ FromInv'
    BY <1>1, <1>4 DEF SeenInv, TunnelsOnce, FromInv
  <1>7. MetInv'
    BY <1>1, <1>4, <1>5 DEF MetInv, FirstReport
  <1> QED
    BY <1>3, <1>6, <1>7

(* The next node's tunnels come after all of this one's. *)
LEMMA NextNodeKeepsInv ==
    ASSUME TunnelIInv, NextNode
    PROVE  TunnelIInv'
  <1> USE DEF TunnelIInv
  <1>1. /\ call = "merging" /\ node \in DOMAIN perNode /\ pos \notin DOMAIN perNode[node]
        /\ node' = node + 1 /\ pos' = 1
        /\ UNCHANGED <<fanOutVars, perNode, seen, Tunnels>>
    BY DEF NextNode, Merging
  <1>2. node \in Nat \ {0} /\ pos \in Nat \ {0} /\ perNode \in Seq(Seq(TunnelRecords))
    BY DEF TunnelPhaseInv, TunnelTypeOK
  <1>3. TunnelPhaseInv'
    BY <1>1, <1>2 DEF TunnelPhaseInv, TunnelTypeOK, fanOutVars
  <1>4. \A k \in DOMAIN perNode[node] : k < pos
    BY <1>1, <1>2
  <1>5. \A i \in DOMAIN perNode : \A k \in DOMAIN perNode[i] :
          Before(i, k, node', pos') <=> Before(i, k, node, pos)
    BY <1>1, <1>2, <1>4, PlaceTypes DEF Before
  <1>6. SeenInv' /\ FromInv'
    BY <1>1, <1>5 DEF SeenInv, TunnelsOnce, FromInv
  <1>7. MetInv'
    BY <1>1, <1>5 DEF MetInv, FirstReport
  <1> QED
    BY <1>3, <1>6, <1>7

(* The strengthening is inductive. *)
LEMMA TunnelNextInv ==
    ASSUME TunnelIInv, [TunnelNext]_TunnelAllVars
    PROVE  TunnelIInv'
  <1>1. CASE TunnelsCollected
    <2>1. TunnelPhaseInv'
      BY <1>1 DEF TunnelsCollected, tunnelVars, TunnelIInv, TunnelPhaseInv, TunnelTypeOK
    <2> QED
      BY <1>1, <2>1 DEF TunnelsCollected, tunnelVars, TunnelIInv, SeenInv, TunnelsOnce, FromInv, MetInv,
          FirstReport
  <1>2. CASE UNCHANGED TunnelAllVars
    BY <1>2 DEF TunnelAllVars, fanOutVars, tunnelVars, TunnelIInv, TunnelPhaseInv, TunnelTypeOK, SeenInv,
        TunnelsOnce, FromInv, MetInv, FirstReport
  <1> QED
    BY <1>1, <1>2, FetchingKeepsInv, KeepKeepsInv, SkipKeepsInv, NextNodeKeepsInv DEF TunnelNext

(* When the call returns every report has been met. *)
LEMMA TunnelInvImplies == TunnelIInv => TunnelsOnce /\ TunnelsComplete
  <1> SUFFICES ASSUME TunnelIInv PROVE TunnelsOnce /\ TunnelsComplete
    OBVIOUS
  <1>1. ASSUME call = "returned", NEW i \in DOMAIN perNode, NEW k \in DOMAIN perNode[i]
        PROVE  Before(i, k, node, pos)
    <2>1. node \in Nat \ {0} /\ perNode \in Seq(Seq(TunnelRecords)) /\ node \notin DOMAIN perNode
      BY <1>1 DEF TunnelIInv, TunnelPhaseInv, TunnelTypeOK
    <2>2. PICK n \in Nat : DOMAIN perNode = 1..n
      BY <2>1
    <2>3. node > n /\ i <= n /\ i \in Nat
      BY <2>1, <2>2
    <2> QED
      BY <2>1, <2>3 DEF Before
  <1> QED
    BY <1>1 DEF TunnelIInv, SeenInv, MetInv, TunnelsComplete

LEMMA TunnelInductive == TunnelSpec => []TunnelIInv
  BY TunnelInitInv, TunnelNextInv, PTL DEF TunnelSpec, TunnelAllVars

(* Types, of the tunnel collector. *)
THEOREM TunnelTypesCorrect == TunnelSpec => []TunnelTypeOK
  <1>1. TunnelIInv => TunnelTypeOK
    BY DEF TunnelIInv, TunnelPhaseInv
  <1> QED
    BY <1>1, TunnelInductive, PTL

(* No label tuple is in the section twice, whatever nodes are listed twice  *)
(* and whatever they report.                                                *)
THEOREM EachTunnelOnce == TunnelSpec => []TunnelsOnce
  BY TunnelInductive, TunnelInvImplies, PTL

(* No reported tunnel is lost, and the first report in the order of the     *)
(* listing is the one that counts.                                          *)
THEOREM NoTunnelLost == TunnelSpec => []TunnelsComplete
  BY TunnelInductive, TunnelInvImplies, PTL

-----------------------------------------------------------------------------
(* collectBGPNeighbors: no session lost between goroutines that append. *)

BGPAllVars == <<fanOutVars, bgpVars>>

BGPPlaces == {"services", "status", "lock", "append", "done"}

(* The types while the goroutines run; there is nothing before. *)
BGPFetchTypes ==
    /\ listed \in Seq(Tier0s)
    /\ pending \subseteq DOMAIN listed
    /\ at \in [DOMAIN listed -> BGPPlaces]
    /\ holder \in DOMAIN listed \cup {Nobody}
    /\ slice \in [DOMAIN listed -> Seq(Sessions)]
    /\ results \in Seq(Sessions)
    /\ services \in [DOMAIN listed -> Seq(LocaleServices)]
    /\ current \in [DOMAIN listed -> Nat]
    /\ entries \in [DOMAIN listed -> SUBSET Neighbors]
    /\ answered \subseteq Sessions

BGPPhaseInv ==
    /\ call \in {"listing", "fetching", "returned", "failed"}
    /\ call = "fetching" => BGPFetchTypes
    /\ call = "listing" =>
         listed \in Seq(Tier0s) /\ holder = Nobody /\ results = <<>> /\ answered = {}
    /\ call = "failed" => BGPNeighbors = <<>> /\ answered = {}
    /\ call # "returned" => BGPNeighbors = <<>>
    /\ BGPNothingLost

(* A goroutine between the two steps of its append has the mutex, and what  *)
(* it has read is still what the slice is.                                  *)
BGPLockInv == \A i \in DOMAIN listed : at[i] = "append" => holder = i /\ slice[i] = results

(* What goroutine i has still to append. *)
Due(i) == {Session(i, current[i], n) : n \in entries[i]}

BGPStored(e) == \E j \in DOMAIN results : results[j] = e

(* What was answered is in the slice, once, or due. *)
BGPAccountInv ==
    /\ \A e \in answered : BGPStored(e) <=> e \notin Due(e.tier0)
    /\ NoRepeats(results)
    /\ \A j \in DOMAIN results : results[j] \in answered
    /\ \A i \in DOMAIN listed : Due(i) \subseteq answered

(* Entries are due between an answer and the last of its appends only, and a*)
(* goroutine never comes back to a locale service.                          *)
BGPProgressInv ==
    /\ \A i \in DOMAIN listed :
         /\ at[i] \in {"services", "status", "done"} => entries[i] = {}
         /\ i \notin pending => at[i] = "done"
    /\ \A e \in answered :
         /\ e.service <= current[e.tier0]
         /\ at[e.tier0] \in {"services", "status", "done"} => e.service < current[e.tier0]

BGPFetchInv == BGPFetchTypes /\ BGPLockInv /\ BGPAccountInv /\ BGPProgressInv

BGPIInv == BGPPhaseInv /\ (call = "fetching" => BGPFetchInv)

-----------------------------------------------------------------------------
(* Sessions are told apart by their parts. *)
LEMMA SessionParts ==
    \A i, k, n : /\ Session(i, k, n).tier0 = i
                 /\ Session(i, k, n).service = k
                 /\ Session(i, k, n).neighbor = n
  BY DEF Session

LEMMA BGPInitInv == BGPInit => BGPIInv
  BY DEF BGPInit, AppendInit, FanOutInit, BGPIInv, BGPPhaseInv, BGPNothingLost

-----------------------------------------------------------------------------
(* One lemma for each step of a goroutine. *)

LEMMA ListServicesKeeps ==
    ASSUME BGPFetchInv, call = "fetching", NEW i \in pending, ListLocaleServices(i)
    PROVE  BGPFetchInv'
  <1> USE DEF BGPFetchInv
  <1>1. /\ at[i] = "services" /\ at' = [at EXCEPT ![i] = "status"]
        /\ UNCHANGED <<fanOutVars, holder, slice, results, current, entries, answered>>
    BY DEF ListLocaleServices, GoTo
  <1>2. PICK n \in 0..MaxServices : \E ls \in [1..n -> LocaleServices] :
          services' = [services EXCEPT ![i] = ls]
    BY DEF ListLocaleServices
  <1>3. PICK ls \in [1..n -> LocaleServices] : services' = [services EXCEPT ![i] = ls]
    BY <1>2
  <1>4. ls \in Seq(LocaleServices)
    BY BGPAssumption
  <1>5. BGPFetchTypes'
    BY <1>1, <1>3, <1>4 DEF BGPFetchTypes, fanOutVars, Sessions, BGPPlaces
  <1>6. i \in DOMAIN listed
    BY DEF BGPFetchTypes
  <1>7. BGPLockInv'
    BY <1>1, <1>6 DEF BGPFetchTypes, BGPLockInv, fanOutVars
  <1>9. BGPAccountInv'
    <2>1. NoRepeats(results)'
      BY <1>1 DEF BGPAccountInv, NoRepeats
    <2>2. \A k : Due(k)' = Due(k) /\ BGPStored(k)' = BGPStored(k)
      BY <1>1 DEF Due, BGPStored
    <2> QED
      BY <1>1, <2>1, <2>2 DEF BGPAccountInv, fanOutVars
  <1>8. BGPProgressInv'
    BY <1>1, <1>6 DEF BGPFetchTypes, BGPProgressInv, fanOutVars
  <1> QED
    BY <1>5, <1>7, <1>8, <1>9

LEMMA NoStatusKeeps ==
    ASSUME BGPFetchInv, call = "fetching", NEW i \in pending, NoStatus(i)
    PROVE  BGPFetchInv'
  <1> USE DEF BGPFetchInv
  <1>1. /\ at[i] = "status" /\ current' = [current EXCEPT ![i] = @ + 1]
        /\ UNCHANGED <<fanOutVars, at, holder, slice, results, services, entries, answered>>
    BY DEF NoStatus, AtService, appendVars
  <1>2. i \in DOMAIN listed /\ entries[i] = {}
    BY <1>1 DEF BGPFetchTypes, BGPProgressInv
  <1>3. BGPFetchTypes'
    <2>1. current' \in [DOMAIN listed -> Nat]
      BY <1>1, <1>2 DEF BGPFetchTypes
    <2>2. Sessions' = Sessions
      BY <1>1 DEF Sessions, fanOutVars
    <2> QED
      BY <1>1, <2>1, <2>2 DEF BGPFetchTypes, fanOutVars
  <1>4. \A k \in DOMAIN listed : Due(k)' = Due(k)
    BY <1>1, <1>2 DEF Due, BGPFetchTypes
  <1>5. BGPLockInv' /\ BGPAccountInv'
    BY <1>1, <1>4 DEF BGPFetchTypes, BGPLockInv, BGPAccountInv, BGPStored, NoRepeats, fanOutVars, Sessions
  <1>6. BGPProgressInv'
    BY <1>1, <1>2 DEF BGPFetchTypes, BGPProgressInv, fanOutVars, Sessions
  <1> QED
    BY <1>3, <1>5, <1>6

(* What a status lists, in whatever number, is neighbours. *)
LEMMA StatusesAre ==
    ASSUME NEW found \in Statuses
    PROVE  found \in (SUBSET Neighbors) \ {{}}
  <1>1. PICK n \in 1..MaxSessions : \E sessions \in [1..n -> StatusEntries] :
           found = {[place |-> p, entry |-> sessions[p]] : p \in 1..n}
    BY BGPAssumption DEF Statuses
  <1>2. PICK sessions \in [1..n -> StatusEntries] :
           found = {[place |-> p, entry |-> sessions[p]] : p \in 1..n}
    BY <1>1
  <1>3. n \in Nat /\ 1 \in 1..n
    BY BGPAssumption
  <1>4. \A p \in 1..n : [place |-> p, entry |-> sessions[p]] \in Neighbors
    BY <1>3 DEF Neighbors
  <1>5. found \in SUBSET Neighbors
    BY <1>2, <1>4
  <1>6. [place |-> 1, entry |-> sessions[1]] \in found
    BY <1>2, <1>3
  <1> QED
    BY <1>5, <1>6

LEMMA StatusKeeps ==
    ASSUME BGPFetchInv, call = "fetching", NEW i \in pending, Status(i)
    PROVE  BGPFetchInv'
  <1> USE DEF BGPFetchInv
  <1>1. PICK found \in (SUBSET Neighbors) \ {{}} :
          /\ entries' = [entries EXCEPT ![i] = found]
          /\ answered' = answered \cup {Session(i, current[i], n) : n \in found}
    BY StatusesAre DEF Status
  <1>2. /\ at[i] = "status" /\ at' = [at EXCEPT ![i] = "lock"]
        /\ UNCHANGED <<fanOutVars, holder, slice, results, services, current>>
    BY DEF Status, AtService, GoTo
  <1>3. i \in DOMAIN listed /\ entries[i] = {} /\ current[i] \in Nat
    BY <1>2 DEF BGPFetchTypes, BGPProgressInv
  <1>4. \A n \in found : Session(i, current[i], n) \in Sessions
    BY <1>3 DEF Session, Sessions
  <1>5. BGPFetchTypes'
    <2>1. entries' \in [DOMAIN listed -> SUBSET Neighbors]
      BY <1>1 DEF BGPFetchTypes
    <2>2. answered' \subseteq Sessions
      BY <1>1, <1>4 DEF BGPFetchTypes
    <2>3. at' \in [DOMAIN listed -> BGPPlaces]
      BY <1>2 DEF BGPFetchTypes, BGPPlaces
    <2>4. Sessions' = Sessions
      BY <1>2 DEF Sessions, fanOutVars
    <2> QED
      BY <1>2, <2>1, <2>2, <2>3, <2>4 DEF BGPFetchTypes, fanOutVars
  <1>6. \A k \in DOMAIN listed \ {i} : Due(k)' = Due(k)
    BY <1>1, <1>2, <1>3 DEF Due, BGPFetchTypes
  <1>7. Due(i)' = {Session(i, current[i], n) : n \in found} /\ Due(i) = {}
    BY <1>1, <1>2, <1>3 DEF Due, BGPFetchTypes
  <1>8. \A e \in answered : e \notin Due(i)'
    <2> SUFFICES ASSUME NEW e \in answered, e \in Due(i)' PROVE FALSE
      OBVIOUS
    <2>1. e.tier0 = i /\ e.service = current[i]
      BY <1>7, SessionParts
    <2>2. e.service < current[i]
      BY <1>2, <2>1 DEF BGPProgressInv
    <2> QED
      BY <1>3, <2>1, <2>2
  <1>9. BGPAccountInv'
    <2>1. \A e \in answered' : BGPStored(e)' <=> e \notin Due(e.tier0)'
      <3> TAKE e \in answered'
      <3>1. BGPStored(e)' <=> BGPStored(e)
        BY <1>2 DEF BGPStored
      <3>2. CASE e \in Due(i)'
        <4>1. e.tier0 = i /\ e \notin answered
          BY <1>7, <1>8, <3>2, SessionParts
        <4>2. ~BGPStored(e)
          BY <4>1 DEF BGPAccountInv, BGPStored
        <4> QED
          BY <3>1, <3>2, <4>1, <4>2
      <3>3. CASE e \in answered
        <4>1. e.tier0 \in DOMAIN listed
          BY <3>3 DEF BGPFetchTypes, Sessions
        <4>2. CASE e.tier0 = i
          BY <1>7, <1>8, <3>1, <3>3, <4>2 DEF BGPAccountInv
        <4>3. CASE e.tier0 # i
          BY <1>6, <3>1, <3>3, <4>1, <4>3 DEF BGPAccountInv
        <4> QED
          BY <4>2, <4>3
      <3> QED
        BY <1>1, <1>7, <3>2, <3>3
    <2>2. \A j \in DOMAIN results' : results'[j] \in answered'
      BY <1>1, <1>2 DEF BGPAccountInv
    <2>3. \A k \in DOMAIN listed' : Due(k)' \subseteq answered'
      BY <1>1, <1>2, <1>6, <1>7 DEF BGPAccountInv, fanOutVars
    <2>4. NoRepeats(results)'
      BY <1>2 DEF BGPAccountInv, NoRepeats
    <2> QED
      BY <2>1, <2>2, <2>3, <2>4 DEF BGPAccountInv
  <1>10. BGPLockInv'
    BY <1>2, <1>3 DEF BGPFetchTypes, BGPLockInv, fanOutVars
  <1>11. BGPProgressInv'
    <2>1. \A e \in answered' :
            /\ e.service <= current'[e.tier0]
            /\ at'[e.tier0] \in {"services", "status", "done"} => e.service < current'[e.tier0]
      <3> TAKE e \in answered'
      <3>1. CASE e \in answered
        BY <1>2, <1>3, <3>1 DEF BGPProgressInv, BGPFetchTypes, Sessions
      <3>2. CASE e \in Due(i)'
        BY <1>2, <1>3, <1>7, <3>2, SessionParts DEF BGPFetchTypes
      <3> QED
        BY <1>1, <1>7, <3>1, <3>2
    <2>2. \A k \in DOMAIN listed' :
            /\ at'[k] \in {"services", "status", "done"} => entries'[k] = {}
            /\ k \notin pending' => at'[k] = "done"
      BY <1>1, <1>2, <1>3 DEF BGPProgressInv, BGPFetchTypes, fanOutVars
    <2> QED
      BY <2>1, <2>2 DEF BGPProgressInv
  <1> QED
    BY <1>5, <1>9, <1>10, <1>11

LEMMA BGPLockKeeps ==
    ASSUME BGPFetchInv, call = "fetching", NEW i \in pending, LockNeighbors(i)
    PROVE  BGPFetchInv'
  <1> USE DEF BGPFetchInv
  <1>1. /\ at[i] = "lock" /\ at' = [at EXCEPT ![i] = "append"]
        /\ holder = Nobody /\ holder' = i
        /\ slice' = [slice EXCEPT ![i] = results]
        /\ UNCHANGED <<fanOutVars, results, services, current, entries, answered>>
    BY DEF LockNeighbors, Lock, GoTo
  <1>2. i \in DOMAIN listed /\ DOMAIN listed \subseteq Nat \ {0}
    BY DEF BGPFetchTypes
  <1>3. BGPFetchTypes'
    <2>1. slice' \in [DOMAIN listed -> Seq(Sessions)] /\ at' \in [DOMAIN listed -> BGPPlaces]
      BY <1>1 DEF BGPFetchTypes, BGPPlaces
    <2>2. Sessions' = Sessions
      BY <1>1 DEF Sessions, fanOutVars
    <2> QED
      BY <1>1, <1>2, <2>1, <2>2 DEF BGPFetchTypes, fanOutVars
  <1>4. \A k \in DOMAIN listed : at[k] # "append"
    BY <1>1, <1>2 DEF BGPLockInv, Nobody
  <1>5. BGPLockInv'
    BY <1>1, <1>2, <1>4 DEF BGPFetchTypes, BGPLockInv, fanOutVars
  <1>6. BGPAccountInv'
    <2>1. NoRepeats(results)'
      BY <1>1 DEF BGPAccountInv, NoRepeats
    <2>2. \A k : Due(k)' = Due(k) /\ BGPStored(k)' = BGPStored(k)
      BY <1>1 DEF Due, BGPStored
    <2> QED
      BY <1>1, <2>1, <2>2 DEF BGPAccountInv, fanOutVars
  <1>7. BGPProgressInv'
    BY <1>1, <1>2 DEF BGPFetchTypes, BGPProgressInv, fanOutVars
  <1> QED
    BY <1>3, <1>5, <1>6, <1>7

LEMMA BGPAppendKeeps ==
    ASSUME BGPFetchInv, call = "fetching", NEW i \in pending, AppendNeighbor(i)
    PROVE  BGPFetchInv'
  <1> USE DEF BGPFetchInv
  <1>1. PICK n \in entries[i] :
          /\ Store(i, Session(i, current[i], n))
          /\ entries' = [entries EXCEPT ![i] = @ \ {n}]
    BY DEF AppendNeighbor
  <1> DEFINE e == Session(i, current[i], n)
  <1>2. /\ at[i] = "append" /\ holder' = Nobody
        /\ results' = Append(slice[i], e)
        /\ slice' = [slice EXCEPT ![i] = <<>>]
        /\ UNCHANGED <<fanOutVars, services, answered>>
    BY <1>1 DEF Store, AppendNeighbor
  <1>3. \/ /\ entries'[i] = {}
           /\ at' = [at EXCEPT ![i] = "status"] /\ current' = [current EXCEPT ![i] = @ + 1]
        \/ entries'[i] # {} /\ at' = [at EXCEPT ![i] = "lock"] /\ current' = current
    BY DEF AppendNeighbor, GoTo
  <1>4. /\ i \in DOMAIN listed /\ current[i] \in Nat /\ n \in Neighbors
        /\ holder = i /\ slice[i] = results /\ results \in Seq(Sessions)
    BY <1>2 DEF BGPFetchTypes, BGPLockInv
  <1>5. e \in Sessions /\ e \in Due(i)
    BY <1>4 DEF Session, Sessions, Due
  <1>6. /\ results' \in Seq(Sessions)
        /\ DOMAIN results' = DOMAIN results \cup {Len(results) + 1}
        /\ \A j \in DOMAIN results : results'[j] = results[j] /\ j # Len(results) + 1
        /\ results'[Len(results) + 1] = e
    BY <1>2, <1>4, <1>5, AppendOne
  <1>7. BGPFetchTypes'
    <2>1. slice' \in [DOMAIN listed -> Seq(Sessions)]
      BY <1>2 DEF BGPFetchTypes
    <2>4. at' \in [DOMAIN listed -> BGPPlaces]
      BY <1>3 DEF BGPFetchTypes, BGPPlaces
    <2>5. entries' \in [DOMAIN listed -> SUBSET Neighbors]
      BY <1>1 DEF BGPFetchTypes
    <2>2. current' \in [DOMAIN listed -> Nat]
      <3>1. [current EXCEPT ![i] = @ + 1] \in [DOMAIN listed -> Nat]
        BY <1>4 DEF BGPFetchTypes
      <3>2. current \in [DOMAIN listed -> Nat]
        BY DEF BGPFetchTypes
      <3> QED
        BY <1>3, <3>1, <3>2
    <2>3. Sessions' = Sessions
      BY <1>2 DEF Sessions, fanOutVars
    <2> QED
      BY <1>2, <1>6, <2>1, <2>2, <2>3, <2>4, <2>5 DEF BGPFetchTypes, fanOutVars
  <1>8. BGPLockInv'
    <2> SUFFICES ASSUME NEW k \in DOMAIN listed, at'[k] = "append" PROVE FALSE
      BY <1>2 DEF BGPLockInv, fanOutVars
    <2>1. k # i /\ at[k] = "append"
      BY <1>3, <1>4 DEF BGPFetchTypes
    <2> QED
      BY <1>4, <2>1 DEF BGPLockInv
  <1>9. \A k \in DOMAIN listed \ {i} : Due(k)' = Due(k)
    BY <1>1, <1>3, <1>4 DEF Due, BGPFetchTypes
  <1>10. Due(i)' = Due(i) \ {e}
    <2>1. entries'[i] = entries[i] \ {n}
      BY <1>1, <1>4 DEF BGPFetchTypes
    <2>2. Due(i) \ {e} = {Session(i, current[i], m) : m \in entries[i] \ {n}}
      BY DEF Due, Session
    <2>3. CASE current' = current
      BY <2>1, <2>2, <2>3 DEF Due
    <2>4. CASE entries'[i] = {}
      BY <2>1, <2>2, <2>4 DEF Due
    <2> QED
      BY <1>3, <2>3, <2>4
  <1>11. e.tier0 = i
    BY SessionParts
  <1>12. BGPAccountInv'
    <2>1. \A f \in answered' : BGPStored(f)' <=> f \notin Due(f.tier0)'
      <3> TAKE f \in answered'
      <3>1. f \in answered /\ f.tier0 \in DOMAIN listed
        BY <1>2 DEF BGPFetchTypes, Sessions
      <3>2. BGPStored(f)' <=> BGPStored(f) \/ f = e
        BY <1>6 DEF BGPStored
      <3>3. CASE f.tier0 = i
        BY <1>5, <1>10, <3>1, <3>2, <3>3 DEF BGPAccountInv
      <3>4. CASE f.tier0 # i
        BY <1>9, <1>11, <3>1, <3>2, <3>4 DEF BGPAccountInv
      <3> QED
        BY <3>3, <3>4
    <2>2. NoRepeats(results)'
      <3>1. e \in answered
        BY <1>4, <1>5 DEF BGPAccountInv
      <3>2. ~BGPStored(e)
        BY <1>5, <1>11, <3>1 DEF BGPAccountInv
      <3>3. \A j \in DOMAIN results : results[j] # e
        BY <3>2 DEF BGPStored
      <3> QED
        BY <1>6, <3>3 DEF BGPAccountInv, NoRepeats
    <2>3. \A j \in DOMAIN results' : results'[j] \in answered'
      BY <1>2, <1>4, <1>5, <1>6 DEF BGPAccountInv
    <2>4. \A k \in DOMAIN listed' : Due(k)' \subseteq answered'
      BY <1>2, <1>4, <1>9, <1>10 DEF BGPAccountInv, fanOutVars
    <2> QED
      BY <2>1, <2>2, <2>3, <2>4 DEF BGPAccountInv
  <1>13. BGPProgressInv'
    <2>1. \A k \in DOMAIN listed' :
            /\ at'[k] \in {"services", "status", "done"} => entries'[k] = {}
            /\ k \notin pending' => at'[k] = "done"
      BY <1>1, <1>2, <1>3, <1>4 DEF BGPProgressInv, BGPFetchTypes, fanOutVars
    <2>2. \A f \in answered' :
            /\ f.service <= current'[f.tier0]
            /\ at'[f.tier0] \in {"services", "status", "done"} => f.service < current'[f.tier0]
      <3> TAKE f \in answered'
      <3>1. f \in answered /\ f.tier0 \in DOMAIN listed /\ f.service \in Nat
        BY <1>2 DEF BGPFetchTypes, Sessions
      <3>2. f.service <= current[f.tier0]
        BY <3>1 DEF BGPProgressInv
      <3>3. CASE f.tier0 = i
        BY <1>3, <1>4, <3>1, <3>2, <3>3 DEF BGPFetchTypes
      <3>4. CASE f.tier0 # i
        BY <1>3, <1>4, <3>1, <3>2, <3>4 DEF BGPProgressInv, BGPFetchTypes
      <3> QED
        BY <3>3, <3>4
    <2> QED
      BY <2>1, <2>2 DEF BGPProgressInv
  <1> QED
    BY <1>7, <1>8, <1>12, <1>13

LEMMA DoneKeeps ==
    ASSUME BGPFetchInv, call = "fetching", NEW i \in pending, Tier0Done(i)
    PROVE  BGPFetchInv'
  <1> USE DEF BGPFetchInv
  <1>1. /\ at[i] = "status" /\ at' = [at EXCEPT ![i] = "done"]
        /\ pending' = pending \ {i}
        /\ UNCHANGED <<listed, holder, slice, results, services, current, entries, answered>>
    BY DEF Tier0Done, Return, GoTo, Done
  <1>2. i \in DOMAIN listed
    BY DEF BGPFetchTypes
  <1>3. BGPFetchTypes'
    <2>1. Sessions' = Sessions
      BY <1>1 DEF Sessions
    <2> QED
      BY <1>1, <2>1 DEF BGPFetchTypes, BGPPlaces
  <1>4. BGPLockInv'
    BY <1>1, <1>2 DEF BGPFetchTypes, BGPLockInv
  <1>5. BGPAccountInv'
    <2>1. NoRepeats(results)'
      BY <1>1 DEF BGPAccountInv, NoRepeats
    <2>2. \A k : Due(k)' = Due(k) /\ BGPStored(k)' = BGPStored(k)
      BY <1>1 DEF Due, BGPStored
    <2> QED
      BY <1>1, <2>1, <2>2 DEF BGPAccountInv
  <1>6. BGPProgressInv'
    BY <1>1, <1>2 DEF BGPFetchTypes, BGPProgressInv
  <1> QED
    BY <1>3, <1>4, <1>5, <1>6

-----------------------------------------------------------------------------
(* The steps of the collector itself. *)

LEMMA BGPListingKeeps ==
    ASSUME BGPIInv, ListTier0s \/ Tier0ListingFails
    PROVE  BGPIInv'
  <1> USE DEF BGPIInv
  <1>1. CASE Tier0ListingFails
    <2>1. /\ call = "listing" /\ call' = "failed" /\ UNCHANGED bgpVars
      BY <1>1 DEF Tier0ListingFails, ListingFails
    <2> QED
      BY <2>1 DEF BGPPhaseInv, bgpVars, BGPNothingLost
  <1>2. CASE ListTier0s
    <2>1. PICK page \in PagesOf(Tier0s) :
            \/ MidPage(page) /\ UNCHANGED bgpVars
            \/ /\ LastPage(page)
               /\ SpawnAt("services")
               /\ services' = [i \in DOMAIN listed' |-> <<>>]
               /\ current' = [i \in DOMAIN listed' |-> 1]
               /\ entries' = [i \in DOMAIN listed' |-> {}]
               /\ UNCHANGED <<answered, BGPNeighbors>>
      BY <1>2 DEF ListTier0s
    <2>2. /\ call = "listing" /\ listed \in Seq(Tier0s) /\ listed' = listed \o page
          /\ holder = Nobody /\ results = <<>> /\ answered = {} /\ BGPNeighbors = <<>>
      BY <1>2, <2>1 DEF ListTier0s, BGPPhaseInv, MidPage, LastPage, Paged
    <2>3. listed' \in Seq(Tier0s)
      BY <2>2, PageIsSeq
    <2>4. CASE MidPage(page) /\ UNCHANGED bgpVars
      BY <2>2, <2>3, <2>4 DEF MidPage, bgpVars, appendVars, BGPPhaseInv, BGPNothingLost
    <2>5. CASE /\ SpawnAt("services")
               /\ services' = [i \in DOMAIN listed' |-> <<>>]
               /\ current' = [i \in DOMAIN listed' |-> 1]
               /\ entries' = [i \in DOMAIN listed' |-> {}]
               /\ UNCHANGED <<answered, BGPNeighbors>>
      <3>1. /\ call' \in {"returned", "fetching"} /\ pending' = DOMAIN listed'
            /\ at' = [i \in DOMAIN listed' |-> "services"]
            /\ slice' = [i \in DOMAIN listed' |-> <<>>]
            /\ holder' = Nobody /\ results' = <<>> /\ answered' = {} /\ BGPNeighbors' = <<>>
        BY <2>2, <2>5 DEF SpawnAt, Spawn
      <3>2. BGPFetchTypes'
        <4>1. slice' \in [DOMAIN listed' -> Seq(Sessions')] /\ results' \in Seq(Sessions')
          BY <3>1
        <4>2. services' \in [DOMAIN listed' -> Seq(LocaleServices)]
          BY <2>5
        <4>3. at' \in [DOMAIN listed' -> BGPPlaces]
          BY <3>1 DEF BGPPlaces
        <4> QED
          BY <2>3, <2>5, <3>1, <4>1, <4>2, <4>3 DEF BGPFetchTypes
      <3>3. BGPLockInv' /\ BGPAccountInv' /\ BGPProgressInv'
        <4>1. NoRepeats(results')
          BY <3>1 DEF NoRepeats
        <4>2. \A i \in DOMAIN listed' : Due(i)' = {}
          BY <2>5 DEF Due
        <4> QED
          BY <2>5, <3>1, <4>1, <4>2 DEF BGPStored, BGPLockInv, BGPAccountInv, BGPProgressInv
      <3>4. BGPPhaseInv'
        BY <3>1, <3>2 DEF BGPPhaseInv, BGPNothingLost, Holds, NoRepeats
      <3> QED
        BY <3>2, <3>3, <3>4 DEF BGPFetchInv
    <2> QED
      BY <2>1, <2>4, <2>5
  <1> QED
    BY <1>1, <1>2

(* When all goroutines are done nothing is due. *)
LEMMA BGPCollectedKeeps ==
    ASSUME BGPIInv, BGPCollected
    PROVE  BGPIInv'
  <1>1. /\ call = "fetching" /\ pending = {} /\ call' = "returned" /\ BGPNeighbors' = results
        /\ UNCHANGED <<listed, results, answered>>
    BY DEF BGPCollected, Joined, appendVars
  <1>2. BGPFetchInv
    BY <1>1 DEF BGPIInv
  <1>3. \A i \in DOMAIN listed : Due(i) = {}
    BY <1>1, <1>2 DEF BGPFetchInv, BGPProgressInv, Due
  <1>4. \A e \in answered : \E j \in DOMAIN results : results[j] = e
    BY <1>2, <1>3 DEF BGPFetchInv, BGPAccountInv, BGPStored, BGPFetchTypes, Sessions
  <1>5. Holds(results, answered)
    BY <1>2, <1>4 DEF BGPFetchInv, BGPAccountInv, Holds
  <1> QED
    BY <1>1, <1>5 DEF BGPIInv, BGPPhaseInv, BGPNothingLost

(* The strengthening is inductive. *)
LEMMA BGPNextInv ==
    ASSUME BGPIInv, [BGPNext]_BGPAllVars
    PROVE  BGPIInv'
  <1>1. ASSUME NEW i \in pending, BGPGoroutine(i) PROVE BGPIInv'
    <2>1. call = "fetching" /\ call' = call /\ BGPNeighbors' = BGPNeighbors
      BY <1>1 DEF BGPGoroutine, ListLocaleServices, NoStatus, Status, LockNeighbors, AppendNeighbor,
          Tier0Done, AtService, Lock, Store, Running, fanOutVars
    <2>2. BGPFetchInv
      BY <2>1 DEF BGPIInv
    <2>3. BGPFetchInv'
      BY <1>1, <2>1, <2>2, ListServicesKeeps, NoStatusKeeps, StatusKeeps, BGPLockKeeps, BGPAppendKeeps,
         DoneKeeps DEF BGPGoroutine
    <2> QED
      BY <2>1, <2>3 DEF BGPIInv, BGPPhaseInv, BGPFetchInv, BGPNothingLost
  <1>2. CASE UNCHANGED BGPAllVars
    <2> USE <1>2 DEF BGPAllVars, fanOutVars, bgpVars, appendVars
    <2>1. BGPFetchTypes' <=> BGPFetchTypes
      BY DEF BGPFetchTypes, Sessions
    <2>2. BGPPhaseInv' <=> BGPPhaseInv
      BY <2>1 DEF BGPPhaseInv, BGPNothingLost, Holds, NoRepeats
    <2>3. (BGPLockInv' <=> BGPLockInv) /\ (BGPProgressInv' <=> BGPProgressInv)
      BY DEF BGPLockInv, BGPProgressInv
    <2>4. BGPAccountInv' <=> BGPAccountInv
      BY DEF BGPAccountInv, Due, BGPStored, NoRepeats
    <2> QED
      BY <2>1, <2>2, <2>3, <2>4 DEF BGPIInv, BGPFetchInv
  <1> QED
    BY <1>1, <1>2, BGPListingKeeps, BGPCollectedKeeps DEF BGPNext

LEMMA BGPInductive == BGPSpec => []BGPIInv
  BY BGPInitInv, BGPNextInv, PTL DEF BGPSpec, BGPAllVars

(* A goroutine between the two steps of an append has read what the slice   *)
(* still is: the mutex excludes the others.                                 *)
THEOREM AppendsExclude == BGPSpec => [](call = "fetching" => BGPLockInv)
  <1>1. BGPIInv => (call = "fetching" => BGPLockInv)
    BY DEF BGPIInv, BGPFetchInv
  <1> QED
    BY <1>1, BGPInductive, PTL

(* Every session that some status listed is in the section, once. *)
THEOREM NoSessionLost == BGPSpec => []BGPNothingLost
  <1>1. BGPIInv => BGPNothingLost
    BY DEF BGPIInv, BGPPhaseInv
  <1> QED
    BY <1>1, BGPInductive, PTL

-----------------------------------------------------------------------------
(* collectIPPools: no pool of either source lost. *)

PoolAllVars == <<fanOutVars, ipPoolVars>>

PoolPlaces == {"usage", "lock", "append", "done"}

PoolFetchTypes ==
    /\ listed \in Seq(IPPoolIDs)
    /\ pending \subseteq DOMAIN listed
    /\ at \in [DOMAIN listed -> PoolPlaces]
    /\ holder \in DOMAIN listed \cup {Nobody}
    /\ slice \in [DOMAIN listed -> Seq(PoolEntries)]
    /\ results \in Seq(PoolEntries)

PoolPhaseInv ==
    /\ call \in {"listing", "policies", "fetching", "returned"}
    /\ mpPools \in Seq(IPPoolIDs)
    /\ call \in {"listing", "policies"} =>
         listed \in Seq(IPPoolIDs) /\ holder = Nobody /\ results = <<>> /\ used = {}
    /\ PoolsNothingLost

(* A goroutine between the two steps of its append has the mutex, and what  *)
(* it has read is still what the slice is.                                  *)
PoolLockInv == \A i \in DOMAIN listed : at[i] = "append" => holder = i /\ slice[i] = results

Own(i) == PoolEntry("POLICY", i)

PoolStored(e) == \E j \in DOMAIN results : results[j] = e

(* A goroutine whose usage was read has stored its entry, once, if it is    *)
(* done, and holds it otherwise.                                            *)
PoolAccountInv ==
    /\ used \subseteq {Own(i) : i \in DOMAIN listed}
    /\ \A i \in DOMAIN listed :
         /\ Own(i) \in used => at[i] # "usage" /\ (PoolStored(Own(i)) <=> at[i] = "done")
         /\ at[i] \in {"lock", "append"} => Own(i) \in used /\ i \in pending
    /\ NoRepeats(results)
    /\ \A j \in DOMAIN results : results[j] \in used

PoolFetchInv == PoolFetchTypes /\ PoolLockInv /\ PoolAccountInv

PoolIInv == PoolPhaseInv /\ (call = "fetching" => PoolFetchInv)

-----------------------------------------------------------------------------
LEMMA OwnEntries ==
    /\ \A i \in Nat : Own(i) \in PoolEntries
    /\ \A i, k : Own(i) = Own(k) => i = k
    /\ \A i, k : Own(i) # PoolEntry("MP", k)
  BY DEF Own, PoolEntry, PoolEntries

(* Two sequences without a common element hold what either holds. *)
LEMMA HoldsBoth ==
    ASSUME NEW S, NEW s \in Seq(S), NEW t \in Seq(S), NEW A, NEW B,
           Holds(s, A), Holds(t, B), A \cap B = {}
    PROVE  Holds(s \o t, A \cup B)
  <1>1. /\ s \o t \in Seq(S)
        /\ DOMAIN (s \o t) = 1..(Len(s) + Len(t))
        /\ Len(s) \in Nat /\ Len(t) \in Nat /\ DOMAIN s = 1..Len(s) /\ DOMAIN t = 1..Len(t)
        /\ \A i \in 1..Len(s) : (s \o t)[i] = s[i]
        /\ \A i \in 1..Len(t) : (s \o t)[Len(s) + i] = t[i]
    OBVIOUS
  <1>2. \A i \in DOMAIN (s \o t) :
          \/ i \in DOMAIN s /\ (s \o t)[i] = s[i]
          \/ i - Len(s) \in DOMAIN t /\ (s \o t)[i] = t[i - Len(s)]
    <2> TAKE i \in DOMAIN (s \o t)
    <2>1. CASE i <= Len(s)
      BY <1>1, <2>1
    <2>2. CASE i > Len(s)
      <3>1. i - Len(s) \in 1..Len(t) /\ i = Len(s) + (i - Len(s))
        BY <1>1, <2>2
      <3> QED
        BY <1>1, <3>1
    <2> QED
      BY <1>1, <2>1, <2>2
  <1>3. NoRepeats(s \o t)
    <2> SUFFICES ASSUME NEW i \in DOMAIN (s \o t), NEW k \in DOMAIN (s \o t),
                        (s \o t)[i] = (s \o t)[k]
                 PROVE  i = k
      BY DEF NoRepeats
    <2>1. \A a \in DOMAIN s, b \in DOMAIN t : s[a] # t[b]
      BY DEF Holds
    <2>2. CASE i \in DOMAIN s /\ (s \o t)[i] = s[i] /\ k \in DOMAIN s /\ (s \o t)[k] = s[k]
      BY <2>2 DEF Holds, NoRepeats
    <2>3. CASE /\ i - Len(s) \in DOMAIN t /\ (s \o t)[i] = t[i - Len(s)]
               /\ k - Len(s) \in DOMAIN t /\ (s \o t)[k] = t[k - Len(s)]
      <3>1. i - Len(s) = k - Len(s)
        BY <2>3 DEF Holds, NoRepeats
      <3> QED
        BY <1>1, <3>1
    <2> QED
      BY <1>2, <2>1, <2>2, <2>3
  <1>4. {(s \o t)[i] : i \in DOMAIN (s \o t)} \subseteq A \cup B
    BY <1>2 DEF Holds
  <1>5. ASSUME NEW e \in A \cup B PROVE \E i \in DOMAIN (s \o t) : (s \o t)[i] = e
    <2>1. CASE e \in A
      <3>1. PICK i \in DOMAIN s : s[i] = e
        BY <2>1 DEF Holds
      <3> QED
        BY <1>1, <3>1
    <2>2. CASE e \in B
      <3>1. PICK i \in DOMAIN t : t[i] = e
        BY <2>2 DEF Holds
      <3>2. Len(s) + i \in DOMAIN (s \o t)
        BY <1>1
      <3> QED
        BY <1>1, <3>1, <3>2
    <2> QED
      BY <2>1, <2>2
  <1> QED
    BY <1>3, <1>4, <1>5 DEF Holds

LEMMA PoolInitInv == PoolInit => PoolIInv
  BY DEF PoolInit, AppendInit, FanOutInit, PoolIInv, PoolPhaseInv, PoolsNothingLost

-----------------------------------------------------------------------------
(* One lemma for each step of a goroutine. *)

LEMMA UsageFailsKeeps ==
    ASSUME PoolFetchInv, call = "fetching", NEW i \in pending, UsageFails(i)
    PROVE  PoolFetchInv'
  <1> USE DEF PoolFetchInv
  <1>1. /\ at[i] = "usage" /\ at' = [at EXCEPT ![i] = "done"]
        /\ pending' = pending \ {i}
        /\ UNCHANGED <<listed, holder, slice, results, used>>
    BY DEF UsageFails, Return, GoTo, Done
  <1>2. i \in DOMAIN listed
    BY DEF PoolFetchTypes
  <1>3. PoolFetchTypes'
    BY <1>1 DEF PoolFetchTypes, PoolPlaces
  <1>4. PoolLockInv'
    BY <1>1, <1>2 DEF PoolFetchTypes, PoolLockInv
  <1>5. PoolAccountInv'
    <2>1. \A e : PoolStored(e)' <=> PoolStored(e)
      BY <1>1 DEF PoolStored
    <2>2. NoRepeats(results)'
      BY <1>1 DEF PoolAccountInv, NoRepeats
    <2> QED
      BY <1>1, <1>2, <2>1, <2>2 DEF PoolAccountInv, PoolFetchTypes
  <1> QED
    BY <1>3, <1>4, <1>5

LEMMA UsageKeeps ==
    ASSUME PoolFetchInv, call = "fetching", NEW i \in pending, Usage(i)
    PROVE  PoolFetchInv'
  <1> USE DEF PoolFetchInv
  <1>1. /\ at[i] = "usage" /\ at' = [at EXCEPT ![i] = "lock"]
        /\ used' = used \cup {Own(i)}
        /\ UNCHANGED <<fanOutVars, holder, slice, results>>
    BY DEF Usage, GoTo, Own
  <1>2. i \in DOMAIN listed
    BY DEF PoolFetchTypes
  <1>3. PoolFetchTypes'
    BY <1>1 DEF PoolFetchTypes, PoolPlaces, fanOutVars
  <1>4. PoolLockInv'
    BY <1>1, <1>2 DEF PoolFetchTypes, PoolLockInv, fanOutVars
  <1>5. ~PoolStored(Own(i))
    <2>1. Own(i) \notin used
      BY <1>1, <1>2 DEF PoolAccountInv
    <2> QED
      BY <2>1 DEF PoolAccountInv, PoolStored
  <1>6. PoolAccountInv'
    <2>1. \A e : PoolStored(e)' <=> PoolStored(e)
      BY <1>1 DEF PoolStored
    <2>2. NoRepeats(results)'
      BY <1>1 DEF PoolAccountInv, NoRepeats
    <2>3. \A k \in DOMAIN listed' :
            /\ Own(k) \in used' => at'[k] # "usage" /\ (PoolStored(Own(k))' <=> at'[k] = "done")
            /\ at'[k] \in {"lock", "append"} => Own(k) \in used' /\ k \in pending'
      <3> TAKE k \in DOMAIN listed'
      <3>1. CASE k = i
        BY <1>1, <1>2, <1>5, <2>1, <3>1 DEF PoolFetchTypes, fanOutVars
      <3>2. CASE k # i
        <4>1. k \in DOMAIN listed /\ at'[k] = at[k] /\ pending' = pending
          BY <1>1, <3>2 DEF PoolFetchTypes, fanOutVars
        <4>2. Own(k) \in used' <=> Own(k) \in used
          BY <1>1, <3>2, OwnEntries
        <4> QED
          BY <2>1, <4>1, <4>2 DEF PoolAccountInv
      <3> QED
        BY <3>1, <3>2
    <2>4. Own(i)' = Own(i)
      BY DEF Own, PoolEntry
    <2> QED
      BY <1>1, <1>2, <2>2, <2>3 DEF PoolAccountInv, fanOutVars
  <1> QED
    BY <1>3, <1>4, <1>6

LEMMA PoolLockKeeps ==
    ASSUME PoolFetchInv, call = "fetching", NEW i \in pending, LockPools(i)
    PROVE  PoolFetchInv'
  <1> USE DEF PoolFetchInv
  <1>1. /\ at[i] = "lock" /\ at' = [at EXCEPT ![i] = "append"]
        /\ holder = Nobody /\ holder' = i
        /\ slice' = [slice EXCEPT ![i] = results]
        /\ UNCHANGED <<fanOutVars, results, used>>
    BY DEF LockPools, Lock, GoTo
  <1>2. i \in DOMAIN listed /\ DOMAIN listed \subseteq Nat \ {0}
    BY DEF PoolFetchTypes
  <1>3. PoolFetchTypes'
    <2>1. slice' \in [DOMAIN listed -> Seq(PoolEntries)] /\ at' \in [DOMAIN listed -> PoolPlaces]
      BY <1>1 DEF PoolFetchTypes, PoolPlaces
    <2> QED
      BY <1>1, <1>2, <2>1 DEF PoolFetchTypes, fanOutVars
  <1>4. \A k \in DOMAIN listed : at[k] # "append"
    BY <1>1, <1>2 DEF PoolLockInv, Nobody
  <1>5. PoolLockInv'
    BY <1>1, <1>2, <1>4 DEF PoolFetchTypes, PoolLockInv, fanOutVars
  <1>6. PoolAccountInv'
    <2>1. \A e : PoolStored(e)' <=> PoolStored(e)
      BY <1>1 DEF PoolStored
    <2>2. NoRepeats(results)'
      BY <1>1 DEF PoolAccountInv, NoRepeats
    <2> QED
      BY <1>1, <1>2, <2>1, <2>2 DEF PoolAccountInv, PoolFetchTypes, fanOutVars
  <1> QED
    BY <1>3, <1>5, <1>6

LEMMA PoolAppendKeeps ==
    ASSUME PoolFetchInv, call = "fetching", NEW i \in pending, AppendPool(i)
    PROVE  PoolFetchInv'
  <1> USE DEF PoolFetchInv
  <1>1. /\ at[i] = "append" /\ at' = [at EXCEPT ![i] = "done"] /\ holder' = Nobody
        /\ results' = Append(slice[i], Own(i))
        /\ slice' = [slice EXCEPT ![i] = <<>>]
        /\ pending' = pending \ {i}
        /\ UNCHANGED <<listed, used>>
    BY DEF AppendPool, Store, Return, GoTo, Done, Own
  <1>2. /\ i \in DOMAIN listed /\ i \in Nat
        /\ holder = i /\ slice[i] = results /\ results \in Seq(PoolEntries)
    <2>1. i \in DOMAIN listed /\ listed \in Seq(IPPoolIDs) /\ results \in Seq(PoolEntries)
      BY DEF PoolFetchTypes
    <2>2. i \in Nat
      BY <2>1
    <2>3. holder = i /\ slice[i] = results
      BY <1>1, <2>1 DEF PoolLockInv
    <2> QED
      BY <2>1, <2>2, <2>3
  <1>3. /\ results' \in Seq(PoolEntries)
        /\ DOMAIN results' = DOMAIN results \cup {Len(results) + 1}
        /\ \A j \in DOMAIN results : results'[j] = results[j] /\ j # Len(results) + 1
        /\ results'[Len(results) + 1] = Own(i)
    BY <1>1, <1>2, AppendOne, OwnEntries
  <1>4. PoolFetchTypes'
    <2>1. slice' \in [DOMAIN listed -> Seq(PoolEntries)] /\ at' \in [DOMAIN listed -> PoolPlaces]
      BY <1>1 DEF PoolFetchTypes, PoolPlaces
    <2> QED
      BY <1>1, <1>3, <2>1 DEF PoolFetchTypes
  <1>5. PoolLockInv'
    <2> SUFFICES ASSUME NEW k \in DOMAIN listed, at'[k] = "append" PROVE FALSE
      BY <1>1 DEF PoolLockInv
    <2>1. k # i /\ at[k] = "append"
      BY <1>1, <1>2 DEF PoolFetchTypes
    <2> QED
      BY <1>2, <2>1 DEF PoolLockInv
  <1>6. Own(i) \in used /\ ~PoolStored(Own(i))
    BY <1>1, <1>2 DEF PoolAccountInv
  <1>7. PoolAccountInv'
    <2>1. \A e : PoolStored(e)' <=> PoolStored(e) \/ e = Own(i)
      BY <1>3 DEF PoolStored
    <2>2. NoRepeats(results)'
      <3>1. \A j \in DOMAIN results : results[j] # Own(i)
        BY <1>6 DEF PoolStored
      <3> QED
        BY <1>3, <3>1 DEF PoolAccountInv, NoRepeats
    <2>3. \A k \in DOMAIN listed' :
            /\ Own(k) \in used' => at'[k] # "usage" /\ (PoolStored(Own(k))' <=> at'[k] = "done")
            /\ at'[k] \in {"lock", "append"} => Own(k) \in used' /\ k \in pending'
      <3> TAKE k \in DOMAIN listed'
      <3>1. CASE k = i
        BY <1>1, <1>2, <2>1, <3>1 DEF PoolFetchTypes
      <3>2. CASE k # i
        <4>1. k \in DOMAIN listed /\ at'[k] = at[k] /\ (k \in pending' <=> k \in pending)
          BY <1>1, <3>2 DEF PoolFetchTypes
        <4>2. PoolStored(Own(k))' <=> PoolStored(Own(k))
          BY <2>1, <3>2, OwnEntries
        <4> QED
          BY <1>1, <4>1, <4>2 DEF PoolAccountInv
      <3> QED
        BY <3>1, <3>2
    <2>4. \A j \in DOMAIN results' : results'[j] \in used'
      BY <1>1, <1>3, <1>6 DEF PoolAccountInv
    <2> QED
      BY <1>1, <2>2, <2>3, <2>4 DEF PoolAccountInv
  <1> QED
    BY <1>4, <1>5, <1>7

-----------------------------------------------------------------------------
(* The steps of the collector itself. *)

LEMMA MPListingKeeps ==
    ASSUME PoolIInv, ListMPPools \/ MPListingFails
    PROVE  PoolIInv'
  <1>1. /\ call = "listing" /\ listed \in Seq(IPPoolIDs) /\ holder = Nobody /\ results = <<>>
        /\ used = {} /\ mpPools \in Seq(IPPoolIDs)
    BY DEF PoolIInv, PoolPhaseInv, ListMPPools, MPListingFails
  <1>2. ASSUME NEW walk, NEW pools \in Seq(IPPoolIDs), MPListingEnds(walk, pools) PROVE PoolIInv'
    BY <1>1, <1>2 DEF MPListingEnds, appendVars, PoolIInv, PoolPhaseInv, PoolsNothingLost
  <1>3. CASE MPListingFails
    <2>1. <<>> \in Seq(IPPoolIDs)
      OBVIOUS
    <2>2. MPListingEnds("broken", <<>>)
      BY <1>3 DEF MPListingFails
    <2> QED
      BY <1>2, <2>1, <2>2
  <1>4. ASSUME NEW page \in PagesOf(IPPoolIDs), MidPage(page), UNCHANGED ipPoolVars PROVE PoolIInv'
    <2>1. listed' \in Seq(IPPoolIDs) /\ call' = call
      BY <1>1, <1>4, PageIsSeq DEF MidPage, Paged
    <2> QED
      BY <1>1, <1>4, <2>1 DEF ipPoolVars, appendVars, PoolIInv, PoolPhaseInv, PoolsNothingLost
  <1>5. ASSUME NEW page \in PagesOf(IPPoolIDs), MPListingEnds("complete", listed \o page) PROVE PoolIInv'
    <2>1. page \in Seq(IPPoolIDs)
      BY PageIsSeq
    <2>2. listed \o page \in Seq(IPPoolIDs)
      BY <1>1, <2>1
    <2> QED
      BY <1>2, <1>5, <2>2
  <1> QED
    BY <1>3, <1>4, <1>5 DEF ListMPPools

LEMMA PolicyListingKeeps ==
    ASSUME PoolIInv, ListPolicyPools \/ PolicyListingFails
    PROVE  PoolIInv'
  <1>1. /\ call = "policies" /\ listed \in Seq(IPPoolIDs) /\ holder = Nobody /\ results = <<>>
        /\ used = {} /\ mpPools \in Seq(IPPoolIDs)
    BY DEF PoolIInv, PoolPhaseInv, ListPolicyPools, PolicyListingFails
  <1>2. ASSUME listed' \in Seq(IPPoolIDs), SpawnUsage PROVE PoolIInv'
    <2>1. /\ call' = "fetching" /\ pending' \subseteq DOMAIN listed'
          /\ at' = [i \in DOMAIN listed' |-> "usage"]
          /\ slice' = [i \in DOMAIN listed' |-> <<>>]
          /\ holder' = Nobody /\ results' = <<>> /\ used' = {} /\ mpPools' = mpPools
      BY <1>1, <1>2 DEF SpawnUsage
    <2>2. PoolFetchTypes'
      <3>1. slice' \in [DOMAIN listed' -> Seq(PoolEntries)] /\ results' \in Seq(PoolEntries)
        BY <2>1
      <3> QED
        BY <1>2, <2>1, <3>1 DEF PoolFetchTypes, PoolPlaces
    <2>3. PoolLockInv' /\ PoolAccountInv'
      <3>1. NoRepeats(results')
        BY <2>1 DEF NoRepeats
      <3> QED
        BY <2>1, <3>1 DEF PoolLockInv, PoolAccountInv
    <2> QED
      BY <1>1, <2>1, <2>2, <2>3 DEF PoolIInv, PoolFetchInv, PoolPhaseInv, PoolsNothingLost
  <1>3. CASE PolicyListingFails
    BY <1>2, <1>3 DEF PolicyListingFails, BrokenWalk
  <1>4. ASSUME NEW page \in PagesOf(IPPoolIDs), MidPage(page), UNCHANGED ipPoolVars PROVE PoolIInv'
    <2>1. listed' \in Seq(IPPoolIDs) /\ call' = call
      BY <1>1, <1>4, PageIsSeq DEF MidPage, Paged
    <2> QED
      BY <1>1, <1>4, <2>1 DEF ipPoolVars, appendVars, PoolIInv, PoolPhaseInv, PoolsNothingLost
  <1>5. ASSUME NEW page \in PagesOf(IPPoolIDs), LastPage(page), SpawnUsage PROVE PoolIInv'
    BY <1>1, <1>2, <1>5, PageIsSeq DEF LastPage, Paged
  <1> QED
    BY <1>3, <1>4, <1>5 DEF ListPolicyPools

(* When all goroutines are done, what was read is stored. *)
LEMMA PoolCollectedKeeps ==
    ASSUME PoolIInv, PoolsCollected
    PROVE  PoolIInv'
  <1>1. /\ call = "fetching" /\ pending = {} /\ call' = "returned"
        /\ IPPools' = MPEntries \o results
        /\ UNCHANGED <<mpPools, used>>
    BY DEF PoolsCollected, Joined
  <1>2. PoolFetchInv /\ mpPools \in Seq(IPPoolIDs)
    BY <1>1 DEF PoolIInv, PoolPhaseInv
  <1>3. Holds(results, used)
    <2>1. \A i \in DOMAIN listed : at[i] \in {"usage", "done"}
      BY <1>1, <1>2 DEF PoolFetchInv, PoolAccountInv, PoolFetchTypes, PoolPlaces
    <2>2. \A e \in used : PoolStored(e)
      BY <1>2, <2>1 DEF PoolFetchInv, PoolAccountInv
    <2> QED
      BY <1>2, <2>2 DEF PoolFetchInv, PoolAccountInv, Holds, PoolStored
  <1> DEFINE ofMP == {PoolEntry("MP", i) : i \in DOMAIN mpPools}
  <1>4. MPEntries \in Seq(PoolEntries) /\ Holds(MPEntries, ofMP)
    <2>1. PICK n \in Nat : DOMAIN mpPools = 1..n
      BY <1>2
    <2>2. \A i \in 1..n : PoolEntry("MP", i) \in PoolEntries
      BY DEF PoolEntry, PoolEntries
    <2>3. MPEntries \in [1..n -> PoolEntries]
      BY <2>1, <2>2 DEF MPEntries
    <2>4. MPEntries \in Seq(PoolEntries)
      BY <2>3
    <2>5. Holds(MPEntries, ofMP)
      BY DEF MPEntries, Holds, NoRepeats, PoolEntry
    <2> QED
      BY <2>4, <2>5
  <1>5. ofMP \cap used = {}
    BY <1>2, OwnEntries DEF PoolFetchInv, PoolAccountInv
  <1>6. Holds(IPPools', ofMP \cup used)
    BY <1>1, <1>2, <1>3, <1>4, <1>5, HoldsBoth DEF PoolFetchInv, PoolFetchTypes
  <1> QED
    BY <1>1, <1>2, <1>6 DEF PoolIInv, PoolPhaseInv, PoolsNothingLost

(* The strengthening is inductive. *)
LEMMA PoolNextInv ==
    ASSUME PoolIInv, [PoolNext]_PoolAllVars
    PROVE  PoolIInv'
  <1>1. ASSUME NEW i \in pending, PoolGoroutine(i) PROVE PoolIInv'
    <2>1. call = "fetching" /\ call' = call /\ mpPools' = mpPools
      BY <1>1 DEF PoolGoroutine, UsageFails, Usage, LockPools, AppendPool, Lock, Store, Running,
          fanOutVars
    <2>2. PoolFetchInv
      BY <2>1 DEF PoolIInv
    <2>3. PoolFetchInv'
      BY <1>1, <2>1, <2>2, UsageFailsKeeps, UsageKeeps, PoolLockKeeps, PoolAppendKeeps DEF PoolGoroutine
    <2> QED
      BY <2>1, <2>3 DEF PoolIInv, PoolPhaseInv, PoolsNothingLost
  <1>2. CASE UNCHANGED PoolAllVars
    <2> USE <1>2 DEF PoolAllVars, fanOutVars, ipPoolVars, appendVars
    <2>1. PoolFetchTypes' <=> PoolFetchTypes
      BY DEF PoolFetchTypes
    <2>2. PoolPhaseInv' <=> PoolPhaseInv
      BY DEF PoolPhaseInv, PoolsNothingLost, Holds, NoRepeats
    <2>3. (PoolLockInv' <=> PoolLockInv) /\ (PoolAccountInv' <=> PoolAccountInv)
      BY DEF PoolLockInv, PoolAccountInv, PoolStored, NoRepeats
    <2> QED
      BY <2>1, <2>2, <2>3 DEF PoolIInv, PoolFetchInv
  <1> QED
    BY <1>1, <1>2, MPListingKeeps, PolicyListingKeeps, PoolCollectedKeeps DEF PoolNext

LEMMA PoolInductive == PoolSpec => []PoolIInv
  BY PoolInitInv, PoolNextInv, PTL DEF PoolSpec, PoolAllVars

(* Every pool of the management plane that was listed, and every policy     *)
(* pool whose usage was read, is in the section, once.                      *)
THEOREM NoPoolLost == PoolSpec => []PoolsNothingLost
  <1>1. PoolIInv => PoolsNothingLost
    BY DEF PoolIInv, PoolPhaseInv
  <1> QED
    BY <1>1, PoolInductive, PTL

-----------------------------------------------------------------------------
(* The composition. *)

(* The collectors that are not called have nothing. *)
Rest ==
    /\ collector \in CollectorNames
    /\ collector # "EdgeNodes" => slots = <<>> /\ EdgeNodes = <<>>
    /\ collector # "Tunnels" => perNode = <<>> /\ Tunnels = <<>>
    /\ collector # "BGPNeighbors" => services = <<>> /\ answered = {} /\ BGPNeighbors = <<>>
    /\ collector # "IPPools" => mpPools = <<>> /\ used = {} /\ IPPools = <<>>
    /\ collector # "Certificates" => Certificates = <<>>
    /\ collector # "names" => TransportNodes = <<>>
    /\ collector # "Backup" => history = <<>> /\ Backup = NotCollected

(* A listing is walked once, and a collector that goes on has it whole. *)
OneWalk ==
    /\ call \in {"listing", "fetching", "merging", "returned", "failed"}
    /\ call = "listing" => walks = <<>>
    /\ call \in {"fetching", "merging", "returned"} => walks = <<"complete">>

OwnFigures(i) ==
    slots[i].ID = listed[i] /\ slots[i].figures \in {listed[i], Zeros}

EdgeInv ==
    /\ OneWalk
    /\ call \in {"listing", "failed"} => EdgeNodes = <<>>
    /\ call = "fetching" =>
         /\ pending \subseteq DOMAIN listed
         /\ EdgeNodes = <<>>
         /\ DOMAIN slots = DOMAIN listed
         /\ \A i \in DOMAIN listed \ pending : OwnFigures(i)
    /\ EdgesInOrder

TunnelInv == OneWalk /\ TunnelIInv

(* A session names a tier-0 that was listed and a locale service it has, and*)
(* there is none before the locale services are listed.                     *)
Placed(s) == s.tier0 \in DOMAIN services /\ s.service \in DOMAIN services[s.tier0]

BGPInv ==
    /\ OneWalk
    /\ BGPIInv
    /\ answered \subseteq Sessions
    /\ \A s \in answered : Placed(s)
    /\ call = "fetching" => \A i \in DOMAIN listed : at[i] = "services" => services[i] = <<>>

(* Of the two walks, a broken one has left nothing. *)
Walks == {"complete", "broken"}

PoolInv ==
    /\ PoolIInv
    /\ call = "listing" => walks = <<>>
    /\ call = "policies" =>
         /\ walks \in Seq(Walks) /\ Len(walks) = 1
         /\ walks[1] = "complete" \/ mpPools = <<>>
    /\ call \in {"fetching", "returned"} =>
         /\ walks[1] = "complete" \/ mpPools = <<>>
         /\ walks[2] = "complete" \/ listed = <<>>
    /\ call # "returned" => IPPools = <<>>
    /\ used \subseteq {Own(i) : i \in DOMAIN listed}

Nameless == \A i \in DOMAIN TransportNodes : TransportNodes[i].DisplayName = NoName

NamesInv ==
    /\ call \in {"listing", "returned", "failed"}
    /\ TransportNodes \in Seq(NodeRecords(DisplayNames \cup {NoName}))
    /\ call = "listing" => walks = <<>> /\ listed \in Seq(NodeRecords(DisplayNames))
    /\ call \in {"listing", "failed"} => Nameless
    /\ call = "returned" => TransportNodes = <<>> \/ walks = <<"complete">>
    /\ NamesOfTheirOwn

CertificatesInv ==
    /\ call \in {"listing", "returned", "failed"}
    /\ call = "listing" => walks = <<>>
    /\ call \in {"listing", "failed"} => Certificates = <<>>
    /\ call = "returned" => walks = <<"complete">> /\ Certificates = listed

BackupCallInv ==
    /\ BackupInv
    /\ call \in {"listing", "returned", "failed"}
    /\ call \in {"listing", "failed"} => Backup = NotCollected

IInv ==
    /\ Rest
    /\ collector = "EdgeNodes" => EdgeInv
    /\ collector = "Tunnels" => TunnelInv
    /\ collector = "BGPNeighbors" => BGPInv
    /\ collector = "IPPools" => PoolInv
    /\ collector = "names" => NamesInv
    /\ collector = "Certificates" => CertificatesInv
    /\ collector = "Backup" => BackupCallInv

-----------------------------------------------------------------------------
LEMMA InitInv == Init => IInv
  <1> SUFFICES ASSUME Init PROVE IInv
    OBVIOUS
  <1> USE DEF Init
  <1>1. Rest
    BY DEF EdgeInit, TunnelInit, BGPInit, PoolInit, NamesInit, CertificatesInit, BackupInit, Rest
  <1>2. /\ call = "listing" /\ walks = <<>> /\ listed = <<>>
        /\ EdgeNodes = <<>> /\ answered = {} /\ used = {} /\ IPPools = <<>> /\ Certificates = <<>>
    BY DEF EdgeInit, BGPInit, PoolInit, FanOutInit, NamesInit, CertificatesInit
  <1>3. OneWalk
    BY <1>2 DEF OneWalk
  <1>4. EdgeInv /\ CertificatesInv
    BY <1>2, <1>3 DEF EdgeInv, EdgesInOrder, CertificatesInv
  <1>5. TunnelInv /\ BGPInv /\ PoolInv
    BY <1>2, <1>3, TunnelInitInv, BGPInitInv, PoolInitInv DEF TunnelInv, BGPInv, PoolInv
  <1>6. collector = "names" => NamesInv
    <2> SUFFICES ASSUME NamesInit PROVE NamesInv
      OBVIOUS
    <2>1. PICK n \in Nat : TransportNodes \in [1..n -> [ID : Nodes, DisplayName : {NoName}]]
      BY FanOutAssumption DEF NamesInit, PagesOf
    <2>2. \A i \in DOMAIN TransportNodes :
            /\ TransportNodes[i] \in NodeRecords(DisplayNames \cup {NoName})
            /\ TransportNodes[i].DisplayName = NoName
      <3> TAKE i \in DOMAIN TransportNodes
      <3>1. TransportNodes[i] \in [ID : Nodes, DisplayName : {NoName}]
        BY <2>1
      <3> QED
        BY <3>1 DEF NodeRecords
    <2>3. TransportNodes \in Seq(NodeRecords(DisplayNames \cup {NoName}))
      <3>1. TransportNodes \in [1..n -> NodeRecords(DisplayNames \cup {NoName})]
        BY <2>1, <2>2
      <3> QED
        BY <3>1, ListIsSeq
    <2> QED
      BY <1>2, <2>2, <2>3 DEF NamesInv, NamesOfTheirOwn, Nameless, NodeRecords
  <1>7. BackupCallInv
    BY <1>2, BackupInitInv DEF BackupCallInv, BackupInit
  <1> QED
    BY <1>1, <1>4, <1>5, <1>6, <1>7 DEF IInv

(* A step is one of the collector that is called. *)
LEMMA RestKeeps ==
    ASSUME Rest, [Next]_vars
    PROVE  Rest' /\ collector' = collector
  <1> USE DEF Rest, vars, edgeVars, tunnelVars, bgpOwnVars, poolOwnVars, inventoryVars, backupVars
  <1>1. CASE EdgeStep
    BY <1>1 DEF EdgeStep
  <1>2. CASE TunnelStep
    BY <1>2 DEF TunnelStep
  <1>3. CASE BGPStep
    BY <1>3 DEF BGPStep
  <1>4. CASE PoolStep
    BY <1>4 DEF PoolStep
  <1>5. CASE NamesStep
    BY <1>5 DEF NamesStep, NamesNext, NoNodesToName, ListNodeNames, NodeListingFails
  <1>6. CASE CertificatesStep
    BY <1>6 DEF CertificatesStep, CertificatesNext, ListCertificates, CertificateListingFails
  <1>7. CASE BackupStep
    BY <1>7 DEF BackupStep
  <1>8. CASE UNCHANGED vars
    BY <1>8
  <1> QED
    BY <1>1, <1>2, <1>3, <1>4, <1>5, <1>6, <1>7, <1>8 DEF Next

-----------------------------------------------------------------------------

(* A walk that is the only one of its collector. *)
LEMMA WalkOnce ==
    ASSUME OneWalk, call = "listing"
    PROVE  /\ \A page : LastPage(page) => walks' = <<"complete">>
           /\ \A page : MidPage(page) => call' = "listing" /\ walks' = <<>>
           /\ ListingFails => call' = "failed"
  BY DEF OneWalk, LastPage, MidPage, ListingFails

LEMMA EdgeKeeps ==
    ASSUME EdgeInv, EdgeNext
    PROVE  EdgeInv'
  <1> USE DEF EdgeInv
  <1>1. CASE ListEdgeNodes
    <2>1. PICK nodes \in PagesOf(Nodes) :
            \/ MidPage(OfType(nodes, Edges)) /\ UNCHANGED edgeVars
            \/ /\ LastPage(OfType(nodes, Edges))
               /\ Spawn
               /\ slots' = [i \in DOMAIN listed' |-> EdgeEntry(NoNode, Zeros)]
               /\ UNCHANGED EdgeNodes
      BY <1>1 DEF ListEdgeNodes
    <2> DEFINE page == OfType(nodes, Edges)
    <2>2. call = "listing" /\ EdgeNodes = <<>>
      BY <1>1 DEF ListEdgeNodes
    <2>5. EdgeNodes' = <<>>
      BY <2>1, <2>2 DEF edgeVars
    <2>6. CASE MidPage(page)
      BY <2>2, <2>5, <2>6, WalkOnce DEF OneWalk, EdgesInOrder
    <2>7. CASE LastPage(page) /\ Spawn /\ slots' = [i \in DOMAIN listed' |-> EdgeEntry(NoNode, Zeros)]
      <3>1. walks' = <<"complete">> /\ call' \in {"returned", "fetching"} /\ pending' = DOMAIN listed'
        BY <2>2, <2>7, WalkOnce DEF Spawn
      <3> QED
        BY <2>5, <2>7, <3>1 DEF OneWalk, EdgesInOrder
    <2> QED
      BY <2>1, <2>6, <2>7
  <1>2. CASE EdgeListingFails
    <2>1. call' = "failed" /\ EdgeNodes' = <<>>
      BY <1>2 DEF EdgeListingFails, ListingFails, edgeVars
    <2> QED
      BY <2>1 DEF OneWalk, EdgesInOrder
  <1>3. ASSUME NEW i \in pending, FetchEdge(i) PROVE EdgeInv'
    <2>1. /\ call = "fetching" /\ call' = call
          /\ \E figures \in {listed[i], Zeros} :
               slots' = [slots EXCEPT ![i] = EdgeEntry(listed[i], figures)]
          /\ pending' = pending \ {i}
          /\ UNCHANGED <<listed, walks, EdgeNodes>>
      BY <1>3 DEF FetchEdge, Running, Done
    <2>2. DOMAIN slots' = DOMAIN listed' /\ i \in DOMAIN slots
      BY <2>1
    <2>3. ASSUME NEW k \in DOMAIN listed' \ pending' PROVE OwnFigures(k)'
      <3>1. CASE k = i
        BY <2>1, <2>2, <3>1 DEF OwnFigures, EdgeEntry
      <3>2. CASE k # i
        <4>1. k \in DOMAIN listed \ pending /\ slots'[k] = slots[k]
          BY <2>1, <2>2, <3>2
        <4> QED
          BY <2>1, <4>1 DEF OwnFigures
      <3> QED
        BY <3>1, <3>2
    <2> QED
      BY <2>1, <2>2, <2>3 DEF OneWalk, EdgesInOrder
  <1>4. CASE EdgesCollected
    <2>1. /\ call = "fetching" /\ call' = "returned" /\ pending = {}
          /\ EdgeNodes' = slots
          /\ UNCHANGED <<listed, walks, slots>>
      BY <1>4 DEF EdgesCollected, Joined
    <2>4. \A i \in DOMAIN slots : OwnFigures(i)
      BY <2>1
    <2>5. EdgesInOrder'
      BY <2>1, <2>4 DEF EdgesInOrder, OwnFigures
    <2> QED
      BY <2>1, <2>5 DEF OneWalk
  <1> QED
    BY <1>1, <1>2, <1>3, <1>4 DEF EdgeNext

LEMMA TunnelKeeps ==
    ASSUME TunnelInv, TunnelNext
    PROVE  TunnelInv'
  <1>1. TunnelIInv'
    BY TunnelNextInv DEF TunnelInv
  <1>2. OneWalk'
    <2>1. CASE ListTunnelNodes
      <3>1. call = "listing" /\ \E page : MidPage(page) \/ (LastPage(page) /\ Spawn)
        BY <2>1 DEF ListTunnelNodes
      <3> QED
        BY <3>1, WalkOnce DEF OneWalk, Spawn, TunnelInv
    <2>2. CASE TunnelListingFails
      BY <2>2 DEF TunnelListingFails, ListingFails, OneWalk
    <2>3. CASE \E i \in pending : FetchTunnels(i)
      BY <2>3 DEF FetchTunnels, OneWalk, TunnelInv
    <2>4. CASE TunnelsJoined \/ TunnelsCollected
      BY <2>4 DEF TunnelsJoined, Joined, TunnelsCollected, OneWalk, TunnelInv
    <2>5. CASE KeepTunnel \/ SkipTunnel \/ NextNode
      BY <2>5 DEF KeepTunnel, SkipTunnel, NextNode, fanOutVars, OneWalk, TunnelInv
    <2> QED
      BY <2>1, <2>2, <2>3, <2>4, <2>5 DEF TunnelNext
  <1> QED
    BY <1>1, <1>2 DEF TunnelInv

LEMMA BGPKeeps ==
    ASSUME BGPInv, BGPNext
    PROVE  BGPInv'
  <1> USE DEF BGPInv
  <1>1. BGPIInv'
    BY BGPNextInv
  <1>2. ASSUME ListTier0s \/ Tier0ListingFails PROVE BGPInv'
    <2>1. call = "listing" /\ answered = {} /\ answered' = {}
      BY <1>2 DEF ListTier0s, Tier0ListingFails, ListingFails, bgpVars, BGPIInv, BGPPhaseInv
    <2>2. CASE ListTier0s
      <3>1. PICK page : \/ MidPage(page) /\ UNCHANGED bgpVars
                        \/ /\ LastPage(page)
                           /\ SpawnAt("services")
                           /\ services' = [i \in DOMAIN listed' |-> <<>>]
        BY <2>2 DEF ListTier0s
      <3>2. CASE MidPage(page)
        BY <1>1, <2>1, <3>2, WalkOnce DEF OneWalk
      <3>3. CASE LastPage(page) /\ SpawnAt("services") /\ services' = [i \in DOMAIN listed' |-> <<>>]
        BY <1>1, <2>1, <3>3, WalkOnce DEF OneWalk, SpawnAt, Spawn
      <3> QED
        BY <3>1, <3>2, <3>3
    <2>3. CASE Tier0ListingFails
      BY <1>1, <2>1, <2>3 DEF OneWalk, Tier0ListingFails, ListingFails
    <2> QED
      BY <1>2, <2>2, <2>3
  <1>3. ASSUME NEW i \in pending, BGPGoroutine(i) PROVE BGPInv'
    <2>1. call = "fetching" /\ UNCHANGED <<call, listed, walks>>
      BY <1>3 DEF BGPGoroutine, ListLocaleServices, NoStatus, AtService, Status, LockNeighbors, Lock,
         AppendNeighbor, Store, Tier0Done, Running, fanOutVars
    <2>2. BGPFetchTypes /\ i \in DOMAIN listed /\ OneWalk' /\ Sessions' = Sessions
      BY <2>1 DEF BGPIInv, BGPPhaseInv, BGPFetchTypes, OneWalk, Sessions
    <2>3. CASE ListLocaleServices(i)
      <3>1. /\ at[i] = "services" /\ at' = [at EXCEPT ![i] = "status"]
            /\ \E ls : services' = [services EXCEPT ![i] = ls]
            /\ answered' = answered
        BY <2>3 DEF ListLocaleServices, GoTo
      <3>2. \A s \in answered : s.tier0 # i
        <4> SUFFICES ASSUME NEW s \in answered, s.tier0 = i PROVE FALSE
          OBVIOUS
        <4>1. services[i] = <<>> /\ s.service \in DOMAIN services[i]
          BY <2>1, <2>2, <3>1 DEF Placed
        <4> QED
          BY <4>1
      <3>3. \A s \in answered' : Placed(s)'
        BY <2>2, <3>1, <3>2 DEF BGPFetchTypes, Placed
      <3> QED
        BY <1>1, <2>1, <2>2, <3>1, <3>3 DEF BGPFetchTypes
    <2>4. CASE Status(i)
      <3>1. /\ current[i] \in DOMAIN services[i] /\ services' = services
            /\ at' = [at EXCEPT ![i] = "lock"]
            /\ \E found \in SUBSET Neighbors :
                 answered' = answered \cup {Session(i, current[i], n) : n \in found}
        BY <2>4, StatusesAre DEF Status, AtService, GoTo
      <3>2. \A n \in Neighbors : Session(i, current[i], n) \in Sessions
        BY <2>2 DEF BGPFetchTypes, Session, Sessions
      <3>3. \A n \in Neighbors : Placed(Session(i, current[i], n))
        BY <2>2, <3>1, SessionParts DEF BGPFetchTypes, Placed
      <3>4. answered' \subseteq Sessions' /\ \A s \in answered' : Placed(s)'
        BY <2>2, <3>1, <3>2, <3>3 DEF Placed
      <3> QED
        BY <1>1, <2>1, <2>2, <3>1, <3>4 DEF BGPFetchTypes
    <2>5. CASE NoStatus(i) \/ LockNeighbors(i) \/ AppendNeighbor(i) \/ Tier0Done(i)
      <3>1. UNCHANGED <<services, answered>>
            /\ \A k \in DOMAIN listed : at'[k] = "services" => at[k] = "services"
        BY <2>2, <2>5 DEF NoStatus, LockNeighbors, Lock, AppendNeighbor, Store, Tier0Done, Return,
           GoTo, appendVars, BGPFetchTypes
      <3> QED
        BY <1>1, <2>1, <2>2, <3>1 DEF Placed
    <2> QED
      BY <1>3, <2>3, <2>4, <2>5 DEF BGPGoroutine
  <1>4. CASE BGPCollected
    <2>1. call = "fetching" /\ call' = "returned" /\ UNCHANGED <<walks, listed, services, answered>>
      BY <1>4 DEF BGPCollected, Joined
    <2> QED
      BY <1>1, <2>1 DEF OneWalk, Placed, Sessions
  <1> QED
    BY <1>2, <1>3, <1>4 DEF BGPNext

(* Either walk ends whole or leaves nothing. *)
LEMMA PoolListingKeeps ==
    ASSUME PoolInv, ListMPPools \/ MPListingFails \/ ListPolicyPools \/ PolicyListingFails
    PROVE  PoolInv'
  <1> USE DEF PoolInv
  <1>1. PoolIInv'
    BY PoolNextInv DEF PoolNext
  <1>2. call \in {"listing", "policies"} /\ used = {} /\ IPPools = <<>>
    BY DEF ListMPPools, MPListingFails, MPListingEnds, ListPolicyPools, PolicyListingFails, PoolIInv,
       PoolPhaseInv
  <1>3. ASSUME NEW page, MidPage(page), UNCHANGED ipPoolVars PROVE PoolInv'
    BY <1>1, <1>2, <1>3 DEF MidPage, ipPoolVars
  <1>4. ASSUME call = "listing", NEW w \in Walks, NEW pools, MPListingEnds(w, pools),
               w = "complete" \/ pools = <<>>
        PROVE  PoolInv'
    <2>1. call' = "policies" /\ used' = {} /\ IPPools' = <<>> /\ mpPools' = pools
      BY <1>2, <1>4 DEF MPListingEnds
    <2>2. walks' = <<w>> /\ walks' \in Seq(Walks) /\ Len(walks') = 1 /\ walks'[1] = w
      BY <1>4 DEF MPListingEnds
    <2> QED
      BY <1>1, <1>4, <2>1, <2>2 DEF Walks
  <1>5. ASSUME call = "policies", NEW w \in Walks, walks' = Append(walks, w), SpawnUsage,
               w = "complete" \/ listed' = <<>>
        PROVE  PoolInv'
    <2>1. call' = "fetching" /\ used' = {} /\ IPPools' = <<>> /\ mpPools' = mpPools
      BY <1>2, <1>5 DEF SpawnUsage
    <2>2. walks'[1] = walks[1] /\ walks'[2] = w
      <3>1. walks \in Seq(Walks) /\ Len(walks) = 1
        BY <1>5
      <3>2. Append(walks, w)[1] = walks[1] /\ Append(walks, w)[2] = w
        <4>1. 1 \in DOMAIN walks /\ Len(walks) + 1 = 2
          BY <3>1
        <4> QED
          BY <3>1, <4>1, AppendOne
      <3> QED
        BY <1>5, <3>2
    <2> QED
      BY <1>1, <1>5, <2>1, <2>2
  <1>6. CASE ListMPPools
    <2>1. call = "listing" /\ \E page : \/ MidPage(page) /\ UNCHANGED ipPoolVars
                                        \/ MPListingEnds("complete", listed \o page)
      BY <1>6 DEF ListMPPools
    <2> QED
      BY <1>3, <1>4, <2>1 DEF Walks
  <1>7. CASE MPListingFails
    BY <1>4, <1>7 DEF MPListingFails, Walks
  <1>8. CASE ListPolicyPools
    <2>1. call = "policies" /\ \E page : \/ MidPage(page) /\ UNCHANGED ipPoolVars
                                         \/ LastPage(page) /\ SpawnUsage
      BY <1>8 DEF ListPolicyPools
    <2> QED
      BY <1>3, <1>5, <2>1 DEF LastPage, Walks
  <1>9. CASE PolicyListingFails
    BY <1>5, <1>9 DEF PolicyListingFails, BrokenWalk, Walks
  <1> QED
    BY <1>6, <1>7, <1>8, <1>9

LEMMA PoolKeeps ==
    ASSUME PoolInv, PoolNext
    PROVE  PoolInv'
  <1> USE DEF PoolInv
  <1>1. PoolIInv'
    BY PoolNextInv
  <1>2. ASSUME NEW i \in pending, PoolGoroutine(i) PROVE PoolInv'
    <2>1. call = "fetching" /\ UNCHANGED <<call, listed, walks, mpPools, IPPools>>
      BY <1>2 DEF PoolGoroutine, UsageFails, Usage, LockPools, Lock, AppendPool, Store, Running, fanOutVars
    <2>2. i \in DOMAIN listed
      BY <2>1 DEF PoolIInv, PoolFetchInv, PoolFetchTypes
    <2>3. used' = used \/ used' = used \cup {Own(i)}
      BY <1>2 DEF PoolGoroutine, UsageFails, Usage, LockPools, AppendPool, Own
    <2> QED
      BY <1>1, <2>1, <2>2, <2>3 DEF Own, PoolEntry
  <1>3. CASE PoolsCollected
    <2>1. call = "fetching" /\ call' = "returned" /\ UNCHANGED <<listed, walks, mpPools, used>>
      BY <1>3 DEF PoolsCollected, Joined
    <2> QED
      BY <1>1, <2>1 DEF Own, PoolEntry
  <1> QED
    BY <1>2, <1>3, PoolListingKeeps DEF PoolNext

-----------------------------------------------------------------------------
(* The listings that nothing follows. *)

LEMMA CertificatesKeeps ==
    ASSUME CertificatesInv, CertificatesNext
    PROVE  CertificatesInv'
  <1> USE DEF CertificatesInv
  <1>1. CASE ListCertificates
    <2>1. call = "listing" /\ \E page : \/ MidPage(page) /\ UNCHANGED inventoryVars
                                        \/ LastPage(page) /\ Certificates' = listed' /\ call' = "returned"
      BY <1>1 DEF ListCertificates
    <2> QED
      BY <2>1 DEF MidPage, LastPage, inventoryVars
  <1>2. CASE CertificateListingFails
    BY <1>2 DEF CertificateListingFails, ListingFails, inventoryVars
  <1> QED
    BY <1>1, <1>2 DEF CertificatesNext

(* A node with the ID was listed, and gives the name, or the name stays. *)
LEMMA NameOfListed ==
    ASSUME NEW nodes \in Seq(NodeRecords(DisplayNames)), NEW i \in DOMAIN TransportNodes,
           TransportNodes \in Seq(NodeRecords(DisplayNames \cup {NoName}))
    PROVE  LET named == [TransportNodes[i] EXCEPT !.DisplayName = NameByID(nodes, i)]
           IN named = TransportNodes[i] \/ \E k \in DOMAIN nodes : named = nodes[k]
  <1> DEFINE same == {k \in DOMAIN nodes : nodes[k].ID = TransportNodes[i].ID}
  <1>1. TransportNodes[i] \in NodeRecords(DisplayNames \cup {NoName})
    OBVIOUS
  <1>2. CASE same = {}
    <2>1. NameByID(nodes, i) = TransportNodes[i].DisplayName
      BY <1>2 DEF NameByID
    <2> QED
      BY <1>1, <2>1 DEF NodeRecords
  <1>3. CASE same # {}
    <2> DEFINE last == CHOOSE k \in same : \A l \in same : l <= k
    <2>1. same \in SUBSET (0..Len(nodes)) /\ Len(nodes) \in Nat
      OBVIOUS
    <2>2. \E k \in same : \A l \in same : l <= k
      <3>1. PICK k \in same : \A l \in same : k >= l
        BY <1>3, <2>1, GreatestOf
      <3>2. \A l \in same : l \in Nat /\ k \in Nat
        BY <2>1
      <3> QED
        BY <3>1, <3>2
    <2>3. last \in same
      BY <2>2
    <2>4. NameByID(nodes, i) = nodes[last].DisplayName
      BY <1>3 DEF NameByID
    <2>5. nodes[last] \in NodeRecords(DisplayNames) /\ nodes[last].ID = TransportNodes[i].ID
      BY <2>1, <2>3
    <2>6. [TransportNodes[i] EXCEPT !.DisplayName = nodes[last].DisplayName] = nodes[last]
      BY <1>1, <2>5 DEF NodeRecords
    <2> QED
      BY <2>3, <2>4, <2>6
  <1> QED
    BY <1>2, <1>3

LEMMA NamesKeeps ==
    ASSUME NamesInv, NamesNext
    PROVE  NamesInv'
  <1> USE DEF NamesInv
  <1>1. CASE NoNodesToName
    BY <1>1 DEF NoNodesToName, inventoryVars, NamesOfTheirOwn
  <1>2. CASE NodeListingFails
    BY <1>2 DEF NodeListingFails, ListingFails, inventoryVars, Nameless, NamesOfTheirOwn
  <1>3. CASE ListNodeNames
    <2>1. PICK page \in PagesOf(NodeRecords(DisplayNames)) :
            \/ MidPage(page) /\ UNCHANGED inventoryVars
            \/ /\ LastPage(page)
               /\ TransportNodes' = [i \in DOMAIN TransportNodes |->
                      [TransportNodes[i] EXCEPT !.DisplayName = NameByID(listed', i)]]
               /\ call' = "returned"
      BY <1>3 DEF ListNodeNames
    <2>2. call = "listing" /\ walks = <<>> /\ Nameless
      BY <1>3 DEF ListNodeNames
    <2>3. listed' \in Seq(NodeRecords(DisplayNames))
      <3>1. page \in Seq(NodeRecords(DisplayNames))
        BY PageIsSeq
      <3>2. listed \o page \in Seq(NodeRecords(DisplayNames))
        BY <2>2, <3>1
      <3> QED
        BY <2>1, <3>2 DEF MidPage, LastPage, Paged
    <2>4. CASE MidPage(page) /\ UNCHANGED inventoryVars
      BY <2>2, <2>3, <2>4 DEF MidPage, inventoryVars, Nameless, NamesOfTheirOwn
    <2>5. CASE /\ LastPage(page)
               /\ TransportNodes' = [i \in DOMAIN TransportNodes |->
                      [TransportNodes[i] EXCEPT !.DisplayName = NameByID(listed', i)]]
               /\ call' = "returned"
      <3>1. \A i \in DOMAIN TransportNodes :
              \/ TransportNodes'[i] = TransportNodes[i]
              \/ \E k \in DOMAIN listed' : TransportNodes'[i] = listed'[k]
        <4> TAKE i \in DOMAIN TransportNodes
        <4>1. LET named == [TransportNodes[i] EXCEPT !.DisplayName = NameByID(listed', i)]
              IN named = TransportNodes[i] \/ \E k \in DOMAIN listed' : named = listed'[k]
          BY <2>3, NameOfListed
        <4> QED
          BY <2>5, <4>1
      <3>2. NamesOfTheirOwn'
        BY <2>2, <2>5, <3>1 DEF Nameless, NamesOfTheirOwn
      <3>3. TransportNodes' \in Seq(NodeRecords(DisplayNames \cup {NoName}))
        <4>1. NodeRecords(DisplayNames) \subseteq NodeRecords(DisplayNames \cup {NoName})
          BY DEF NodeRecords
        <4>2. \A k \in DOMAIN listed' : listed'[k] \in NodeRecords(DisplayNames)
          BY <2>3
        <4>3. \A i \in DOMAIN TransportNodes : TransportNodes[i] \in NodeRecords(DisplayNames \cup {NoName})
          OBVIOUS
        <4>4. PICK n \in Nat : DOMAIN TransportNodes = 1..n
          OBVIOUS
        <4>5. TransportNodes' \in [1..n -> NodeRecords(DisplayNames \cup {NoName})]
          BY <2>5, <3>1, <4>1, <4>2, <4>3, <4>4
        <4> QED
          BY <4>5, ListIsSeq
      <3>4. walks' = <<"complete">>
        BY <2>2, <2>5 DEF LastPage
      <3> QED
        BY <2>5, <3>2, <3>3, <3>4
    <2> QED
      BY <2>1, <2>4, <2>5
  <1> QED
    BY <1>1, <1>2, <1>3 DEF NamesNext

LEMMA BackupCallKeeps ==
    ASSUME BackupCallInv, BackupNext
    PROVE  BackupCallInv'
  <1>1. BackupInv'
    BY BackupKeeps DEF BackupCallInv
  <1> QED
    BY <1>1 DEF BackupCallInv, BackupNext, CollectBackup, BackupFails, backupVars

-----------------------------------------------------------------------------
LEMMA NextInv ==
    ASSUME IInv, [Next]_vars
    PROVE  IInv'
  <1>1. Rest' /\ collector' = collector
    BY RestKeeps DEF IInv
  <1> USE DEF IInv
  <1>2. CASE EdgeStep
    BY <1>1, <1>2, EdgeKeeps DEF EdgeStep
  <1>3. CASE TunnelStep
    BY <1>1, <1>3, TunnelKeeps DEF TunnelStep
  <1>4. CASE BGPStep
    BY <1>1, <1>4, BGPKeeps DEF BGPStep
  <1>5. CASE PoolStep
    BY <1>1, <1>5, PoolKeeps DEF PoolStep
  <1>6. CASE NamesStep
    BY <1>1, <1>6, NamesKeeps DEF NamesStep
  <1>7. CASE CertificatesStep
    BY <1>1, <1>7, CertificatesKeeps DEF CertificatesStep
  <1>8. CASE BackupStep
    BY <1>1, <1>8, BackupCallKeeps DEF BackupStep
  <1>9. CASE UNCHANGED vars
    <2> USE <1>9 DEF vars, fanOutVars, edgeVars, tunnelVars, appendVars, bgpOwnVars, poolOwnVars,
        inventoryVars, backupVars
    <2>1. OneWalk' <=> OneWalk
      BY DEF OneWalk
    <2>2. EdgeInv' <=> EdgeInv
      BY <2>1 DEF EdgeInv, OwnFigures, EdgesInOrder
    <2>3. TunnelIInv => TunnelIInv'
      BY TunnelNextInv DEF TunnelAllVars
    <2>4. BGPIInv => BGPIInv'
      BY BGPNextInv DEF BGPAllVars, bgpVars
    <2>5. PoolIInv => PoolIInv'
      BY PoolNextInv DEF PoolAllVars, ipPoolVars
    <2>6. TunnelInv => TunnelInv'
      BY <2>1, <2>3 DEF TunnelInv
    <2>7. BGPInv => BGPInv'
      BY <2>1, <2>4 DEF BGPInv, Placed, Sessions
    <2>8. PoolInv => PoolInv'
      BY <2>5 DEF PoolInv, Own, PoolEntry
    <2>9. (NamesInv' <=> NamesInv) /\ (CertificatesInv' <=> CertificatesInv)
      BY DEF NamesInv, CertificatesInv, Nameless, NamesOfTheirOwn
    <2>10. BackupCallInv' <=> BackupCallInv
      BY DEF BackupCallInv, BackupInv
    <2> QED
      BY <1>1, <2>2, <2>6, <2>7, <2>8, <2>9, <2>10
  <1> QED
    BY <1>2, <1>3, <1>4, <1>5, <1>6, <1>7, <1>8, <1>9 DEF Next

LEMMA Inductive == Spec => []IInv
  BY InitInv, NextInv, PTL DEF Spec

-----------------------------------------------------------------------------
(* What holds of a collector holds of the composition. *)

LEMMA CollectorsHold ==
    ASSUME IInv
    PROVE  /\ EdgesInOrder
           /\ TunnelsOnce /\ TunnelsComplete
           /\ BGPNothingLost
           /\ PoolsNothingLost
           /\ NamesOfTheirOwn
           /\ BackupInv
  <1> USE DEF IInv, Rest
  <1>1. EdgesInOrder
    BY DEF EdgesInOrder, EdgeInv
  <1>2. TunnelsOnce /\ TunnelsComplete
    BY TunnelInvImplies DEF TunnelInv, TunnelsOnce, TunnelsComplete
  <1>3. BGPNothingLost
    <2>1. Holds(<<>>, {})
      BY DEF Holds, NoRepeats
    <2> QED
      BY <2>1 DEF BGPInv, BGPIInv, BGPPhaseInv, BGPNothingLost
  <1>4. PoolsNothingLost
    <2>1. Holds(<<>>, {})
      BY DEF Holds, NoRepeats
    <2>2. mpPools = <<>> => {PoolEntry("MP", i) : i \in DOMAIN mpPools} = {}
      OBVIOUS
    <2> QED
      BY <2>1, <2>2 DEF PoolInv, PoolIInv, PoolPhaseInv, PoolsNothingLost
  <1>5. NamesOfTheirOwn
    BY DEF NamesInv, NamesOfTheirOwn
  <1>6. BackupInv
    <2>1. CASE collector = "Backup"
      BY <2>1 DEF BackupCallInv
    <2>2. CASE collector # "Backup"
      <3>1. history = <<>> /\ Backup = NotCollected
        BY <2>2
      <3> QED
        BY <3>1 DEF BackupInv, Histories
    <2> QED
      BY <2>1, <2>2
  <1> QED
    BY <1>1, <1>2, <1>3, <1>4, <1>5, <1>6

LEMMA ListingsAreWhole == IInv => WholeListings
  <1> SUFFICES ASSUME IInv PROVE WholeListings
    OBVIOUS
  <1> USE DEF IInv, Rest
  <1>1. EdgeNodes # <<>> => walks = <<"complete">>
    BY DEF EdgeInv, OneWalk
  <1>2. Tunnels # <<>> => walks = <<"complete">>
    BY DEF TunnelInv, TunnelIInv, TunnelPhaseInv, OneWalk
  <1>3. BGPNeighbors # <<>> => walks = <<"complete">>
    BY DEF BGPInv, BGPIInv, BGPPhaseInv, OneWalk
  <1>4. Certificates # <<>> => walks = <<"complete">>
    BY DEF CertificatesInv
  <1>5. (\E i \in DOMAIN TransportNodes : TransportNodes[i].DisplayName # NoName)
        => walks = <<"complete">>
    BY DEF NamesInv, Nameless
  <1>6. ASSUME NEW i \in DOMAIN IPPools
        PROVE  walks[IF IPPools[i].Source = "MP" THEN 1 ELSE 2] = "complete"
    <2>1. collector = "IPPools" /\ call = "returned"
      BY <1>6 DEF PoolInv
    <2>2. IPPools[i] \in {PoolEntry("MP", k) : k \in DOMAIN mpPools} \cup used
      BY <1>6, <2>1, CollectorsHold DEF PoolsNothingLost, Holds
    <2>3. CASE IPPools[i] \in {PoolEntry("MP", k) : k \in DOMAIN mpPools}
      BY <2>1, <2>3 DEF PoolInv, PoolEntry
    <2>4. CASE IPPools[i] \in used
      BY <2>1, <2>4 DEF PoolInv, Own, PoolEntry
    <2> QED
      BY <2>2, <2>3, <2>4
  <1> QED
    BY <1>1, <1>2, <1>3, <1>4, <1>5, <1>6 DEF WholeListings

(* Of two entries with the same labels one source has listed both. *)
LEMMA PoolsKeptApart == IInv => PoolsApart
  <1> SUFFICES ASSUME IInv, NEW i \in DOMAIN IPPools, NEW j \in DOMAIN IPPools,
                      i # j, PoolLabels(IPPools[i]) = PoolLabels(IPPools[j])
               PROVE  /\ IPPools[i].Source = IPPools[j].Source
                      /\ IPPools[i].place # IPPools[j].place
    BY DEF PoolsApart
  <1>1. collector = "IPPools" /\ call = "returned"
    BY DEF IInv, Rest, PoolInv
  <1>2. Holds(IPPools, {PoolEntry("MP", k) : k \in DOMAIN mpPools} \cup used)
    BY <1>1, CollectorsHold DEF PoolsNothingLost
  <1>3. IPPools[i] # IPPools[j]
    BY <1>2 DEF Holds, NoRepeats
  <1>4. ASSUME NEW k \in DOMAIN IPPools
        PROVE  IPPools[k] = PoolEntry(IPPools[k].Source, IPPools[k].place)
    BY <1>1, <1>2 DEF Holds, IInv, PoolInv, Own, PoolEntry
  <1>5. IPPools[i].Source = IPPools[j].Source
    BY DEF PoolLabels
  <1> QED
    BY <1>3, <1>4, <1>5

(* The edge nodes are in the order of the listing, each with figures of its *)
(* own, in whatever order the answers come.                                 *)
THEOREM EdgesKeepTheirPlace == Spec => []EdgesInOrder
  BY Inductive, CollectorsHold, PTL

(* The tunnels are complete and without repetition. *)
THEOREM TunnelsHold == Spec => [](TunnelsOnce /\ TunnelsComplete)
  BY Inductive, CollectorsHold, PTL

(* No session and no pool is lost between goroutines that append. *)
THEOREM AppendsHold == Spec => [](BGPNothingLost /\ PoolsNothingLost)
  BY Inductive, CollectorsHold, PTL

(* A node is named by what the inventory lists under its ID. *)
THEOREM NamesAreOwn == Spec => []NamesOfTheirOwn
  BY Inductive, CollectorsHold, PTL

(* A section never shows part of a listing as if it were whole. *)
THEOREM SectionsWhole == Spec => []WholeListings
  BY Inductive, ListingsAreWhole, PTL

(* The labels tell a pool of one source from every pool of the other, and  *)
(* no pool is in the section twice for one place in a listing.             *)
THEOREM PoolsStayApart == Spec => []PoolsApart
  BY Inductive, PoolsKeptApart, PTL

(* Also when the summary is one of several sections: what Backup holds is   *)
(* right of the list that this call was given.                             *)
THEOREM BackupHolds == Spec => [](SummaryCorrect /\ LoopsAgree)
  BY Inductive, CollectorsHold, SummaryHolds, LoopsHold, PTL

-----------------------------------------------------------------------------
(* What a collector promises its caller. *)

Sections == <<EdgeNodes, Tunnels, BGPNeighbors, IPPools, Certificates, Backup, TransportNodes>>

Untouched ==
    {<<>>} \X {<<>>} \X {<<>>} \X {<<>>} \X {<<>>} \X {NotCollected} \X Seq(NodeRecords({NoName}))

(* Nodes without a name are as the waves have listed them. *)
LEMMA NamelessNodes ==
    ASSUME TransportNodes \in Seq(NodeRecords(DisplayNames \cup {NoName})), Nameless
    PROVE  TransportNodes \in Seq(NodeRecords({NoName}))
  <1> DEFINE n == Len(TransportNodes)
  <1>1. n \in Nat /\ TransportNodes \in [1..n -> NodeRecords(DisplayNames \cup {NoName})]
    OBVIOUS
  <1> HIDE DEF n
  <1>2. ASSUME NEW i \in 1..n PROVE TransportNodes[i] \in NodeRecords({NoName})
    <2>1. TransportNodes[i] \in [ID : Nodes, DisplayName : DisplayNames \cup {NoName}]
      BY <1>1 DEF NodeRecords
    <2>2. TransportNodes[i].DisplayName = NoName
      BY <1>1 DEF Nameless
    <2> QED
      BY <2>1, <2>2 DEF NodeRecords
  <1>3. TransportNodes \in [1..n -> NodeRecords({NoName})]
    BY <1>1, <1>2
  <1> QED
    BY <1>1, <1>3, ListIsSeq

(* While a collector lists it has assigned nothing. *)
LEMMA BlankUntilAssigned ==
    ASSUME IInv, call = "listing"
    PROVE  Sections \in Untouched
  <1> USE DEF IInv, Rest
  <1>1. EdgeNodes = <<>>
    BY DEF EdgeInv
  <1>2. Tunnels = <<>>
    BY DEF TunnelInv, TunnelIInv, TunnelPhaseInv
  <1>3. BGPNeighbors = <<>>
    BY DEF BGPInv, BGPIInv, BGPPhaseInv
  <1>4. IPPools = <<>>
    BY DEF PoolInv
  <1>5. Certificates = <<>>
    BY DEF CertificatesInv
  <1>6. TransportNodes \in Seq(NodeRecords({NoName}))
    <2>1. CASE collector = "names"
      BY <2>1, NamelessNodes DEF NamesInv
    <2>2. CASE collector # "names"
      BY <2>2
    <2> QED
      BY <2>1, <2>2
  <1>7. Backup = NotCollected
    BY DEF BackupCallInv
  <1> QED
    BY <1>1, <1>2, <1>3, <1>4, <1>5, <1>6, <1>7 DEF Sections, Untouched

(* A collector that has ended takes no step. *)
LEMMA EndedRests ==
    ASSUME call \in Ended, [Next]_vars
    PROVE  call' = call /\ Sections' = Sections
  <1> USE DEF Ended, Sections
  <1>1. CASE EdgeStep
    BY <1>1 DEF EdgeStep, EdgeNext, ListEdgeNodes, EdgeListingFails, ListingFails, FetchEdge, Running,
       EdgesCollected, Joined
  <1>2. CASE TunnelStep
    BY <1>2 DEF TunnelStep, TunnelNext, ListTunnelNodes, TunnelListingFails, ListingFails,
       FetchTunnels, Running, TunnelsJoined, Joined, KeepTunnel, SkipTunnel, NextNode, Merging,
       TunnelsCollected
  <1>3. CASE BGPStep
    BY <1>3 DEF BGPStep, BGPNext, ListTier0s, Tier0ListingFails, ListingFails, BGPGoroutine,
       ListLocaleServices, NoStatus, Status, AtService, LockNeighbors, Lock, AppendNeighbor, Store,
       Tier0Done, Running, BGPCollected, Joined
  <1>4. CASE PoolStep
    BY <1>4 DEF PoolStep, PoolNext, ListMPPools, MPListingFails, ListPolicyPools,
       PolicyListingFails, PoolGoroutine, UsageFails, Usage, LockPools, Lock, AppendPool, Store,
       Running, PoolsCollected, Joined
  <1>5. CASE NamesStep
    BY <1>5 DEF NamesStep, NamesNext, NoNodesToName, ListNodeNames, NodeListingFails, ListingFails
  <1>6. CASE CertificatesStep
    BY <1>6 DEF CertificatesStep, CertificatesNext, ListCertificates, CertificateListingFails,
       ListingFails
  <1>7. CASE BackupStep
    BY <1>7 DEF BackupStep, BackupNext, CollectBackup, BackupFails
  <1>8. CASE UNCHANGED vars
    BY <1>8 DEF vars, fanOutVars, edgeVars, tunnelVars, bgpOwnVars, poolOwnVars, inventoryVars,
       backupVars
  <1> QED
    BY <1>1, <1>2, <1>3, <1>4, <1>5, <1>6, <1>7, <1>8 DEF Next

(* A collector fails while it lists, and assigns nothing when it does. *)
LEMMA FailsBlank ==
    ASSUME IInv, [Next]_vars, call # "failed", call' = "failed"
    PROVE  call = "listing" /\ Sections' = Sections
  <1> USE DEF Sections, backupVars
  <1>1. CASE EdgeStep
    BY <1>1 DEF EdgeStep, EdgeNext, ListEdgeNodes, MidPage, Spawn, EdgeListingFails, ListingFails,
       FetchEdge, EdgesCollected, edgeVars, tunnelVars, bgpOwnVars, poolOwnVars, inventoryVars
  <1>2. CASE TunnelStep
    BY <1>2 DEF TunnelStep, TunnelNext, ListTunnelNodes, MidPage, Spawn, TunnelListingFails,
       ListingFails, FetchTunnels, TunnelsJoined, KeepTunnel, SkipTunnel, NextNode, fanOutVars,
       TunnelsCollected, edgeVars, tunnelVars, bgpOwnVars, poolOwnVars, inventoryVars
  <1>3. CASE BGPStep
    BY <1>3 DEF BGPStep, BGPNext, ListTier0s, MidPage, SpawnAt, Spawn, Tier0ListingFails,
       ListingFails, BGPGoroutine, ListLocaleServices, NoStatus, Status, LockNeighbors, Lock,
       AppendNeighbor, Tier0Done, BGPCollected, fanOutVars, edgeVars, tunnelVars, bgpVars,
       poolOwnVars, inventoryVars
  <1>4. CASE PoolStep
    <2>1. PoolInv'
      BY <1>4, NextInv DEF PoolStep, IInv
    <2> QED
      BY <2>1 DEF PoolInv, PoolIInv, PoolPhaseInv
  <1>5. CASE NamesStep
    BY <1>5 DEF NamesStep, NamesNext, NoNodesToName, ListNodeNames, MidPage, NodeListingFails,
       ListingFails, edgeVars, tunnelVars, bgpOwnVars, poolOwnVars, inventoryVars
  <1>6. CASE CertificatesStep
    BY <1>6 DEF CertificatesStep, CertificatesNext, ListCertificates, MidPage,
       CertificateListingFails, ListingFails, edgeVars, tunnelVars, bgpOwnVars, poolOwnVars,
       inventoryVars
  <1>7. CASE BackupStep
    BY <1>7 DEF BackupStep, BackupNext, CollectBackup, BackupFails, edgeVars, tunnelVars, bgpOwnVars,
       poolOwnVars, inventoryVars
  <1>8. CASE UNCHANGED vars
    BY <1>8 DEF vars, fanOutVars
  <1> QED
    BY <1>1, <1>2, <1>3, <1>4, <1>5, <1>6, <1>7, <1>8 DEF Next

(* Each of the seven collectors keeps the promise: if it fails it has left *)
(* the data as it was, and once it has ended it leaves it alone.           *)
THEOREM PromiseKept == Spec => ImplementsCollectorCall
<1>1. Init => Promise!Init
  <2> SUFFICES ASSUME Init PROVE Promise!Init
    OBVIOUS
  <2>1. IInv /\ call = "listing"
    BY InitInv DEF Init, EdgeInit, FanOutInit
  <2> QED
    BY <2>1, BlankUntilAssigned DEF Promise!Init, Ended, Sections, Untouched
<1>2. IInv /\ [Next]_vars => [Promise!Next]_Promise!vars
  <2> SUFFICES ASSUME IInv, [Next]_vars PROVE [Promise!Next]_Promise!vars
    OBVIOUS
  <2>1. CASE call \in Ended
    BY <2>1, EndedRests DEF Promise!vars, Sections
  <2>2. CASE call \notin Ended /\ call' = "failed"
    <3>1. call = "listing" /\ Sections' = Sections /\ Sections \in Untouched
      BY <2>2, FailsBlank, BlankUntilAssigned DEF Ended
    <3> QED
      BY <2>2, <3>1 DEF Promise!Next, Promise!Fail, Ended, Sections, Untouched
  <2>3. CASE call \notin Ended /\ call' # "failed"
    BY <2>3 DEF Promise!Next, Promise!Fill, Ended
  <2> QED
    BY <2>1, <2>2, <2>3
<1> QED
  BY <1>1, <1>2, Inductive, PTL DEF Spec, ImplementsCollectorCall, Promise!Spec

-----------------------------------------------------------------------------
(* Types. *)

IsKept(page, type, f, n) ==
    f = [k \in 0..n |-> IF k = 0 THEN <<>> ELSE Keep(f[k - 1], page[k], type)]

LEMMA KeptExists ==
    ASSUME NEW page, NEW type, NEW m \in Nat
    PROVE  \E f : IsKept(page, type, f, m)
  <1> DEFINE S == {n \in Nat : \E f : IsKept(page, type, f, n)}
  <1>1. 0 \in S
    <2> DEFINE f == [k \in 0..0 |-> <<>>]
    <2>1. IsKept(page, type, f, 0)
      BY DEF IsKept
    <2> QED
      BY <2>1
  <1>2. ASSUME NEW n \in S
        PROVE  n + 1 \in S
    <2>1. PICK f : IsKept(page, type, f, n)
      OBVIOUS
    <2> DEFINE after == Keep(f[n], page[n + 1], type)
               g == [k \in 0..(n + 1) |-> IF k = n + 1 THEN after ELSE f[k]]
    <2>2. ASSUME NEW k \in 0..(n + 1)
          PROVE  g[k] = IF k = 0 THEN <<>> ELSE Keep(g[k - 1], page[k], type)
      <3>1. CASE k = n + 1
        <4>1. g[n] = f[n] /\ g[k] = after
          BY <3>1
        <4> QED
          BY <3>1, <4>1
      <3>2. CASE k = 0
        BY <2>1, <3>2 DEF IsKept
      <3>3. CASE k \in 1..n
        <4>1. g[k] = f[k] /\ g[k - 1] = f[k - 1]
          BY <3>3
        <4>2. f[k] = Keep(f[k - 1], page[k], type)
          BY <2>1, <3>3 DEF IsKept
        <4> QED
          BY <3>3, <4>1, <4>2
      <3> QED
        BY <3>1, <3>2, <3>3
    <2>3. IsKept(page, type, g, n + 1)
      BY <2>2 DEF IsKept
    <2> QED
      BY <2>3
  <1> HIDE DEF S
  <1>3. m \in S
    BY <1>1, <1>2, StepByStep DEF S
  <1> QED
    BY <1>3 DEF S

(* What the filter leaves of a page is of the type asked for. *)
LEMMA OfTypeIs ==
    ASSUME NEW T, NEW page \in Seq(T), NEW type
    PROVE  OfType(page, type) \in Seq(type)
  <1> DEFINE m == Len(page)
             Kept(f) == IsKept(page, type, f, m)
             kept == CHOOSE f : Kept(f)
             S == {n \in Nat : n <= m => kept[n] \in Seq(type)}
  <1>1. m \in Nat
    OBVIOUS
  <1>2. OfType(page, type) = kept[m]
    BY DEF OfType, IsKept
  <1>3. Kept(kept)
    <2>1. \E f : Kept(f)
      BY <1>1, KeptExists
    <2> HIDE DEF Kept
    <2> QED
      BY <2>1
  <1> HIDE DEF m, kept
  <1>4. /\ kept[0] = <<>>
        /\ \A n \in 1..m : kept[n] = Keep(kept[n - 1], page[n], type)
    BY <1>1, <1>3 DEF IsKept
  <1>5. 0 \in S
    <2>1. kept[0] \in Seq(type)
      BY <1>4
    <2> QED
      BY <2>1
  <1>6. ASSUME NEW n \in S
        PROVE  n + 1 \in S
    <2> SUFFICES ASSUME n + 1 <= m PROVE kept[n + 1] \in Seq(type)
      OBVIOUS
    <2>1. kept[n] \in Seq(type) /\ n + 1 \in 1..m /\ (n + 1) - 1 = n
      BY <1>1
    <2>2. kept[n + 1] = Keep(kept[n], page[n + 1], type)
      BY <1>4, <2>1
    <2> QED
      BY <2>1, <2>2 DEF Keep
  <1> HIDE DEF S
  <1>7. m \in S
    BY <1>1, <1>5, <1>6, StepByStep DEF S
  <1> QED
    BY <1>1, <1>2, <1>7 DEF S

LEMMA EntrySet ==
    ASSUME NEW S, NEW s \in Seq(S), NEW i, NEW e \in S
    PROVE  [s EXCEPT ![i] = e] \in Seq(S)
  <1> DEFINE t == [s EXCEPT ![i] = e]
  <1>1. Len(s) \in Nat /\ s \in [1..Len(s) -> S]
    OBVIOUS
  <1>2. t \in [1..Len(s) -> S]
    BY <1>1
  <1> HIDE DEF t
  <1>3. t \in Seq(S)
    BY <1>1, <1>2, ListIsSeq
  <1> QED
    BY <1>3 DEF t

(* The types of the walk and the join, with nothing to join before the walk *)
(* has ended.                                                              *)
FanOutTypes(Items) ==
    /\ FanOutTypeOK(Items)
    /\ call \in {"listing", "policies"} => pending = {}

LEMMA WalkTypes ==
    ASSUME NEW Items, FanOutTypes(Items), call \in {"listing", "policies"}
    PROVE  /\ \A page \in Seq(Items) : MidPage(page) => FanOutTypes(Items)'
           /\ \A page \in Seq(Items) :
                LastPage(page) => listed' \in Seq(Items) /\ walks' \in Seq(Walks)
           /\ \A page \in Seq(Items) : LastPage(page) /\ Spawn => FanOutTypes(Items)'
           /\ ListingFails => FanOutTypes(Items)'
  <1> USE DEF FanOutTypes, FanOutTypeOK, Ended, Walks
  <1>1. ASSUME NEW page \in Seq(Items), MidPage(page) PROVE FanOutTypes(Items)'
    <2>1. listed' = listed \o page /\ UNCHANGED <<call, walks, pending>>
      BY <1>1 DEF MidPage, Paged
    <2> QED
      BY <2>1
  <1>2. ASSUME NEW page \in Seq(Items), LastPage(page)
        PROVE  listed' \in Seq(Items) /\ walks' \in Seq(Walks)
    BY <1>2 DEF LastPage, Paged
  <1>3. ASSUME NEW page \in Seq(Items), LastPage(page), Spawn PROVE FanOutTypes(Items)'
    BY <1>2, <1>3 DEF Spawn
  <1>4. ASSUME ListingFails PROVE FanOutTypes(Items)'
    BY <1>4 DEF ListingFails, BrokenWalk
  <1> QED
    BY <1>1, <1>2, <1>3, <1>4

(* Types that a collector keeps beyond those of its walk. *)
EdgeTypes == FanOutTypes(Edges) /\ EdgeTypeOK

BGPBlank ==
    at = <<>> /\ slice = <<>> /\ results = <<>> /\ holder = Nobody
    /\ services = <<>> /\ current = <<>> /\ entries = <<>> /\ answered = {} /\ BGPNeighbors = <<>>

BGPTypes ==
    /\ FanOutTypes(Tier0s)
    /\ BGPTypeOK
    /\ call = "listing" => BGPBlank

PoolBlank ==
    at = <<>> /\ slice = <<>> /\ results = <<>> /\ holder = Nobody /\ used = {} /\ IPPools = <<>>

PoolTypes ==
    /\ FanOutTypes(IPPoolIDs)
    /\ PoolTypeOK
    /\ call \in {"listing", "policies"} => PoolBlank

CertificatesTypes ==
    /\ FanOutTypes(CertificateIDs)
    /\ Certificates \in Seq(CertificateIDs)

TypesInv ==
    /\ collector = "EdgeNodes" => EdgeTypes
    /\ collector = "Tunnels" => FanOutTypes(Nodes)
    /\ collector = "BGPNeighbors" => BGPTypes
    /\ collector = "IPPools" => PoolTypes
    /\ collector = "names" => FanOutTypes(NodeRecords(DisplayNames))
    /\ collector = "Certificates" => CertificatesTypes
    /\ collector = "Backup" => FanOutTypes({})

LEMMA TypesInit == Init => TypesInv
  <1> SUFFICES ASSUME Init PROVE TypesInv
    OBVIOUS
  <1>1. /\ call = "listing" /\ listed = <<>> /\ walks = <<>> /\ pending = {}
        /\ at = <<>> /\ holder = Nobody /\ slice = <<>> /\ results = <<>>
        /\ slots = <<>> /\ EdgeNodes = <<>>
        /\ services = <<>> /\ current = <<>> /\ entries = <<>> /\ answered = {} /\ BGPNeighbors = <<>>
        /\ mpPools = <<>> /\ used = {} /\ IPPools = <<>>
    BY DEF Init, EdgeInit, BGPInit, PoolInit, AppendInit, FanOutInit
  <1>2. \A Items : FanOutTypes(Items)
    BY <1>1 DEF FanOutTypes, FanOutTypeOK
  <1>3. EdgeTypes
    BY <1>1, <1>2 DEF EdgeTypes, EdgeTypeOK
  <1>4. BGPTypes
    BY <1>1, <1>2 DEF BGPTypes, BGPTypeOK, AppendTypeOK, BGPBlank
  <1>5. PoolTypes
    BY <1>1, <1>2 DEF PoolTypes, PoolTypeOK, AppendTypeOK, PoolBlank
  <1>6. collector = "Certificates" => CertificatesTypes
    BY <1>2 DEF CertificatesTypes, Init, CertificatesInit
  <1> QED
    BY <1>2, <1>3, <1>4, <1>5, <1>6 DEF TypesInv

LEMMA EdgeTypesKept ==
    ASSUME EdgeTypes, EdgeNext
    PROVE  EdgeTypes'
  <1> USE DEF EdgeTypes
  <1> DEFINE Entries == [ID : Edges \cup {NoNode}, figures : Edges \cup {Zeros}]
  <1>1. slots \in Seq(Entries) /\ EdgeNodes \in Seq(Entries)
    BY DEF EdgeTypeOK
  <1>2. EdgeEntry(NoNode, Zeros) \in Entries
        /\ \A n \in Edges : EdgeEntry(n, n) \in Entries /\ EdgeEntry(n, Zeros) \in Entries
    BY DEF EdgeEntry
  <1> HIDE DEF Entries
  <1>3. CASE ListEdgeNodes
    <2>1. PICK nodes \in PagesOf(Nodes) :
            \/ MidPage(OfType(nodes, Edges)) /\ UNCHANGED edgeVars
            \/ /\ LastPage(OfType(nodes, Edges))
               /\ Spawn
               /\ slots' = [i \in DOMAIN listed' |-> EdgeEntry(NoNode, Zeros)]
               /\ UNCHANGED EdgeNodes
      BY <1>3 DEF ListEdgeNodes
    <2>2. OfType(nodes, Edges) \in Seq(Edges) /\ call = "listing"
      BY <1>3, PageIsSeq, OfTypeIs DEF ListEdgeNodes
    <2>3. FanOutTypes(Edges)'
      BY <2>1, <2>2, WalkTypes
    <2>4. slots' \in Seq(Entries)
      <3>1. CASE slots' = slots
        BY <1>1, <3>1
      <3>2. CASE slots' = [i \in DOMAIN listed' |-> EdgeEntry(NoNode, Zeros)]
        <4>1. Len(listed') \in Nat /\ DOMAIN listed' = 1..Len(listed')
          BY <2>3 DEF FanOutTypes, FanOutTypeOK
        <4>2. slots' \in [1..Len(listed') -> Entries]
          BY <1>2, <3>2, <4>1
        <4> QED
          BY <4>1, <4>2, ListIsSeq
      <3> QED
        BY <2>1, <3>1, <3>2 DEF edgeVars
    <2>5. EdgeNodes' = EdgeNodes
      BY <2>1 DEF edgeVars
    <2> QED
      BY <1>1, <2>3, <2>4, <2>5 DEF EdgeTypeOK, Entries
  <1>4. CASE EdgeListingFails
    <2>1. FanOutTypes(Edges)'
      BY <1>4, WalkTypes DEF EdgeListingFails, ListingFails
    <2> QED
      BY <1>4, <2>1 DEF EdgeListingFails, edgeVars, EdgeTypeOK
  <1>5. ASSUME NEW i \in pending, FetchEdge(i) PROVE EdgeTypes'
    <2>1. listed[i] \in Edges
      BY DEF FanOutTypes, FanOutTypeOK
    <2>2. slots' \in Seq(Entries)
      <3>1. PICK figures \in {listed[i], Zeros} :
              slots' = [slots EXCEPT ![i] = EdgeEntry(listed[i], figures)]
        BY <1>5 DEF FetchEdge
      <3>2. EdgeEntry(listed[i], figures) \in Entries
        BY <1>2, <2>1, <3>1
      <3> QED
        BY <1>1, <3>1, <3>2, EntrySet
    <2>3. FanOutTypes(Edges)'
      BY <1>5 DEF FetchEdge, Done, Running, FanOutTypes, FanOutTypeOK
    <2>4. EdgeNodes' = EdgeNodes
      BY <1>5 DEF FetchEdge
    <2> QED
      BY <1>1, <2>2, <2>3, <2>4 DEF EdgeTypeOK, Entries
  <1>6. CASE EdgesCollected
    <2>1. FanOutTypes(Edges)'
      BY <1>6 DEF EdgesCollected, Joined, FanOutTypes, FanOutTypeOK, Ended
    <2> QED
      BY <1>1, <1>6, <2>1 DEF EdgesCollected, EdgeTypeOK, Entries
  <1> QED
    BY <1>3, <1>4, <1>5, <1>6 DEF EdgeNext

LEMMA TunnelTypesKept ==
    ASSUME FanOutTypes(Nodes), TunnelNext
    PROVE  FanOutTypes(Nodes)'
  <1>1. CASE ListTunnelNodes
    <2>1. PICK page \in PagesOf(Nodes) : MidPage(page) \/ (LastPage(page) /\ Spawn)
      BY <1>1 DEF ListTunnelNodes
    <2> QED
      BY <1>1, <2>1, PageIsSeq, WalkTypes DEF ListTunnelNodes
  <1>2. CASE TunnelListingFails
    BY <1>2, WalkTypes DEF TunnelListingFails, ListingFails
  <1>3. CASE \E i \in pending : FetchTunnels(i)
    BY <1>3 DEF FetchTunnels, Done, Running, FanOutTypes, FanOutTypeOK
  <1>4. CASE TunnelsJoined \/ TunnelsCollected
    BY <1>4 DEF TunnelsJoined, Joined, TunnelsCollected, FanOutTypes, FanOutTypeOK, Ended
  <1>5. CASE KeepTunnel \/ SkipTunnel \/ NextNode
    BY <1>5 DEF KeepTunnel, SkipTunnel, NextNode, fanOutVars, FanOutTypes, FanOutTypeOK
  <1> QED
    BY <1>1, <1>2, <1>3, <1>4, <1>5 DEF TunnelNext

LEMMA NamesTypesKept ==
    ASSUME FanOutTypes(NodeRecords(DisplayNames)), NamesNext
    PROVE  FanOutTypes(NodeRecords(DisplayNames))'
  <1>1. CASE NoNodesToName
    BY <1>1 DEF NoNodesToName, FanOutTypes, FanOutTypeOK, Ended
  <1>2. CASE ListNodeNames
    <2>1. PICK page \in PagesOf(NodeRecords(DisplayNames)) :
            \/ MidPage(page)
            \/ LastPage(page) /\ call' = "returned" /\ UNCHANGED pending
      BY <1>2 DEF ListNodeNames
    <2>2. page \in Seq(NodeRecords(DisplayNames)) /\ call = "listing"
      BY <1>2, PageIsSeq DEF ListNodeNames
    <2>3. CASE MidPage(page)
      BY <2>2, <2>3, WalkTypes
    <2>4. CASE LastPage(page) /\ call' = "returned" /\ UNCHANGED pending
      BY <2>2, <2>4, WalkTypes DEF FanOutTypes, FanOutTypeOK, Ended, Walks
    <2> QED
      BY <2>1, <2>3, <2>4
  <1>3. CASE NodeListingFails
    BY <1>3, WalkTypes DEF NodeListingFails, ListingFails
  <1> QED
    BY <1>1, <1>2, <1>3 DEF NamesNext

LEMMA CertificatesTypesKept ==
    ASSUME CertificatesTypes, CertificatesNext
    PROVE  CertificatesTypes'
  <1> USE DEF CertificatesTypes
  <1>1. CASE ListCertificates
    <2>1. PICK page \in PagesOf(CertificateIDs) :
            \/ MidPage(page) /\ UNCHANGED inventoryVars
            \/ /\ LastPage(page)
               /\ Certificates' = listed' /\ call' = "returned" /\ UNCHANGED pending
      BY <1>1 DEF ListCertificates
    <2>2. page \in Seq(CertificateIDs) /\ call = "listing"
      BY <1>1, PageIsSeq DEF ListCertificates
    <2>3. CASE MidPage(page) /\ UNCHANGED inventoryVars
      BY <2>2, <2>3, WalkTypes DEF inventoryVars
    <2>4. CASE LastPage(page) /\ Certificates' = listed' /\ call' = "returned" /\ UNCHANGED pending
      BY <2>2, <2>4, WalkTypes DEF FanOutTypes, FanOutTypeOK, Ended, Walks
    <2> QED
      BY <2>1, <2>3, <2>4
  <1>2. CASE CertificateListingFails
    BY <1>2, WalkTypes DEF CertificateListingFails, ListingFails, inventoryVars
  <1> QED
    BY <1>1, <1>2 DEF CertificatesNext

(* While goroutines run, the types are those that their accounts rest on. *)
BGPUnassigned == BGPFetchTypes /\ BGPNeighbors = <<>>

LEMMA BGPFetching == BGPUnassigned => BGPTypeOK
  <1> SUFFICES ASSUME BGPFetchTypes, BGPNeighbors = <<>> PROVE BGPTypeOK
    BY DEF BGPUnassigned
  <1> DEFINE n == Len(listed)
             Places == {"services", "status"} \cup {"lock", "append", "done"}
  <1> USE DEF BGPFetchTypes
  <1>1. n \in Nat /\ DOMAIN listed = 1..n
    OBVIOUS
  <1> HIDE DEF n
  <1>2. at \in Seq(Places)
    <2>1. at \in [1..n -> Places]
      BY <1>1 DEF BGPPlaces
    <2> HIDE DEF Places
    <2> QED
      BY <1>1, <2>1, ListIsSeq
  <1>3. slice \in Seq(Seq(Sessions))
    BY <1>1, ListIsSeq
  <1>4. services \in Seq(Seq(LocaleServices))
    BY <1>1, ListIsSeq
  <1>5. current \in Seq(Nat) /\ entries \in Seq(SUBSET Neighbors)
    BY <1>1, ListIsSeq
  <1> QED
    BY <1>2, <1>3, <1>4, <1>5 DEF BGPTypeOK, AppendTypeOK

LEMMA BGPFetchingOn == BGPUnassigned' => BGPTypeOK'
  BY BGPFetching, PTL

LEMMA BGPTypesKept ==
    ASSUME BGPTypes, BGPInv, BGPNext
    PROVE  BGPTypes'
  <1> USE DEF BGPTypes
  <1>0. BGPInv'
    BY BGPKeeps
  <1>1. CASE ListTier0s
    <2>1. PICK page \in PagesOf(Tier0s) :
            \/ MidPage(page) /\ UNCHANGED bgpVars
            \/ /\ LastPage(page)
               /\ SpawnAt("services")
               /\ services' = [i \in DOMAIN listed' |-> <<>>]
               /\ current' = [i \in DOMAIN listed' |-> 1]
               /\ entries' = [i \in DOMAIN listed' |-> {}]
               /\ UNCHANGED <<answered, BGPNeighbors>>
      BY <1>1 DEF ListTier0s
    <2>2. page \in Seq(Tier0s) /\ call = "listing" /\ BGPBlank
      BY <1>1, PageIsSeq DEF ListTier0s
    <2>3. CASE MidPage(page) /\ UNCHANGED bgpVars
      <3>1. FanOutTypes(Tier0s)' /\ BGPBlank' /\ call' = "listing"
        BY <2>2, <2>3, WalkTypes DEF bgpVars, appendVars, BGPBlank, MidPage
      <3> QED
        BY <3>1 DEF BGPBlank, BGPTypeOK, AppendTypeOK
    <2>4. CASE /\ LastPage(page)
               /\ SpawnAt("services")
               /\ services' = [i \in DOMAIN listed' |-> <<>>]
               /\ current' = [i \in DOMAIN listed' |-> 1]
               /\ entries' = [i \in DOMAIN listed' |-> {}]
               /\ UNCHANGED <<answered, BGPNeighbors>>
      <3>1. FanOutTypes(Tier0s)' /\ call' \in {"returned", "fetching"}
        BY <2>2, <2>4, WalkTypes DEF SpawnAt, Spawn
      <3>2. /\ at' = [i \in DOMAIN listed' |-> "services"]
            /\ slice' = [i \in DOMAIN listed' |-> <<>>]
            /\ holder' = Nobody /\ results' = <<>> /\ BGPNeighbors' = <<>> /\ answered' = {}
        BY <2>2, <2>4 DEF SpawnAt, BGPBlank
      <3>3. BGPFetchTypes'
        <4>1. listed' \in Seq(Tier0s) /\ pending' \subseteq DOMAIN listed'
          BY <3>1 DEF FanOutTypes, FanOutTypeOK
        <4> QED
          BY <2>4, <3>2, <4>1 DEF BGPFetchTypes, BGPPlaces, Nobody
      <3>4. BGPTypeOK'
        BY <3>2, <3>3, BGPFetchingOn DEF BGPUnassigned
      <3> QED
        BY <3>1, <3>4
    <2> QED
      BY <2>1, <2>3, <2>4
  <1>2. CASE Tier0ListingFails
    <2>1. FanOutTypes(Tier0s)' /\ call' = "failed"
      BY <1>2, WalkTypes DEF Tier0ListingFails, ListingFails
    <2>2. BGPBlank'
      BY <1>2 DEF Tier0ListingFails, ListingFails, bgpVars, appendVars, BGPBlank
    <2> QED
      BY <2>1, <2>2 DEF BGPBlank, BGPTypeOK, AppendTypeOK
  <1>3. ASSUME NEW i \in pending, BGPGoroutine(i) PROVE BGPTypes'
    <2>1. /\ call' = "fetching" /\ UNCHANGED <<listed, walks>>
          /\ pending' \subseteq pending /\ BGPNeighbors' = BGPNeighbors /\ call = "fetching"
      BY <1>3 DEF BGPGoroutine, ListLocaleServices, NoStatus, AtService, Status, LockNeighbors, Lock,
         AppendNeighbor, Store, Tier0Done, Return, Done, Running, fanOutVars
    <2>2. BGPFetchTypes' /\ BGPNeighbors' = <<>>
      BY <1>0, <2>1 DEF BGPInv, BGPIInv, BGPPhaseInv
    <2>3. FanOutTypes(Tier0s)'
      BY <2>1 DEF FanOutTypes, FanOutTypeOK
    <2>4. BGPTypeOK'
      BY <2>2, BGPFetchingOn DEF BGPUnassigned
    <2> QED
      BY <2>1, <2>3, <2>4
  <1>4. CASE BGPCollected
    <2>1. FanOutTypes(Tier0s)' /\ call' = "returned"
      BY <1>4 DEF BGPCollected, Joined, FanOutTypes, FanOutTypeOK, Ended
    <2>2. BGPTypeOK'
      BY <1>4 DEF BGPCollected, appendVars, BGPTypeOK, AppendTypeOK, Sessions
    <2> QED
      BY <2>1, <2>2
  <1> QED
    BY <1>1, <1>2, <1>3, <1>4 DEF BGPNext

PoolAppends == AppendTypeOK({"usage"}, PoolEntries)

LEMMA PoolFetching == PoolFetchTypes => PoolAppends
  <1> SUFFICES ASSUME PoolFetchTypes PROVE AppendTypeOK({"usage"}, PoolEntries)
    BY DEF PoolAppends
  <1> DEFINE n == Len(listed)
             Places == {"usage"} \cup {"lock", "append", "done"}
  <1> USE DEF PoolFetchTypes
  <1>1. n \in Nat /\ DOMAIN listed = 1..n
    OBVIOUS
  <1> HIDE DEF n
  <1>2. at \in Seq(Places)
    <2>1. at \in [1..n -> Places]
      BY <1>1 DEF PoolPlaces
    <2> HIDE DEF Places
    <2> QED
      BY <1>1, <2>1, ListIsSeq
  <1>3. slice \in Seq(Seq(PoolEntries))
    BY <1>1, ListIsSeq
  <1> QED
    BY <1>2, <1>3 DEF AppendTypeOK

LEMMA PoolFetchingOn == PoolFetchTypes' => PoolAppends'
  BY PoolFetching, PTL

LEMMA PoolTypesKept ==
    ASSUME PoolTypes, PoolInv, PoolNext
    PROVE  PoolTypes'
  <1> USE DEF PoolTypes
  <1>1. PoolInv'
    BY PoolKeeps
  <1>2. mpPools' \in Seq(IPPoolIDs)
    BY <1>1 DEF PoolInv, PoolIInv, PoolPhaseInv
  <1>3. FanOutTypes(IPPoolIDs)' => used' \subseteq PoolEntries
    <2> SUFFICES ASSUME FanOutTypes(IPPoolIDs)', NEW e \in used' PROVE e \in PoolEntries
      OBVIOUS
    <2>1. listed' \in Seq(IPPoolIDs)
      BY DEF FanOutTypes, FanOutTypeOK
    <2>2. PICK i \in DOMAIN listed' : e = PoolEntry("POLICY", i)
      BY <1>1 DEF PoolInv, Own
    <2>3. i \in Nat
      BY <2>1
    <2> QED
      BY <2>2, <2>3, OwnEntries DEF Own
  <1>4. SUFFICES /\ FanOutTypes(IPPoolIDs)'
                 /\ PoolAppends' /\ IPPools' \in Seq(PoolEntries)
                 /\ call' \in {"listing", "policies"} => PoolBlank'
    BY <1>2, <1>3 DEF PoolTypeOK, PoolAppends
  <1>5. PoolBlank' => PoolAppends' /\ IPPools' \in Seq(PoolEntries)
    BY DEF PoolBlank, PoolAppends, AppendTypeOK
  <1>6. ASSUME SpawnUsage, FanOutTypeOK(IPPoolIDs)', PoolBlank
        PROVE  FanOutTypes(IPPoolIDs)' /\ PoolAppends' /\ IPPools' \in Seq(PoolEntries)
               /\ call' = "fetching"
    <2>1. /\ call' = "fetching" /\ IPPools' = <<>> /\ holder' = Nobody /\ results' = <<>>
          /\ at' = [i \in DOMAIN listed' |-> "usage"]
          /\ slice' = [i \in DOMAIN listed' |-> <<>>]
      BY <1>6 DEF SpawnUsage, PoolBlank
    <2>2. PoolFetchTypes'
      BY <1>6, <2>1 DEF PoolFetchTypes, PoolPlaces, FanOutTypeOK, Nobody
    <2> QED
      BY <1>6, <2>1, <2>2, PoolFetchingOn DEF FanOutTypes
  <1>7. CASE ListMPPools
    <2>1. PICK page \in PagesOf(IPPoolIDs) :
            \/ MidPage(page) /\ UNCHANGED ipPoolVars
            \/ MPListingEnds("complete", listed \o page)
      BY <1>7 DEF ListMPPools
    <2>2. page \in Seq(IPPoolIDs) /\ call = "listing" /\ PoolBlank
      BY <1>7, PageIsSeq DEF ListMPPools
    <2>3. CASE MidPage(page) /\ UNCHANGED ipPoolVars
      BY <1>5, <2>2, <2>3, WalkTypes DEF ipPoolVars, appendVars, PoolBlank
    <2>4. CASE MPListingEnds("complete", listed \o page)
      BY <1>5, <2>2, <2>4 DEF MPListingEnds, appendVars, PoolBlank, FanOutTypes, FanOutTypeOK, Ended
    <2> QED
      BY <2>1, <2>3, <2>4
  <1>8. CASE MPListingFails
    BY <1>5, <1>8 DEF MPListingFails, MPListingEnds, appendVars, PoolBlank, FanOutTypes,
       FanOutTypeOK, Ended
  <1>9. CASE ListPolicyPools
    <2>1. PICK page \in PagesOf(IPPoolIDs) :
            \/ MidPage(page) /\ UNCHANGED ipPoolVars
            \/ LastPage(page) /\ SpawnUsage
      BY <1>9 DEF ListPolicyPools
    <2>2. page \in Seq(IPPoolIDs) /\ call = "policies" /\ PoolBlank
      BY <1>9, PageIsSeq DEF ListPolicyPools
    <2>3. CASE MidPage(page) /\ UNCHANGED ipPoolVars
      BY <1>5, <2>2, <2>3, WalkTypes DEF ipPoolVars, appendVars, PoolBlank
    <2>4. CASE LastPage(page) /\ SpawnUsage
      <3>1. FanOutTypeOK(IPPoolIDs)'
        BY <2>2, <2>4, WalkTypes DEF SpawnUsage, FanOutTypeOK, Walks
      <3> QED
        BY <1>6, <2>2, <2>4, <3>1
    <2> QED
      BY <2>1, <2>3, <2>4
  <1>10. CASE PolicyListingFails
    <2>1. FanOutTypeOK(IPPoolIDs)'
      BY <1>10 DEF PolicyListingFails, BrokenWalk, SpawnUsage, FanOutTypes, FanOutTypeOK
    <2> QED
      BY <1>6, <1>10, <2>1 DEF PolicyListingFails
  <1>11. ASSUME NEW i \in pending, PoolGoroutine(i)
        PROVE  FanOutTypes(IPPoolIDs)' /\ PoolAppends' /\ IPPools' \in Seq(PoolEntries)
               /\ call' = "fetching"
    <2>1. /\ call' = "fetching" /\ UNCHANGED <<listed, walks, IPPools>>
          /\ pending' \subseteq pending
      BY <1>11 DEF PoolGoroutine, UsageFails, Usage, LockPools, Lock, AppendPool, Store, Return,
         Done, Running, fanOutVars
    <2>2. PoolFetchTypes'
      BY <1>1, <2>1 DEF PoolInv, PoolIInv, PoolFetchInv
    <2>3. FanOutTypes(IPPoolIDs)'
      BY <2>1 DEF FanOutTypes, FanOutTypeOK
    <2>4. IPPools' \in Seq(PoolEntries)
      BY <2>1 DEF PoolTypeOK
    <2> QED
      BY <2>1, <2>2, <2>3, <2>4, PoolFetchingOn
  <1>12. CASE PoolsCollected
    <2>1. FanOutTypes(IPPoolIDs)' /\ call' = "returned"
      BY <1>12 DEF PoolsCollected, Joined, FanOutTypes, FanOutTypeOK, Ended
    <2>2. PoolAppends'
      BY <1>12 DEF PoolsCollected, appendVars, PoolTypeOK, PoolAppends, AppendTypeOK
    <2>3. IPPools' \in Seq(PoolEntries)
      <3>1. Len(mpPools) \in Nat /\ DOMAIN mpPools = 1..Len(mpPools)
        BY DEF PoolTypeOK
      <3>2. MPEntries \in [1..Len(mpPools) -> PoolEntries]
        BY <3>1 DEF MPEntries, PoolEntry, PoolEntries
      <3>3. MPEntries \in Seq(PoolEntries) /\ results \in Seq(PoolEntries)
        BY <3>1, <3>2, ListIsSeq DEF PoolTypeOK, AppendTypeOK
      <3> QED
        BY <1>12, <3>3 DEF PoolsCollected
    <2> QED
      BY <2>1, <2>2, <2>3
  <1> QED
    BY <1>7, <1>8, <1>9, <1>10, <1>11, <1>12 DEF PoolNext

LEMMA BackupTypesKept ==
    ASSUME FanOutTypes({}), BackupNext
    PROVE  FanOutTypes({})'
  BY DEF BackupNext, CollectBackup, BackupFails, FanOutTypes, FanOutTypeOK, Ended

LEMMA TypesStep == IInv /\ TypesInv /\ [Next]_vars => TypesInv'
  <1> SUFFICES ASSUME IInv, TypesInv, [Next]_vars PROVE TypesInv'
    OBVIOUS
  <1> USE DEF IInv, TypesInv
  <1>1. collector' = collector
    BY RestKeeps
  <1>2. CASE EdgeStep
    BY <1>1, <1>2, EdgeTypesKept DEF EdgeStep
  <1>3. CASE TunnelStep
    BY <1>1, <1>3, TunnelTypesKept DEF TunnelStep
  <1>4. CASE BGPStep
    BY <1>1, <1>4, BGPTypesKept DEF BGPStep
  <1>5. CASE PoolStep
    BY <1>1, <1>5, PoolTypesKept DEF PoolStep
  <1>6. CASE NamesStep
    BY <1>1, <1>6, NamesTypesKept DEF NamesStep
  <1>7. CASE CertificatesStep
    BY <1>1, <1>7, CertificatesTypesKept DEF CertificatesStep
  <1>8. CASE BackupStep
    BY <1>1, <1>8, BackupTypesKept DEF BackupStep
  <1>9. CASE UNCHANGED vars
    <2> USE <1>9 DEF vars, fanOutVars, edgeVars, appendVars, bgpOwnVars, poolOwnVars, inventoryVars
    <2>1. \A Items : FanOutTypes(Items) => FanOutTypes(Items)'
      BY DEF FanOutTypes, FanOutTypeOK
    <2>2. (EdgeTypes => EdgeTypes') /\ (CertificatesTypes => CertificatesTypes')
      BY <2>1 DEF EdgeTypes, EdgeTypeOK, CertificatesTypes
    <2>3. BGPTypes => BGPTypes'
      BY <2>1 DEF BGPTypes, BGPTypeOK, AppendTypeOK, BGPBlank, Sessions
    <2>4. PoolTypes => PoolTypes'
      BY <2>1 DEF PoolTypes, PoolTypeOK, AppendTypeOK, PoolBlank
    <2> QED
      BY <1>1, <2>1, <2>2, <2>3, <2>4
  <1> QED
    BY <1>2, <1>3, <1>4, <1>5, <1>6, <1>7, <1>8, <1>9 DEF Next

(* Every variable of the collector that is called has its type: a listing   *)
(* of edge nodes has edge nodes only, and every entry of a section is one   *)
(* that the emission knows how to label.                                    *)
THEOREM TypeCorrect == Spec => []TypeOK
  <1>1. Spec => []TypesInv
    BY TypesInit, TypesStep, Inductive, PTL DEF Spec
  <1>2. IInv /\ TypesInv => TypeOK
    <2> SUFFICES ASSUME IInv, TypesInv PROVE TypeOK
      OBVIOUS
    <2> USE DEF IInv, TypesInv, FanOutTypes
    <2>0. BackupTypeOK
      BY CollectorsHold, BackupTypes
    <2>1. collector \in CollectorNames
      BY DEF Rest
    <2>2. CASE collector = "EdgeNodes"
      <3>1. Certificates = <<>> /\ TransportNodes = <<>>
        BY <2>2 DEF Rest
      <3>2. FanOutTypeOK(Nodes)
        <4>1. listed \in Seq(Nodes)
          BY <2>2, EdgeCollectorAssumption DEF EdgeTypes, FanOutTypeOK
        <4> QED
          BY <2>2, <4>1 DEF EdgeTypes, FanOutTypeOK
      <3> QED
        BY <2>0, <2>1, <2>2, <3>1, <3>2 DEF TypeOK, EdgeTypes, InventoryTypeOK
    <2>3. CASE collector = "Tunnels"
      <3>1. Certificates = <<>> /\ TransportNodes = <<>> /\ TunnelTypeOK
        BY <2>3 DEF Rest, TunnelInv, TunnelIInv, TunnelPhaseInv
      <3> QED
        BY <2>0, <2>1, <2>3, <3>1 DEF TypeOK, InventoryTypeOK
    <2>4. CASE collector = "BGPNeighbors"
      <3>1. Certificates = <<>> /\ TransportNodes = <<>>
        BY <2>4 DEF Rest
      <3> QED
        BY <2>0, <2>1, <2>4, <3>1 DEF TypeOK, BGPTypes, InventoryTypeOK
    <2>5. CASE collector = "IPPools"
      <3>1. Certificates = <<>> /\ TransportNodes = <<>>
        BY <2>5 DEF Rest
      <3> QED
        BY <2>0, <2>1, <2>5, <3>1 DEF TypeOK, PoolTypes, InventoryTypeOK
    <2>6. CASE collector = "names"
      <3>1. Certificates = <<>>
        BY <2>6 DEF Rest
      <3> QED
        BY <2>0, <2>1, <2>6, <3>1 DEF TypeOK, NamesInv, InventoryTypeOK
    <2>7. CASE collector = "Certificates"
      <3>1. TransportNodes = <<>>
        BY <2>7 DEF Rest
      <3> QED
        BY <2>0, <2>1, <2>7, <3>1 DEF TypeOK, CertificatesTypes, InventoryTypeOK
    <2>8. CASE collector = "Backup"
      <3>1. Certificates = <<>> /\ TransportNodes = <<>>
        BY <2>8 DEF Rest
      <3> QED
        BY <2>0, <2>1, <2>8, <3>1 DEF TypeOK, InventoryTypeOK
    <2> QED
      BY <2>1, <2>2, <2>3, <2>4, <2>5, <2>6, <2>7, <2>8 DEF CollectorNames
  <1> QED
    BY <1>1, <1>2, Inductive, PTL

=============================================================================
