---------------------------- MODULE TunnelCollector ----------------------------
(* collectTunnels: a goroutine for each transport node reads its tunnels,   *)
(* and after the join the lists are flattened into one that has each label  *)
(* tuple once.                                                              *)
EXTENDS TransportNodeList

CONSTANTS LocalIPs,      \* tunnel end points of a node
          Remotes,       \* remote node, its address and the encapsulation
          ReportedStates,
          MaxTunnels     \* bound: tunnels that a node reports

ASSUME TunnelAssumption == MaxTunnels \in Nat

VARIABLES perNode,    \* what the goroutines have written
          node, pos,  \* the two loops that flatten it
          seen,       \* the keys met
          Tunnels     \* data.Tunnels

tunnelVars == <<perNode, node, pos, seen, Tunnels>>

TunnelStates == {"UP", "DEGRADED", "DOWN", "UNKNOWN"}

(* tunnelStates[t.Status], or that of "UNKNOWN". *)
TunnelState(s) == IF s \in TunnelStates THEN s ELSE "UNKNOWN"

Reports == UNION {[1..n -> LocalIPs \X Remotes \X ReportedStates] : n \in 0..MaxTunnels}

TunnelRecords == [local : Nodes, localIP : LocalIPs, remote : Remotes, state : TunnelStates]

Tunnel(n, report) ==
    [local |-> n, localIP |-> report[1], remote |-> report[2], state |-> TunnelState(report[3])]

Mutant_KeyWithoutLocalIP(t) == <<t.local, t.remote>>

(* The key of the map that finds duplicates. *)
TunnelKey(t) == <<t.local, t.localIP, t.remote>>

(* The labels of the series that emitTunnelMetrics makes; the name of the   *)
(* local node follows from its ID.                                          *)
TunnelLabels(t) == <<t.local, t.localIP, t.remote>>

TunnelInit ==
    /\ FanOutInit
    /\ perNode = <<>>
    /\ node = 1 /\ pos = 1
    /\ seen = {}
    /\ Tunnels = <<>>

(* listTransportNodes(ctx, client, ""); make perNode, whose slots are nil,  *)
(* and start the goroutines.                                                *)
ListTunnelNodes ==
    /\ call = "listing"
    /\ \E page \in PagesOf(Nodes) :
        \/ MidPage(page) /\ UNCHANGED tunnelVars
        \/ /\ LastPage(page)
           /\ Spawn
           /\ perNode' = [i \in DOMAIN listed' |-> <<>>]
           /\ UNCHANGED <<node, pos, seen, Tunnels>>

TunnelListingFails == ListingFails /\ UNCHANGED tunnelVars

(* A node without tunnels (404) and a failure leave the slot nil. *)
FetchTunnels(i) ==
    /\ Running(i)
    /\ \/ UNCHANGED perNode
       \/ \E reports \in Reports :
            perNode' = [perNode EXCEPT ![i] =
                          [k \in DOMAIN reports |-> Tunnel(listed[i], reports[k])]]
    /\ Done(i)
    /\ UNCHANGED <<call, listed, walks, node, pos, seen, Tunnels>>

TunnelsJoined ==
    /\ Joined
    /\ call' = "merging"
    /\ UNCHANGED <<listed, walks, pending, perNode, node, pos, seen, Tunnels>>

Merging == call = "merging" /\ node \in DOMAIN perNode

KeepTunnel ==
    /\ Merging /\ pos \in DOMAIN perNode[node]
    /\ LET t == perNode[node][pos]
       IN /\ TunnelKey(t) \notin seen
          /\ seen' = seen \cup {TunnelKey(t)}
          /\ Tunnels' = Append(Tunnels, t)
    /\ pos' = pos + 1
    /\ UNCHANGED <<fanOutVars, perNode, node>>

SkipTunnel ==
    /\ Merging /\ pos \in DOMAIN perNode[node]
    /\ TunnelKey(perNode[node][pos]) \in seen
    /\ pos' = pos + 1
    /\ UNCHANGED <<fanOutVars, perNode, node, seen, Tunnels>>

Mutant_SeenPerNode ==
    /\ Merging /\ pos \notin DOMAIN perNode[node]
    /\ node' = node + 1
    /\ pos' = 1
    /\ seen' = {}
    /\ UNCHANGED <<fanOutVars, perNode, Tunnels>>

NextNode ==
    /\ Merging /\ pos \notin DOMAIN perNode[node]
    /\ node' = node + 1
    /\ pos' = 1
    /\ UNCHANGED <<fanOutVars, perNode, seen, Tunnels>>

TunnelsCollected ==
    /\ call = "merging" /\ node \notin DOMAIN perNode
    /\ call' = "returned"
    /\ UNCHANGED <<listed, walks, pending, tunnelVars>>

TunnelNext ==
    \/ ListTunnelNodes
    \/ TunnelListingFails
    \/ \E i \in pending : FetchTunnels(i)
    \/ TunnelsJoined
    \/ KeepTunnel
    \/ SkipTunnel
    \/ NextNode
    \/ TunnelsCollected

TunnelSpec == TunnelInit /\ [][TunnelNext]_<<fanOutVars, tunnelVars>>

-----------------------------------------------------------------------------
(* Properties. *)

TunnelTypeOK ==
    /\ perNode \in Seq(Seq(TunnelRecords))
    /\ node \in Nat \ {0} /\ pos \in Nat \ {0}
    /\ seen \subseteq Nodes \X LocalIPs \X Remotes
    /\ Tunnels \in Seq(TunnelRecords)

(* The comment in collector_tunnels.go:103: Prometheus rejects the entire   *)
(* scrape if a label tuple is emitted twice.  None is, though a node may be *)
(* listed twice and report a tunnel twice, in different states.             *)
TunnelsOnce ==
    \A i, j \in DOMAIN Tunnels :
        TunnelLabels(Tunnels[i]) = TunnelLabels(Tunnels[j]) => i = j

(* The places of perNode, in the order in which they are met. *)
Before(i, k, j, l) == i < j \/ (i = j /\ k < l)

(* The first report of a label tuple. *)
FirstReport(i, k) ==
    \A j \in DOMAIN perNode : \A l \in DOMAIN perNode[j] :
        Before(j, l, i, k) => TunnelLabels(perNode[j][l]) # TunnelLabels(perNode[i][k])

(* No tunnel that a node reported is lost, whichever of the others failed,  *)
(* and of reports that contradict each other the first in the order of the  *)
(* listing counts, not the first to be answered.                            *)
TunnelsComplete ==
    call = "returned" =>
        \A i \in DOMAIN perNode : \A k \in DOMAIN perNode[i] :
            FirstReport(i, k) => \E j \in DOMAIN Tunnels : Tunnels[j] = perNode[i][k]
=============================================================================
