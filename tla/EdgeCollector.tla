----------------------------- MODULE EdgeCollector -----------------------------
(* collectEdgeNodes: a goroutine for each edge node, which writes what it   *)
(* read into the slot with its index, and an entry without figures if it    *)
(* could not read.                                                          *)
EXTENDS TransportNodeList

CONSTANTS Edges,   \* the edge nodes among the transport nodes
          NoNode,  \* the empty ID, of an entry nobody has written
          Zeros    \* the figures of an entry that has none set

ASSUME EdgeCollectorAssumption ==
    Edges \subseteq Nodes /\ NoNode \notin Nodes /\ Zeros \notin Nodes

VARIABLES slots,       \* results
          EdgeNodes    \* data.EdgeNodes

edgeVars == <<slots, EdgeNodes>>

(* The figures of a node's status are known by the node they are of. *)
EdgeEntry(n, figures) == [ID |-> n, figures |-> figures]

EdgeInit == FanOutInit /\ slots = <<>> /\ EdgeNodes = <<>>

(* listTransportNodes(ctx, client, "EdgeNode"), after which the collector   *)
(* makes the slots and starts the goroutines.                               *)
ListEdgeNodes ==
    /\ call = "listing"
    /\ \E nodes \in PagesOf(Nodes) :
        LET page == OfType(nodes, Edges)
        IN \/ MidPage(page) /\ UNCHANGED edgeVars
           \/ /\ LastPage(page)
              /\ Spawn
              /\ slots' = [i \in DOMAIN listed' |-> EdgeEntry(NoNode, Zeros)]
              /\ UNCHANGED EdgeNodes

EdgeListingFails == ListingFails /\ UNCHANGED edgeVars

Mutant_FetchSharedIndex(i) ==
    /\ Running(i)
    /\ \E figures \in {listed[i], Zeros} :
         slots' = [slots EXCEPT ![Len(listed)] = EdgeEntry(listed[i], figures)]
    /\ Done(i)
    /\ UNCHANGED <<call, listed, walks, EdgeNodes>>

(* The node's status, or the failure to read it. *)
FetchEdge(i) ==
    /\ Running(i)
    /\ \E figures \in {listed[i], Zeros} :
         slots' = [slots EXCEPT ![i] = EdgeEntry(listed[i], figures)]
    /\ Done(i)
    /\ UNCHANGED <<call, listed, walks, EdgeNodes>>

EdgesCollected ==
    /\ Joined
    /\ EdgeNodes' = slots
    /\ call' = "returned"
    /\ UNCHANGED <<listed, walks, pending, slots>>

EdgeNext ==
    \/ ListEdgeNodes
    \/ EdgeListingFails
    \/ \E i \in pending : FetchEdge(i)
    \/ EdgesCollected

EdgeSpec == EdgeInit /\ [][EdgeNext]_<<fanOutVars, edgeVars>>

-----------------------------------------------------------------------------
(* Properties. *)

EdgeTypeOK ==
    LET Entries == [ID : Edges \cup {NoNode}, figures : Edges \cup {Zeros}]
    IN slots \in Seq(Entries) /\ EdgeNodes \in Seq(Entries)

(* In whatever order the answers come, the section has one entry for each  *)
(* edge node listed, in the order of the listing, and its figures, if it   *)
(* has any, are its own.  A request that fails costs its own node only.    *)
EdgesInOrder ==
    EdgeNodes # <<>> =>
        /\ DOMAIN EdgeNodes = DOMAIN listed
        /\ \A i \in DOMAIN EdgeNodes :
             /\ EdgeNodes[i].ID = listed[i]
             /\ EdgeNodes[i].figures \in {listed[i], Zeros}

(* docs/ZABBIX-TRIGGERS.md:22: "Detection is by absence: when NSX-T's API   *)
(* stops returning a node-status response for an edge, no                   *)
(* `nsxv3_edge_node_*` series for it appears in the next scrape".  So an    *)
(* entry that series are made of has the figures of a status response.      *)
AbsentWhenUnread == \A i \in DOMAIN EdgeNodes : EdgeNodes[i].figures # Zeros
=============================================================================
