-------------------------- MODULE ExtendedCollectors ---------------------------
(***************************************************************************)
(* The extended collectors of runExtendedCollectors that are not in a      *)
(* module of their own run.  It calls them in sequence, and a call shares  *)
(* nothing with another but the client; so a behaviour is one call of one  *)
(* of them, and the variables of the others rest.                          *)
(***************************************************************************)
EXTENDS EdgeCollector, TunnelCollector, BGPCollector, IPPoolCollector, InventoryCollectors,
        BackupHistory

VARIABLE collector   \* the one that is called

bgpOwnVars == <<services, current, entries, answered, BGPNeighbors>>
poolOwnVars == <<mpPools, used, IPPools>>

vars == <<collector, fanOutVars, edgeVars, tunnelVars, appendVars,
          bgpOwnVars, poolOwnVars, inventoryVars, backupVars>>

CollectorNames ==
    {"names", "EdgeNodes", "Tunnels", "BGPNeighbors", "IPPools", "Certificates", "Backup"}

Init ==
    /\ collector \in CollectorNames
    /\ EdgeInit /\ TunnelInit /\ BGPInit /\ PoolInit /\ BackupInit
    /\ IF collector = "names" THEN NamesInit ELSE CertificatesInit

EdgeStep ==
    /\ collector = "EdgeNodes" /\ EdgeNext
    /\ UNCHANGED <<collector, tunnelVars, appendVars, bgpOwnVars, poolOwnVars,
                   inventoryVars, backupVars>>

TunnelStep ==
    /\ collector = "Tunnels" /\ TunnelNext
    /\ UNCHANGED <<collector, edgeVars, appendVars, bgpOwnVars, poolOwnVars,
                   inventoryVars, backupVars>>

BGPStep ==
    /\ collector = "BGPNeighbors" /\ BGPNext
    /\ UNCHANGED <<collector, edgeVars, tunnelVars, poolOwnVars, inventoryVars,
                   backupVars>>

PoolStep ==
    /\ collector = "IPPools" /\ PoolNext
    /\ UNCHANGED <<collector, edgeVars, tunnelVars, bgpOwnVars, inventoryVars,
                   backupVars>>

NamesStep ==
    /\ collector = "names" /\ NamesNext
    /\ UNCHANGED <<collector, edgeVars, tunnelVars, appendVars, bgpOwnVars,
                   poolOwnVars, backupVars>>

CertificatesStep ==
    /\ collector = "Certificates" /\ CertificatesNext
    /\ UNCHANGED <<collector, edgeVars, tunnelVars, appendVars, bgpOwnVars,
                   poolOwnVars, backupVars>>

BackupStep ==
    /\ collector = "Backup" /\ BackupNext
    /\ UNCHANGED <<collector, edgeVars, tunnelVars, appendVars, bgpOwnVars,
                   poolOwnVars, inventoryVars>>

Next ==
    \/ EdgeStep
    \/ TunnelStep
    \/ BGPStep
    \/ PoolStep
    \/ NamesStep
    \/ CertificatesStep
    \/ BackupStep

Spec == Init /\ [][Next]_vars

(* Some goroutine that can run does. *)
FairSpec == Spec /\ WF_vars(Next)

-----------------------------------------------------------------------------
(* Properties. *)

TypeOK ==
    /\ collector \in CollectorNames
    /\ FanOutTypeOK(CASE collector \in {"EdgeNodes", "Tunnels"} -> Nodes
                      [] collector = "BGPNeighbors" -> Tier0s
                      [] collector = "IPPools" -> IPPoolIDs
                      [] collector = "names" -> NodeRecords(DisplayNames)
                      [] collector = "Certificates" -> CertificateIDs
                      [] collector = "Backup" -> {})
    /\ collector = "EdgeNodes" => EdgeTypeOK
    /\ collector = "Tunnels" => TunnelTypeOK
    /\ collector = "BGPNeighbors" => BGPTypeOK
    /\ collector = "IPPools" => PoolTypeOK
    /\ InventoryTypeOK
    /\ BackupTypeOK

(* A listing of which a page failed is not shown as if it were whole: what  *)
(* the section holds, or the names given, come of a walk to the last page.  *)
WholeListings ==
    /\ EdgeNodes # <<>> \/ Tunnels # <<>> \/ BGPNeighbors # <<>> \/ Certificates # <<>>
       => walks = <<"complete">>
    /\ (\E i \in DOMAIN TransportNodes : TransportNodes[i].DisplayName # NoName)
       => walks = <<"complete">>
    /\ \A i \in DOMAIN IPPools :
         walks[IF IPPools[i].Source = "MP" THEN 1 ELSE 2] = "complete"

(* A call promises runExtendedCollectors what it relies on (gather.go:569): *)
(* a collector that fails part of the way, or of which a goroutine is late, *)
(* leaves nothing behind in the data, neither when it fails nor afterwards. *)
Promise == INSTANCE CollectorCall WITH
    outcome  <- IF call \in Ended THEN call ELSE "running",
    sections <- <<EdgeNodes, Tunnels, BGPNeighbors, IPPools, Certificates, Backup, TransportNodes>>,
    Blank    <- {<<>>} \X {<<>>} \X {<<>>} \X {<<>>} \X {<<>>} \X {NotCollected}
                \X Seq(NodeRecords({NoName}))

ImplementsCollectorCall == Promise!Spec

(* Every call returns: no goroutine is left without its Done, and none      *)
(* waits for a mutex that another has kept.                                 *)
CollectorReturns == <>(call \in Ended)
=============================================================================
