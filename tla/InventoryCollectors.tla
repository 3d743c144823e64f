-------------------------- MODULE InventoryCollectors --------------------------
(* The collectors that are a listing and nothing else: collectCertificates, *)
(* and enrichTransportNodeNames, which joins the list of transport nodes to *)
(* the nodes whose states a core endpoint has listed.                       *)
EXTENDS TransportNodeList

CONSTANTS CertificateIDs, DisplayNames,
          NoName   \* the empty name

ASSUME InventoryAssumption == NoName \notin DisplayNames

VARIABLES Certificates,    \* data.Certificates
          TransportNodes   \* data.TransportNodes

inventoryVars == <<Certificates, TransportNodes>>

-----------------------------------------------------------------------------
(* collectCertificates *)

CertificatesInit == FanOutInit /\ Certificates = <<>> /\ TransportNodes = <<>>

ListCertificates ==
    /\ call = "listing"
    /\ \E page \in PagesOf(CertificateIDs) :
        \/ MidPage(page) /\ UNCHANGED inventoryVars
        \/ /\ LastPage(page)
           /\ Certificates' = listed'
           /\ call' = "returned"
           /\ UNCHANGED <<pending, TransportNodes>>

Mutant_KeepPagesRead ==
    /\ call = "listing"
    /\ walks' = Append(walks, "broken")
    /\ Certificates' = listed
    /\ call' = "returned"
    /\ UNCHANGED <<listed, pending, TransportNodes>>

Mutant_AppendAsRead ==
    /\ call = "listing"
    /\ walks' = Append(walks, "broken")
    /\ Certificates' = listed
    /\ call' = "failed"
    /\ UNCHANGED <<listed, pending, TransportNodes>>

CertificateListingFails == ListingFails /\ UNCHANGED inventoryVars

CertificatesNext == ListCertificates \/ CertificateListingFails

-----------------------------------------------------------------------------
(* enrichTransportNodeNames *)

NodeRecords(names) == [ID : Nodes, DisplayName : names]

(* The states endpoint has listed the IDs, in any order and number. *)
NamesInit ==
    /\ FanOutInit
    /\ Certificates = <<>>
    /\ TransportNodes \in PagesOf([ID : Nodes, DisplayName : {NoName}])

NoNodesToName ==
    /\ call = "listing" /\ TransportNodes = <<>>
    /\ call' = "returned"
    /\ UNCHANGED <<listed, walks, pending, inventoryVars>>

Mutant_NameByPlace(nodes, i) == IF i \in DOMAIN nodes THEN nodes[i].DisplayName ELSE NoName

(* byID[ID], which the last node of the list with that ID has set. *)
NameByID(nodes, i) ==
    LET same == {k \in DOMAIN nodes : nodes[k].ID = TransportNodes[i].ID}
    IN IF same = {} THEN TransportNodes[i].DisplayName
       ELSE nodes[CHOOSE k \in same : \A l \in same : l <= k].DisplayName

ListNodeNames ==
    /\ call = "listing" /\ TransportNodes # <<>>
    /\ \E page \in PagesOf(NodeRecords(DisplayNames)) :
        \/ MidPage(page) /\ UNCHANGED inventoryVars
        \/ /\ LastPage(page)
           /\ TransportNodes' = [i \in DOMAIN TransportNodes |->
                  [TransportNodes[i] EXCEPT !.DisplayName = NameByID(listed', i)]]
           /\ call' = "returned"
           /\ UNCHANGED <<pending, Certificates>>

NodeListingFails == TransportNodes # <<>> /\ ListingFails /\ UNCHANGED inventoryVars

NamesNext == NoNodesToName \/ ListNodeNames \/ NodeListingFails

-----------------------------------------------------------------------------
(* Properties. *)

InventoryTypeOK ==
    /\ Certificates \in Seq(CertificateIDs)
    /\ TransportNodes \in Seq(NodeRecords(DisplayNames \cup {NoName}))

(* A name that a node was given is one that the inventory had for its ID,   *)
(* although the two lists are read at different times and in other orders. *)
NamesOfTheirOwn ==
    \A i \in DOMAIN TransportNodes :
        TransportNodes[i].DisplayName # NoName => TransportNodes[i] \in {listed[k] : k \in DOMAIN listed}
=============================================================================
