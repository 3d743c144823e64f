----------------------------- MODULE BGPCollector ------------------------------
(* collectBGPNeighbors: a goroutine for each tier-0 lists its locale        *)
(* services and reads the neighbours' status of one after the other.        *)
EXTENDS MutexAppend

CONSTANTS Tier0s, LocaleServices,
          Addresses,     \* addresses of neighbours, with their AS
          Sources,       \* addresses a session is opened from
          EdgeIDs,       \* edge nodes: a path with /edge-nodes/ before the ID
          OddPaths,      \* paths of edge nodes without that marker
          NoEdge,        \* the empty ID
          MaxServices,   \* bound: locale services of a tier-0
          MaxSessions    \* bound: sessions of a status

ASSUME BGPAssumption ==
    /\ MaxServices \in Nat /\ MaxSessions \in Nat
    /\ NoEdge \notin EdgeIDs /\ EdgeIDs \cap OddPaths = {}

VARIABLES services,      \* the locale services a goroutine has listed
          current,       \* the one it is at
          entries,       \* the neighbours of its status still to append
          answered,      \* all that a status has listed
          BGPNeighbors   \* data.BGPNeighbors

bgpVars == <<appendVars, services, current, entries, answered, BGPNeighbors>>

EdgePaths == EdgeIDs \cup OddPaths

EdgeNodeIDFromPath(p) == IF p \in EdgeIDs THEN p ELSE NoEdge

(* A status is a list of sessions, each known with its place: it may list  *)
(* one twice, or two that differ in their source only.                     *)
StatusEntries == [address : Addresses, source : Sources, path : EdgePaths]

Neighbors == [place : Nat, entry : StatusEntries]

Statuses ==
    UNION {{{[place |-> p, entry |-> sessions[p]] : p \in 1..n} :
                sessions \in [1..n -> StatusEntries]} : n \in 1..MaxSessions}

(* A session, as the goroutine of tier-0 i sees it at its locale service k. *)
Session(i, k, n) == [tier0 |-> i, service |-> k, neighbor |-> n]

Sessions == [tier0 : DOMAIN listed, service : Nat, neighbor : Neighbors]

BGPInit ==
    /\ AppendInit
    /\ services = <<>> /\ current = <<>> /\ entries = <<>>
    /\ answered = {}
    /\ BGPNeighbors = <<>>

ListTier0s ==
    /\ call = "listing"
    /\ \E page \in PagesOf(Tier0s) :
        \/ MidPage(page) /\ UNCHANGED bgpVars
        \/ /\ LastPage(page)
           /\ SpawnAt("services")
           /\ services' = [i \in DOMAIN listed' |-> <<>>]
           /\ current' = [i \in DOMAIN listed' |-> 1]
           /\ entries' = [i \in DOMAIN listed' |-> {}]
           /\ UNCHANGED <<answered, BGPNeighbors>>

Tier0ListingFails == ListingFails /\ UNCHANGED bgpVars

(* The locale services of a tier-0; it has none (404) or the list fails: [].*)
ListLocaleServices(i) ==
    /\ Running(i) /\ at[i] = "services"
    /\ \E n \in 0..MaxServices : \E ls \in [1..n -> LocaleServices] :
         services' = [services EXCEPT ![i] = ls]
    /\ GoTo(i, "status")
    /\ UNCHANGED <<fanOutVars, holder, slice, results, current, entries, answered, BGPNeighbors>>

AtService(i) == Running(i) /\ at[i] = "status" /\ current[i] \in DOMAIN services[i]

(* No BGP there (404), a failure, or no session. *)
NoStatus(i) ==
    /\ AtService(i)
    /\ current' = [current EXCEPT ![i] = @ + 1]
    /\ UNCHANGED <<fanOutVars, appendVars, services, entries, answered, BGPNeighbors>>

(* An entry for each session of the answer. *)
Status(i) ==
    /\ AtService(i)
    /\ \E found \in Statuses :
         /\ entries' = [entries EXCEPT ![i] = found]
         /\ answered' = answered \cup {Session(i, current[i], n) : n \in found}
    /\ GoTo(i, "lock")
    /\ UNCHANGED <<fanOutVars, holder, slice, results, services, current, BGPNeighbors>>

LockNeighbors(i) == Lock(i) /\ UNCHANGED <<services, current, entries, answered, BGPNeighbors>>

(* The entries are appended in the order of the answer.  After the last one *)
(* the goroutine goes on to the next locale service.                        *)
AppendNeighbor(i) ==
    /\ \E n \in entries[i] :
         /\ \A m \in entries[i] : n.place <= m.place
         /\ Store(i, Session(i, current[i], n))
         /\ entries' = [entries EXCEPT ![i] = @ \ {n}]
    /\ IF entries'[i] = {}
       THEN GoTo(i, "status") /\ current' = [current EXCEPT ![i] = @ + 1]
       ELSE GoTo(i, "lock") /\ UNCHANGED current
    /\ UNCHANGED <<fanOutVars, services, answered, BGPNeighbors>>

Tier0Done(i) ==
    /\ Running(i) /\ at[i] = "status" /\ current[i] \notin DOMAIN services[i]
    /\ Return(i)
    /\ UNCHANGED <<call, listed, walks, holder, slice, results,
                   services, current, entries, answered, BGPNeighbors>>

BGPCollected ==
    /\ Joined
    /\ BGPNeighbors' = results
    /\ call' = "returned"
    /\ UNCHANGED <<listed, walks, pending, appendVars, services, current, entries, answered>>

BGPGoroutine(i) ==
    \/ ListLocaleServices(i)
    \/ NoStatus(i)
    \/ Status(i)
    \/ LockNeighbors(i)
    \/ AppendNeighbor(i)
    \/ Tier0Done(i)

BGPNext ==
    \/ ListTier0s
    \/ Tier0ListingFails
    \/ \E i \in pending : BGPGoroutine(i)
    \/ BGPCollected

BGPSpec == BGPInit /\ [][BGPNext]_<<fanOutVars, bgpVars>>

-----------------------------------------------------------------------------
(* Properties. *)

BGPTypeOK ==
    /\ AppendTypeOK({"services", "status"}, Sessions)
    /\ services \in Seq(Seq(LocaleServices))
    /\ current \in Seq(Nat)
    /\ entries \in Seq(SUBSET Neighbors)
    /\ answered \subseteq Sessions
    /\ BGPNeighbors \in Seq(Sessions)

(* The labels of a session's series: the source is none of them. *)
BGPLabels(s) ==
    <<listed[s.tier0], services[s.tier0][s.service], s.neighbor.entry.address,
      EdgeNodeIDFromPath(s.neighbor.entry.path)>>

(* Every session that some status listed is in the section, once: none is   *)
(* lost to a goroutine that appends at the same time, nor to the failure of *)
(* another tier-0 or another locale service of its own.                     *)
BGPNothingLost == call = "returned" => Holds(BGPNeighbors, answered)

(* The session that an entry is of, however often NSX-T has listed it. *)
SessionOf(s) == <<listed[s.tier0], services[s.tier0][s.service], s.neighbor.entry>>

(* "Label set is (tier0, locale_service, neighbor_address, remote_as,       *)
(* edge_node_id) - these are sufficient to uniquely identify any BGP        *)
(* session in the fabric" (collector_bgp.go:219-221): the series of two     *)
(* entries have the same labels only if they are of one session.            *)
LabelsIdentify ==
    \A i, j \in DOMAIN BGPNeighbors :
        BGPLabels(BGPNeighbors[i]) = BGPLabels(BGPNeighbors[j])
        => SessionOf(BGPNeighbors[i]) = SessionOf(BGPNeighbors[j])
=============================================================================
