-------------------------------- MODULE Gather --------------------------------
(***************************************************************************)
(* The background collector: main's loop, CollectAsync, gather, gatherWave,*)
(* updateData, handle and runExtendedCollectors.                           *)
(*                                                                         *)
(* One cycle builds a fresh Nsxv3Data.  Wave 1 asks the login host for the *)
(* core endpoints, one goroutine per endpoint; the handler of              *)
(* ManagementClusterNodes fills in the management nodes, and wave 2 asks   *)
(* each of them for its two firewall endpoints.  Goroutines walk their     *)
(* endpoint page by page and report on a buffered channel; gatherWave      *)
(* receives as many messages as it started goroutines.  Any error in a     *)
(* wave abandons the cycle.  The extended collectors then run one after    *)
(* the other, best-effort, and the data is copied into the cache.          *)
(*                                                                         *)
(* A page of an endpoint is known by the cycle that fetched it, its number *)
(* and whether it came without a cursor; Torn stands for what a handler    *)
(* that panicked half-way has written.  Management nodes have distinct,    *)
(* non-empty addresses.                                                    *)
(***************************************************************************)
EXTENDS Naturals, FiniteSets, Sequences

CONSTANTS CoreKinds,     \* the kinds of wave 1
          PagedKinds,    \* those whose handler returns a cursor
          ClusterNodes,  \* the kind that lists the management nodes
          FirewallKinds, \* the kinds of wave 2
          LoginHost,
          Nodes,         \* management nodes, as hosts
          Collectors,    \* the enabled extended collectors, in running order
          MaxPages,      \* bound: pages the server has of one endpoint
          MaxCycles      \* bound: cycles

ASSUME GatherAssumption ==
    /\ IsFiniteSet(CoreKinds) /\ IsFiniteSet(FirewallKinds) /\ IsFiniteSet(Nodes)
    /\ ClusterNodes \in CoreKinds
    /\ PagedKinds \subseteq CoreKinds \ {ClusterNodes}
    /\ CoreKinds \cap FirewallKinds = {}
    /\ Collectors \in Seq(STRING)
    /\ MaxPages \in Nat \ {0}
    /\ MaxCycles \in Nat

VARIABLES pc,        \* where the collector goroutine is
          cycle,     \* number of the current cycle
          data,      \* the Nsxv3Data the current cycle fills in
          cache,     \* Exporter.Cache
          wave,      \* endpoints of the latest wave
          go,        \* state of the goroutine of each endpoint
          cursor,    \* page the goroutine of each endpoint asks for
          payload,   \* decoded body the goroutine is about to handle
          ch,        \* messages in the wave's channel: how many nil, how many errors
          received,  \* messages gatherWave has received
          errs,      \* how many of them were errors
          step       \* how many extended collectors have run

goroutines == <<go, cursor, payload>>
channel    == <<ch, received, errs>>
vars == <<pc, cycle, data, cache, wave, goroutines, channel, step>>

-----------------------------------------------------------------------------
CoreEndpoints == [kind : CoreKinds, host : {LoginHost}]
FirewallEndpoints(nodes) == [kind : FirewallKinds, host : nodes]
Endpoints == CoreEndpoints \cup FirewallEndpoints(Nodes)

NodeListing == [kind |-> ClusterNodes, host |-> LoginHost]

(* Everything a snapshot that describes these nodes is made of. *)
Required(nodes) == CoreEndpoints \cup FirewallEndpoints(nodes)

Pages == [cycle : 0..MaxCycles, number : 0..MaxPages, last : BOOLEAN]
Torn == [cycle |-> 0, number |-> 0, last |-> FALSE]

(* What the server may answer: a page that ends the walk, one that carries *)
(* a cursor, or one whose handler panics.                                  *)
Payloads == [kind : {"last", "more", "malformed"}, nodes : SUBSET Nodes]
NoPayload == [kind |-> "last", nodes |-> {}]

Sections == {Collectors[i] : i \in 1..Len(Collectors)}

(* The zero value of Nsxv3Data. *)
EmptyData == [nodes     |-> {},
              pages     |-> [e \in Endpoints |-> <<>>],
              sections  |-> {},
              extracted |-> FALSE,
              fetchedAt |-> 0]

NoMessages == [nil |-> 0, err |-> 0]
Alive(e) == go[e] \in {"fetch", "handle"}

(* All but the cache, which module Exporter stores in another form. *)
CycleInit ==
    /\ pc = "sleep"
    /\ cycle = 0
    /\ data = EmptyData
    /\ wave = {}
    /\ go = [e \in Endpoints |-> "absent"]
    /\ cursor = [e \in Endpoints |-> 1]
    /\ payload = [e \in Endpoints |-> NoPayload]
    /\ ch = NoMessages
    /\ received = 0
    /\ errs = 0
    /\ step = 0

Init == CycleInit /\ cache = EmptyData

-----------------------------------------------------------------------------
(* The collector goroutine.                                                *)

Mutant_ErrorsKept == ch' = NoMessages /\ received' = 0 /\ UNCHANGED errs
FreshChannel == ch' = NoMessages /\ received' = 0 /\ errs' = 0

(* gatherWave up to its receive loop: a new channel, one goroutine per     *)
(* endpoint.  A goroutine of an earlier wave that is still alive stays so. *)
StartWave(es) ==
    /\ wave' = es
    /\ go' = [e \in Endpoints |-> IF e \in es THEN "fetch" ELSE go[e]]
    /\ cursor' = [e \in Endpoints |-> IF e \in es THEN 1 ELSE cursor[e]]
    /\ FreshChannel
    /\ UNCHANGED payload

Mutant_DataReused ==
    /\ pc = "sleep"
    /\ cycle < MaxCycles
    /\ cycle' = cycle + 1
    /\ UNCHANGED data
    /\ pc' = "wave1"
    /\ StartWave(CoreEndpoints)
    /\ UNCHANGED <<cache, step>>

(* main's loop wakes up and calls CollectAsync, which calls gather. *)
StartCycle ==
    /\ pc = "sleep"
    /\ cycle < MaxCycles
    /\ cycle' = cycle + 1
    /\ data' = EmptyData
    /\ pc' = "wave1"
    /\ StartWave(CoreEndpoints)
    /\ UNCHANGED <<cache, step>>

(* err := <-ch *)
Receive ==
    /\ pc \in {"wave1", "wave2"}
    /\ received < Cardinality(wave)
    /\ received' = received + 1
    /\ \/ /\ ch.nil > 0
          /\ ch' = [ch EXCEPT !.nil = @ - 1]
          /\ UNCHANGED errs
       \/ /\ ch.err > 0
          /\ ch' = [ch EXCEPT !.err = @ - 1]
          /\ errs' = errs + 1
    /\ UNCHANGED <<pc, cycle, data, cache, wave, goroutines, step>>

Mutant_FirstErrorEnds == received = Cardinality(wave) \/ errs > 0
Mutant_OneShort == received + 1 >= Cardinality(wave)
WaveReceived == received = Cardinality(wave)

Mutant_ErrorsIgnored == WaveReceived
WaveSucceeded == WaveReceived /\ errs = 0

Mutant_AbandonClearsCache ==
    /\ pc \in {"wave1", "wave2"}
    /\ WaveReceived
    /\ errs > 0
    /\ pc' = "sleep"
    /\ cache' = EmptyData
    /\ UNCHANGED <<cycle, data, wave, goroutines, channel, step>>

(* A wave returned an error: gather returns it, CollectAsync logs it and   *)
(* keeps the cache, main's loop goes to sleep.                             *)
Abandon ==
    /\ pc \in {"wave1", "wave2"}
    /\ WaveReceived
    /\ errs > 0
    /\ pc' = "sleep"
    /\ UNCHANGED <<cycle, data, cache, wave, goroutines, channel, step>>

(* Wave 1 succeeded: both firewall endpoints of every management node. *)
StartWave2 ==
    /\ pc = "wave1"
    /\ WaveSucceeded
    /\ pc' = "wave2"
    /\ StartWave(FirewallEndpoints(data.nodes))
    /\ UNCHANGED <<cycle, data, cache, step>>

StartExtended ==
    /\ pc = "wave2"
    /\ WaveSucceeded
    /\ pc' = "extended"
    /\ step' = 0
    /\ UNCHANGED <<cycle, data, cache, wave, goroutines, channel>>

(* The next extended collector assigns its section of the data, or fails   *)
(* before the assignment; either way the one after it runs.                *)
RunCollector ==
    /\ pc = "extended"
    /\ step < Len(Collectors)
    /\ step' = step + 1
    /\ \/ data' = [data EXCEPT !.sections = @ \cup {Collectors[step + 1]}]
       \/ UNCHANGED data
    /\ UNCHANGED <<pc, cycle, cache, wave, goroutines, channel>>

(* gather marks the data as extracted and stamps it. *)
Stamp ==
    /\ pc = "extended"
    /\ step = Len(Collectors)
    /\ data' = [data EXCEPT !.extracted = TRUE, !.fetchedAt = cycle]
    /\ pc' = "publish"
    /\ UNCHANGED <<cycle, cache, wave, goroutines, channel, step>>

(* e.Cache = data (module SnapshotCache splits this copy into its words). *)
Publish ==
    /\ pc = "publish"
    /\ cache' = data
    /\ pc' = "sleep"
    /\ UNCHANGED <<cycle, data, wave, goroutines, channel, step>>

-----------------------------------------------------------------------------
(* The goroutine of endpoint e: updateData.                                *)

Mutant_FinishTwice(e, outcome) ==
    /\ go' = [go EXCEPT ![e] = outcome]
    /\ ch' = [nil |-> ch.nil + 1, err |-> ch.err + (IF outcome = "failed" THEN 1 ELSE 0)]

(* Its last act: one message on the channel, nil or an error. *)
Finish(e, outcome) ==
    /\ go' = [go EXCEPT ![e] = outcome]
    /\ \/ outcome = "done" /\ ch' = [ch EXCEPT !.nil = @ + 1]
       \/ outcome = "failed" /\ ch' = [ch EXCEPT !.err = @ + 1]

Mutant_FetchFailsSilently(e) ==
    /\ go[e] = "fetch"
    /\ go' = [go EXCEPT ![e] = "failed"]
    /\ UNCHANGED <<pc, cycle, data, cache, wave, cursor, payload, channel, step>>

(* updateEndpointStatus fails: login, limiter, transport, HTTP status, body *)
(* or JSON.                                                                *)
FetchFails(e) ==
    /\ go[e] = "fetch"
    /\ Finish(e, "failed")
    /\ UNCHANGED <<pc, cycle, data, cache, wave, cursor, payload, received, errs, step>>

(* updateEndpointStatus decodes one page. *)
Fetch(e) ==
    /\ go[e] = "fetch"
    /\ \E p \in Payloads :
          /\ p.kind = "more" => e.kind \in PagedKinds /\ cursor[e] < MaxPages
          /\ e = NodeListing \/ p.nodes = {}
          /\ payload' = [payload EXCEPT ![e] = p]
    /\ go' = [go EXCEPT ![e] = "handle"]
    /\ UNCHANGED <<pc, cycle, data, cache, wave, cursor, channel, step>>

(* dispatch: the handler of e's kind writes its part of the data.  The     *)
(* handlers of one wave write disjoint parts.  A malformed payload makes   *)
(* the handler panic after writing some of it.                             *)
Written(e) ==
    IF payload[e].kind = "malformed" THEN Torn
    ELSE [cycle |-> cycle, number |-> cursor[e], last |-> payload[e].kind = "last"]

Dispatch(e) ==
    /\ go[e] = "handle"
    /\ data' = [data EXCEPT !.pages[e] = Append(@, Written(e)),
                            !.nodes    = @ \cup payload[e].nodes]
    /\ payload' = [payload EXCEPT ![e] = NoPayload]

(* handle recovered a panic: updateData sends the error it made of it. *)
HandlePanics(e) ==
    /\ payload[e].kind = "malformed"
    /\ Dispatch(e)
    /\ Finish(e, "failed")
    /\ UNCHANGED <<pc, cycle, cache, wave, cursor, received, errs, step>>

(* The handler returned noCursor. *)
HandleLast(e) ==
    /\ payload[e].kind = "last"
    /\ Dispatch(e)
    /\ Finish(e, "done")
    /\ UNCHANGED <<pc, cycle, cache, wave, cursor, received, errs, step>>

(* The handler returned a cursor: updateData calls itself for the page the *)
(* cursor names, and sends nothing.                                        *)
HandleMore(e) ==
    /\ payload[e].kind = "more"
    /\ Dispatch(e)
    /\ cursor' = [cursor EXCEPT ![e] = @ + 1]
    /\ go' = [go EXCEPT ![e] = "fetch"]
    /\ UNCHANGED <<pc, cycle, cache, wave, channel, step>>

-----------------------------------------------------------------------------
Collector ==
    \/ StartCycle \/ Receive \/ Abandon \/ StartWave2 \/ StartExtended
    \/ RunCollector \/ Stamp \/ Publish

Goroutine(e) ==
    \/ FetchFails(e) \/ Fetch(e) \/ HandlePanics(e) \/ HandleLast(e) \/ HandleMore(e)

Next == Collector \/ \E e \in Endpoints : Goroutine(e)

Spec == Init /\ [][Next]_vars

(* The Go scheduler runs every goroutine that can run, and with a request  *)
(* timeout configured every request ends.                                  *)
FairSpec == /\ Spec
            /\ WF_vars(Collector)
            /\ \A e \in Endpoints : WF_vars(Goroutine(e))

-----------------------------------------------------------------------------
(* Properties.                                                             *)

Snapshots == [nodes     : SUBSET Nodes,
              pages     : [Endpoints -> Seq(Pages)],
              sections  : SUBSET Sections,
              extracted : BOOLEAN,
              fetchedAt : 0..MaxCycles]

CycleTypeOK ==
    /\ pc \in {"sleep", "wave1", "wave2", "extended", "publish"}
    /\ cycle \in 0..MaxCycles
    /\ data \in Snapshots
    /\ wave \in SUBSET Endpoints
    /\ go \in [Endpoints -> {"absent", "fetch", "handle", "done", "failed"}]
    /\ cursor \in [Endpoints -> 1..MaxPages]
    /\ payload \in [Endpoints -> Payloads]
    /\ ch \in [nil : Nat, err : Nat]
    /\ received \in Nat
    /\ errs \in 0..received
    /\ step \in 0..Len(Collectors)

TypeOK == CycleTypeOK /\ cache \in Snapshots

(* No goroutine of a wave outlives it: once gatherWave has returned, and   *)
(* in particular while the extended collectors and the copy into the cache *)
(* read the data, nobody else writes it and nothing is left in the channel.*)
NoStraggler ==
    pc \notin {"wave1", "wave2"} \/ WaveReceived =>
        /\ \A e \in Endpoints : ~Alive(e)
        /\ ch = NoMessages

(* However many pages it walks and wherever it fails, a goroutine sends    *)
(* exactly one message, its last act; so the channel of chSize slots never *)
(* blocks a sender, and receiving chSize messages waits for all of them.   *)
OneMessageEach ==
    received + ch.nil + ch.err = Cardinality({e \in wave : ~Alive(e)})

(* e was walked from its first page to the one without a cursor, each page *)
(* once and in order, all in cycle c.                                      *)
Walked(pages, c) ==
    /\ pages # <<>>
    /\ \A k \in 1..Len(pages) :
          pages[k] = [cycle |-> c, number |-> k, last |-> k = Len(pages)]

Complete(d) ==
    /\ \A e \in Required(d.nodes) : Walked(d.pages[e], d.fetchedAt)
    /\ \A e \in Endpoints \ Required(d.nodes) : d.pages[e] = <<>>

(* What the exporter serves is either nothing or a complete snapshot of    *)
(* one cycle: all pages of every core endpoint and the firewall figures of *)
(* exactly the management nodes that the same cycle listed.                *)
PublishedComplete ==
    IF cache.extracted THEN Complete(cache) ELSE cache = EmptyData

(* A snapshot as the abstract specification sees it.  One that is served   *)
(* but is not complete is no value of that specification.                  *)
Shown(d) ==
    IF ~d.extracted THEN [cycle |-> 0, nodes |-> {}, sections |-> {}]
    ELSE IF Complete(d)
         THEN [cycle |-> d.fetchedAt, nodes |-> d.nodes, sections |-> d.sections]
         ELSE <<"incomplete">>

(* The collector implements CollectorCycle: it replaces the snapshot by a  *)
(* complete one of the current cycle or leaves it alone, once per cycle.   *)
Abstract == INSTANCE CollectorCycle WITH
    running  <- pc # "sleep",
    snapshot <- Shown(cache)

ImplementsCollectorCycle == Abstract!Spec

(* Every cycle ends. *)
CycleEnds == pc # "sleep" ~> pc = "sleep"

(* Only a failing core or firewall endpoint can keep a cycle from being    *)
(* published: whatever the extended collectors do, a cycle in which no     *)
(* goroutine of a wave fails ends in the cache.                            *)
CleanCyclePublishes ==
    \A c \in 1..MaxCycles :
        (cycle = c /\ pc = "wave1")
            ~> \/ cache.fetchedAt = c
               \/ \E e \in wave : go[e] = "failed"

(* A goroutine failed, and not because of a malformed payload. *)
FailedOtherwise ==
    \E e \in wave :
        /\ go[e] = "failed"
        /\ \A k \in 1..Len(data.pages[e]) : data.pages[e][k] # Torn

(* handle's comment: a panic becomes an error "so a single malformed       *)
(* payload only fails that endpoint for this scrape" (gather.go:446): a    *)
(* cycle is not abandoned when all that failed is one handler.             *)
MalformedPayloadIsolated ==
    [][pc' = "sleep" /\ pc \in {"wave1", "wave2"} => FailedOtherwise]_vars
=============================================================================
