---------------------------- MODULE Exporter_proofs ----------------------------
(***************************************************************************)
(* What holds of the collector and of the cache, each taken alone, holds   *)
(* of the exporter that they make, and every machine word that a scrape    *)
(* reads was gathered by a whole cycle: for any endpoints, nodes, words    *)
(* and scrapes.                                                            *)
(*                                                                         *)
(* The two modules are instantiated here once more, with their proofs.     *)
(***************************************************************************)
EXTENDS Exporter, SequenceTheorems, TLAPS

G == INSTANCE Gather_proofs WITH cache <- Served

S == INSTANCE SnapshotCache_proofs WITH
    cache <- Origin, begun <- Begun, CopiedBefore <- {}, MaxPublications <- MaxCycles

(* An instance of Gather brings its own names of what FiniteSets defines. *)
LEMMA SameCardinality ==
    ASSUME NEW T
    PROVE  G!Cardinality(T) = Cardinality(T)
BY DEF Cardinality, G!Cardinality

LEMMA SameFinite ==
    ASSUME NEW T
    PROVE  G!IsFiniteSet(T) <=> IsFiniteSet(T)
BY DEF IsFiniteSet, G!IsFiniteSet

LEMMA GatherConstants == G!GatherAssumption
BY SameFinite, GatherAssumption DEF G!GatherAssumption

LEMMA FlagIsWord == Flag \in Words /\ Flag.field = <<"extracted">>
BY ExporterAssumption DEF Flag, Words, Fields

LEMMA CacheConstants == S!CacheAssumption
BY FlagIsWord, ExporterAssumption, GatherAssumption DEF S!CacheAssumption

-----------------------------------------------------------------------------
(* The copy. *)

(* A copy is under way only while the collector is at the assignment, and  *)
(* was started with what is there still.                                   *)
PhaseInv ==
    /\ published \in Seq(Snapshots)
    /\ completed \in Nat /\ completed <= Begun /\ Begun <= completed + 1
    /\ tocopy \in SUBSET Words
    /\ Begun = completed => tocopy = {}
    /\ Begun # completed => pc = "publish" /\ published[Begun] = data
    /\ completed <= cycle /\ (pc # "sleep" => completed < cycle)
    /\ data.extracted => pc \in {"sleep", "publish"}

(* No goroutine is alive outside its wave, so nobody writes to data during *)
(* a copy.                                                                 *)
LEMMA NobodyAlive ==
    ASSUME G!CountInv, NEW e \in Endpoints, go[e] \in {"fetch", "handle"}
    PROVE  pc \in {"wave1", "wave2"}
BY DEF G!CountInv, G!Alive, G!Endpoints, Endpoints, G!CoreEndpoints, CoreEndpoints,
   G!FirewallEndpoints, FirewallEndpoints

(* A step before the assignment leaves what is served alone, and one of a  *)
(* scrape or of the copy is none of the collector's, except the last of a  *)
(* copy.                                                                   *)
LEMMA ServedKept ==
    ASSUME PhaseInv, UNCHANGED completed, published' = published \/ BeginCopy
    PROVE  Served' = Served
<1>1. CASE published' = published
  BY <1>1 DEF Served, Publication
<1>2. CASE BeginCopy
  <2>1. published' = Append(published, data) /\ Len(published) \in Nat
    BY <1>2 DEF BeginCopy, PhaseInv
  <2>2. completed # 0 => completed \in 1..Len(published)
    BY <2>1 DEF PhaseInv, Begun
  <2>3. completed # 0 => published'[completed] = published[completed]
    BY <2>1, <2>2 DEF PhaseInv
  <2> QED
    BY <2>3 DEF Served, Publication
<1> QED
  BY <1>1, <1>2

(* Gather with the copy in one step. *)
LEMMA GatheringSteps ==
    ASSUME PhaseInv, Gathering
    PROVE  G!Next
<1>1. Served' = Served
  BY ServedKept DEF Gathering, copying
<1>2. CASE StartCycle
  BY <1>1, <1>2 DEF StartCycle, StartWave, FreshChannel, NoMessages, CoreEndpoints, Endpoints,
     FirewallEndpoints, EmptyData,
     G!Next, G!Collector, G!StartCycle, G!StartWave, G!FreshChannel, G!NoMessages,
     G!CoreEndpoints, G!Endpoints, G!FirewallEndpoints, G!EmptyData
<1>3. CASE Receive
  BY <1>1, <1>3, SameCardinality DEF Receive, goroutines, G!Next, G!Collector, G!Receive, G!goroutines
<1>4. CASE Abandon
  BY <1>1, <1>4, SameCardinality DEF Abandon, WaveReceived, goroutines, channel,
     G!Next, G!Collector, G!Abandon, G!WaveReceived, G!goroutines, G!channel
<1>5. CASE StartWave2
  BY <1>1, <1>5, SameCardinality DEF StartWave2, WaveSucceeded, WaveReceived, StartWave, FreshChannel,
     NoMessages, CoreEndpoints, Endpoints, FirewallEndpoints,
     G!Next, G!Collector, G!StartWave2, G!WaveSucceeded, G!WaveReceived, G!StartWave,
     G!FreshChannel, G!NoMessages, G!CoreEndpoints, G!Endpoints, G!FirewallEndpoints
<1>6. CASE StartExtended
  BY <1>1, <1>6, SameCardinality DEF StartExtended, WaveSucceeded, WaveReceived, goroutines, channel,
     G!Next, G!Collector, G!StartExtended, G!WaveSucceeded, G!WaveReceived, G!goroutines,
     G!channel
<1>7. CASE RunCollector
  BY <1>1, <1>7 DEF RunCollector, goroutines, channel,
     G!Next, G!Collector, G!RunCollector, G!goroutines, G!channel
<1>8. CASE Stamp
  BY <1>1, <1>8 DEF Stamp, goroutines, channel,
     G!Next, G!Collector, G!Stamp, G!goroutines, G!channel
<1>9. ASSUME NEW e \in Endpoints, Goroutine(e) PROVE G!Next
  <2>1. e \in G!Endpoints
    BY DEF Endpoints, CoreEndpoints, FirewallEndpoints,
       G!Endpoints, G!CoreEndpoints, G!FirewallEndpoints
  <2>2. G!Goroutine(e)
    <3>1. CASE FetchFails(e)
      BY <1>1, <3>1 DEF FetchFails, Finish, G!Goroutine, G!FetchFails, G!Finish
    <3>2. CASE Fetch(e)
      BY <1>1, <3>2 DEF Fetch, Payloads, NodeListing, channel,
         G!Goroutine, G!Fetch, G!Payloads, G!NodeListing, G!channel
    <3>3. CASE HandlePanics(e)
      BY <1>1, <3>3 DEF HandlePanics, Dispatch, Written, Torn, NoPayload, Finish,
         G!Goroutine, G!HandlePanics, G!Dispatch, G!Written, G!Torn, G!NoPayload, G!Finish
    <3>4. CASE HandleLast(e)
      BY <1>1, <3>4 DEF HandleLast, Dispatch, Written, Torn, NoPayload, Finish,
         G!Goroutine, G!HandleLast, G!Dispatch, G!Written, G!Torn, G!NoPayload, G!Finish
    <3>5. CASE HandleMore(e)
      BY <1>1, <3>5 DEF HandleMore, Dispatch, Written, Torn, NoPayload, channel,
         G!Goroutine, G!HandleMore, G!Dispatch, G!Written, G!Torn, G!NoPayload, G!channel
    <3> QED
      BY <1>9, <3>1, <3>2, <3>3, <3>4, <3>5 DEF Goroutine
  <2> QED
    BY <2>1, <2>2 DEF G!Next
<1> QED
  BY <1>2, <1>3, <1>4, <1>5, <1>6, <1>7, <1>8, <1>9 DEF Gathering

LEMMA EndCopySteps ==
    ASSUME PhaseInv, EndCopy
    PROVE  G!Publish
<1>1. Begun # completed /\ completed' = Begun /\ pc' = "sleep" /\ published' = published
  BY DEF EndCopy
<1>2. pc = "publish" /\ published[Begun] = data /\ Begun # 0
  BY <1>1 DEF PhaseInv
<1>3. Served' = data
  BY <1>1, <1>2 DEF Served, Publication
<1> QED
  BY <1>1, <1>2, <1>3 DEF EndCopy, G!Publish, goroutines, channel, G!goroutines, G!channel

LEMMA Steps ==
    ASSUME PhaseInv, [ExporterNext]_exporterVars
    PROVE  [G!Next]_(G!vars)
<1>1. CASE Gathering
  BY <1>1, GatheringSteps
<1>2. CASE EndCopy
  BY <1>2, EndCopySteps DEF G!Next, G!Collector
<1>3. ASSUME UNCHANGED <<collecting, completed>>, published' = published \/ BeginCopy
      PROVE  UNCHANGED G!vars
  BY <1>3, ServedKept DEF collecting, goroutines, channel, G!vars, G!goroutines, G!channel
<1>4. CASE BeginCopy
  BY <1>3, <1>4 DEF BeginCopy
<1>5. ASSUME NEW w \in Words, CopyWord(w) PROVE UNCHANGED G!vars
  BY <1>3, <1>5 DEF CopyWord
<1>6. ASSUME NEW r \in Scrapes, Scraping(r) PROVE UNCHANGED G!vars
  BY <1>3, <1>6 DEF Scraping, Scrape, CheckFlag, ReportWord, EndScrape, copying
<1>7. CASE UNCHANGED exporterVars
  BY <1>3, <1>7 DEF exporterVars, copying
<1> QED
  BY <1>1, <1>2, <1>4, <1>5, <1>6, <1>7 DEF ExporterNext, Copying

(* Both modules mean the same by a snapshot. *)
LEMMA SharedTypes ==
    ASSUME G!TypeInv
    PROVE  /\ data \in Snapshots
           /\ cycle \in 0..MaxCycles
           /\ pc \in {"sleep", "wave1", "wave2", "extended", "publish"}
BY DEF G!TypeInv, G!CycleTypeOK, G!TypeOK, Snapshots, Endpoints, CoreEndpoints,
   FirewallEndpoints, Pages,
   Sections, G!Snapshots, G!Endpoints, G!CoreEndpoints, G!FirewallEndpoints, G!Pages,
   G!Sections

(* During the copy the collector does nothing else, and between two cycles *)
(* nothing but to start the next.                                          *)
LEMMA GatheringPhase ==
    ASSUME G!CountInv, Gathering
    PROVE  /\ pc \in {"sleep", "wave1", "wave2", "extended"}
           /\ pc = "sleep" => StartCycle
<1>1. ASSUME NEW e \in Endpoints, Goroutine(e) PROVE pc \in {"wave1", "wave2"}
  <2>1. go[e] \in {"fetch", "handle"}
    BY <1>1 DEF Goroutine, FetchFails, Fetch, HandlePanics, HandleLast, HandleMore, Dispatch
  <2> QED
    BY <2>1, NobodyAlive
<1> QED
  BY <1>1 DEF Gathering, StartCycle, Receive, Abandon, StartWave2, StartExtended,
     RunCollector, Stamp

LEMMA GatheringKeeps ==
    ASSUME data \in Snapshots, Gathering
    PROVE  /\ UNCHANGED <<cache, copying, scraping>>
           /\ StartCycle \/ UNCHANGED cycle
           /\ StartCycle \/ Stamp \/ data'.extracted = data.extracted
<1>1. UNCHANGED <<copying, scraping>>
  BY DEF Gathering
<1>2. ASSUME NEW e \in Endpoints, Goroutine(e)
      PROVE  /\ UNCHANGED <<cache, cycle>>
             /\ data'.extracted = data.extracted
  <2>1. ASSUME Dispatch(e) PROVE data'.extracted = data.extracted
    BY <2>1 DEF Dispatch, Snapshots
  <2> QED
    BY <1>2, <2>1 DEF Goroutine, FetchFails, Fetch, HandlePanics, HandleLast, HandleMore
<1>3. CASE RunCollector
  BY <1>1, <1>3 DEF RunCollector, Snapshots
<1>4. CASE StartCycle \/ Stamp
  BY <1>1, <1>4 DEF StartCycle, Stamp
<1>5. CASE Receive \/ Abandon \/ StartWave2 \/ StartExtended
  BY <1>1, <1>5 DEF Receive, Abandon, StartWave2, StartExtended
<1> QED
  BY <1>1, <1>2, <1>3, <1>4, <1>5 DEF Gathering

LEMMA PhaseKept ==
    ASSUME G!TypeInv, G!TypeInv', G!CountInv, PhaseInv, [ExporterNext]_exporterVars
    PROVE  PhaseInv'
<1>1. /\ data \in Snapshots /\ cycle \in Nat /\ Begun \in Nat
      /\ completed \in Nat /\ completed <= Begun /\ Begun <= completed + 1
  BY SharedTypes, GatherAssumption DEF PhaseInv, Begun
<1>2. CASE Gathering
  <2>1. UNCHANGED <<cache, copying, scraping>>
    BY <1>1, <1>2, GatheringKeeps
  <2>2. pc \in {"sleep", "wave1", "wave2", "extended"} /\ (pc = "sleep" => StartCycle)
    BY <1>2, GatheringPhase
  <2>3. Begun = completed /\ UNCHANGED <<published, completed, tocopy, Begun>>
    BY <2>1, <2>2 DEF PhaseInv, copying, Begun
  <2>4. CASE StartCycle
    <3>1. cycle' = cycle + 1 /\ pc' = "wave1" /\ pc = "sleep" /\ ~data'.extracted
      BY <2>4 DEF StartCycle, EmptyData
    <3> QED
      BY <1>1, <2>3, <3>1 DEF PhaseInv
  <2>5. CASE Stamp
    <3>1. cycle' = cycle /\ pc' = "publish" /\ pc = "extended"
      BY <2>5 DEF Stamp
    <3> QED
      BY <1>1, <2>3, <3>1 DEF PhaseInv
  <2>6. CASE ~StartCycle /\ ~Stamp
    <3>1. cycle' = cycle /\ data'.extracted = data.extracted /\ pc # "sleep"
      BY <1>1, <1>2, <2>2, <2>6, GatheringKeeps
    <3>2. ~data'.extracted
      BY <2>2, <3>1 DEF PhaseInv
    <3> QED
      BY <1>1, <2>3, <3>1, <3>2 DEF PhaseInv
  <2> QED
    BY <2>4, <2>5, <2>6
<1>3. CASE BeginCopy
  <2>1. /\ published' = Append(published, data) /\ tocopy' = Words /\ pc = "publish"
        /\ Begun = completed
        /\ UNCHANGED <<pc, cycle, data, completed>>
    BY <1>3 DEF BeginCopy, collecting
  <2>2. /\ published' \in Seq(Snapshots) /\ Begun' = Begun + 1
        /\ published'[Begun + 1] = data
    BY <1>1, <2>1 DEF PhaseInv, Begun
  <2> QED
    BY <1>1, <2>1, <2>2 DEF PhaseInv
<1>4. ASSUME NEW w \in Words, CopyWord(w) PROVE PhaseInv'
  <2>1. /\ tocopy' = tocopy \ {w} /\ w \in tocopy
        /\ UNCHANGED <<pc, cycle, data, published, completed, Begun>>
    BY <1>4 DEF CopyWord, collecting, Begun
  <2> QED
    BY <1>1, <2>1 DEF PhaseInv
<1>5. CASE EndCopy
  <2>1. /\ Begun # completed /\ completed' = Begun /\ pc' = "sleep" /\ tocopy = {}
        /\ UNCHANGED <<cycle, data, published, tocopy, Begun>>
    BY <1>5 DEF EndCopy, Begun
  <2> QED
    BY <1>1, <2>1 DEF PhaseInv
<1>6. ASSUME UNCHANGED <<collecting, copying>> PROVE PhaseInv'
  <2>1. UNCHANGED <<pc, cycle, data, published, completed, tocopy, Begun>>
    BY <1>6 DEF collecting, copying, Begun
  <2> QED
    BY <2>1 DEF PhaseInv
<1>7. ASSUME NEW r \in Scrapes, Scraping(r) PROVE PhaseInv'
  BY <1>6, <1>7 DEF Scraping, Scrape, CheckFlag, ReportWord, EndScrape
<1>8. CASE UNCHANGED exporterVars
  BY <1>6, <1>8 DEF exporterVars
<1> QED
  BY <1>2, <1>3, <1>4, <1>5, <1>7, <1>8 DEF ExporterNext, Copying

(* The invariants of Gather, which are about variables that a copy and a   *)
(* scrape leave alone, and the phases of the copy.                         *)
CoreInv == G!TypeInv /\ G!CountInv /\ G!WalkInv /\ PhaseInv

LEMMA InitMaps ==
    ASSUME ExporterInit
    PROVE  G!Init /\ Begun = 0 /\ published = <<>> /\ completed = 0 /\ tocopy = {}
<1>1. Served = EmptyData
  BY DEF ExporterInit, Served, Publication
<1> QED
  BY <1>1 DEF ExporterInit, Begun, CycleInit, EmptyData, NoMessages, NoPayload, Endpoints,
     CoreEndpoints, FirewallEndpoints, G!CycleInit, G!Init, G!EmptyData, G!NoMessages, G!NoPayload,
     G!Endpoints, G!CoreEndpoints, G!FirewallEndpoints

LEMMA CoreInit ==
    ASSUME ExporterInit
    PROVE  CoreInv
<1>1. G!Init /\ Begun = 0 /\ published = <<>> /\ completed = 0 /\ tocopy = {}
  BY InitMaps
<1>2. G!TypeInv /\ G!CountInv /\ G!WalkInv
  BY <1>1, GatherConstants, G!TypingInit, G!CountingInit, G!WalkingInit
<1>3. cycle = 0 /\ pc = "sleep" /\ ~data.extracted
  BY DEF ExporterInit, CycleInit, EmptyData
<1> QED
  BY <1>1, <1>2, <1>3 DEF CoreInv, PhaseInv

LEMMA CoreKept ==
    ASSUME CoreInv, [ExporterNext]_exporterVars
    PROVE  CoreInv'
<1>1. [G!Next]_(G!vars)
  BY Steps DEF CoreInv
<1>2. G!TypeInv'
  BY <1>1, GatherConstants, G!TypeKept DEF CoreInv
<1>3. G!TypeOK /\ G!TypeOK'
  BY <1>2 DEF CoreInv, G!TypeInv
<1>4. G!CountInv'
  BY <1>1, <1>3, GatherConstants, G!CountKept DEF CoreInv
<1>5. G!WalkInv'
  BY <1>1, <1>2, <1>4, GatherConstants, G!WalkKept DEF CoreInv
<1>6. PhaseInv'
  BY <1>2, PhaseKept DEF CoreInv
<1> QED
  BY <1>2, <1>4, <1>5, <1>6 DEF CoreInv

LEMMA Core == ExporterSpec => []CoreInv
<1>1. CoreInv /\ [ExporterNext]_exporterVars => CoreInv'
  BY CoreKept
<1>2. ExporterInit => CoreInv
  BY CoreInit
<1> QED
  BY <1>1, <1>2, PTL DEF ExporterSpec

(* Whichever of its own definitions a module states the cycle with. *)
LEMMA SameSpec ==
    /\ G!Init => Atomic!Init
    /\ [G!Next]_(G!vars) => [Atomic!Next]_(Atomic!vars)
BY DEF G!CycleInit, G!Init, G!Next, G!vars, G!Collector, G!Goroutine, G!StartCycle, G!Receive,
   G!Abandon,
   G!StartWave2, G!StartExtended, G!RunCollector, G!Stamp, G!Publish, G!FetchFails, G!Fetch,
   G!HandlePanics, G!HandleLast, G!HandleMore, G!Dispatch, G!Written, G!Finish, G!Torn,
   G!Payloads, G!NoPayload, G!NodeListing, G!NoMessages, G!EmptyData, G!StartWave,
   G!FreshChannel, G!WaveSucceeded, G!WaveReceived, G!Endpoints, G!CoreEndpoints,
   G!FirewallEndpoints, G!goroutines, G!channel, G!Cardinality, G!IsFiniteSet,
   Atomic!CycleInit, Atomic!Init, Atomic!Next, Atomic!vars, Atomic!Collector, Atomic!Goroutine,
   Atomic!StartCycle, Atomic!Receive, Atomic!Abandon, Atomic!StartWave2,
   Atomic!StartExtended, Atomic!RunCollector, Atomic!Stamp, Atomic!Publish,
   Atomic!FetchFails, Atomic!Fetch, Atomic!HandlePanics, Atomic!HandleLast,
   Atomic!HandleMore, Atomic!Dispatch, Atomic!Written, Atomic!Finish, Atomic!Torn,
   Atomic!Payloads, Atomic!NoPayload, Atomic!NodeListing, Atomic!NoMessages,
   Atomic!EmptyData, Atomic!StartWave, Atomic!FreshChannel, Atomic!WaveSucceeded,
   Atomic!WaveReceived, Atomic!Endpoints, Atomic!CoreEndpoints, Atomic!FirewallEndpoints,
   Atomic!goroutines, Atomic!channel, Atomic!Cardinality, Atomic!IsFiniteSet

(* To a reader of complete copies, the exporter is the collector of Gather *)
(* with its one-step copy.                                                 *)
THEOREM CopyIsOneStep == ExporterSpec => ImplementsGather
<1>1. ExporterInit => Atomic!Init
  BY InitMaps, SameSpec
<1>2. CoreInv /\ [ExporterNext]_exporterVars => [Atomic!Next]_(Atomic!vars)
  BY Steps, SameSpec DEF CoreInv
<1> QED
  BY <1>1, <1>2, Core, PTL DEF ExporterSpec, ImplementsGather, Atomic!Spec

(* Nobody writes to data between its stamp and the start of the next       *)
(* cycle: no goroutine of a wave is left that could.                       *)
THEOREM StampedStays == ExporterSpec => StampedIsFinal
<1>1. CoreInv /\ [ExporterNext]_exporterVars => (data.extracted => data' \in {data, EmptyData})
  <2> SUFFICES ASSUME CoreInv, [ExporterNext]_exporterVars, data.extracted
               PROVE  data' \in {data, EmptyData}
    OBVIOUS
  <2>1. CASE Gathering
    <3>1. StartCycle
      BY <2>1, GatheringPhase DEF CoreInv, PhaseInv
    <3> QED
      BY <3>1 DEF StartCycle
  <2>2. CASE UNCHANGED data
    BY <2>2
  <2> QED
    BY <2>1, <2>2 DEF ExporterNext, Copying, BeginCopy, CopyWord, EndCopy, Scraping, Scrape,
       CheckFlag, ReportWord, EndScrape, exporterVars, collecting
<1> QED
  BY <1>1, Core, PTL DEF ExporterSpec, StampedIsFinal

-----------------------------------------------------------------------------
(* The words of the cache. *)

(* A word has the value that the copy which wrote it was started with, and *)
(* every copy is started with a complete snapshot.                         *)
MemInv ==
    /\ cache = [w \in Words |-> Value(Publication(Origin[w]), w.field)]
    /\ \A k \in 1..Begun : published[k].extracted /\ Complete(published[k])

LEMMA FieldOfWord ==
    ASSUME NEW w \in Words
    PROVE  w.field \in Fields
BY DEF Words

LEMMA ValueType ==
    ASSUME NEW d \in Snapshots, NEW f \in Fields
    PROVE  Value(d, f) \in TypeOf(f)
<1>1. CASE f = <<"nodes">>
  <2>1. [e \in FirewallEndpoints(Nodes) |-> d.pages[e]]
            \in [FirewallEndpoints(Nodes) -> Seq(Pages)]
    BY DEF Snapshots, Endpoints
  <2> QED
    BY <1>1, <2>1 DEF Value, TypeOf, Snapshots
<1>2. CASE f = <<"extracted">>
  <2>1. Value(d, f) = d.extracted /\ TypeOf(f) = BOOLEAN
    BY <1>2 DEF Value, TypeOf
  <2> QED
    BY <2>1 DEF Snapshots
<1>3. CASE f = <<"fetchedAt">>
  <2>1. Value(d, f) = d.fetchedAt /\ TypeOf(f) = 0..MaxCycles
    BY <1>3 DEF Value, TypeOf
  <2> QED
    BY <2>1 DEF Snapshots
<1>4. CASE \E e \in CoreEndpoints : f = <<"pages", e>>
  BY <1>4 DEF Value, TypeOf, Snapshots, Endpoints
<1>5. CASE \E c \in Sections : f = <<"sections", c>>
  BY <1>5 DEF Value, TypeOf
<1> QED
  BY <1>1, <1>2, <1>3, <1>4, <1>5 DEF Fields

LEMMA PublicationKept ==
    ASSUME PhaseInv, published' = published \/ BeginCopy, NEW k \in 0..Begun
    PROVE  Publication(k)' = Publication(k)
<1>1. CASE published' = published
  BY <1>1 DEF Publication
<1>2. CASE BeginCopy
  <2>1. published' = Append(published, data) /\ published \in Seq(Snapshots)
    BY <1>2 DEF BeginCopy, PhaseInv
  <2>2. k # 0 => published'[k] = published[k]
    BY <2>1 DEF Begun
  <2> QED
    BY <2>2 DEF Publication
<1> QED
  BY <1>1, <1>2

LEMMA PublicationType ==
    ASSUME PhaseInv, NEW k \in 0..Begun
    PROVE  Publication(k) \in Snapshots
<1>1. EmptyData \in Snapshots
  BY GatherAssumption DEF EmptyData, Snapshots
<1>2. published \in Seq(Snapshots)
  BY DEF PhaseInv
<1> QED
  BY <1>1, <1>2 DEF Publication, Begun

LEMMA OriginType ==
    ASSUME PhaseInv, NEW w \in Words
    PROVE  /\ Origin[w] \in 0..Begun
           /\ Origin[w] = IF w \in tocopy THEN completed ELSE Begun
BY DEF PhaseInv, Origin, Begun

(* What the waves and the collectors have made when they are done. *)
LEMMA DataComplete ==
    ASSUME G!WalkInv, pc = "publish"
    PROVE  data.extracted /\ Complete(data)
BY DEF G!WalkInv, G!AllWalked, G!Untouched, G!Walked, G!Required, G!Endpoints,
   G!CoreEndpoints, G!FirewallEndpoints, Complete, Walked, Required, Endpoints,
   CoreEndpoints, FirewallEndpoints

LEMMA MemInit ==
    ASSUME ExporterInit
    PROVE  MemInv
<1>1. Begun = 0 /\ published = <<>> /\ completed = 0 /\ tocopy = {}
  BY InitMaps
<1>2. cache = [w \in Words |-> Value(EmptyData, w.field)]
  BY DEF ExporterInit, WordsOf
<1>3. \A w \in Words : Publication(Origin[w]) = EmptyData
  BY <1>1 DEF Publication, Origin
<1> QED
  BY <1>1, <1>2, <1>3 DEF MemInv

LEMMA MemKept ==
    ASSUME CoreInv, MemInv, [ExporterNext]_exporterVars
    PROVE  MemInv'
<1>1. PhaseInv /\ data \in Snapshots /\ Begun \in Nat /\ completed \in Nat
  BY SharedTypes DEF CoreInv, PhaseInv, Begun
<1>2. ASSUME UNCHANGED <<cache, copying>> PROVE MemInv'
  <2>1. /\ UNCHANGED <<cache, published, Begun, Origin>>
        /\ \A k \in 0..Begun : Publication(k)' = Publication(k)
    BY <1>1, <1>2, PublicationKept DEF copying, Begun, Origin
  <2>2. \A w \in Words : Publication(Origin[w])' = Publication(Origin[w])
    BY <1>2 DEF Publication, copying, Origin, Begun
  <2>3. cache' = [w \in Words |-> Value(Publication(Origin[w])', w.field)]
    BY <2>1, <2>2 DEF MemInv
  <2> QED
    BY <2>1, <2>3 DEF MemInv
<1>3. CASE BeginCopy
  <2>1. /\ published' = Append(published, data) /\ tocopy' = Words /\ pc = "publish"
        /\ Begun = completed /\ UNCHANGED <<cache, completed>>
    BY <1>3 DEF BeginCopy
  <2>2. data.extracted /\ Complete(data)
    BY <2>1, DataComplete DEF CoreInv
  <2>3. /\ Begun' = Begun + 1 /\ published'[Begun + 1] = data
        /\ \A k \in 1..Begun : published'[k] = published[k]
    BY <1>1, <2>1 DEF PhaseInv, Begun
  <2>4. \A k \in 1..Begun' : published'[k].extracted /\ Complete(published'[k])
    <3> SUFFICES ASSUME NEW k \in 1..(Begun + 1)
                 PROVE  published'[k].extracted /\ Complete(published'[k])
      BY <2>3
    <3>1. CASE k = Begun + 1
      BY <2>2, <2>3, <3>1
    <3>2. CASE k \in 1..Begun
      BY <2>3, <3>2 DEF MemInv
    <3> QED
      BY <1>1, <3>1, <3>2
  <2>5. ASSUME NEW w \in Words
        PROVE  Publication(Origin[w])' = Publication(Origin[w])
    <3>1. Origin[w] = completed /\ Origin'[w] = completed
      BY <1>1, <2>1 DEF Origin, Begun
    <3>2. Publication(completed)' = Publication(completed)
      BY <1>1, <1>3, <2>1, PublicationKept
    <3> QED
      BY <2>1, <3>1, <3>2 DEF Publication
  <2>6. cache' = [w \in Words |-> Value(Publication(Origin[w])', w.field)]
    BY <2>1, <2>5 DEF MemInv
  <2> QED
    BY <2>4, <2>6 DEF MemInv
<1>4. ASSUME NEW w \in Words, CopyWord(w) PROVE MemInv'
  <2>1. /\ cache' = [cache EXCEPT ![w] = Value(data, w.field)]
        /\ tocopy' = tocopy \ {w} /\ w \in tocopy
        /\ UNCHANGED <<published, completed, Begun>>
    BY <1>4 DEF CopyWord, Begun
  <2>2. Begun # 0 /\ published[Begun] = data
    BY <1>1, <2>1 DEF PhaseInv
  <2>3. \A u \in Words : Origin'[u] = IF u = w THEN Begun ELSE Origin[u]
    BY <2>1 DEF Origin
  <2>4. Publication(Origin[w])' = data
    BY <2>1, <2>2, <2>3 DEF Publication
  <2>5. \A u \in Words : u # w => Publication(Origin[u])' = Publication(Origin[u])
    BY <2>1, <2>3 DEF Publication
  <2>6. cache' = [u \in Words |-> Value(Publication(Origin[u])', u.field)]
    BY <2>1, <2>4, <2>5 DEF MemInv
  <2> QED
    BY <2>1, <2>6 DEF MemInv
<1>5. CASE EndCopy
  <2>1. /\ tocopy = {} /\ tocopy' = {} /\ UNCHANGED <<cache, published, Begun>>
    BY <1>5 DEF EndCopy, Begun
  <2>2. \A w \in Words : Origin'[w] = Origin[w]
    BY <2>1 DEF Origin
  <2>3. \A w \in Words : Publication(Origin[w])' = Publication(Origin[w])
    BY <2>1, <2>2 DEF Publication
  <2>4. cache' = [w \in Words |-> Value(Publication(Origin[w])', w.field)]
    BY <2>1, <2>3 DEF MemInv
  <2> QED
    BY <2>1, <2>4 DEF MemInv
<1>6. CASE Gathering
  BY <1>1, <1>2, <1>6, GatheringKeeps
<1>7. ASSUME NEW r \in Scrapes, Scraping(r) PROVE MemInv'
  BY <1>2, <1>7 DEF Scraping, Scrape, CheckFlag, ReportWord, EndScrape
<1>8. CASE UNCHANGED exporterVars
  BY <1>2, <1>8 DEF exporterVars
<1> QED
  BY <1>3, <1>4, <1>5, <1>6, <1>7, <1>8 DEF ExporterNext, Copying

-----------------------------------------------------------------------------
(* The scrapes. *)

Values == {Value(d, f) : d \in Snapshots, f \in Fields}

(* What a scrape has read has the value of the copies that it was of.      *)
ReadInv ==
    /\ shown \in [Scrapes -> Seq(Values)]
    /\ seen \in [Scrapes -> Seq(Nat)]
    /\ \A r \in Scrapes :
         /\ Len(shown[r]) = Len(seen[r])
         /\ \A i \in 1..Len(shown[r]) :
              /\ seen[r][i] \in 0..Begun
              /\ shown[r][i] = Value(Publication(seen[r][i]), FieldRead(i))

(* A scrape that looks at the flag has read nothing yet. *)
FlagFirst ==
    /\ at \in [Scrapes -> {"idle", "check", "report"}]
    /\ \A r \in Scrapes : at[r] = "check" => seen[r] = <<>>

(* One more word. *)
LEMMA ReadKeeps ==
    ASSUME PhaseInv, MemInv, ReadInv, UNCHANGED <<cache, copying>>, NEW r \in Scrapes,
           NEW w \in Words, w.field = FieldRead(Len(shown[r]) + 1), Read(r, w)
    PROVE  ReadInv'
<1> DEFINE n == Len(shown[r])
           v == cache[w]
           o == Origin[w]
<1>1. /\ shown' = [shown EXCEPT ![r] = Append(shown[r], v)]
      /\ seen' = [seen EXCEPT ![r] = Append(seen[r], o)]
  BY DEF Read
<1>2. /\ v \in Values /\ o \in 0..Begun /\ Begun \in Nat
      /\ v = Value(Publication(o), FieldRead(n + 1))
  BY OriginType, PublicationType, FieldOfWord DEF MemInv, Values, Begun, PhaseInv
<1>3. /\ shown[r] \in Seq(Values) /\ seen[r] \in Seq(Nat) /\ Len(seen[r]) = n /\ n \in Nat
  BY DEF ReadInv
<1>4. UNCHANGED Begun /\ \A k \in 0..Begun : Publication(k)' = Publication(k)
  BY PublicationKept DEF copying, Begun
<1> HIDE DEF v, o
<1>5. /\ Append(shown[r], v) \in Seq(Values) /\ Append(seen[r], o) \in Seq(Nat)
      /\ Len(Append(shown[r], v)) = n + 1 /\ Len(Append(seen[r], o)) = n + 1
      /\ \A i \in 1..n : Append(shown[r], v)[i] = shown[r][i] /\ Append(seen[r], o)[i] = seen[r][i]
      /\ Append(shown[r], v)[n + 1] = v /\ Append(seen[r], o)[n + 1] = o
  BY <1>2, <1>3, AppendProperties
<1>6. /\ shown' \in [Scrapes -> Seq(Values)] /\ seen' \in [Scrapes -> Seq(Nat)]
      /\ shown'[r] = Append(shown[r], v) /\ seen'[r] = Append(seen[r], o)
      /\ \A q \in Scrapes : q # r => shown'[q] = shown[q] /\ seen'[q] = seen[q]
  BY <1>1, <1>5 DEF ReadInv
<1>7. ASSUME NEW q \in Scrapes
      PROVE  /\ Len(shown'[q]) = Len(seen'[q])
             /\ \A i \in 1..Len(shown'[q]) :
                  /\ seen'[q][i] \in 0..Begun
                  /\ shown'[q][i] = Value(Publication(seen'[q][i]), FieldRead(i))
  <2>1. CASE q # r
    BY <1>6, <2>1 DEF ReadInv
  <2>2. CASE q = r
    <3>1. Len(shown'[r]) = n + 1 /\ Len(seen'[r]) = n + 1
      BY <1>5, <1>6
    <3>2. ASSUME NEW i \in 1..(n + 1)
          PROVE  /\ seen'[r][i] \in 0..Begun
                 /\ shown'[r][i] = Value(Publication(seen'[r][i]), FieldRead(i))
      <4>1. CASE i = n + 1
        BY <1>2, <1>5, <1>6, <4>1
      <4>2. CASE i \in 1..n
        <5>1. i \in 1..Len(shown[r]) /\ shown'[r][i] = shown[r][i] /\ seen'[r][i] = seen[r][i]
          BY <1>5, <1>6, <4>2
        <5> QED
          BY <5>1 DEF ReadInv
      <4>3. i = n + 1 \/ i \in 1..n
        BY <1>3
      <4> QED
        BY <4>1, <4>2, <4>3
    <3> QED
      BY <2>2, <3>1, <3>2
  <2> QED
    BY <2>1, <2>2
<1>8. ASSUME NEW q \in Scrapes, NEW i \in 1..Len(shown'[q])
      PROVE  /\ seen'[q][i] \in 0..Begun'
             /\ shown'[q][i] = Value(Publication(seen[q][i])', FieldRead(i))
  <2>1. seen'[q][i] \in 0..Begun /\ shown'[q][i] = Value(Publication(seen'[q][i]), FieldRead(i))
    BY <1>7
  <2>2. Publication(seen[q][i])' = Publication(seen'[q][i])
    BY DEF Publication, copying
  <2> QED
    BY <1>4, <2>1, <2>2
<1> QED
  BY <1>6, <1>7, <1>8 DEF ReadInv, FieldRead

LEMMA NextWordRead ==
    ASSUME ReadInv, FlagFirst, NEW r \in Scrapes
    PROVE  /\ at[r] = "check" =>
                /\ Len(shown[r]) = 0
                /\ Flag \in Words /\ Flag.field = FieldRead(Len(shown[r]) + 1)
           /\ Len(shown[r]) \in 1..Len(ReadOrder) =>
                /\ ReadOrder[Len(shown[r])] \in Words
                /\ ReadOrder[Len(shown[r])].field = FieldRead(Len(shown[r]) + 1)
<1>1. Len(shown[r]) \in Nat
  BY DEF ReadInv
<1>2. at[r] = "check" => Len(shown[r]) = 0
  BY DEF ReadInv, FlagFirst
<1>3. Flag \in Words /\ FieldRead(1) = Flag.field
  BY FlagIsWord DEF FieldRead
<1>4. ASSUME Len(shown[r]) \in 1..Len(ReadOrder)
      PROVE  /\ ReadOrder[Len(shown[r])] \in Words
             /\ ReadOrder[Len(shown[r])].field = FieldRead(Len(shown[r]) + 1)
  <2>1. Len(shown[r]) + 1 # 1 /\ Len(shown[r]) + 1 - 1 = Len(shown[r])
    BY <1>1, <1>4
  <2> QED
    BY <1>4, <2>1, ExporterAssumption DEF FieldRead
<1> QED
  BY <1>2, <1>3, <1>4

LEMMA ReadsKept ==
    ASSUME CoreInv, MemInv, ReadInv, FlagFirst, [ExporterNext]_exporterVars
    PROVE  ReadInv' /\ FlagFirst'
<1>1. PhaseInv /\ data \in Snapshots /\ Begun \in Nat
  BY SharedTypes DEF CoreInv, PhaseInv, Begun
<1>2. ASSUME UNCHANGED scraping, UNCHANGED published \/ BeginCopy PROVE ReadInv' /\ FlagFirst'
  <2>1. UNCHANGED <<at, shown, seen>>
    BY <1>2 DEF scraping
  <2>2. Begun <= Begun' /\ Begun' \in Nat
    <3>1. CASE UNCHANGED published
      BY <1>1, <3>1 DEF Begun
    <3>2. CASE BeginCopy
      BY <1>1, <3>2 DEF BeginCopy, Begun, PhaseInv
    <3> QED
      BY <1>2, <3>1, <3>2
  <2>3. ASSUME NEW r \in Scrapes, NEW i \in 1..Len(shown[r])
        PROVE  /\ seen[r][i] \in 0..Begun'
               /\ shown[r][i] = Value(Publication(seen[r][i])', FieldRead(i))
    <3>1. /\ seen[r][i] \in 0..Begun
          /\ shown[r][i] = Value(Publication(seen[r][i]), FieldRead(i))
      BY DEF ReadInv
    <3> DEFINE k == seen[r][i]
    <3>2. \A j \in 0..Begun : Publication(j)' = Publication(j)
      BY <1>1, <1>2, PublicationKept
    <3>3. Publication(k)' = Publication(k)
      BY <2>1, <3>1, <3>2 DEF Publication
    <3> QED
      BY <1>1, <2>2, <3>1, <3>3
  <2> QED
    BY <2>1, <2>3 DEF ReadInv, FlagFirst, FieldRead
<1>3. ASSUME NEW r \in Scrapes, Scrape(r) PROVE ReadInv' /\ FlagFirst'
  <2>1. /\ at' = [at EXCEPT ![r] = "check"]
        /\ shown' = [shown EXCEPT ![r] = <<>>] /\ seen' = [seen EXCEPT ![r] = <<>>]
        /\ UNCHANGED <<published, Begun>>
    BY <1>3 DEF Scrape, copying, Begun
  <2>2. \A q \in Scrapes : /\ shown'[q] = IF q = r THEN <<>> ELSE shown[q]
                          /\ seen'[q] = IF q = r THEN <<>> ELSE seen[q]
    BY <2>1 DEF ReadInv
  <2>3. shown' \in [Scrapes -> Seq(Values)] /\ seen' \in [Scrapes -> Seq(Nat)]
    BY <2>1 DEF ReadInv
  <2>4. ASSUME NEW q \in Scrapes
        PROVE  /\ Len(shown'[q]) = Len(seen'[q])
               /\ \A i \in 1..Len(shown'[q]) :
                    /\ seen'[q][i] \in 0..Begun
                    /\ shown'[q][i] = Value(Publication(seen'[q][i]), FieldRead(i))
    BY <2>2 DEF ReadInv
  <2>5. ReadInv'
    BY <2>1, <2>3, <2>4 DEF ReadInv, FieldRead, Publication
  <2>6. FlagFirst'
    BY <2>1, <2>2 DEF FlagFirst
  <2> QED
    BY <2>5, <2>6
<1>4. ASSUME NEW r \in Scrapes, CheckFlag(r) PROVE ReadInv' /\ FlagFirst'
  <2>1. at[r] = "check" /\ UNCHANGED <<cache, copying>>
    BY <1>4 DEF CheckFlag
  <2>2. CASE at' = [at EXCEPT ![r] = "idle"] /\ UNCHANGED <<shown, seen>>
    <3>1. UNCHANGED <<published, Begun>>
      BY <2>1 DEF copying, Begun
    <3> QED
      BY <2>2, <3>1 DEF ReadInv, FlagFirst, FieldRead, Publication
  <2>3. CASE at' = [at EXCEPT ![r] = "report"] /\ Read(r, Flag)
    <3>1. ReadInv'
      BY <1>1, <2>1, <2>3, NextWordRead, ReadKeeps
    <3>2. FlagFirst'
      BY <2>3 DEF FlagFirst, Read, ReadInv
    <3> QED
      BY <3>1, <3>2
  <2> QED
    BY <1>4, <2>2, <2>3 DEF CheckFlag
<1>5. ASSUME NEW r \in Scrapes, ReportWord(r) PROVE ReadInv' /\ FlagFirst'
  <2>1. /\ at[r] = "report" /\ UNCHANGED <<cache, copying, at>>
        /\ Len(shown[r]) \in 1..Len(ReadOrder) /\ Read(r, ReadOrder[Len(shown[r])])
    BY <1>5 DEF ReportWord
  <2>2. ReadInv'
    BY <1>1, <2>1, NextWordRead, ReadKeeps
  <2>3. FlagFirst'
    BY <2>1 DEF FlagFirst, Read, ReadInv
  <2> QED
    BY <2>2, <2>3
<1>6. ASSUME NEW r \in Scrapes, EndScrape(r) PROVE ReadInv' /\ FlagFirst'
  <2>1. at' = [at EXCEPT ![r] = "idle"] /\ UNCHANGED <<shown, seen, published, Begun>>
    BY <1>6 DEF EndScrape, copying, Begun
  <2> QED
    BY <2>1 DEF ReadInv, FlagFirst, FieldRead, Publication
<1>7. CASE Gathering
  BY <1>1, <1>2, <1>7, GatheringKeeps DEF copying
<1>8. CASE Copying
  BY <1>2, <1>8 DEF Copying, BeginCopy, CopyWord, EndCopy
<1>9. CASE UNCHANGED exporterVars
  BY <1>2, <1>9 DEF exporterVars, copying
<1> QED
  BY <1>3, <1>4, <1>5, <1>6, <1>7, <1>8, <1>9 DEF ExporterNext, Scraping

Inv == CoreInv /\ MemInv /\ ReadInv /\ FlagFirst

LEMMA InvHolds == ExporterSpec => []Inv
<1>1. ExporterInit => Inv
  BY CoreInit, MemInit DEF ExporterInit, Inv, ReadInv, FlagFirst
<1>2. Inv /\ [ExporterNext]_exporterVars => Inv'
  BY CoreKept, MemKept, ReadsKept DEF Inv
<1> QED
  BY <1>1, <1>2, PTL DEF ExporterSpec

-----------------------------------------------------------------------------
(* What the cache is to one who only tells copies apart. *)

(* The flag is set exactly when some copy has written it. *)
LEMMA FlagTells ==
    ASSUME PhaseInv, MemInv
    PROVE  cache[Flag] <=> Origin[Flag] # 0
<1>1. Flag \in Words /\ Flag.field = <<"extracted">>
  BY FlagIsWord
<1>2. cache[Flag] = Publication(Origin[Flag]).extracted
  BY <1>1 DEF MemInv, Value
<1>3. Origin[Flag] \in 0..Begun
  BY <1>1, OriginType
<1>4. Origin[Flag] # 0 => Publication(Origin[Flag]).extracted
  BY <1>3 DEF MemInv, Publication
<1>5. ~Publication(0).extracted
  BY DEF Publication, EmptyData
<1> QED
  BY <1>2, <1>4, <1>5

LEMMA CacheSteps ==
    ASSUME Inv, [ExporterNext]_exporterVars
    PROVE  [S!Next]_(S!vars)
<1>1. /\ PhaseInv /\ MemInv /\ ReadInv /\ FlagFirst
      /\ cycle \in 0..MaxCycles /\ MaxCycles \in Nat /\ Begun \in Nat /\ data \in Snapshots
  BY SharedTypes, GatherAssumption DEF Inv, CoreInv, PhaseInv, Begun
<1>2. ASSUME UNCHANGED <<published, completed, tocopy, at, seen, start>> PROVE UNCHANGED S!vars
  BY <1>2 DEF S!vars, Origin, Begun
<1>3. CASE Gathering
  BY <1>1, <1>2, <1>3, GatheringKeeps DEF copying, scraping
<1>4. CASE BeginCopy
  <2>1. /\ published' = Append(published, data) /\ tocopy' = Words /\ pc = "publish"
        /\ Begun = completed /\ UNCHANGED <<completed, at, seen, start>>
    BY <1>4 DEF BeginCopy, scraping
  <2>2. Begun' = Begun + 1 /\ Begun < MaxCycles
    BY <1>1, <2>1 DEF PhaseInv, Begun
  <2>3. Origin' = Origin
    <3>1. \A w \in Words : w \notin tocopy /\ w \in tocopy'
      BY <1>1, <2>1 DEF PhaseInv
    <3> QED
      BY <2>1, <3>1 DEF Origin
  <2> QED
    BY <2>1, <2>2, <2>3 DEF S!Next, S!BeginCopy
<1>5. ASSUME NEW w \in Words, CopyWord(w) PROVE S!CopyWord(w)
  <2>1. /\ tocopy' = tocopy \ {w} /\ w \in tocopy
        /\ UNCHANGED <<published, completed, Begun, at, seen, start>>
    BY <1>5 DEF CopyWord, Begun, scraping
  <2>2. Origin' = [Origin EXCEPT ![w] = Begun]
    BY <2>1 DEF Origin
  <2> QED
    BY <2>1, <2>2 DEF S!CopyWord
<1>6. CASE EndCopy
  <2>1. /\ Begun # completed /\ tocopy = {} /\ completed' = Begun
        /\ UNCHANGED <<published, tocopy, Begun, at, seen, start>>
    BY <1>6 DEF EndCopy, Begun, scraping
  <2>2. Origin' = Origin
    BY <2>1 DEF Origin
  <2> QED
    BY <2>1, <2>2 DEF S!Next, S!EndCopy
<1>7. ASSUME NEW r \in Scrapes, Scraping(r) PROVE [S!Next]_(S!vars)
  <2>1. UNCHANGED <<published, completed, tocopy, Begun, Origin>>
    BY <1>7 DEF Scraping, Scrape, CheckFlag, ReportWord, EndScrape, copying, Origin, Begun
  <2>2. Len(shown[r]) = Len(seen[r]) /\ seen[r] \in Seq(Nat)
    BY <1>1 DEF ReadInv
  <2>3. CASE Scrape(r)
    BY <2>1, <2>3 DEF Scrape, S!Next, S!Scrape
  <2>4. CASE CheckFlag(r)
    <3>1. at[r] = "check" /\ UNCHANGED start
      BY <2>4 DEF CheckFlag
    <3>2. CASE ~cache[Flag] /\ at' = [at EXCEPT ![r] = "idle"] /\ UNCHANGED seen
      <4>1. Origin[Flag] = 0
        BY <1>1, <3>2, FlagTells
      <4> QED
        BY <2>1, <3>1, <3>2, <4>1 DEF Flag, S!Next, S!CheckFlag
    <3>3. CASE cache[Flag] /\ at' = [at EXCEPT ![r] = "report"] /\ Read(r, Flag)
      <4>1. Origin[Flag] # 0
        BY <1>1, <3>3, FlagTells
      <4>2. seen[r] = <<>>
        BY <1>1, <3>1 DEF FlagFirst
      <4>3. seen' = [seen EXCEPT ![r] = <<Origin[Flag]>>]
        BY <3>3, <4>2 DEF Read
      <4> QED
        BY <2>1, <3>1, <3>3, <4>1, <4>3 DEF Flag, S!Next, S!CheckFlag
    <3> QED
      BY <2>4, <3>2, <3>3 DEF CheckFlag
  <2>5. CASE ReportWord(r)
    <3>1. /\ at[r] = "report" /\ UNCHANGED <<at, start>>
          /\ Len(seen[r]) \in 1..Len(ReadOrder)
          /\ seen' = [seen EXCEPT ![r] = Append(seen[r], Origin[ReadOrder[Len(seen[r])]])]
      BY <2>2, <2>5 DEF ReportWord, Read
    <3> QED
      BY <2>1, <3>1 DEF S!Next, S!ReportWord
  <2>6. CASE EndScrape(r)
    BY <2>1, <2>2, <2>6 DEF EndScrape, S!Next, S!EndScrape
  <2> QED
    BY <1>7, <2>3, <2>4, <2>5, <2>6 DEF Scraping
<1>8. CASE UNCHANGED exporterVars
  BY <1>2, <1>8 DEF exporterVars, copying, scraping
<1> QED
  BY <1>3, <1>4, <1>5, <1>6, <1>7, <1>8 DEF ExporterNext, Copying, S!Next

LEMMA CacheInit ==
    ASSUME ExporterInit
    PROVE  S!Init
<1>1. Begun = 0 /\ published = <<>> /\ completed = 0 /\ tocopy = {}
  BY InitMaps
<1>2. Origin = [w \in Words |-> 0]
  BY <1>1 DEF Origin
<1> QED
  BY <1>1, <1>2 DEF ExporterInit, S!Init

LEMMA SameCacheSpec ==
    /\ S!Init => WordByWord!Init
    /\ [S!Next]_(S!vars) => [WordByWord!Next]_(WordByWord!vars)
BY DEF S!Init, S!Next, S!vars, S!BeginCopy, S!CopyWord, S!EndCopy, S!Scrape, S!CheckFlag,
   S!ReportWord, S!EndScrape, WordByWord!Init, WordByWord!Next, WordByWord!vars,
   WordByWord!BeginCopy, WordByWord!CopyWord, WordByWord!EndCopy, WordByWord!Scrape,
   WordByWord!CheckFlag, WordByWord!ReportWord, WordByWord!EndScrape

LEMMA IsCache == ExporterSpec => S!Spec
<1>1. ExporterInit => S!Init
  BY CacheInit
<1>2. Inv /\ [ExporterNext]_exporterVars => [S!Next]_(S!vars)
  BY CacheSteps
<1> QED
  BY <1>1, <1>2, InvHolds, PTL DEF ExporterSpec, S!Spec

(* To one who only tells copies apart, the exporter is the cache of        *)
(* SnapshotCache, so that its windows hold of the exporter.                *)
THEOREM WordsAreOfCopies == ExporterSpec => ImplementsSnapshotCache
<1>1. ExporterInit => WordByWord!Init
  BY CacheInit, SameCacheSpec
<1>2. Inv /\ [ExporterNext]_exporterVars => [WordByWord!Next]_(WordByWord!vars)
  BY CacheSteps, SameCacheSpec
<1> QED
  BY <1>1, <1>2, InvHolds, PTL DEF ExporterSpec, ImplementsSnapshotCache, WordByWord!Spec

(* Every variable keeps its type. *)
THEOREM TypeCorrect == ExporterSpec => []ExporterTypeOK
<1>1. Inv /\ S!TypeOK => ExporterTypeOK
  <2> SUFFICES ASSUME Inv, S!TypeOK PROVE ExporterTypeOK
    OBVIOUS
  <2>1. G!TypeOK /\ published \in Seq(Snapshots)
    BY DEF Inv, CoreInv, G!TypeInv, PhaseInv
  <2>2. CycleTypeOK
    BY <2>1 DEF G!CycleTypeOK, G!TypeOK, G!Snapshots, G!Endpoints, G!CoreEndpoints,
       G!FirewallEndpoints, G!Pages, G!Payloads, G!Sections, CycleTypeOK, Snapshots, Endpoints,
       CoreEndpoints, FirewallEndpoints, Pages, Payloads, Sections
  <2>3. DOMAIN shown = Scrapes /\ \A r \in Scrapes : Len(shown[r]) = Len(seen[r])
    BY DEF Inv, ReadInv
  <2>4. DOMAIN cache = Words /\ \A w \in Words : cache[w] \in TypeOf(w.field)
    <3> SUFFICES ASSUME NEW w \in Words PROVE cache[w] \in TypeOf(w.field)
      BY DEF Inv, MemInv
    <3>1. Origin[w] \in 0..Begun /\ cache[w] = Value(Publication(Origin[w]), w.field)
      BY OriginType DEF Inv, CoreInv, MemInv
    <3> QED
      BY <3>1, PublicationType, FieldOfWord, ValueType DEF Inv, CoreInv
  <2> QED
    BY <2>1, <2>2, <2>3, <2>4 DEF S!TypeOK, ExporterTypeOK
<1>2. ExporterSpec => []S!TypeOK
  BY IsCache, CacheConstants, S!TypeCorrect, PTL
<1> QED
  BY <1>1, <1>2, InvHolds, PTL

(* Every machine word that a scrape reads is of a complete snapshot that   *)
(* one cycle gathered, and of none older than the last one published when  *)
(* the scrape began.                                                       *)
THEOREM ReadsWereGathered == ExporterSpec => []WordsReadWereGathered
<1>1. Inv /\ S!TypeOK /\ S!ScrapeInWindow => WordsReadWereGathered
  <2> SUFFICES ASSUME Inv, S!TypeOK, S!ScrapeInWindow,
                      NEW r \in Scrapes, NEW i \in 1..Len(shown[r])
               PROVE  \E k \in start[r]..Begun :
                          /\ k > 0 => Publication(k).extracted /\ Complete(Publication(k))
                          /\ shown[r][i] = Value(Publication(k), FieldRead(i))
    BY DEF WordsReadWereGathered
  <2> DEFINE k == seen[r][i]
  <2>1. k \in 0..Begun /\ shown[r][i] = Value(Publication(k), FieldRead(i))
    BY DEF Inv, ReadInv
  <2>2. k \in start[r]..Begun
    BY DEF Inv, ReadInv, S!ScrapeInWindow
  <2>3. k > 0 => Publication(k).extracted /\ Complete(Publication(k))
    BY <2>1 DEF Inv, MemInv, Publication
  <2> HIDE DEF k
  <2> QED
    BY <2>1, <2>2, <2>3
<1>2. ExporterSpec => []S!TypeOK
  BY IsCache, CacheConstants, S!TypeCorrect, PTL
<1>3. ExporterSpec => []S!ScrapeInWindow
  BY IsCache, CacheConstants, S!Window, PTL
<1> QED
  BY <1>1, <1>2, <1>3, InvHolds, PTL
=============================================================================
