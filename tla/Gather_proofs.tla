----------------------------- MODULE Gather_proofs -----------------------------
(***************************************************************************)
(* Theorems about Gather, for every set of kinds, nodes and collectors and *)
(* every bound.  Each invariant is proved relative to the ones before it:  *)
(*   TypeInv     types, and what a payload can be;                         *)
(*   CountInv    the channel's messages count the goroutines that returned,*)
(*               hence OneMessageEach and NoStraggler;                     *)
(*   WalkInv     how much of its endpoint each goroutine has written,      *)
(*               hence PublishedComplete;                                  *)
(* and the refinement of CollectorCycle follows from them.                 *)
(***************************************************************************)
EXTENDS Gather, FiniteSetTheorems, SequenceTheorems, TLAPS

(* The cursor names a page the server has, and only the listing of the     *)
(* management nodes brings management nodes.                               *)
PayloadInv ==
    \A e \in Endpoints :
        /\ payload[e].kind = "more" => cursor[e] < MaxPages
        /\ e # NodeListing => payload[e].nodes = {}

TypeInv == TypeOK /\ PayloadInv

(* The channel's counters stay natural numbers. *)
LEMMA ChannelType ==
    ASSUME TypeOK, \/ UNCHANGED ch
                   \/ FreshChannel
                   \/ Receive
                   \/ \E e \in Endpoints : Finish(e, "done") \/ Finish(e, "failed")
    PROVE  ch' \in [nil : Nat, err : Nat]
<1>1. ch \in [nil : Nat, err : Nat]
  BY DEF CycleTypeOK, TypeOK
<1>2. CASE Receive
  <2>1. \/ ch.nil > 0 /\ ch' = [ch EXCEPT !.nil = @ - 1]
        \/ ch.err > 0 /\ ch' = [ch EXCEPT !.err = @ - 1]
    BY <1>2 DEF Receive
  <2> QED
    BY <1>1, <2>1
<1>3. ASSUME NEW e \in Endpoints, Finish(e, "done") \/ Finish(e, "failed")
      PROVE  ch' \in [nil : Nat, err : Nat]
  <2>1. ch' = [ch EXCEPT !.nil = @ + 1] \/ ch' = [ch EXCEPT !.err = @ + 1]
    BY <1>3 DEF Finish
  <2> QED
    BY <1>1, <2>1
<1>4. CASE FreshChannel
  BY <1>4 DEF FreshChannel, NoMessages
<1> QED
  BY <1>1, <1>2, <1>3, <1>4

(* A handler appends one page to its endpoint, adds the nodes it read, and *)
(* leaves the rest of the data alone.                                      *)
LEMMA DispatchEffect ==
    ASSUME TypeOK, NEW e \in Endpoints, Dispatch(e)
    PROVE  /\ data' \in Snapshots
           /\ data'.pages = [data.pages EXCEPT ![e] = Append(@, Written(e))]
           /\ data'.nodes = data.nodes \cup payload[e].nodes
           /\ data'.sections = data.sections
           /\ data'.extracted = data.extracted
           /\ data'.fetchedAt = data.fetchedAt
           /\ payload' = [payload EXCEPT ![e] = NoPayload]
           /\ Written(e) \in Pages
           /\ Append(data.pages[e], Written(e)) \in Seq(Pages)
<1>1. data \in Snapshots /\ payload[e].nodes \in SUBSET Nodes
  BY DEF CycleTypeOK, TypeOK, Payloads
<1>2. Written(e) \in Pages
  BY GatherAssumption DEF CycleTypeOK, TypeOK, Written, Torn, Pages
<1>3. data.pages \in [Endpoints -> Seq(Pages)]
  BY <1>1 DEF Snapshots
<1> DEFINE ps == Append(data.pages[e], Written(e))
<1>4. ps \in Seq(Pages)
  BY <1>2, <1>3, AppendProperties
<1>5. /\ data' = [data EXCEPT !.pages[e] = ps, !.nodes = @ \cup payload[e].nodes]
      /\ payload' = [payload EXCEPT ![e] = NoPayload]
  BY DEF Dispatch
<1>6. [data.pages EXCEPT ![e] = ps] \in [Endpoints -> Seq(Pages)]
  BY <1>3, <1>4
<1> HIDE DEF ps
<1>7. data' = [data EXCEPT !.pages = [data.pages EXCEPT ![e] = ps],
                           !.nodes = data.nodes \cup payload[e].nodes]
  BY <1>1, <1>5 DEF Snapshots
<1>8. /\ data' \in Snapshots
      /\ data'.pages = [data.pages EXCEPT ![e] = ps]
      /\ data'.nodes = data.nodes \cup payload[e].nodes
      /\ data'.sections = data.sections
      /\ data'.extracted = data.extracted
      /\ data'.fetchedAt = data.fetchedAt
  BY <1>1, <1>6, <1>7 DEF Snapshots
<1> QED
  BY <1>2, <1>4, <1>5, <1>8 DEF ps

(* The data a cycle fills in stays a snapshot, handlers and collectors     *)
(* included.                                                               *)
LEMMA DataType ==
    ASSUME TypeOK, \/ UNCHANGED data
                   \/ data' = EmptyData
                   \/ RunCollector
                   \/ Stamp
                   \/ \E e \in Endpoints : Dispatch(e)
    PROVE  data' \in Snapshots
<1>1. data \in Snapshots
  BY DEF CycleTypeOK, TypeOK
<1>2. CASE data' = EmptyData
  BY <1>2, GatherAssumption DEF EmptyData, Snapshots
<1>3. CASE RunCollector
  <2>1. step + 1 \in 1..Len(Collectors)
    BY <1>3, GatherAssumption DEF RunCollector, CycleTypeOK, TypeOK
  <2>2. Collectors[step + 1] \in Sections
    BY <2>1 DEF Sections
  <2>3. data' = [data EXCEPT !.sections = @ \cup {Collectors[step + 1]}] \/ data' = data
    BY <1>3, Zenon DEF RunCollector
  <2>4. PICK c \in Sections : data' = [data EXCEPT !.sections = @ \cup {c}] \/ data' = data
    BY <2>2, <2>3, Zenon
  <2>5. CASE data' = [data EXCEPT !.sections = @ \cup {c}]
    <3>1. data.sections \cup {c} \in SUBSET Sections
      BY <1>1 DEF Snapshots
    <3> QED
      BY <1>1, <2>5, <3>1 DEF Snapshots
  <2> QED
    BY <1>1, <2>4, <2>5
<1>4. CASE Stamp
  <2>1. data' = [data EXCEPT !.extracted = TRUE, !.fetchedAt = cycle]
    BY <1>4 DEF Stamp
  <2>2. cycle \in 0..MaxCycles
    BY DEF CycleTypeOK, TypeOK
  <2> QED
    BY <1>1, <2>1, <2>2 DEF Snapshots
<1> QED
  BY <1>1, <1>2, <1>3, <1>4, DispatchEffect

(* Starting a wave. *)
LEMMA StartWaveType ==
    ASSUME TypeOK, NEW es \in SUBSET Endpoints, StartWave(es)
    PROVE  /\ wave' = es
           /\ go' \in [Endpoints -> {"absent", "fetch", "handle", "done", "failed"}]
           /\ cursor' \in [Endpoints -> 1..MaxPages]
           /\ \A e \in Endpoints : cursor'[e] = cursor[e] \/ cursor'[e] = 1
           /\ \A e \in Endpoints : go'[e] = IF e \in es THEN "fetch" ELSE go[e]
           /\ \A e \in Endpoints : e \in es => cursor'[e] = 1
           /\ ch' \in [nil : Nat, err : Nat] /\ ch' = NoMessages
           /\ received' = 0 /\ errs' = 0
           /\ payload' = payload
<1>1. ch' \in [nil : Nat, err : Nat]
  BY ChannelType DEF StartWave
<1> QED
  BY <1>1, GatherAssumption DEF StartWave, FreshChannel, CycleTypeOK, TypeOK

LEMMA StartWavePayload ==
    ASSUME TypeOK, PayloadInv, NEW es \in SUBSET Endpoints, StartWave(es)
    PROVE  PayloadInv'
<1> SUFFICES ASSUME NEW e \in Endpoints
             PROVE  /\ payload'[e].kind = "more" => cursor'[e] < MaxPages
                    /\ e # NodeListing => payload'[e].nodes = {}
  BY DEF PayloadInv, NodeListing
<1>2. /\ payload[e].kind = "more" => cursor[e] < MaxPages
      /\ e # NodeListing => payload[e].nodes = {}
  BY DEF PayloadInv
<1>3. cursor[e] \in 1..MaxPages /\ MaxPages \in Nat
  BY GatherAssumption DEF CycleTypeOK, TypeOK
<1>4. payload' = payload /\ (cursor'[e] = cursor[e] \/ cursor'[e] = 1)
  BY StartWaveType
<1> QED
  BY <1>2, <1>3, <1>4

(* Each step keeps the types. *)
LEMMA TypeKept ==
    ASSUME TypeInv, [Next]_vars
    PROVE  TypeInv'
<1>1. TypeOK /\ PayloadInv
  BY DEF TypeInv
<1>2. CASE StartCycle
  <2>1. CoreEndpoints \in SUBSET Endpoints
    BY DEF Endpoints
  <2>2. StartWave(CoreEndpoints)
    BY <1>2 DEF StartCycle
  <2>3. data' \in Snapshots
    BY <1>1, <1>2, DataType DEF StartCycle
  <2>4. cycle' \in 0..MaxCycles
    BY <1>1, <1>2, GatherAssumption DEF StartCycle, CycleTypeOK, TypeOK
  <2>5. PayloadInv'
    BY <1>1, <2>1, <2>2, StartWavePayload
  <2> QED
    BY <1>2, <1>1, <2>1, <2>2, <2>3, <2>4, <2>5, StartWaveType
    DEF StartCycle, TypeInv, CycleTypeOK, TypeOK
<1>3. CASE Receive
  <2>1. ch' \in [nil : Nat, err : Nat]
    BY <1>1, <1>3, ChannelType
  <2>2. received' \in Nat /\ errs' \in 0..received'
    BY <1>1, <1>3 DEF Receive, CycleTypeOK, TypeOK
  <2> QED
    BY <1>3, <2>1, <2>2 DEF Receive, goroutines, TypeInv, CycleTypeOK, TypeOK, PayloadInv
<1>4. CASE Abandon
  BY <1>4 DEF Abandon, goroutines, channel, TypeInv, CycleTypeOK,
     TypeOK, PayloadInv
<1>5. CASE StartWave2
  <2>1. FirewallEndpoints(data.nodes) \in SUBSET Endpoints
    BY <1>1 DEF Endpoints, FirewallEndpoints, Snapshots, CycleTypeOK, TypeOK
  <2>2. StartWave(FirewallEndpoints(data.nodes))
    BY <1>5 DEF StartWave2
  <2>3. PayloadInv'
    BY <1>1, <2>1, <2>2, StartWavePayload
  <2> QED
    BY <1>5, <1>1, <2>1, <2>2, <2>3, StartWaveType
    DEF StartWave2, TypeInv, CycleTypeOK, TypeOK
<1>6. CASE StartExtended
  BY <1>6, GatherAssumption DEF StartExtended, goroutines, channel, TypeInv, CycleTypeOK,
     TypeOK, PayloadInv
<1>7. CASE RunCollector
  <2>1. data' \in Snapshots
    BY <1>1, <1>7, DataType
  <2>2. step' \in 0..Len(Collectors)
    BY <1>1, <1>7, GatherAssumption DEF RunCollector, CycleTypeOK, TypeOK
  <2> QED
    BY <1>7, <2>1, <2>2 DEF RunCollector, goroutines, channel, TypeInv, CycleTypeOK,
     TypeOK, PayloadInv
<1>8. CASE Stamp
  <2>1. data' \in Snapshots
    BY <1>1, <1>8, DataType
  <2> QED
    BY <1>8, <2>1 DEF Stamp, goroutines, channel, TypeInv, CycleTypeOK,
     TypeOK, PayloadInv
<1>9. CASE Publish
  BY <1>9 DEF Publish, goroutines, channel, TypeInv, CycleTypeOK,
     TypeOK, PayloadInv
<1>10. ASSUME NEW e \in Endpoints, FetchFails(e) PROVE TypeInv'
  <2>1. ch' \in [nil : Nat, err : Nat]
    BY <1>1, <1>10, ChannelType DEF FetchFails
  <2> QED
    BY <1>10, <2>1 DEF FetchFails, Finish, TypeInv, CycleTypeOK, TypeOK, PayloadInv
<1>11. ASSUME NEW e \in Endpoints, Fetch(e) PROVE TypeInv'
  BY <1>11 DEF Fetch, channel, TypeInv, CycleTypeOK, TypeOK, PayloadInv
<1>12. ASSUME NEW e \in Endpoints, Dispatch(e)
       PROVE  /\ data' \in Snapshots
              /\ payload' \in [Endpoints -> Payloads]
              /\ \A f \in Endpoints :
                    /\ payload'[f].kind = "more" => f # e /\ payload[f].kind = "more"
                    /\ f # NodeListing => payload'[f].nodes = {}
  <2>1. data' \in Snapshots /\ payload' = [payload EXCEPT ![e] = NoPayload]
    BY <1>1, <1>12, DispatchEffect
  <2>2. /\ NoPayload \in Payloads
        /\ NoPayload.kind = "last" /\ NoPayload.nodes = {}
    BY DEF NoPayload, Payloads
  <2>3. payload \in [Endpoints -> Payloads]
    BY <1>1 DEF CycleTypeOK, TypeOK
  <2>4. \A f \in Endpoints : payload'[f] = IF f = e THEN NoPayload ELSE payload[f]
    BY <2>1, <2>3
  <2> QED
    BY <2>1, <2>2, <2>3, <2>4 DEF TypeInv, PayloadInv
<1>13. ASSUME NEW e \in Endpoints, HandlePanics(e) \/ HandleLast(e) PROVE TypeInv'
  <2>1. Dispatch(e) /\ (Finish(e, "done") \/ Finish(e, "failed"))
    BY <1>13 DEF HandlePanics, HandleLast
  <2>2. ch' \in [nil : Nat, err : Nat]
    BY <1>1, <2>1, ChannelType
  <2>3. go' \in [Endpoints -> {"absent", "fetch", "handle", "done", "failed"}]
    BY <1>1, <2>1 DEF Finish, CycleTypeOK, TypeOK
  <2> QED
    BY <1>13, <2>1, <1>12, <2>2, <2>3
    DEF HandlePanics, HandleLast, TypeInv, CycleTypeOK, TypeOK, PayloadInv
<1>14. ASSUME NEW e \in Endpoints, HandleMore(e) PROVE TypeInv'
  <2>1. Dispatch(e)
    BY <1>14 DEF HandleMore
  <2>2. cursor[e] < MaxPages
    BY <1>14 DEF HandleMore, TypeInv, PayloadInv
  <2>3. cursor' \in [Endpoints -> 1..MaxPages]
    BY <1>1, <1>14, <2>2, GatherAssumption DEF HandleMore, CycleTypeOK, TypeOK
  <2>4. \A f \in Endpoints : f # e => cursor'[f] = cursor[f]
    BY <1>1, <1>14 DEF HandleMore, CycleTypeOK, TypeOK
  <2>5. go' \in [Endpoints -> {"absent", "fetch", "handle", "done", "failed"}]
    BY <1>1, <1>14 DEF HandleMore, CycleTypeOK, TypeOK
  <2> QED
    BY <1>14, <1>12, <2>1, <2>3, <2>4, <2>5
    DEF HandleMore, channel, TypeInv, CycleTypeOK, TypeOK, PayloadInv
<1>15. CASE UNCHANGED vars
  BY <1>15 DEF vars, goroutines, channel, TypeInv, CycleTypeOK,
     TypeOK, PayloadInv
<1> QED
  BY <1>2, <1>3, <1>4, <1>5, <1>6, <1>7, <1>8, <1>9, <1>10, <1>11, <1>13, <1>14,
     <1>15 DEF Next, Collector, Goroutine

LEMMA TypingInit == Init => TypeInv
BY GatherAssumption DEF CycleInit, Init, TypeInv, CycleTypeOK, TypeOK, PayloadInv, EmptyData,
  Snapshots,
   NoPayload, Payloads, NoMessages

LEMMA Typing == Spec => []TypeInv
<1>1. TypeInv /\ [Next]_vars => TypeInv'
  BY TypeKept
<1> QED
  BY <1>1, TypingInit, PTL DEF Spec

(* Every record and function of the collector stays in its set of values:  *)
(* no walk runs past the server's last page and no wave counts more errors *)
(* than messages.                                                          *)
THEOREM TypeCorrect == Spec => []TypeOK
BY Typing, PTL DEF TypeInv

-----------------------------------------------------------------------------
(* The channel as a count of the goroutines that have returned.            *)

LEMMA RecordsFinite ==
    ASSUME NEW K, NEW H, IsFiniteSet(K), IsFiniteSet(H)
    PROVE  IsFiniteSet([kind : K, host : H])
<1> DEFINE f == [x \in K \X H |-> [kind |-> x[1], host |-> x[2]]]
<1>1. f \in [K \X H -> [kind : K, host : H]]
  OBVIOUS
<1>2. ASSUME NEW r \in [kind : K, host : H]
      PROVE  \E x \in K \X H : f[x] = r
  <2>1. <<r.kind, r.host>> \in K \X H /\ f[<<r.kind, r.host>>] = r
    OBVIOUS
  <2> QED
    BY <2>1
<1>3. f \in Surjection(K \X H, [kind : K, host : H])
  BY <1>1, <1>2 DEF Surjection
<1>4. IsFiniteSet(K \X H)
  BY FS_Product
<1> QED
  BY <1>3, <1>4, FS_Surjection

LEMMA EndpointsFinite == IsFiniteSet(Endpoints)
<1>1. IsFiniteSet({LoginHost})
  BY FS_Singleton
<1>2. IsFiniteSet(CoreEndpoints) /\ IsFiniteSet(FirewallEndpoints(Nodes))
  BY <1>1, RecordsFinite, GatherAssumption DEF CoreEndpoints, FirewallEndpoints
<1> QED
  BY <1>2, FS_Union DEF Endpoints

Returned == {e \in wave : ~Alive(e)}
Failed == {e \in wave : go[e] = "failed"}

(* Goroutines run only in their own wave, and each one that has returned   *)
(* has sent one message, an error if it failed.                            *)
CountInv ==
    /\ \A e \in Endpoints : Alive(e) => pc \in {"wave1", "wave2"} /\ e \in wave
    /\ \A e \in wave : go[e] # "absent"
    /\ received + ch.nil + ch.err = Cardinality(Returned)
    /\ errs + ch.err = Cardinality(Failed)
    /\ received <= Cardinality(wave)
    /\ pc \notin {"wave1", "wave2"} => WaveReceived

LEMMA CountsFinite ==
    ASSUME TypeOK
    PROVE  /\ IsFiniteSet(wave) /\ IsFiniteSet(Returned) /\ IsFiniteSet(Failed)
           /\ Cardinality(wave) \in Nat
           /\ Cardinality(Returned) \in Nat
           /\ Cardinality(Failed) \in Nat
           /\ Cardinality(Returned) <= Cardinality(wave)
<1>1. wave \in SUBSET Endpoints /\ Returned \in SUBSET wave /\ Failed \in SUBSET wave
  BY DEF CycleTypeOK, TypeOK, Returned, Failed
<1> QED
  BY <1>1, EndpointsFinite, FS_Subset, FS_CardinalityType

(* When gatherWave has received as many messages as it started goroutines, *)
(* all of them have returned, and errs tells whether one of them failed.   *)
LEMMA WaveDrained ==
    ASSUME TypeOK, CountInv, WaveReceived
    PROVE  /\ \A e \in Endpoints : ~Alive(e)
           /\ ch = NoMessages
           /\ errs = 0 => \A e \in wave : go[e] = "done"
<1>1. /\ ch.nil \in Nat /\ ch.err \in Nat /\ received \in Nat /\ errs \in Nat
      /\ ch = [nil |-> ch.nil, err |-> ch.err]
  BY DEF CycleTypeOK, TypeOK
<1>2. /\ received = Cardinality(wave)
      /\ received + ch.nil + ch.err = Cardinality(Returned)
      /\ errs + ch.err = Cardinality(Failed)
  BY DEF CountInv, WaveReceived
<1>3. ch.nil = 0 /\ ch.err = 0 /\ Cardinality(Returned) = Cardinality(wave)
  BY <1>1, <1>2, CountsFinite
<1>4. Returned = wave
  BY <1>3, CountsFinite, FS_Subset DEF Returned
<1>5. \A e \in Endpoints : ~Alive(e)
  BY <1>4 DEF Returned, CountInv
<1>6. ASSUME errs = 0 PROVE \A e \in wave : go[e] = "done"
  <2>1. Failed = {}
    BY <1>2, <1>3, <1>6, CountsFinite, FS_EmptySet
  <2>2. ASSUME NEW e \in wave PROVE go[e] = "done"
    <3>1. /\ go[e] \in {"absent", "fetch", "handle", "done", "failed"}
          /\ e \in Endpoints
      BY DEF CycleTypeOK, TypeOK
    <3>2. go[e] # "failed" /\ go[e] # "absent" /\ ~Alive(e)
      BY <2>1, <1>5, <3>1 DEF Failed, CountInv
    <3> QED
      BY <3>1, <3>2 DEF Alive
  <2> QED
    BY <2>2
<1> QED
  BY <1>1, <1>3, <1>5, <1>6 DEF NoMessages

LEMMA StartWaveCounts ==
    ASSUME TypeOK, TypeOK', NEW es \in SUBSET Endpoints, StartWave(es),
           pc' \in {"wave1", "wave2"}, \A e \in Endpoints : ~Alive(e)
    PROVE  CountInv'
<1>1. /\ wave' = es
      /\ \A e \in Endpoints : go'[e] = IF e \in es THEN "fetch" ELSE go[e]
      /\ ch' = NoMessages /\ received' = 0 /\ errs' = 0
  BY StartWaveType
<1>2. Returned' = {} /\ Failed' = {}
  BY <1>1 DEF Returned, Failed, Alive
<1>3. Cardinality(Returned') = 0 /\ Cardinality(Failed') = 0
  BY <1>2, FS_EmptySet
<1>4. Cardinality(wave') \in Nat
  BY <1>1, EndpointsFinite, FS_Subset, FS_CardinalityType
<1>5. ch'.nil = 0 /\ ch'.err = 0
  BY <1>1 DEF NoMessages
<1> QED
  BY <1>1, <1>3, <1>4, <1>5 DEF CountInv, Alive

LEMMA FinishCounts ==
    ASSUME TypeOK, CountInv, NEW e \in Endpoints, Alive(e),
           Finish(e, "done") \/ Finish(e, "failed"),
           UNCHANGED <<pc, wave, received, errs>>
    PROVE  CountInv'
<1>1. e \in wave /\ pc \in {"wave1", "wave2"}
  BY DEF CountInv
<1>2. PICK o \in {"done", "failed"} : Finish(e, o)
  OBVIOUS
<1>3. go' = [go EXCEPT ![e] = o] /\ go \in [Endpoints -> {"absent", "fetch", "handle", "done", "failed"}]
  BY <1>2 DEF Finish, CycleTypeOK, TypeOK
<1>4. \A f \in Endpoints : go'[f] = IF f = e THEN o ELSE go[f]
  BY <1>3
<1>5. wave \in SUBSET Endpoints /\ wave' = wave
  BY DEF CycleTypeOK, TypeOK
<1>6. Returned' = Returned \cup {e} /\ e \notin Returned
  BY <1>1, <1>4, <1>5 DEF Returned, Alive
<1>7. Cardinality(Returned') = Cardinality(Returned) + 1
  BY <1>6, CountsFinite, FS_AddElement
<1>8. /\ o = "failed" => Failed' = Failed \cup {e}
      /\ o = "done" => Failed' = Failed
      /\ e \notin Failed
  BY <1>1, <1>4, <1>5 DEF Failed, Alive
<1>9. Cardinality(Failed') = Cardinality(Failed) + IF o = "failed" THEN 1 ELSE 0
  BY <1>8, CountsFinite, FS_AddElement
<1>10. /\ ch.nil \in Nat /\ ch.err \in Nat
       /\ ch'.nil = ch.nil + IF o = "done" THEN 1 ELSE 0
       /\ ch'.err = ch.err + IF o = "failed" THEN 1 ELSE 0
  <2>1. ch \in [nil : Nat, err : Nat]
    BY DEF CycleTypeOK, TypeOK
  <2>2. CASE o = "done"
    <3>1. ch' = [ch EXCEPT !.nil = @ + 1]
      BY <1>2, <2>2 DEF Finish
    <3> QED
      BY <2>1, <2>2, <3>1
  <2>3. CASE o = "failed"
    <3>1. ch' = [ch EXCEPT !.err = @ + 1]
      BY <1>2, <2>3 DEF Finish
    <3> QED
      BY <2>1, <2>3, <3>1
  <2> QED
    BY <2>2, <2>3
<1>11. /\ received' + ch'.nil + ch'.err = Cardinality(Returned')
       /\ errs' + ch'.err = Cardinality(Failed')
  <2>1. /\ Cardinality(Returned) \in Nat /\ Cardinality(Failed) \in Nat
        /\ received \in Nat /\ errs \in Nat
    BY CountsFinite DEF CycleTypeOK, TypeOK
  <2>2. /\ received + ch.nil + ch.err = Cardinality(Returned)
        /\ errs + ch.err = Cardinality(Failed)
        /\ received' = received /\ errs' = errs
    BY DEF CountInv
  <2> QED
    BY <1>2, <1>7, <1>9, <1>10, <2>1, <2>2
<1>12. \A f \in Endpoints : Alive(f)' => Alive(f)
  BY <1>4 DEF Alive
<1>13. \A f \in wave : go'[f] # "absent"
  BY <1>4, <1>5 DEF CountInv
<1>14. received' <= Cardinality(wave')
  BY DEF CountInv
<1> QED
  BY <1>1, <1>5, <1>11, <1>12, <1>13, <1>14 DEF CountInv

(* A step that moves a goroutine from one of its two live states to the    *)
(* other disturbs no count, nor does one that touches no goroutine.        *)
LEMMA UndisturbedCounts ==
    ASSUME TypeOK, CountInv, UNCHANGED <<wave, ch, received, errs>>,
           \/ UNCHANGED pc
           \/ WaveReceived,
           \/ UNCHANGED go
           \/ \E e \in Endpoints, s \in {"fetch", "handle"} :
                 Alive(e) /\ go' = [go EXCEPT ![e] = s]
    PROVE  CountInv'
<1>1. wave \in SUBSET Endpoints
  BY DEF CycleTypeOK, TypeOK
<1>2. \A f \in Endpoints : /\ Alive(f)' <=> Alive(f)
                           /\ go'[f] = "failed" <=> go[f] = "failed"
                           /\ go'[f] = "absent" <=> go[f] = "absent"
  <2>1. CASE UNCHANGED go
    BY <2>1 DEF Alive
  <2>2. ASSUME NEW e \in Endpoints, NEW s \in {"fetch", "handle"},
               Alive(e), go' = [go EXCEPT ![e] = s]
        PROVE  \A f \in Endpoints : /\ Alive(f)' <=> Alive(f)
                                    /\ go'[f] = "failed" <=> go[f] = "failed"
                                    /\ go'[f] = "absent" <=> go[f] = "absent"
    <3>1. \A f \in Endpoints : go'[f] = IF f = e THEN s ELSE go[f]
      BY <2>2 DEF CycleTypeOK, TypeOK
    <3> QED
      BY <2>2, <3>1 DEF Alive
  <2> QED
    BY <2>1, <2>2
<1>3. Returned' = Returned /\ Failed' = Failed
  BY <1>1, <1>2 DEF Returned, Failed
<1>4. WaveReceived' <=> WaveReceived
  BY DEF WaveReceived
<1>5. \A e \in Endpoints : Alive(e)' => pc' \in {"wave1", "wave2"} /\ e \in wave'
  BY <1>2, WaveDrained DEF CountInv
<1> QED
  BY <1>1, <1>2, <1>3, <1>4, <1>5 DEF CountInv

(* Each step keeps the count. *)
LEMMA CountKept ==
    ASSUME TypeOK, TypeOK', CountInv, [Next]_vars
    PROVE  CountInv'
<1>1. CASE StartCycle
  <2>1. CoreEndpoints \in SUBSET Endpoints /\ StartWave(CoreEndpoints)
    BY <1>1 DEF Endpoints, StartCycle
  <2>2. pc = "sleep" /\ pc' = "wave1"
    BY <1>1 DEF StartCycle
  <2>3. \A e \in Endpoints : ~Alive(e)
    BY <2>2 DEF CountInv
  <2> QED
    BY <2>1, <2>2, <2>3, StartWaveCounts
<1>2. CASE Receive
  <2>1. /\ ch \in [nil : Nat, err : Nat] /\ received \in Nat /\ errs \in Nat
        /\ Cardinality(wave) \in Nat
    BY CountsFinite DEF CycleTypeOK, TypeOK
  <2>2. /\ received < Cardinality(wave) /\ received' = received + 1
        /\ UNCHANGED <<pc, wave, go>>
        /\ \/ ch.nil > 0 /\ ch' = [ch EXCEPT !.nil = @ - 1] /\ errs' = errs
           \/ ch.err > 0 /\ ch' = [ch EXCEPT !.err = @ - 1] /\ errs' = errs + 1
    BY <1>2 DEF Receive, goroutines
  <2>3. /\ received' + ch'.nil + ch'.err = received + ch.nil + ch.err
        /\ errs' + ch'.err = errs + ch.err
    <3>1. CASE ch.nil > 0 /\ ch' = [ch EXCEPT !.nil = @ - 1] /\ errs' = errs
      <4>1. ch'.nil = ch.nil - 1 /\ ch'.err = ch.err
        BY <2>1, <3>1
      <4> QED
        BY <2>1, <2>2, <3>1, <4>1
    <3>2. CASE ch.err > 0 /\ ch' = [ch EXCEPT !.err = @ - 1] /\ errs' = errs + 1
      <4>1. ch'.err = ch.err - 1 /\ ch'.nil = ch.nil
        BY <2>1, <3>2
      <4> QED
        BY <2>1, <2>2, <3>2, <4>1
    <3> QED
      BY <2>2, <3>1, <3>2
  <2>4. Returned' = Returned /\ Failed' = Failed
    BY <2>2 DEF Returned, Failed, Alive
  <2>5. received' <= Cardinality(wave') /\ pc \in {"wave1", "wave2"}
    BY <1>2, <2>1, <2>2 DEF Receive
  <2> QED
    BY <2>2, <2>3, <2>4, <2>5 DEF CountInv, Alive
<1>3. CASE Abandon \/ StartExtended
  BY <1>3, UndisturbedCounts
  DEF Abandon, StartExtended, WaveSucceeded, channel, goroutines
<1>4. CASE StartWave2
  <2>1. FirewallEndpoints(data.nodes) \in SUBSET Endpoints
    BY DEF Endpoints, FirewallEndpoints, Snapshots, CycleTypeOK, TypeOK
  <2>2. StartWave(FirewallEndpoints(data.nodes)) /\ pc' = "wave2" /\ WaveReceived
    BY <1>4 DEF StartWave2, WaveSucceeded
  <2> QED
    BY <2>1, <2>2, WaveDrained, StartWaveCounts
<1>5. CASE RunCollector
  BY <1>5, UndisturbedCounts DEF RunCollector, channel, goroutines
<1>6. CASE Stamp \/ Publish
  <2>1. WaveReceived
    BY <1>6 DEF Stamp, Publish, CountInv
  <2> QED
    BY <1>6, <2>1, UndisturbedCounts DEF Stamp, Publish, channel, goroutines
<1>7. ASSUME NEW e \in Endpoints, FetchFails(e) PROVE CountInv'
  BY <1>7, FinishCounts DEF FetchFails, Alive
<1>8. ASSUME NEW e \in Endpoints, Fetch(e) PROVE CountInv'
  BY <1>8, UndisturbedCounts DEF Fetch, Alive, channel
<1>9. ASSUME NEW e \in Endpoints, HandlePanics(e) \/ HandleLast(e) PROVE CountInv'
  BY <1>9, FinishCounts DEF HandlePanics, HandleLast, Dispatch, Alive
<1>10. ASSUME NEW e \in Endpoints, HandleMore(e) PROVE CountInv'
  BY <1>10, UndisturbedCounts DEF HandleMore, Dispatch, Alive, channel
<1>11. CASE UNCHANGED vars
  BY <1>11, UndisturbedCounts DEF vars, channel, goroutines
<1> QED
  BY <1>1, <1>2, <1>3, <1>4, <1>5, <1>6, <1>7, <1>8, <1>9, <1>10, <1>11
  DEF Next, Collector, Goroutine

LEMMA CountingInit == Init => CountInv
BY FS_EmptySet DEF CycleInit, Init, CountInv, Returned, Failed, Alive, NoMessages, WaveReceived

LEMMA Counting == Spec => []CountInv
<1>1. TypeInv /\ TypeInv' /\ CountInv /\ [Next]_vars => CountInv'
  BY CountKept DEF TypeInv
<1> QED
  BY <1>1, CountingInit, Typing, PTL DEF Spec

(* Each goroutine sends exactly one message: gatherWave's receive loop     *)
(* counts goroutines, and no send can find the channel full.               *)
THEOREM ChannelCounts == Spec => []OneMessageEach
<1>1. CountInv => OneMessageEach
  BY DEF CountInv, OneMessageEach, Returned
<1> QED
  BY <1>1, Counting, PTL

(* No goroutine of a wave is alive, and no message is in the channel, once *)
(* gatherWave has received its last message.                               *)
THEOREM WavesJoin == Spec => []NoStraggler
<1>1. TypeInv /\ CountInv => NoStraggler
  BY WaveDrained DEF TypeInv, CountInv, NoStraggler
<1> QED
  BY <1>1, Typing, Counting, PTL

-----------------------------------------------------------------------------
(* What the goroutines have written.                                       *)

(* The first n - 1 pages of a walk that goes on. *)
Partial(pages, c, n) ==
    /\ Len(pages) = n - 1
    /\ \A k \in 1..Len(pages) : pages[k] = [cycle |-> c, number |-> k, last |-> FALSE]

AllWalked(es) == \A e \in es : Walked(data.pages[e], cycle)
Untouched(es) == \A e \in es : data.pages[e] = <<>>

WaveWritten ==
    \A e \in wave :
        /\ Alive(e) => Partial(data.pages[e], cycle, cursor[e])
        /\ go[e] = "done" => Walked(data.pages[e], cycle)

(* Wave 1 writes the core endpoints.  Wave 2 asks the nodes wave 1 wrote   *)
(* and changes them no more.  After both, the data is complete.            *)
WalkInv ==
    /\ pc = "wave1" => /\ wave = CoreEndpoints
                       /\ WaveWritten
                       /\ Untouched(Endpoints \ CoreEndpoints)
    /\ pc = "wave2" => /\ wave = FirewallEndpoints(data.nodes)
                       /\ WaveWritten
                       /\ AllWalked(CoreEndpoints)
                       /\ Untouched(Endpoints \ Required(data.nodes))
    /\ pc \in {"extended", "publish"} =>
                       /\ AllWalked(Required(data.nodes))
                       /\ Untouched(Endpoints \ Required(data.nodes))
    /\ pc = "publish" => data.extracted /\ data.fetchedAt = cycle

LEMMA AppendPage ==
    ASSUME NEW ps \in Seq(Pages), NEW c, NEW n \in Nat \ {0}, Partial(ps, c, n),
           NEW b \in BOOLEAN, NEW w \in Pages,
           w = [cycle |-> c, number |-> n, last |-> b]
    PROVE  IF b THEN Walked(Append(ps, w), c) ELSE Partial(Append(ps, w), c, n + 1)
<1> DEFINE qs == Append(ps, w)
<1>1. /\ Len(qs) = Len(ps) + 1 /\ Len(ps) \in Nat
      /\ \A k \in 1..Len(ps) : qs[k] = ps[k]
      /\ qs[Len(ps) + 1] = w /\ qs # <<>>
  BY AppendProperties
<1>2. Len(ps) = n - 1
  BY DEF Partial
<1> HIDE DEF qs
<1>3. \A k \in 1..Len(qs) :
         qs[k] = IF k = n THEN w ELSE [cycle |-> c, number |-> k, last |-> FALSE]
  BY <1>1, <1>2 DEF Partial
<1>4. Len(qs) = n
  BY <1>1, <1>2
<1>5. CASE b
  <2>1. \A k \in 1..Len(qs) : qs[k] = [cycle |-> c, number |-> k, last |-> k = Len(qs)]
    BY <1>3, <1>4, <1>5
  <2> QED
    BY <1>1, <1>5, <2>1 DEF Walked, qs
<1>6. CASE ~b
  <2>1. \A k \in 1..Len(qs) : qs[k] = [cycle |-> c, number |-> k, last |-> FALSE]
    BY <1>3, <1>4, <1>6
  <2> QED
    BY <1>4, <1>6, <2>1 DEF Partial, qs
<1> QED
  BY <1>5, <1>6

(* A handler of the current wave writes its own endpoint, and extends its  *)
(* walk by the page the cursor named.                                      *)
LEMMA WalkStep ==
    ASSUME TypeOK, WaveWritten, NEW e \in wave, Dispatch(e)
    PROVE  /\ \A f \in Endpoints : f # e => data'.pages[f] = data.pages[f]
           /\ payload[e].kind = "last" => Walked(data'.pages[e], cycle)
           /\ payload[e].kind = "more" => Partial(data'.pages[e], cycle, cursor[e] + 1)
<1>1. e \in Endpoints
  BY DEF CycleTypeOK, TypeOK
<1>2. /\ data'.pages = [data.pages EXCEPT ![e] = Append(@, Written(e))]
      /\ Written(e) \in Pages
      /\ data.pages \in [Endpoints -> Seq(Pages)]
  BY <1>1, DispatchEffect DEF CycleTypeOK, TypeOK, Snapshots
<1>3. Partial(data.pages[e], cycle, cursor[e])
  BY DEF WaveWritten, Dispatch, Alive
<1>4. data'.pages[e] = Append(data.pages[e], Written(e)) /\ data.pages[e] \in Seq(Pages)
  BY <1>1, <1>2
<1>5. cursor[e] \in Nat \ {0}
  BY <1>1, GatherAssumption DEF CycleTypeOK, TypeOK
<1>6. CASE payload[e].kind = "last"
  <2>1. Written(e) = [cycle |-> cycle, number |-> cursor[e], last |-> TRUE]
    BY <1>6 DEF Written
  <2>2. Walked(Append(data.pages[e], Written(e)), cycle)
    BY <1>2, <1>3, <1>4, <1>5, <2>1, AppendPage
  <2>3. \A f \in Endpoints : f # e => data'.pages[f] = data.pages[f]
    BY <1>2
  <2> QED
    BY <1>4, <1>6, <2>2, <2>3
<1>7. CASE payload[e].kind = "more"
  <2>1. Written(e) = [cycle |-> cycle, number |-> cursor[e], last |-> FALSE]
    BY <1>7 DEF Written
  <2>2. Partial(Append(data.pages[e], Written(e)), cycle, cursor[e] + 1)
    BY <1>2, <1>3, <1>4, <1>5, <2>1, AppendPage
  <2> QED
    BY <1>1, <1>2, <1>4, <1>7, <2>2
<1> QED
  BY <1>1, <1>2, <1>6, <1>7

(* Only the listing of the nodes, which wave 1 asks for, changes the nodes.*)
LEMMA NodesStable ==
    ASSUME TypeInv, WalkInv, NEW e \in wave, Dispatch(e), pc = "wave2"
    PROVE  data'.nodes = data.nodes
<1>1. e \in FirewallEndpoints(data.nodes) /\ e \in Endpoints
  BY DEF WalkInv, TypeInv, CycleTypeOK, TypeOK
<1>2. e # NodeListing
  BY <1>1, GatherAssumption DEF FirewallEndpoints, NodeListing
<1>3. payload[e].nodes = {}
  BY <1>1, <1>2 DEF TypeInv, PayloadInv
<1> QED
  BY <1>1, <1>3, DispatchEffect DEF TypeInv

(* A step of goroutine e that keeps what the wave has written consistent.  *)
LEMMA GoroutineWalk ==
    ASSUME TypeInv, CountInv, WalkInv, NEW e \in Endpoints, Alive(e),
           UNCHANGED <<pc, cycle, wave>>, WaveWritten',
           \A f \in Endpoints : f \notin wave => data'.pages[f] = data.pages[f],
           pc = "wave2" => data'.nodes = data.nodes
    PROVE  WalkInv'
<1>1. pc \in {"wave1", "wave2"} /\ wave \in SUBSET Endpoints
  BY DEF CountInv, TypeInv, CycleTypeOK, TypeOK
<1>2. \A f \in CoreEndpoints : f \in Endpoints /\ f \notin FirewallEndpoints(data.nodes)
  BY GatherAssumption DEF CoreEndpoints, FirewallEndpoints, Endpoints
<1>3. CASE pc = "wave1"
  BY <1>1, <1>2, <1>3 DEF WalkInv, Untouched
<1>4. CASE pc = "wave2"
  <2>1. wave = FirewallEndpoints(data.nodes) /\ data'.nodes = data.nodes
    BY <1>4 DEF WalkInv
  <2>2. AllWalked(CoreEndpoints)'
    BY <1>2, <1>4, <2>1 DEF WalkInv, AllWalked, CoreEndpoints
  <2>3. Untouched(Endpoints \ Required(data.nodes))'
    BY <1>4, <2>1 DEF WalkInv, Untouched, Required, FirewallEndpoints, CoreEndpoints, Endpoints
  <2> QED
    BY <1>4, <2>1, <2>2, <2>3 DEF WalkInv, FirewallEndpoints
<1> QED
  BY <1>1, <1>3, <1>4

(* Each step keeps the walks. *)
LEMMA WalkKept ==
    ASSUME TypeInv, TypeInv', CountInv, CountInv', WalkInv, [Next]_vars
    PROVE  WalkInv'
<1>0. TypeOK /\ TypeOK'
  BY DEF TypeInv
<1>1. CASE StartCycle
  <2>1. CoreEndpoints \in SUBSET Endpoints /\ StartWave(CoreEndpoints)
    BY <1>1 DEF Endpoints, StartCycle
  <2>2. /\ pc' = "wave1" /\ wave' = CoreEndpoints /\ data' = EmptyData
        /\ \A e \in CoreEndpoints : cursor'[e] = 1 /\ go'[e] = "fetch"
    BY <1>0, <1>1, <2>1, StartWaveType DEF StartCycle
  <2>3. \A e \in Endpoints : data'.pages[e] = <<>>
    BY <2>2 DEF EmptyData
  <2>4. WaveWritten'
    BY <2>1, <2>2, <2>3 DEF WaveWritten, Partial
  <2> QED
    BY <2>2, <2>3, <2>4 DEF WalkInv, Untouched
<1>2. CASE Receive
  BY <1>2 DEF Receive, goroutines, WalkInv, WaveWritten, Alive, AllWalked, Untouched,
     CoreEndpoints, Required, FirewallEndpoints
<1>3. CASE Abandon \/ Publish
  <2>1. pc' = "sleep"
    BY <1>3 DEF Abandon, Publish
  <2> QED
    BY <2>1 DEF WalkInv
<1>4. CASE StartWave2
  <2>1. /\ WaveReceived /\ errs = 0 /\ pc = "wave1" /\ pc' = "wave2"
        /\ UNCHANGED <<data, cycle>>
        /\ StartWave(FirewallEndpoints(data.nodes))
    BY <1>4 DEF StartWave2, WaveSucceeded
  <2>2. FirewallEndpoints(data.nodes) \in SUBSET (Endpoints \ CoreEndpoints)
    BY <1>0, GatherAssumption
    DEF Endpoints, CoreEndpoints, FirewallEndpoints, Snapshots, CycleTypeOK, TypeOK
  <2>3. AllWalked(CoreEndpoints)
    BY <1>0, <2>1, WaveDrained DEF WalkInv, WaveWritten, AllWalked
  <2>4. Untouched(Endpoints \ CoreEndpoints)
    BY <2>1 DEF WalkInv
  <2>5. /\ wave' = FirewallEndpoints(data.nodes)
        /\ \A e \in wave' : cursor'[e] = 1 /\ go'[e] = "fetch"
    BY <1>0, <2>1, <2>2, StartWaveType
  <2>6. WaveWritten'
    BY <2>1, <2>2, <2>4, <2>5 DEF WaveWritten, Partial, Untouched
  <2> QED
    BY <2>1, <2>3, <2>4, <2>5, <2>6
    DEF WalkInv, AllWalked, Untouched, CoreEndpoints, Required, FirewallEndpoints
<1>5. CASE StartExtended
  <2>1. /\ WaveReceived /\ errs = 0 /\ pc = "wave2" /\ pc' = "extended"
        /\ UNCHANGED <<data, cycle>>
    BY <1>5 DEF StartExtended, WaveSucceeded
  <2>2. AllWalked(FirewallEndpoints(data.nodes))
    BY <1>0, <2>1, WaveDrained DEF WalkInv, WaveWritten, AllWalked
  <2> QED
    BY <2>1, <2>2 DEF WalkInv, AllWalked, Untouched, CoreEndpoints, Required, FirewallEndpoints
<1>6. CASE RunCollector \/ Stamp
  <2>1. /\ data'.pages = data.pages /\ data'.nodes = data.nodes
        /\ pc = "extended" /\ pc' \in {"extended", "publish"} /\ UNCHANGED cycle
        /\ pc' = "publish" => data'.extracted /\ data'.fetchedAt = cycle
    <3>1. data \in Snapshots
      BY <1>0 DEF CycleTypeOK, TypeOK
    <3>2. CASE RunCollector
      <4>1. PICK c : data' = [data EXCEPT !.sections = @ \cup {c}] \/ data' = data
        BY <3>2, Zenon DEF RunCollector
      <4>2. data'.pages = data.pages /\ data'.nodes = data.nodes
        BY <3>1, <4>1 DEF Snapshots
      <4> QED
        BY <3>2, <4>2 DEF RunCollector
    <3>3. CASE Stamp
      <4>1. data' = [data EXCEPT !.extracted = TRUE, !.fetchedAt = cycle]
        BY <3>3 DEF Stamp
      <4>2. /\ data'.pages = data.pages /\ data'.nodes = data.nodes
            /\ data'.extracted /\ data'.fetchedAt = cycle
        BY <3>1, <4>1 DEF Snapshots
      <4> QED
        BY <3>3, <4>2 DEF Stamp
    <3> QED
      BY <1>6, <3>2, <3>3
  <2> QED
    BY <2>1 DEF WalkInv, AllWalked, Untouched, CoreEndpoints, Required, FirewallEndpoints
<1>7. ASSUME NEW e \in Endpoints, FetchFails(e) \/ Fetch(e) PROVE WalkInv'
  <2>1. Alive(e) /\ UNCHANGED <<pc, cycle, wave, data, cursor>>
    BY <1>7 DEF FetchFails, Fetch, Alive
  <2>2. \A f \in Endpoints : /\ Alive(f)' => Alive(f)
                             /\ go'[f] = "done" => go[f] = "done"
    BY <1>0, <1>7 DEF FetchFails, Finish, Fetch, Alive, CycleTypeOK, TypeOK
  <2>3. WaveWritten /\ wave \in SUBSET Endpoints
    BY <1>0, <2>1 DEF WalkInv, CountInv, CycleTypeOK, TypeOK
  <2>4. WaveWritten'
    BY <2>1, <2>2, <2>3 DEF WaveWritten
  <2> QED
    BY <2>1, <2>4, GoroutineWalk
<1>8. ASSUME NEW e \in Endpoints, HandlePanics(e) \/ HandleLast(e) \/ HandleMore(e)
      PROVE  WalkInv'
  <2>1. /\ Dispatch(e) /\ Alive(e) /\ UNCHANGED <<pc, cycle, wave>>
    BY <1>8 DEF HandlePanics, HandleLast, HandleMore, Dispatch, Alive
  <2>2. e \in wave /\ WaveWritten /\ wave \in SUBSET Endpoints
    BY <1>0, <2>1 DEF WalkInv, CountInv, CycleTypeOK, TypeOK
  <2>3. /\ \A f \in Endpoints : f # e => data'.pages[f] = data.pages[f]
        /\ payload[e].kind = "last" => Walked(data'.pages[e], cycle)
        /\ payload[e].kind = "more" => Partial(data'.pages[e], cycle, cursor[e] + 1)
    BY <1>0, <2>1, <2>2, WalkStep
  <2>4. \A f \in Endpoints : f # e => go'[f] = go[f] /\ cursor'[f] = cursor[f]
    BY <1>0, <1>8 DEF HandlePanics, HandleLast, HandleMore, Finish, CycleTypeOK, TypeOK
  <2>5. /\ Alive(e)' => payload[e].kind = "more" /\ cursor'[e] = cursor[e] + 1
        /\ go'[e] = "done" => payload[e].kind = "last"
    BY <1>0, <1>8 DEF HandlePanics, HandleLast, HandleMore, Finish, Alive, CycleTypeOK, TypeOK
  <2>6. WaveWritten'
    BY <2>1, <2>2, <2>3, <2>4, <2>5 DEF WaveWritten, Alive
  <2> QED
    BY <2>1, <2>2, <2>3, <2>6, NodesStable, GoroutineWalk
<1>9. CASE UNCHANGED vars
  BY <1>9 DEF vars, goroutines, WalkInv, WaveWritten, Alive, AllWalked, Untouched,
     CoreEndpoints, Required, FirewallEndpoints
<1> QED
  BY <1>1, <1>2, <1>3, <1>4, <1>5, <1>6, <1>7, <1>8, <1>9
  DEF Next, Collector, Goroutine

LEMMA WalkingInit == Init => WalkInv
BY DEF CycleInit, Init, WalkInv

LEMMA Walking == Spec => []WalkInv
<1>1. /\ TypeInv /\ TypeInv' /\ CountInv /\ CountInv' /\ WalkInv /\ [Next]_vars
      => WalkInv'
  BY WalkKept
<1> QED
  BY <1>1, WalkingInit, Typing, Counting, PTL DEF Spec

-----------------------------------------------------------------------------
(* What is published.                                                      *)

LEMMA PublishesComplete ==
    ASSUME WalkInv, Publish
    PROVE  cache'.extracted /\ Complete(cache') /\ cache'.fetchedAt = cycle
<1>1. /\ pc = "publish" /\ cache' = data
      /\ data.extracted /\ data.fetchedAt = cycle
  BY DEF Publish, WalkInv
<1>2. AllWalked(Required(data.nodes)) /\ Untouched(Endpoints \ Required(data.nodes))
  BY <1>1 DEF WalkInv
<1>3. Complete(data)
  BY <1>1, <1>2 DEF Complete, AllWalked, Untouched
<1> QED
  BY <1>1, <1>3

LEMMA CacheKept ==
    ASSUME [Next]_vars, ~Publish
    PROVE  cache' = cache
BY DEF Next, Collector, Goroutine, StartCycle, Receive, Abandon, StartWave2, StartExtended,
   RunCollector, Stamp, FetchFails, Fetch, HandlePanics, HandleLast, HandleMore, vars

(* The exporter serves nothing, or a snapshot in which every page of every *)
(* core endpoint and the firewall figures of every management node are     *)
(* there exactly once, all fetched by one cycle.                           *)
THEOREM Publication == Spec => []PublishedComplete
<1>1. Init => PublishedComplete
  BY DEF CycleInit, Init, PublishedComplete, EmptyData
<1>2. WalkInv /\ PublishedComplete /\ [Next]_vars => PublishedComplete'
  <2> SUFFICES ASSUME WalkInv, PublishedComplete, [Next]_vars PROVE PublishedComplete'
    OBVIOUS
  <2>1. CASE Publish
    BY <2>1, PublishesComplete DEF PublishedComplete
  <2>2. CASE ~Publish
    <3>1. cache' = cache
      BY <2>2, CacheKept
    <3> QED
      BY <3>1 DEF PublishedComplete, Complete, Required, Walked, EmptyData, CoreEndpoints,
         FirewallEndpoints, Endpoints
  <2> QED
    BY <2>1, <2>2
<1> QED
  BY <1>1, <1>2, Walking, PTL DEF Spec

(* The collector implements CollectorCycle: cycles follow one another, a   *)
(* cycle replaces the snapshot by a complete one of its own or leaves it.  *)
THEOREM Refinement == Spec => ImplementsCollectorCycle
<1>1. Init => Abstract!Init
  BY DEF CycleInit, Init, Abstract!Init, Abstract!NoSnapshot, Shown, EmptyData
<1>2. TypeInv /\ WalkInv /\ [Next]_vars => [Abstract!Next]_(Abstract!vars)
  <2> SUFFICES ASSUME TypeInv, WalkInv, [Next]_vars
               PROVE  Abstract!Next \/ UNCHANGED Abstract!vars
    OBVIOUS
  <2>1. cache' = cache => Shown(cache') = Shown(cache)
    OBVIOUS
  <2>2. CASE StartCycle
    <3>1. cache' = cache /\ cycle' = cycle + 1 /\ cycle < MaxCycles
          /\ pc = "sleep" /\ pc' = "wave1"
      BY <2>2 DEF StartCycle
    <3> QED
      BY <2>1, <3>1 DEF Abstract!Next, Abstract!Begin
  <2>3. CASE Abandon
    <3>1. cache' = cache /\ cycle' = cycle /\ pc # "sleep" /\ pc' = "sleep"
      BY <2>3 DEF Abandon
    <3> QED
      BY <2>1, <3>1 DEF Abstract!Next, Abstract!Abandon
  <2>4. CASE Publish
    <3>1. pc # "sleep" /\ pc' = "sleep" /\ cycle' = cycle /\ cache' = data
      BY <2>4 DEF Publish
    <3>2. Shown(cache') = [cycle |-> cycle, nodes |-> data.nodes, sections |-> data.sections]
      BY <2>4, <3>1, PublishesComplete DEF Shown
    <3>3. data.nodes \in SUBSET Nodes /\ data.sections \in SUBSET Sections
      BY DEF TypeInv, CycleTypeOK, TypeOK, Snapshots
    <3> QED
      BY <3>1, <3>2, <3>3 DEF Abstract!Next, Abstract!Publish, Abstract!CompleteSnapshots
  <2>5. CASE ~StartCycle /\ ~Abandon /\ ~Publish
    <3>1. cache' = cache
      BY <2>5, CacheKept
    <3>2. cycle' = cycle /\ (pc' = "sleep" <=> pc = "sleep")
      BY <2>5 DEF Next, Collector, Goroutine, Receive, StartWave2, StartExtended,
         RunCollector, Stamp, FetchFails, Fetch, HandlePanics, HandleLast, HandleMore, vars
    <3> QED
      BY <2>1, <3>1, <3>2 DEF Abstract!vars
  <2> QED
    BY <2>2, <2>3, <2>4, <2>5
<1> QED
  BY <1>1, <1>2, Typing, Walking, PTL DEF Spec, ImplementsCollectorCycle, Abstract!Spec
=============================================================================
