------------------------------- MODULE Exporter -------------------------------
(***************************************************************************)
(* The exporter as a whole: the collector goroutine and its waves (module  *)
(* Gather), the copy of what they gathered into Exporter.Cache and the     *)
(* scrapes that read it meanwhile (module SnapshotCache), over one memory. *)
(*                                                                         *)
(* Gather copies the data in one step and SnapshotCache knows a word only  *)
(* by the publication that wrote it.  Here a word of the cache has the     *)
(* value that the copy found in data, and a goroutine of a wave that were  *)
(* still alive could write to data during the copy.  Both modules turn out *)
(* to be true to this one: see Atomic and WordByWord below.                *)
(*                                                                         *)
(* A word is a machine word, the most that the copy writes or a scrape     *)
(* reads at once.  A field of several words (a slice header, a string, a   *)
(* group of figures) may be found half written, and the copy keeps no      *)
(* order of words: Go promises neither.                                    *)
(***************************************************************************)
EXTENDS Gather

CONSTANTS PartsOf,    \* the machine words of each kind of field of Nsxv3Data
          ReadOrder,  \* the words processMetrics reads, in order, after the flag
          Scrapes     \* handlers of /metrics requests

VARIABLES published,  \* history: what each copy, complete or not, was started with
          completed,  \* copies that are complete
          tocopy,     \* words the copy under way has still to write
          at,         \* where each scrape is
          shown,      \* what each scrape has read so far, the flag first
          seen,       \* history: of which copies
          start       \* copies complete when the scrape started

collecting == <<pc, cycle, data, wave, goroutines, channel, step>>
copying == <<published, completed, tocopy>>
scraping == <<at, shown, seen, start>>
exporterVars == <<collecting, cache, copying, scraping>>

(* The fields of Nsxv3Data that the model tells apart.  The firewall       *)
(* figures of a node are reached through the node list.                    *)
Fields == {<<"nodes">>, <<"extracted">>, <<"fetchedAt">>}
          \cup {<<"pages", e>> : e \in CoreEndpoints}
          \cup {<<"sections", c>> : c \in Sections}

Value(d, f) ==
    CASE f[1] = "nodes" -> [nodes    |-> d.nodes,
                            firewall |-> [e \in FirewallEndpoints(Nodes) |-> d.pages[e]]]
      [] f[1] = "pages" -> d.pages[f[2]]
      [] f[1] = "sections" -> f[2] \in d.sections
      [] OTHER -> d[f[1]]

(* A machine word is known by the value of the field that it is part of:   *)
(* two words of one field that show different values have been mixed.      *)
Words == UNION {[field : {f}, part : PartsOf[f[1]]] : f \in Fields}
Flag == [field |-> <<"extracted">>, part |-> "value"]

WordsOf(d) == [w \in Words |-> Value(d, w.field)]

ASSUME ExporterAssumption ==
    /\ DOMAIN PartsOf = {"nodes", "pages", "sections", "extracted", "fetchedAt"}
    /\ PartsOf["extracted"] = {"value"}
    /\ ReadOrder \in Seq(Words)

(* What the k-th copy was started with; before the first one the cache has *)
(* its zero value.                                                         *)
Publication(k) == IF k = 0 THEN EmptyData ELSE published[k]
Begun == Len(published)

(* The copy that wrote each word of the cache. *)
Origin == [w \in Words |-> IF w \in tocopy THEN completed ELSE Begun]

ExporterInit ==
    /\ CycleInit
    /\ cache = WordsOf(EmptyData)
    /\ published = <<>>
    /\ completed = 0
    /\ tocopy = {}
    /\ at = [r \in Scrapes |-> "idle"]
    /\ shown = [r \in Scrapes |-> <<>>]
    /\ seen = [r \in Scrapes |-> <<>>]
    /\ start = [r \in Scrapes |-> 0]

-----------------------------------------------------------------------------
(* e.Cache = data, at the end of CollectAsync. *)

Mutant_PublishesAnyway ==
    /\ \/ pc = "publish"
       \/ pc \in {"wave1", "wave2"} /\ WaveReceived
    /\ Begun = completed
    /\ published' = Append(published, data)
    /\ tocopy' = Words
    /\ UNCHANGED <<collecting, cache, completed, scraping>>

BeginCopy ==
    /\ pc = "publish"
    /\ Begun = completed
    /\ published' = Append(published, data)
    /\ tocopy' = Words
    /\ UNCHANGED <<collecting, cache, completed, scraping>>

CopyWord(w) ==
    /\ w \in tocopy
    /\ cache' = [cache EXCEPT ![w] = Value(data, w.field)]
    /\ tocopy' = tocopy \ {w}
    /\ UNCHANGED <<collecting, published, completed, scraping>>

Mutant_EndCopyEarly ==
    /\ Begun # completed
    /\ completed' = Begun
    /\ pc' = "sleep"
    /\ UNCHANGED <<cycle, data, cache, wave, goroutines, channel, step>>
    /\ UNCHANGED <<published, tocopy, scraping>>

(* The assignment is over: CollectAsync returns and the loop goes to sleep. *)
EndCopy ==
    /\ Begun # completed
    /\ tocopy = {}
    /\ completed' = Begun
    /\ pc' = "sleep"
    /\ UNCHANGED <<cycle, data, cache, wave, goroutines, channel, step>>
    /\ UNCHANGED <<published, tocopy, scraping>>

-----------------------------------------------------------------------------
(* A scrape r. *)

(* Prometheus calls Collect. *)
Scrape(r) ==
    /\ at[r] = "idle"
    /\ at' = [at EXCEPT ![r] = "check"]
    /\ shown' = [shown EXCEPT ![r] = <<>>]
    /\ seen' = [seen EXCEPT ![r] = <<>>]
    /\ start' = [start EXCEPT ![r] = completed]
    /\ UNCHANGED <<collecting, cache, copying>>

(* One read of the cache: a machine word. *)
Read(r, w) ==
    /\ shown' = [shown EXCEPT ![r] = Append(@, cache[w])]
    /\ seen' = [seen EXCEPT ![r] = Append(@, Origin[w])]

(* processMetrics reports nothing unless the flag is set. *)
CheckFlag(r) ==
    /\ at[r] = "check"
    /\ \/ /\ ~cache[Flag]
          /\ at' = [at EXCEPT ![r] = "idle"]
          /\ UNCHANGED <<shown, seen>>
       \/ /\ cache[Flag]
          /\ at' = [at EXCEPT ![r] = "report"]
          /\ Read(r, Flag)
    /\ UNCHANGED <<collecting, cache, copying, start>>

(* The next word goes into a metric. *)
ReportWord(r) ==
    /\ at[r] = "report"
    /\ Len(shown[r]) \in 1..Len(ReadOrder)
    /\ Read(r, ReadOrder[Len(shown[r])])
    /\ UNCHANGED <<collecting, cache, copying, at, start>>

EndScrape(r) ==
    /\ at[r] = "report"
    /\ Len(shown[r]) = Len(ReadOrder) + 1
    /\ at' = [at EXCEPT ![r] = "idle"]
    /\ UNCHANGED <<collecting, cache, copying, shown, seen, start>>

-----------------------------------------------------------------------------
(* The cycle up to the copy, as in Gather. *)
Gathering ==
    /\ \/ StartCycle \/ Receive \/ Abandon \/ StartWave2 \/ StartExtended
       \/ RunCollector \/ Stamp
       \/ \E e \in Endpoints : Goroutine(e)
    /\ UNCHANGED <<copying, scraping>>

Copying == BeginCopy \/ (\E w \in Words : CopyWord(w)) \/ EndCopy

Scraping(r) == Scrape(r) \/ CheckFlag(r) \/ ReportWord(r) \/ EndScrape(r)

ExporterNext == Gathering \/ Copying \/ \E r \in Scrapes : Scraping(r)

ExporterSpec == ExporterInit /\ [][ExporterNext]_exporterVars

-----------------------------------------------------------------------------
(* Properties. *)

TypeOf(f) ==
    CASE f[1] = "nodes" -> [nodes    : SUBSET Nodes,
                            firewall : [FirewallEndpoints(Nodes) -> Seq(Pages)]]
      [] f[1] = "pages" -> Seq(Pages)
      [] f[1] = "fetchedAt" -> 0..MaxCycles
      [] OTHER -> BOOLEAN

(* Every variable has its type, that of the cycle and of every word of the *)
(* cache included.                                                         *)
ExporterTypeOK ==
    /\ CycleTypeOK
    /\ DOMAIN cache = Words /\ \A w \in Words : cache[w] \in TypeOf(w.field)
    /\ published \in Seq(Snapshots)
    /\ completed \in 0..Begun
    /\ tocopy \in SUBSET Words
    /\ at \in [Scrapes -> {"idle", "check", "report"}]
    /\ seen \in [Scrapes -> Seq(0..Begun)]
    /\ DOMAIN shown = Scrapes /\ \A r \in Scrapes : Len(shown[r]) = Len(seen[r])
    /\ start \in [Scrapes -> 0..completed]

(* The field a scrape's i-th read is of. *)
FieldRead(i) == IF i = 1 THEN Flag.field ELSE ReadOrder[i - 1].field

(* Every machine word that a scrape reads is the word of a snapshot that   *)
(* some cycle gathered whole, every page of every endpoint and the figures *)
(* of its own nodes, or the zero value if nothing was published when the   *)
(* scrape began; and that cycle is none before the one that was published  *)
(* last when the scrape began.  No word of a cycle under way, nor of one   *)
(* that was abandoned, is ever read.  Which words go together it does not  *)
(* say: two of one scrape, and even two of one field, may be of different  *)
(* cycles (OneSnapshot of SnapshotCache), unless nothing was published     *)
(* meanwhile.                                                              *)
WordsReadWereGathered ==
    \A r \in Scrapes : \A i \in 1..Len(shown[r]) :
        \E k \in start[r]..Begun :
            /\ k > 0 => Publication(k).extracted /\ Complete(Publication(k))
            /\ shown[r][i] = Value(Publication(k), FieldRead(i))

(* Once gather has stamped the data nobody writes to it: not while it is   *)
(* copied, and not afterwards, when the cache shares the slices it refers  *)
(* to.  The next cycle begins with an Nsxv3Data of its own.                *)
StampedIsFinal == [][data.extracted => data' \in {data, EmptyData}]_exporterVars

(* To a reader who sees only the last complete copy, the copy is the one   *)
(* step that Gather takes it for.                                          *)
Served == Publication(completed)
Atomic == INSTANCE Gather WITH cache <- Served
ImplementsGather == Atomic!Spec

(* To one who cannot tell values apart but only copies, the exporter is    *)
(* what SnapshotCache takes it for: in particular the flag is set exactly  *)
(* when some copy has written it, and the word that is written is of the   *)
(* copy that began last.                                                   *)
WordByWord == INSTANCE SnapshotCache WITH
    cache <- Origin, begun <- Begun, CopiedBefore <- {}, MaxPublications <- MaxCycles
ImplementsSnapshotCache == WordByWord!Spec
=============================================================================
