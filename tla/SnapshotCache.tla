----------------------------- MODULE SnapshotCache -----------------------------
(***************************************************************************)
(* Exporter.Cache, which the collector goroutine writes (e.Cache = data)   *)
(* while Prometheus scrapes read it (Collect, processMetrics).  Nothing    *)
(* synchronises the two: the assignment copies Nsxv3Data word by word, and *)
(* a scrape reads it word by word.  A word is a machine word: of a slice   *)
(* the pointer, the length and the capacity are three.                     *)
(*                                                                         *)
(* A word is known by the number of the publication that wrote it; 0 is    *)
(* the zero value the exporter starts with.  Module Gather says which      *)
(* cycles publish: one that failed never reaches the assignment.  What a   *)
(* published pointer refers to is never written again, since every cycle   *)
(* fills in a new Nsxv3Data.                                               *)
(*                                                                         *)
(* The copy runs in any order that CopiedBefore allows: none for a copy    *)
(* about which nothing is assumed, the order of declaration for a memmove. *)
(* A scrape reads in program order, its sends on the metrics channel keep  *)
(* the reads apart.                                                        *)
(***************************************************************************)
EXTENDS Naturals, Sequences

CONSTANTS Words,            \* machine words of Nsxv3Data
          Flag,             \* the word ExtractedActualValues
          ReadOrder,        \* the words processMetrics reads, in order, after the flag
          CopiedBefore,     \* pairs of words the copy writes in this order
          Scrapes,          \* handlers of /metrics requests
          MaxPublications   \* bound: publications

ASSUME CacheAssumption ==
    /\ Flag \in Words
    /\ ReadOrder \in Seq(Words)
    /\ CopiedBefore \subseteq Words \X Words
    /\ MaxPublications \in Nat

VARIABLES cache,      \* Exporter.Cache: the publication that wrote each word
          begun,      \* publications begun
          completed,  \* publications whose copy is complete
          tocopy,     \* words the copy under way has still to write
          at,         \* where each scrape is
          seen,       \* what each scrape has read so far, the flag first
          start       \* publications complete when the scrape started

vars == <<cache, begun, completed, tocopy, at, seen, start>>

Init ==
    /\ cache = [w \in Words |-> 0]
    /\ begun = 0
    /\ completed = 0
    /\ tocopy = {}
    /\ at = [r \in Scrapes |-> "idle"]
    /\ seen = [r \in Scrapes |-> <<>>]
    /\ start = [r \in Scrapes |-> 0]

-----------------------------------------------------------------------------
(* The collector goroutine. *)

Mutant_CopiesOverlap ==
    /\ begun < MaxPublications
    /\ begun' = begun + 1
    /\ tocopy' = Words
    /\ UNCHANGED <<cache, completed, at, seen, start>>

(* A cycle succeeded: the assignment e.Cache = data begins. *)
BeginCopy ==
    /\ begun = completed
    /\ begun < MaxPublications
    /\ begun' = begun + 1
    /\ tocopy' = Words
    /\ UNCHANGED <<cache, completed, at, seen, start>>

CopyWord(w) ==
    /\ w \in tocopy
    /\ \A u \in tocopy : <<u, w>> \notin CopiedBefore
    /\ cache' = [cache EXCEPT ![w] = begun]
    /\ tocopy' = tocopy \ {w}
    /\ UNCHANGED <<begun, completed, at, seen, start>>

Mutant_EndCopyEarly ==
    /\ begun # completed
    /\ completed' = begun
    /\ UNCHANGED <<cache, begun, tocopy, at, seen, start>>

(* The assignment is over: CollectAsync returns. *)
EndCopy ==
    /\ begun # completed
    /\ tocopy = {}
    /\ completed' = begun
    /\ UNCHANGED <<cache, begun, tocopy, at, seen, start>>

-----------------------------------------------------------------------------
(* A scrape r. *)

Mutant_ScrapeResumes(r) ==
    /\ at[r] = "idle"
    /\ at' = [at EXCEPT ![r] = IF seen[r] = <<>> THEN "check" ELSE "report"]
    /\ start' = [start EXCEPT ![r] = completed]
    /\ UNCHANGED <<cache, begun, completed, tocopy, seen>>

(* Prometheus calls Collect. *)
Scrape(r) ==
    /\ at[r] = "idle"
    /\ at' = [at EXCEPT ![r] = "check"]
    /\ seen' = [seen EXCEPT ![r] = <<>>]
    /\ start' = [start EXCEPT ![r] = completed]
    /\ UNCHANGED <<cache, begun, completed, tocopy>>

(* processMetrics returns an error and reports nothing unless the flag is  *)
(* set.                                                                    *)
CheckFlag(r) ==
    /\ at[r] = "check"
    /\ \/ /\ cache[Flag] = 0
          /\ at' = [at EXCEPT ![r] = "idle"]
          /\ UNCHANGED seen
       \/ /\ cache[Flag] # 0
          /\ at' = [at EXCEPT ![r] = "report"]
          /\ seen' = [seen EXCEPT ![r] = <<cache[Flag]>>]
    /\ UNCHANGED <<cache, begun, completed, tocopy, start>>

(* The next word goes into a metric. *)
ReportWord(r) ==
    /\ at[r] = "report"
    /\ Len(seen[r]) \in 1..Len(ReadOrder)
    /\ seen' = [seen EXCEPT ![r] = Append(@, cache[ReadOrder[Len(@)]])]
    /\ UNCHANGED <<cache, begun, completed, tocopy, at, start>>

EndScrape(r) ==
    /\ at[r] = "report"
    /\ Len(seen[r]) = Len(ReadOrder) + 1
    /\ at' = [at EXCEPT ![r] = "idle"]
    /\ UNCHANGED <<cache, begun, completed, tocopy, seen, start>>

-----------------------------------------------------------------------------
Next ==
    \/ BeginCopy
    \/ \E w \in Words : CopyWord(w)
    \/ EndCopy
    \/ \E r \in Scrapes : Scrape(r) \/ CheckFlag(r) \/ ReportWord(r) \/ EndScrape(r)

Spec == Init /\ [][Next]_vars

-----------------------------------------------------------------------------
(* Properties. *)

(* Every variable has its type, which the proofs start from. *)
TypeOK ==
    /\ cache \in [Words -> 0..begun]
    /\ begun \in 0..MaxPublications
    /\ completed \in 0..begun
    /\ tocopy \in SUBSET Words
    /\ at \in [Scrapes -> {"idle", "check", "report"}]
    /\ seen \in [Scrapes -> Seq(0..begun)]
    /\ start \in [Scrapes -> 0..completed]

(* The cache never holds anything older than the last complete             *)
(* publication, and while nothing is being copied it is that publication.  *)
CacheIsRecent ==
    \A w \in Words :
        cache[w] = IF w \in tocopy THEN completed ELSE begun

(* A scrape that started after publication n was complete shows nothing    *)
(* older than n, nor anything not yet published when it read it; so one    *)
(* during which nothing is published shows one snapshot.                   *)
ScrapeInWindow ==
    \A r \in Scrapes :
        /\ \A i \in 1..Len(seen[r]) : seen[r][i] \in start[r]..begun
        /\ begun = start[r] => \A i, j \in 1..Len(seen[r]) : seen[r][i] = seen[r][j]

(* However long a scrape takes, it never falls back by more than one       *)
(* publication: a word read after another one is at most one older.        *)
FallsBackAtMostOne ==
    \A r \in Scrapes : \A j \in 1..Len(seen[r]) : \A i \in 1..(j - 1) :
        seen[r][i] <= seen[r][j] + 1

(* "Nsxv3Data represent the current snapshot of metrics" (structs.go:102): *)
(* all that one scrape reports comes from one snapshot.  As processMetrics *)
(* "will not report any metrics" before the flag is set (metrics.go:251),  *)
(* that snapshot is then one that a cycle extracted, not the zero value.   *)
(* Even of one slice the pointer and the length may differ in this.        *)
OneSnapshot ==
    \A r \in Scrapes : \A i, j \in 1..Len(seen[r]) : seen[r][i] = seen[r][j]
=============================================================================
