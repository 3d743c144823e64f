------------------------- MODULE SnapshotCache_proofs -------------------------
(***************************************************************************)
(* Theorems about SnapshotCache for any set of words, any reading order,   *)
(* any order of the copy and any number of concurrent scrapes.  CopyInv    *)
(* ties the words to the progress of the copy; from it follows what one    *)
(* read can return, and from that what a whole scrape can show.            *)
(***************************************************************************)
EXTENDS SnapshotCache, SequenceTheorems, TLAPS

(* Copies do not overlap, and only words still to be copied are old. *)
CopyInv ==
    /\ begun <= completed + 1
    /\ tocopy # {} => begun = completed + 1
    /\ CacheIsRecent

(* A word read now is of the last complete publication or of the one being *)
(* copied.                                                                 *)
LEMMA ReadIsRecent ==
    ASSUME TypeOK, CopyInv, NEW w \in Words
    PROVE  /\ cache[w] \in completed..begun
           /\ completed \in Nat /\ begun \in Nat
           /\ begun <= completed + 1
BY CacheAssumption DEF TypeOK, CopyInv, CacheIsRecent

(* One more element on what a scrape has read. *)
LEMMA SeenAppend ==
    ASSUME TypeOK, NEW r \in Scrapes, NEW v \in 0..begun,
           seen' = [seen EXCEPT ![r] = Append(@, v)]
    PROVE  /\ seen' \in [Scrapes -> Seq(0..begun)]
           /\ \A q \in Scrapes : q # r => seen'[q] = seen[q]
           /\ Len(seen'[r]) = Len(seen[r]) + 1 /\ Len(seen[r]) \in Nat
           /\ \A i \in 1..Len(seen[r]) : seen'[r][i] = seen[r][i]
           /\ seen'[r][Len(seen[r]) + 1] = v
<1>1. seen \in [Scrapes -> Seq(0..begun)] /\ seen[r] \in Seq(0..begun)
  BY DEF TypeOK
<1> DEFINE s == Append(seen[r], v)
<1>2. /\ s \in Seq(0..begun)
      /\ Len(s) = Len(seen[r]) + 1 /\ Len(seen[r]) \in Nat
      /\ \A i \in 1..Len(seen[r]) : s[i] = seen[r][i]
      /\ s[Len(seen[r]) + 1] = v
  BY <1>1, AppendProperties
<1>3. seen' = [seen EXCEPT ![r] = s]
  OBVIOUS
<1> HIDE DEF s
<1>4. /\ seen'[r] = s
      /\ \A q \in Scrapes : q # r => seen'[q] = seen[q]
      /\ seen' \in [Scrapes -> Seq(0..begun)]
  BY <1>1, <1>2, <1>3
<1> QED
  BY <1>2, <1>4

(* The word a scrape reports next. *)
LEMMA NextWord ==
    ASSUME TypeOK, NEW r \in Scrapes, ReportWord(r)
    PROVE  ReadOrder[Len(seen[r])] \in Words
BY CacheAssumption DEF ReportWord

(* The cache is made of publications that have begun, and so is what       *)
(* scrapes have read.                                                      *)
THEOREM TypeCorrect == Spec => []TypeOK
<1>1. Init => TypeOK
  BY CacheAssumption DEF Init, TypeOK
<1>2. TypeOK /\ [Next]_vars => TypeOK'
  <2> SUFFICES ASSUME TypeOK, [Next]_vars PROVE TypeOK'
    OBVIOUS
  <2>1. \A n \in Nat : 0..n \in SUBSET (0..(n + 1)) /\ Seq(0..n) \in SUBSET Seq(0..(n + 1))
    OBVIOUS
  <2>2. CASE BeginCopy
    <3>1. begun \in Nat /\ begun' = begun + 1 /\ begun < MaxPublications
      BY <2>2, CacheAssumption DEF BeginCopy, TypeOK
    <3>2. 0..begun \in SUBSET (0..begun') /\ Seq(0..begun) \in SUBSET Seq(0..begun')
      BY <2>1, <3>1
    <3>3. seen' \in [Scrapes -> Seq(0..begun')] /\ cache' \in [Words -> 0..begun']
      BY <2>2, <3>2 DEF BeginCopy, TypeOK
    <3> QED
      BY <2>2, <3>1, <3>3, CacheAssumption DEF BeginCopy, TypeOK
  <2>3. ASSUME NEW w \in Words, CopyWord(w) PROVE TypeOK'
    BY <2>3, CacheAssumption DEF CopyWord, TypeOK
  <2>4. CASE EndCopy
    BY <2>4, CacheAssumption DEF EndCopy, TypeOK
  <2>5. ASSUME NEW r \in Scrapes, Scrape(r) PROVE TypeOK'
    BY <2>5, CacheAssumption DEF Scrape, TypeOK
  <2>6. ASSUME NEW r \in Scrapes, CheckFlag(r) PROVE TypeOK'
    <3>1. seen' = seen \/ seen' = [seen EXCEPT ![r] = <<cache[Flag]>>]
      BY <2>6 DEF CheckFlag
    <3>2. cache[Flag] \in 0..begun
      BY CacheAssumption DEF TypeOK
    <3>3. <<cache[Flag]>> \in Seq(0..begun)
      BY <3>2
    <3>4. seen' \in [Scrapes -> Seq(0..begun)]
      BY <3>1, <3>3 DEF TypeOK
    <3>5. at' \in [Scrapes -> {"idle", "check", "report"}]
      BY <2>6 DEF CheckFlag, TypeOK
    <3> QED
      BY <2>6, <3>4, <3>5 DEF CheckFlag, TypeOK
  <2>7. ASSUME NEW r \in Scrapes, ReportWord(r) PROVE TypeOK'
    <3> DEFINE v == cache[ReadOrder[Len(seen[r])]]
    <3>1. v \in 0..begun
      BY <2>7, NextWord DEF TypeOK
    <3>2. seen' = [seen EXCEPT ![r] = Append(@, v)]
      BY <2>7 DEF ReportWord
    <3> HIDE DEF v
    <3>3. seen' \in [Scrapes -> Seq(0..begun)]
      BY <3>1, <3>2, SeenAppend
    <3> QED
      BY <2>7, <3>3 DEF ReportWord, TypeOK
  <2>8. ASSUME NEW r \in Scrapes, EndScrape(r) PROVE TypeOK'
    BY <2>8 DEF EndScrape, TypeOK
  <2>9. CASE UNCHANGED vars
    BY <2>9 DEF vars, TypeOK
  <2> QED
    BY <2>2, <2>3, <2>4, <2>5, <2>6, <2>7, <2>8, <2>9 DEF Next
<1> QED
  BY <1>1, <1>2, PTL DEF Spec

LEMMA Copying == Spec => []CopyInv
<1>1. Init => CopyInv
  BY DEF Init, CopyInv, CacheIsRecent
<1>2. TypeOK /\ CopyInv /\ [Next]_vars => CopyInv'
  <2> SUFFICES ASSUME TypeOK, CopyInv, [Next]_vars PROVE CopyInv'
    OBVIOUS
  <2>1. CASE BeginCopy
    BY <2>1, CacheAssumption DEF BeginCopy, CopyInv, CacheIsRecent, TypeOK
  <2>2. ASSUME NEW w \in Words, CopyWord(w) PROVE CopyInv'
    <3>1. \A u \in Words : cache'[u] = IF u = w THEN begun ELSE cache[u]
      BY <2>2 DEF CopyWord, TypeOK
    <3> QED
      BY <2>2, <3>1 DEF CopyWord, CopyInv, CacheIsRecent, TypeOK
  <2>3. CASE EndCopy
    BY <2>3, CacheAssumption DEF EndCopy, CopyInv, CacheIsRecent, TypeOK
  <2>4. CASE UNCHANGED <<cache, begun, completed, tocopy>>
    BY <2>4 DEF CopyInv, CacheIsRecent
  <2> QED
    BY <2>1, <2>2, <2>3, <2>4 DEF Next, Scrape, CheckFlag, ReportWord, EndScrape, vars
<1> QED
  BY <1>1, <1>2, TypeCorrect, PTL DEF Spec

(* Nothing in the cache is older than the last complete publication. *)
THEOREM CacheRecent == Spec => []CacheIsRecent
<1>1. CopyInv => CacheIsRecent
  BY DEF CopyInv
<1> QED
  BY <1>1, Copying, PTL

(* What a scrape has read lies in its window, and the last word of it is   *)
(* not older than what was complete when any earlier one was read.         *)
ScrapeInv ==
    \A r \in Scrapes :
        /\ \A i \in 1..Len(seen[r]) : seen[r][i] \in start[r]..begun
        /\ \A j \in 1..Len(seen[r]) : \A i \in 1..(j - 1) : seen[r][i] <= seen[r][j] + 1

(* A read that returns a recent word keeps the scrape in its window. *)
LEMMA ReadKeepsWindow ==
    ASSUME TypeOK, CopyInv, ScrapeInv, NEW r \in Scrapes, NEW w \in Words,
           seen' = [seen EXCEPT ![r] = Append(@, cache[w])],
           UNCHANGED <<begun, start>>
    PROVE  ScrapeInv'
<1>1. /\ cache[w] \in completed..begun /\ completed \in Nat /\ begun \in Nat
      /\ begun <= completed + 1
  BY ReadIsRecent
<1> DEFINE v == cache[w]
<1>a. v \in 0..begun /\ seen' = [seen EXCEPT ![r] = Append(@, v)]
  BY <1>1
<1> HIDE DEF v
<1>2. /\ \A q \in Scrapes : q # r => seen'[q] = seen[q]
      /\ Len(seen'[r]) = Len(seen[r]) + 1 /\ Len(seen[r]) \in Nat
      /\ \A i \in 1..Len(seen[r]) : seen'[r][i] = seen[r][i]
      /\ seen'[r][Len(seen[r]) + 1] = v
  BY <1>a, SeenAppend
<1>3. start[r] \in Nat /\ start[r] <= completed
  BY <1>1 DEF TypeOK
<1>4. \A i \in 1..Len(seen[r]) : seen[r][i] \in start[r]..begun
  BY DEF ScrapeInv
<1>5. \A i \in 1..Len(seen'[r]) : seen'[r][i] \in start[r]..begun
  BY <1>1, <1>2, <1>3, <1>4 DEF v
<1>6. \A i \in 1..Len(seen[r]) : seen'[r][i] <= v + 1
  BY <1>1, <1>2, <1>3, <1>4 DEF v
<1>7. \A j \in 1..Len(seen'[r]) : \A i \in 1..(j - 1) : seen'[r][i] <= seen'[r][j] + 1
  <2> SUFFICES ASSUME NEW j \in 1..Len(seen'[r]), NEW i \in 1..(j - 1)
               PROVE  seen'[r][i] <= seen'[r][j] + 1
    OBVIOUS
  <2>1. CASE j = Len(seen[r]) + 1
    BY <1>2, <1>6, <2>1
  <2>2. CASE j \in 1..Len(seen[r])
    <3>1. seen[r][i] <= seen[r][j] + 1 /\ i \in 1..Len(seen[r])
      BY <1>2, <2>2 DEF ScrapeInv
    <3> QED
      BY <1>2, <2>2, <3>1
  <2> QED
    BY <1>2, <2>1, <2>2
<1> QED
  BY <1>2, <1>5, <1>7 DEF ScrapeInv

LEMMA Scraping == Spec => []ScrapeInv
<1>1. Init => ScrapeInv
  BY DEF Init, ScrapeInv
<1>2. TypeOK /\ TypeOK' /\ CopyInv /\ ScrapeInv /\ [Next]_vars => ScrapeInv'
  <2> SUFFICES ASSUME TypeOK, TypeOK', CopyInv, ScrapeInv, [Next]_vars PROVE ScrapeInv'
    OBVIOUS
  <2>1. CASE UNCHANGED <<seen, start>>
    <3>1. begun \in Nat /\ begun' \in Nat /\ begun <= begun'
      BY CacheAssumption DEF TypeOK, Next, BeginCopy, CopyWord, EndCopy, Scrape, CheckFlag,
         ReportWord, EndScrape, vars
    <3>2. \A r \in Scrapes : start[r]..begun \in SUBSET (start[r]..begun')
      BY <3>1 DEF TypeOK
    <3> QED
      BY <2>1, <3>2 DEF ScrapeInv
  <2>2. ASSUME NEW r \in Scrapes, Scrape(r) PROVE ScrapeInv'
    BY <2>2 DEF Scrape, ScrapeInv, TypeOK
  <2>3. ASSUME NEW r \in Scrapes, CheckFlag(r), ~UNCHANGED seen PROVE ScrapeInv'
    <3>1. cache[Flag] \in completed..begun /\ start[r] \in Nat /\ start[r] <= completed
          /\ completed \in Nat /\ begun \in Nat
      BY ReadIsRecent, CacheAssumption DEF TypeOK
    <3>2. seen' = [seen EXCEPT ![r] = <<cache[Flag]>>] /\ UNCHANGED <<begun, start>>
      BY <2>3 DEF CheckFlag
    <3>3. \A q \in Scrapes : seen'[q] = IF q = r THEN <<cache[Flag]>> ELSE seen[q]
      BY <3>2 DEF TypeOK
    <3> QED
      BY <3>1, <3>2, <3>3 DEF ScrapeInv
  <2>4. ASSUME NEW r \in Scrapes, ReportWord(r) PROVE ScrapeInv'
    BY <2>4, NextWord, ReadKeepsWindow DEF ReportWord
  <2> QED
    BY <2>1, <2>2, <2>3, <2>4
    DEF Next, BeginCopy, CopyWord, EndCopy, CheckFlag, EndScrape, vars
<1> QED
  BY <1>1, <1>2, TypeCorrect, Copying, PTL DEF Spec

(* A scrape shows nothing older than what was complete when it started and *)
(* nothing that had not begun; if nothing begins meanwhile, one snapshot.  *)
THEOREM Window == Spec => []ScrapeInWindow
<1>1. TypeOK /\ ScrapeInv => ScrapeInWindow
  <2> SUFFICES ASSUME TypeOK, ScrapeInv, NEW r \in Scrapes
               PROVE  /\ \A i \in 1..Len(seen[r]) : seen[r][i] \in start[r]..begun
                      /\ begun = start[r] =>
                            \A i, j \in 1..Len(seen[r]) : seen[r][i] = seen[r][j]
    BY DEF ScrapeInWindow
  <2>1. \A i \in 1..Len(seen[r]) : seen[r][i] \in start[r]..begun
    BY DEF ScrapeInv
  <2>2. start[r] \in Nat /\ begun \in Nat
    BY CacheAssumption DEF TypeOK
  <2>3. ASSUME begun = start[r], NEW i \in 1..Len(seen[r]) PROVE seen[r][i] = begun
    BY <2>1, <2>2, <2>3
  <2> QED
    BY <2>1, <2>3
<1> QED
  BY <1>1, TypeCorrect, Scraping, PTL

(* Later words of a scrape are at most one publication older than earlier  *)
(* ones, however many publications the scrape lives through.               *)
THEOREM BoundedFallBack == Spec => []FallsBackAtMostOne
<1>1. ScrapeInv => FallsBackAtMostOne
  BY DEF ScrapeInv, FallsBackAtMostOne
<1> QED
  BY <1>1, Scraping, PTL
=============================================================================
