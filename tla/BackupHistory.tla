----------------------------- MODULE BackupHistory -----------------------------
(***************************************************************************)
(* collectBackup and summarizeBackupHistory: NSX-T's history of backup     *)
(* attempts becomes three numbers.  NSX-T keeps a bounded history, so the  *)
(* list of one cycle may lack what an earlier cycle saw: a call is given   *)
(* any list, and only what a call does with its own list is stated.        *)
(*                                                                         *)
(* The three histories of the answer (cluster, node, inventory) are        *)
(* summarised alike and separately; the module follows one.                *)
(***************************************************************************)
EXTENDS FanOut, SequencesExt

CONSTANTS Times,        \* start times, in the seconds of the metric
          MaxAttempts   \* bound: attempts in the history

ASSUME BackupHistoryAssumption == Times \subseteq Nat /\ MaxAttempts \in Nat

VARIABLES history,   \* the list of the answer
          Backup     \* data.Backup

backupVars == <<history, Backup>>

Attempts == [t : Times, success : BOOLEAN]

NotCollected == [attempt |-> "not collected"]

BackupInit ==
    /\ FanOutInit
    /\ history = <<>>
    /\ Backup = NotCollected

-----------------------------------------------------------------------------
(* summarizeBackupHistory *)

(* latestIdx: the first entry of the latest start time. *)
LatestIdx(h) ==
    CHOOSE i \in DOMAIN h :
        /\ \A j \in DOMAIN h : h[j].t <= h[i].t
        /\ \A j \in 1..(i - 1) : h[j].t < h[i].t

Mutant_BeforeEquals(h, ordered, i) ==
    LET stop == Max({0} \cup {k \in DOMAIN ordered : h[ordered[k]].t > h[i].t})
    IN  InsertAt(ordered, stop + 1, i)

(* The inner loop of the insertion sort: attempt i moves left past the      *)
(* attempts that are older than it, and stops behind the last that is not. *)
Insert(h, ordered, i) ==
    LET stop == Max({0} \cup {k \in DOMAIN ordered : h[ordered[k]].t >= h[i].t})
    IN  InsertAt(ordered, stop + 1, i)

(* The outer loop: what is sorted after its first i rounds. *)
Rounds(h) ==
    LET ordered[i \in 0..Len(h)] == IF i = 0 THEN <<>> ELSE Insert(h, ordered[i - 1], i)
    IN  ordered

Mutant_Unsorted(h) == [i \in DOMAIN h |-> i]

(* ordered: the indexes of the attempts, newest first. *)
Ordered(h) == Rounds(h)[Len(h)]

(* The place in that order of the newest success, or 0. *)
FirstSuccess(h) == SelectInSeq(Ordered(h), LAMBDA i : h[i].success)

(* Failures before the first success, newest first. *)
ConsecutiveFailures(h) == IF FirstSuccess(h) = 0 THEN Len(h) ELSE FirstSuccess(h) - 1

LastSuccessTimestamp(h) ==
    LET last == h[LatestIdx(h)]
    IN  IF FirstSuccess(h) # 0 THEN h[Ordered(h)[FirstSuccess(h)]].t
        ELSE IF last.success THEN last.t ELSE 0

Summary(h) ==
    IF h = <<>>
    THEN [attempt |-> "none", lastSuccess |-> 0, failures |-> 0]
    ELSE [attempt |-> IF h[LatestIdx(h)].success THEN "success" ELSE "failure",
          lastSuccess |-> LastSuccessTimestamp(h),
          failures |-> ConsecutiveFailures(h)]

-----------------------------------------------------------------------------
(* In the order that NSX-T lists them; the code relies on none. *)
CollectBackup ==
    /\ call = "listing"
    /\ \E n \in 0..MaxAttempts : \E answer \in [1..n -> Attempts] :
         /\ history' = answer
         /\ Backup' = Summary(answer)
    /\ call' = "returned"
    /\ UNCHANGED <<listed, walks, pending>>

(* Get fails: the cycle has no backup data. *)
BackupFails ==
    /\ call = "listing"
    /\ call' = "failed"
    /\ UNCHANGED <<listed, walks, pending, backupVars>>

BackupNext == CollectBackup \/ BackupFails

BackupSpec == BackupInit /\ [][BackupNext]_<<fanOutVars, backupVars>>

-----------------------------------------------------------------------------
(* Properties. *)

BackupTypeOK ==
    /\ history \in Seq(Attempts)
    /\ Backup = NotCollected \/ Backup \in
        [attempt : {"none", "success", "failure"}, lastSuccess : Times \cup {0},
         failures : 0..Len(history)]

Successes == {i \in DOMAIN history : history[i].success}
Failures == DOMAIN history \ Successes

(* What the metrics' help texts promise, of the attempts that NSX-T still  *)
(* lists and in any order: the last success is the latest start time of a  *)
(* success, 0 if there is none, and the failures counted since are those   *)
(* later than it, with those of the same start time counted or not as the  *)
(* list orders them.                                                       *)
SummaryCorrect ==
    Backup # NotCollected =>
        LET last == Backup.lastSuccess
            after == {i \in Failures : history[i].t > last}
            notBefore == {i \in Failures : history[i].t >= last}
        IN  /\ IF Successes = {} THEN last = 0
               ELSE /\ \E i \in Successes : history[i].t = last
                    /\ \A i \in Successes : history[i].t <= last
            /\ Backup.failures \in Cardinality(after)..Cardinality(notBefore)

(* The latest attempt is found in one loop and the failures are counted in *)
(* another, over a sorted copy.  Whatever attempts share a start time, the *)
(* two agree: the last attempt succeeded exactly if no failure follows the *)
(* last success.                                                           *)
LoopsAgree ==
    Backup # NotCollected =>
        /\ (Backup.attempt = "none") <=> (history = <<>>)
        /\ (Backup.attempt = "failure") <=> (Backup.failures > 0)
=============================================================================
