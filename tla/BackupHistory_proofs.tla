-------------------------- MODULE BackupHistory_proofs --------------------------
(***************************************************************************)
(* The summary of a history is right for every history, of any length, in  *)
(* any order and with any start times in common.                           *)
(*                                                                         *)
(* The loops of the insertion sort are the recursive function Rounds; what *)
(* they compute is proved by induction over the rounds, in the form of a   *)
(* statement about sets of natural numbers (LeastNumbers!StepByStep).      *)
(***************************************************************************)
EXTENDS BackupHistory, LeastNumbers, FiniteSetTheorems, SequenceTheorems

Histories == Seq(Attempts)

(* What the sort is to put first: the later attempt and, of two that started*)
(* at the same time, the one that the history lists first.                 *)
Newer(h, i, j) == h[i].t > h[j].t \/ (h[i].t = h[j].t /\ i < j)

(* o lists the first n attempts of h, newest first. *)
IsOrdering(h, o, n) ==
    /\ o \in [1..n -> 1..n]
    /\ \A i \in 1..n : \E k \in 1..n : o[k] = i
    /\ \A k, l \in 1..n : k < l => Newer(h, o[k], o[l])

-----------------------------------------------------------------------------
(* Max and Min are what they are called. *)

LEMMA MaxUpTo ==
    ASSUME NEW n \in Nat, NEW S \in SUBSET (0..n), S # {}
    PROVE  Max(S) \in S /\ \A y \in S : Max(S) >= y
  BY GreatestOf DEF Max

LEMMA MinOf ==
    ASSUME NEW S \in SUBSET Nat, S # {}
    PROVE  Min(S) \in S /\ \A y \in S : Min(S) <= y
  BY LeastOf DEF Min

-----------------------------------------------------------------------------
(* The sort. *)

LEMMA Inserted ==
    ASSUME NEW S, NEW s \in Seq(S), NEW p \in 1..(Len(s) + 1), NEW e \in S
    PROVE  /\ InsertAt(s, p, e) \in Seq(S)
           /\ Len(InsertAt(s, p, e)) = Len(s) + 1
           /\ \A j \in 1..(Len(s) + 1) : InsertAt(s, p, e)[j] =
                 IF j < p THEN s[j] ELSE IF j = p THEN e ELSE s[j - 1]
  <1> DEFINE before == SubSeq(s, 1, p - 1)
             after == SubSeq(s, p, Len(s))
  <1>1. before \in Seq(S) /\ Len(before) = p - 1 /\ \A j \in 1..(p - 1) : before[j] = s[j]
    <2>1. \A i \in 1..(p - 1) : s[i] \in S
      BY ElementOfSeq, LenProperties
    <2> QED
      BY <2>1, SubSeqProperties, LenProperties
  <1>2. /\ after \in Seq(S) /\ Len(after) = Len(s) - p + 1
        /\ \A j \in 1..(Len(s) - p + 1) : after[j] = s[p + j - 1]
    <2>1. \A i \in p..Len(s) : s[i] \in S
      BY ElementOfSeq, LenProperties
    <2> QED
      BY <2>1, SubSeqProperties, LenProperties
  <1>3. <<e>> \in Seq(S) /\ Len(<<e>>) = 1 /\ <<e>>[1] = e
    OBVIOUS
  <1> DEFINE front == before \o <<e>>
  <1> HIDE DEF before, after
  <1>4. /\ front \in Seq(S) /\ Len(front) = p
        /\ \A j \in 1..p : front[j] = IF j < p THEN before[j] ELSE e
    BY <1>1, <1>3, ConcatProperties, LenProperties
  <1> HIDE DEF front
  <1>5. /\ front \o after \in Seq(S) /\ Len(front \o after) = Len(s) + 1
        /\ \A j \in 1..(Len(s) + 1) :
             (front \o after)[j] = IF j <= p THEN front[j] ELSE after[j - p]
    <2>1. Len(front) + Len(after) = Len(s) + 1 /\ Len(front) = p
      BY <1>2, <1>4, LenProperties
    <2>2. /\ front \o after \in Seq(S)
          /\ Len(front \o after) = Len(front) + Len(after)
          /\ \A j \in 1..(Len(front) + Len(after)) :
               (front \o after)[j] = IF j <= Len(front) THEN front[j] ELSE after[j - Len(front)]
      BY <1>2, <1>4, ConcatProperties
    <2> QED
      BY <2>1, <2>2
  <1>6. InsertAt(s, p, e) = front \o after
    BY DEF InsertAt, front, before, after
  <1>7. ASSUME NEW j \in 1..(Len(s) + 1)
        PROVE  (front \o after)[j] = IF j < p THEN s[j] ELSE IF j = p THEN e ELSE s[j - 1]
    <2>1. Len(s) \in Nat
      BY LenProperties
    <2>2. CASE j <= p
      <3>1. (front \o after)[j] = front[j] /\ j \in 1..p
        BY <1>5, <2>1, <2>2
      <3>2. front[j] = IF j < p THEN before[j] ELSE e
        BY <1>4, <3>1
      <3>3. j < p => before[j] = s[j] /\ j # p
        BY <1>1, <3>1
      <3>4. ~(j < p) => j = p
        BY <3>1
      <3> QED
        BY <3>1, <3>2, <3>3, <3>4, Zenon
    <2>3. CASE j > p
      <3>1. j - p \in 1..(Len(s) - p + 1) /\ p + (j - p) - 1 = j - 1
        BY <2>1, <2>3
      <3>2. ~(j <= p) /\ ~(j < p) /\ j # p
        BY <2>1, <2>3
      <3>3. (front \o after)[j] = after[j - p]
        BY <1>5, <3>2
      <3>4. after[j - p] = s[j - 1]
        BY <1>2, <3>1
      <3> QED
        BY <3>2, <3>3, <3>4
    <2>4. j <= p \/ j > p
      BY <2>1
    <2> QED
      BY <2>2, <2>3, <2>4, Zenon
  <1> QED
    BY <1>5, <1>6, <1>7

LEMMA TimesOf ==
    ASSUME NEW h \in Histories, NEW i \in DOMAIN h
    PROVE  h[i] \in Attempts /\ h[i].t \in Nat /\ h[i].success \in BOOLEAN
  <1>1. h[i] \in Attempts
    BY DEF Histories
  <1> QED
    BY <1>1, BackupHistoryAssumption DEF Attempts

(* Attempt n + 1 finds its place among the first n. *)
LEMMA InsertOrders ==
    ASSUME NEW h \in Histories, NEW n \in Nat, n + 1 <= Len(h), NEW o, IsOrdering(h, o, n)
    PROVE  IsOrdering(h, Insert(h, o, n + 1), n + 1)
  <1> DEFINE a == n + 1
             S == {0} \cup {k \in DOMAIN o : h[o[k]].t >= h[a].t}
             stop == Max(S)
             w == Insert(h, o, a)
  <1>1. o \in Seq(1..n) /\ Len(o) = n /\ DOMAIN o = 1..n
    <2>1. o \in [1..n -> 1..n]
      BY DEF IsOrdering
    <2> QED
      BY <2>1
  <1>2. stop \in S /\ \A y \in S : stop >= y
    <2>1. S \in SUBSET (0..n) /\ S # {}
      BY <1>1
    <2> QED
      BY <2>1, MaxUpTo
  <1>3. stop \in 0..n
    <2>1. \A y \in S : y \in 0..n
      BY <1>1
    <2> HIDE DEF S, stop
    <2> QED
      BY <1>2, <2>1
  <1> HIDE DEF stop, S
  <1>4. /\ w \in Seq(1..a) /\ Len(w) = a
        /\ \A j \in 1..a : w[j] = IF j < stop + 1 THEN o[j] ELSE IF j = stop + 1 THEN a ELSE o[j - 1]
    <2>1. o \in Seq(1..a) /\ stop + 1 \in 1..(Len(o) + 1) /\ a \in 1..a /\ Len(o) + 1 = a
      BY <1>1, <1>3
    <2>2. w = InsertAt(o, stop + 1, a)
      BY DEF Insert, stop, S
    <2> HIDE DEF a
    <2>3. /\ InsertAt(o, stop + 1, a) \in Seq(1..a)
          /\ Len(InsertAt(o, stop + 1, a)) = Len(o) + 1
          /\ \A j \in 1..(Len(o) + 1) : InsertAt(o, stop + 1, a)[j] =
                IF j < stop + 1 THEN o[j] ELSE IF j = stop + 1 THEN a ELSE o[j - 1]
      <3> DEFINE p == stop + 1
      <3>1. p \in 1..(Len(o) + 1)
        BY <2>1
      <3> HIDE DEF p
      <3>2. /\ InsertAt(o, p, a) \in Seq(1..a)
            /\ Len(InsertAt(o, p, a)) = Len(o) + 1
            /\ \A j \in 1..(Len(o) + 1) : InsertAt(o, p, a)[j] =
                  IF j < p THEN o[j] ELSE IF j = p THEN a ELSE o[j - 1]
        BY <2>1, <3>1, Inserted
      <3> QED
        BY <3>2 DEF p
    <2> HIDE DEF w
    <2> QED
      BY <2>1, <2>2, <2>3
  <1> HIDE DEF w
  <1>41. \A j \in 1..a : j <= stop => w[j] = o[j] /\ j \in 1..n
    BY <1>3, <1>4
  <1>42. stop + 1 \in 1..a /\ w[stop + 1] = a
    BY <1>3, <1>4
  <1>43. ASSUME NEW j \in 1..a, j > stop + 1
        PROVE  w[j] = o[j - 1] /\ j - 1 \in 1..n /\ j - 1 > stop
    <2>1. ~(j < stop + 1) /\ j # stop + 1 /\ j - 1 \in 1..n /\ j - 1 > stop
      BY <1>3, <1>43
    <2> QED
      BY <1>4, <2>1
  <1>5. \A k \in 1..n : o[k] \in 1..n /\ o[k] \in DOMAIN h /\ h[o[k]].t \in Nat
    <2>1. \A k \in 1..n : o[k] \in 1..n /\ o[k] \in DOMAIN h
      BY DEF IsOrdering, Histories
    <2> QED
      BY <2>1, TimesOf
  <1>6. h[a].t \in Nat
    <2>1. a \in DOMAIN h
      BY DEF Histories
    <2> QED
      BY <2>1, TimesOf
  <1>7. \A k \in 1..n : k <= stop => Newer(h, o[k], a)
    <2> SUFFICES ASSUME NEW k \in 1..n, k <= stop PROVE Newer(h, o[k], a)
      OBVIOUS
    <2>1. stop \in 1..n /\ h[o[stop]].t >= h[a].t
      BY <1>1, <1>2, <1>3 DEF S
    <2>2. k = stop \/ Newer(h, o[k], o[stop])
      BY <1>3, <2>1 DEF IsOrdering
    <2>3. h[o[k]].t \in Nat /\ h[o[stop]].t \in Nat /\ o[k] \in 1..n
      BY <1>5, <2>1
    <2> HIDE DEF a
    <2>4. k = stop => h[o[k]].t >= h[a].t
      BY <2>1
    <2>5. Newer(h, o[k], o[stop]) => h[o[k]].t >= h[o[stop]].t
      BY <2>3 DEF Newer
    <2>6. h[o[k]].t >= h[a].t
      <3> DEFINE p == h[o[k]].t
                 q == h[o[stop]].t
                 u == h[a].t
      <3>1. p \in Nat /\ q \in Nat /\ u \in Nat /\ q >= u
        BY <1>6, <2>1, <2>3
      <3>2. p >= u \/ p >= q
        BY <2>2, <2>4, <2>5
      <3> HIDE DEF p, q, u
      <3>3. p >= u
        BY <3>1, <3>2
      <3> QED
        BY <3>3 DEF p, u
    <2>7. o[k] < a
      BY <2>3 DEF a
    <2> QED
      BY <1>6, <2>3, <2>6, <2>7 DEF Newer
  <1>8. \A k \in 1..n : k > stop => Newer(h, a, o[k])
    <2> SUFFICES ASSUME NEW k \in 1..n, k > stop PROVE Newer(h, a, o[k])
      OBVIOUS
    <2>1. k \notin S
      BY <1>2, <1>3
    <2>2. ~(h[o[k]].t >= h[a].t)
      BY <1>1, <2>1 DEF S
    <2> QED
      BY <1>5, <1>6, <2>2 DEF Newer
  <1>9. \A k, l \in 1..a : k < l => Newer(h, w[k], w[l])
    <2> SUFFICES ASSUME NEW k \in 1..a, NEW l \in 1..a, k < l PROVE Newer(h, w[k], w[l])
      OBVIOUS
    <2>1. CASE l <= stop
      <3>1. k <= stop
        BY <1>3, <2>1
      <3>2. w[k] = o[k] /\ w[l] = o[l] /\ k \in 1..n /\ l \in 1..n
        BY <1>41, <2>1, <3>1
      <3> QED
        BY <3>2 DEF IsOrdering
    <2>2. CASE l = stop + 1
      <3>1. k <= stop
        BY <1>3, <2>2
      <3> QED
        BY <1>7, <1>41, <1>42, <2>2, <3>1
    <2>3. CASE l > stop + 1 /\ k <= stop
      <3>1. l - 1 > stop /\ l - 1 \in 1..n /\ w[l] = o[l - 1] /\ k \in 1..n /\ w[k] = o[k]
        BY <1>41, <1>43, <2>3
      <3>2. k < l - 1
        BY <1>3, <2>3, <3>1
      <3> QED
        BY <3>1, <3>2 DEF IsOrdering
    <2>4. CASE l > stop + 1 /\ k = stop + 1
      BY <1>8, <1>42, <1>43, <2>4
    <2>5. CASE l > stop + 1 /\ k > stop + 1
      <3>1. w[k] = o[k - 1] /\ w[l] = o[l - 1] /\ k - 1 \in 1..n /\ l - 1 \in 1..n
        BY <1>43, <2>5
      <3>2. k - 1 < l - 1
        OBVIOUS
      <3> QED
        BY <3>1, <3>2 DEF IsOrdering
    <2> QED
      BY <1>3, <2>1, <2>2, <2>3, <2>4, <2>5
  <1>10. \A i \in 1..a : \E k \in 1..a : w[k] = i
    <2> TAKE i \in 1..a
    <2>1. CASE i = a
      BY <1>42, <2>1
    <2>2. CASE i # a
      <3>1. PICK k \in 1..n : o[k] = i
        BY <2>2 DEF IsOrdering
      <3>2. CASE k <= stop
        <4>1. k \in 1..a
          OBVIOUS
        <4> QED
          BY <1>41, <3>1, <3>2, <4>1
      <3>3. CASE k > stop
        <4>1. k + 1 \in 1..a /\ k + 1 > stop + 1 /\ (k + 1) - 1 = k
          BY <1>3, <3>3
        <4>2. w[k + 1] = o[(k + 1) - 1]
          BY <1>43, <4>1
        <4> QED
          BY <3>1, <4>1, <4>2
      <3> QED
        BY <1>3, <3>2, <3>3
    <2> QED
      BY <2>1, <2>2
  <1>11. w \in [1..a -> 1..a]
    BY <1>4
  <1> QED
    BY <1>9, <1>10, <1>11 DEF IsOrdering, w

(* The first n rounds, as a function that recurs. *)
IsRounds(h, f, n) ==
    f = [i \in 0..n |-> IF i = 0 THEN <<>> ELSE Insert(h, f[i - 1], i)]

LEMMA RoundsExist ==
    ASSUME NEW h, NEW m \in Nat
    PROVE  \E f : IsRounds(h, f, m)
  <1> DEFINE S == {n \in Nat : \E f : IsRounds(h, f, n)}
  <1>1. 0 \in S
    <2> DEFINE f == [i \in 0..0 |-> <<>>]
    <2>1. IsRounds(h, f, 0)
      BY DEF IsRounds
    <2> QED
      BY <2>1
  <1>2. ASSUME NEW n \in S
        PROVE  n + 1 \in S
    <2>1. PICK f : IsRounds(h, f, n)
      OBVIOUS
    <2> DEFINE g == [i \in 0..(n + 1) |-> IF i = n + 1 THEN Insert(h, f[n], n + 1) ELSE f[i]]
    <2>2. ASSUME NEW i \in 0..(n + 1)
          PROVE  g[i] = IF i = 0 THEN <<>> ELSE Insert(h, g[i - 1], i)
      <3>1. CASE i = n + 1
        <4>1. g[n] = f[n] /\ g[i] = Insert(h, f[n], n + 1)
          BY <3>1
        <4> QED
          BY <3>1, <4>1
      <3>2. CASE i = 0
        BY <2>1, <3>2 DEF IsRounds
      <3>3. CASE i \in 1..n
        <4>1. g[i] = f[i] /\ g[i - 1] = f[i - 1]
          BY <3>3
        <4>2. f[i] = Insert(h, f[i - 1], i)
          BY <2>1, <3>3 DEF IsRounds
        <4> QED
          BY <3>3, <4>1, <4>2
      <3> QED
        BY <3>1, <3>2, <3>3
    <2>3. IsRounds(h, g, n + 1)
      BY <2>2 DEF IsRounds
    <2> QED
      BY <2>3
  <1> HIDE DEF S
  <1>3. m \in S
    BY <1>1, <1>2, StepByStep DEF S
  <1> QED
    BY <1>3 DEF S

LEMMA RoundsRecur ==
    ASSUME NEW h \in Histories
    PROVE  /\ Rounds(h)[0] = <<>>
           /\ \A i \in 1..Len(h) : Rounds(h)[i] = Insert(h, Rounds(h)[i - 1], i)
  <1>1. Len(h) \in Nat
    BY DEF Histories
  <1>2. \E f : f = [i \in 0..Len(h) |-> IF i = 0 THEN <<>> ELSE Insert(h, f[i - 1], i)]
    BY <1>1, RoundsExist DEF IsRounds
  <1>3. Rounds(h) = [i \in 0..Len(h) |-> IF i = 0 THEN <<>> ELSE Insert(h, Rounds(h)[i - 1], i)]
    BY <1>2 DEF Rounds
  <1> HIDE DEF Rounds
  <1> QED
    BY <1>1, <1>3

(* The loop invariant of the sort: after n rounds the first n attempts are  *)
(* in order.                                                               *)
LEMMA RoundsOrder ==
    ASSUME NEW h \in Histories
    PROVE  \A n \in 0..Len(h) : IsOrdering(h, Rounds(h)[n], n)
  <1> DEFINE S == {n \in Nat : n <= Len(h) => IsOrdering(h, Rounds(h)[n], n)}
  <1>1. 0 \in S
    <2>1. IsOrdering(h, <<>>, 0)
      BY DEF IsOrdering
    <2> QED
      BY <2>1, RoundsRecur
  <1>2. ASSUME NEW n \in S
        PROVE  n + 1 \in S
    <2> SUFFICES ASSUME n + 1 <= Len(h)
                 PROVE  IsOrdering(h, Rounds(h)[n + 1], n + 1)
      OBVIOUS
    <2>1. Len(h) \in Nat
      BY DEF Histories
    <2>2. IsOrdering(h, Rounds(h)[n], n)
      BY <2>1
    <2>3. n + 1 \in 1..Len(h) /\ (n + 1) - 1 = n
      BY <2>1
    <2>4. Rounds(h)[n + 1] = Insert(h, Rounds(h)[n], n + 1)
      BY <2>3, RoundsRecur
    <2> QED
      BY <2>2, <2>4, InsertOrders
  <1> HIDE DEF S
  <1>3. \A n \in Nat : n \in S
    BY <1>1, <1>2, StepByStep DEF S
  <1> QED
    BY <1>3 DEF S

(* What the sort leaves: every attempt once, newest first. *)
LEMMA Sorted ==
    ASSUME NEW h \in Histories
    PROVE  IsOrdering(h, Ordered(h), Len(h))
  <1>1. Len(h) \in 0..Len(h)
    BY DEF Histories
  <1> QED
    BY <1>1, RoundsOrder DEF Ordered

LEMMA SortedIs ==
    ASSUME NEW h \in Histories
    PROVE  /\ Len(h) \in Nat /\ DOMAIN h = 1..Len(h)
           /\ Ordered(h) \in [1..Len(h) -> 1..Len(h)]
           /\ Ordered(h) \in Seq(1..Len(h)) /\ Len(Ordered(h)) = Len(h)
           /\ \A k \in 1..Len(h) : Ordered(h)[k] \in 1..Len(h)
           /\ \A i \in 1..Len(h) : \E k \in 1..Len(h) : Ordered(h)[k] = i
           /\ \A k, l \in 1..Len(h) : k < l => Newer(h, Ordered(h)[k], Ordered(h)[l])
           /\ \A i \in 1..Len(h) : h[i].t \in Nat /\ h[i].success \in BOOLEAN
  <1>1. Len(h) \in Nat /\ DOMAIN h = 1..Len(h)
    BY DEF Histories
  <1>2. \A i \in 1..Len(h) : h[i].t \in Nat /\ h[i].success \in BOOLEAN
    BY <1>1, TimesOf
  <1>3. /\ Ordered(h) \in [1..Len(h) -> 1..Len(h)]
        /\ \A i \in 1..Len(h) : \E k \in 1..Len(h) : Ordered(h)[k] = i
        /\ \A k, l \in 1..Len(h) : k < l => Newer(h, Ordered(h)[k], Ordered(h)[l])
    BY Sorted DEF IsOrdering
  <1>4. Ordered(h) \in Seq(1..Len(h)) /\ Len(Ordered(h)) = Len(h)
    BY <1>1, <1>3, ListIsSeq
  <1>5. \A k \in 1..Len(h) : Ordered(h)[k] \in 1..Len(h)
    BY <1>3
  <1> QED
    BY <1>1, <1>2, <1>3, <1>4, <1>5

-----------------------------------------------------------------------------
(* The numbers of the summary. *)

(* The loop that finds the latest attempt finds the one the sort puts      *)
(* first.                                                                  *)
LEMMA LatestIsFirst ==
    ASSUME NEW h \in Histories, h # <<>>
    PROVE  Len(h) >= 1 /\ LatestIdx(h) = Ordered(h)[1]
  <1> DEFINE o == Ordered(h)
             n == Len(h)
             IsLatest(i) == /\ \A j \in 1..n : h[j].t <= h[i].t
                            /\ \A j \in 1..(i - 1) : h[j].t < h[i].t
  <1>1. n \in Nat /\ n >= 1 /\ DOMAIN h = 1..n
    <2>1. n # 0
      BY DEF Histories
    <2> QED
      BY <2>1, SortedIs
  <1> HIDE DEF o, n
  <1>2. o[1] \in 1..n /\ \A i \in 1..n : h[i].t \in Nat
    <2>1. 1 \in 1..n
      BY <1>1
    <2> QED
      BY <2>1, SortedIs DEF o, n
  <1>3. \A i \in 1..n : i = o[1] \/ Newer(h, o[1], i)
    <2> TAKE i \in 1..n
    <2>1. PICK k \in 1..n : o[k] = i
      BY SortedIs DEF o, n
    <2>2. 1 < k => Newer(h, o[1], o[k])
      BY <1>1, SortedIs DEF o, n
    <2> QED
      BY <1>1, <2>1, <2>2
  <1>4. \A i \in 1..n : i = o[1] \/ h[o[1]].t > h[i].t \/ (h[o[1]].t = h[i].t /\ o[1] < i)
    BY <1>3 DEF Newer
  <1>5. IsLatest(o[1])
    <2>1. \A j \in 1..n : h[j].t <= h[o[1]].t
      BY <1>2, <1>4
    <2>2. \A j \in 1..(o[1] - 1) : h[j].t < h[o[1]].t
      <3> TAKE j \in 1..(o[1] - 1)
      <3>1. j \in 1..n /\ j # o[1] /\ ~(o[1] < j)
        BY <1>1, <1>2
      <3> QED
        BY <1>2, <1>4, <3>1
    <2> QED
      BY <2>1, <2>2
  <1>6. ASSUME NEW i \in 1..n, IsLatest(i)
        PROVE  i = o[1]
    <2>1. ~(h[o[1]].t > h[i].t)
      BY <1>2, <1>6
    <2>2. ~(h[o[1]].t = h[i].t /\ o[1] < i)
      <3> SUFFICES ASSUME h[o[1]].t = h[i].t, o[1] < i PROVE FALSE
        OBVIOUS
      <3>1. o[1] \in 1..(i - 1)
        BY <1>1, <1>2
      <3>2. h[o[1]].t < h[i].t
        BY <1>6, <3>1
      <3> QED
        BY <1>2, <3>2
    <2> QED
      BY <1>4, <2>1, <2>2
  <1>7. LatestIdx(h) = CHOOSE i \in 1..n : IsLatest(i)
    BY <1>1 DEF LatestIdx
  <1> HIDE DEF IsLatest
  <1>8. LatestIdx(h) \in 1..n /\ IsLatest(LatestIdx(h))
    BY <1>2, <1>5, <1>7
  <1>9. LatestIdx(h) = o[1]
    BY <1>6, <1>8
  <1> QED
    BY <1>1, <1>9 DEF o, n

LEMMA FirstSuccessIs ==
    ASSUME NEW h \in Histories
    PROVE  /\ FirstSuccess(h) \in 0..Len(h)
           /\ FirstSuccess(h) = 0 => \A i \in 1..Len(h) : ~h[i].success
           /\ FirstSuccess(h) # 0 => h[Ordered(h)[FirstSuccess(h)]].success
           /\ FirstSuccess(h) # 0 => \A k \in 1..(FirstSuccess(h) - 1) : ~h[Ordered(h)[k]].success
  <1> DEFINE o == Ordered(h)
             I == {k \in 1..Len(o) : h[o[k]].success}
             f == FirstSuccess(h)
  <1>1. f = IF I # {} THEN Min(I) ELSE 0
    BY DEF FirstSuccess, SelectInSeq
  <1>2. Len(o) = Len(h) /\ Len(h) \in Nat
    BY SortedIs
  <1>3. CASE I = {}
    <2>1. f = 0
      BY <1>1, <1>3
    <2>2. \A k \in 1..Len(h) : ~h[o[k]].success
      BY <1>2, <1>3
    <2>3. \A i \in 1..Len(h) : \E k \in 1..Len(h) : o[k] = i
      BY SortedIs
    <2>4. \A i \in 1..Len(h) : ~h[i].success
      BY <2>2, <2>3
    <2> QED
      BY <1>2, <2>1, <2>4
  <1>4. CASE I # {}
    <2>1. f \in I /\ \A k \in I : f <= k
      <3>1. I \in SUBSET Nat
        OBVIOUS
      <3> HIDE DEF I
      <3> QED
        BY <1>1, <1>4, <3>1, MinOf
    <2>2. f \in 1..Len(h) /\ h[o[f]].success
      BY <1>2, <2>1
    <2>3. ASSUME NEW k \in 1..(f - 1)
          PROVE  ~h[o[k]].success
      <3>1. k \in 1..Len(o) /\ ~(f <= k)
        BY <1>2, <2>2
      <3> QED
        BY <2>1, <3>1
    <2> QED
      BY <1>2, <2>2, <2>3
  <1> QED
    BY <1>3, <1>4

(* Without a success among the attempts, the latest is none either. *)
LEMMA LastSuccessIs ==
    ASSUME NEW h \in Histories, h # <<>>
    PROVE  LastSuccessTimestamp(h) =
             IF FirstSuccess(h) # 0 THEN h[Ordered(h)[FirstSuccess(h)]].t ELSE 0
  <1>1. LatestIdx(h) \in 1..Len(h)
    <2>1. 1 \in 1..Len(h)
      BY LatestIsFirst, SortedIs
    <2> QED
      BY <2>1, LatestIsFirst, SortedIs
  <1> QED
    BY <1>1, FirstSuccessIs DEF LastSuccessTimestamp

LatestSuccess(h, last) ==
    IF \A i \in 1..Len(h) : ~h[i].success THEN last = 0
    ELSE /\ \E i \in 1..Len(h) : h[i].success /\ h[i].t = last
         /\ \A i \in 1..Len(h) : h[i].success => h[i].t <= last

LEMMA LastSuccessRight ==
    ASSUME NEW h \in Histories, h # <<>>
    PROVE  LatestSuccess(h, LastSuccessTimestamp(h))
  <1> DEFINE o == Ordered(h)
             n == Len(h)
             f == FirstSuccess(h)
  <1>1. CASE f = 0
    BY <1>1, FirstSuccessIs, LastSuccessIs DEF LatestSuccess
  <1>2. CASE f # 0
    <2>1. n \in Nat /\ f \in 1..n /\ h[o[f]].success /\ o[f] \in 1..n
      <3>1. n \in Nat /\ f \in 1..n /\ h[o[f]].success
        BY <1>2, FirstSuccessIs, SortedIs
      <3> QED
        BY <3>1, SortedIs
    <2>2. LastSuccessTimestamp(h) = h[o[f]].t
      BY <1>2, LastSuccessIs
    <2>3. ASSUME NEW i \in 1..n, h[i].success
          PROVE  h[i].t <= h[o[f]].t
      <3>1. PICK k \in 1..n : o[k] = i
        BY SortedIs
      <3>2. ~(k < f)
        <4>1. k < f => k \in 1..(f - 1)
          BY <2>1
        <4> QED
          BY <1>2, <2>3, <3>1, <4>1, FirstSuccessIs
      <3>3. k = f \/ Newer(h, o[f], o[k])
        <4>1. k = f \/ f < k
          BY <2>1, <3>2
        <4>2. f < k => Newer(h, o[f], o[k])
          BY <2>1, SortedIs
        <4> QED
          BY <4>1, <4>2
      <3>4. h[i].t \in Nat /\ h[o[f]].t \in Nat
        BY <2>1, SortedIs
      <3> QED
        BY <3>1, <3>3, <3>4 DEF Newer
    <2> QED
      BY <2>1, <2>2, <2>3 DEF LatestSuccess
  <1> QED
    BY <1>1, <1>2

LEMMA ListedOnce ==
    ASSUME NEW h \in Histories, NEW c \in 0..Len(h)
    PROVE  LET C == {Ordered(h)[k] : k \in 1..c}
           IN  /\ C \in SUBSET (1..Len(h))
               /\ IsFiniteSet(C) /\ Cardinality(C) = c
  <1> DEFINE o == Ordered(h)
             C == {o[k] : k \in 1..c}
             m == [k \in 1..c |-> o[k]]
  <1>1. Len(h) \in Nat /\ c \in Nat /\ \A k \in 1..c : k \in 1..Len(h)
    BY SortedIs
  <1>2. C \in SUBSET (1..Len(h))
    <2>1. \A k \in 1..c : o[k] \in 1..Len(h)
      BY <1>1, SortedIs
    <2> QED
      BY <2>1
  <1>3. \A k, l \in 1..c : k # l => o[k] # o[l]
    <2> SUFFICES ASSUME NEW k \in 1..c, NEW l \in 1..c, k # l PROVE o[k] # o[l]
      OBVIOUS
    <2>1. Newer(h, o[k], o[l]) \/ Newer(h, o[l], o[k])
      BY <1>1, SortedIs
    <2>2. o[k] \in 1..Len(h) /\ o[l] \in 1..Len(h)
      BY <1>1, SortedIs
    <2>3. h[o[k]].t \in Nat /\ h[o[l]].t \in Nat
      BY <2>2, SortedIs
    <2> QED
      BY <2>1, <2>2, <2>3 DEF Newer
  <1>4. m \in Bijection(1..c, C)
    <2>1. m \in [1..c -> C]
      OBVIOUS
    <2>2. m \in Injection(1..c, C)
      BY <1>3, <2>1 DEF Injection, IsInjective
    <2>3. m \in Surjection(1..c, C)
      BY <2>1 DEF Surjection
    <2> QED
      BY <2>2, <2>3 DEF Bijection
  <1>5. IsFiniteSet(1..c) /\ Cardinality(1..c) = c
    BY <1>1, FS_Interval
  <1>6. IsFiniteSet(C) /\ Cardinality(C) = c
    <2>1. ExistsBijection(1..c, C)
      BY <1>4 DEF ExistsBijection
    <2> HIDE DEF C
    <2> QED
      BY <1>5, <2>1, FS_Bijection
  <1> QED
    BY <1>2, <1>6

(* The attempts counted are failures no older than the last success, and   *)
(* all the failures newer than it are among them.                          *)
LEMMA CountedAre ==
    ASSUME NEW h \in Histories, h # <<>>
    PROVE  LET last == LastSuccessTimestamp(h)
               c == ConsecutiveFailures(h)
               C == {Ordered(h)[k] : k \in 1..c}
           IN  /\ c \in 0..Len(h)
               /\ \A i \in C : i \in 1..Len(h) /\ ~h[i].success /\ h[i].t >= last
               /\ \A i \in 1..Len(h) : ~h[i].success /\ h[i].t > last => i \in C
  <1> DEFINE o == Ordered(h)
             n == Len(h)
             f == FirstSuccess(h)
             last == LastSuccessTimestamp(h)
             c == ConsecutiveFailures(h)
             C == {o[k] : k \in 1..c}
  <1>1. n \in Nat /\ f \in 0..n /\ c = IF f = 0 THEN n ELSE f - 1
    BY SortedIs, FirstSuccessIs DEF ConsecutiveFailures
  <1>2. c \in 0..n
    BY <1>1
  <1>3. last = IF f # 0 THEN h[o[f]].t ELSE 0
    BY LastSuccessIs
  <1>4. \A k \in 1..n : o[k] \in 1..n /\ h[o[k]].t \in Nat
    <2>1. \A k \in 1..n : o[k] \in 1..n
      BY SortedIs
    <2> QED
      BY <2>1, SortedIs
  <1> HIDE DEF last
  <1>5. ASSUME NEW i \in C
        PROVE  i \in 1..n /\ ~h[i].success /\ h[i].t >= last
    <2>1. PICK k \in 1..c : i = o[k]
      OBVIOUS
    <2>2. k \in 1..n /\ i \in 1..n
      BY <1>1, <1>2, <1>4, <2>1
    <2>3. CASE f = 0
      BY <1>3, <1>4, <2>1, <2>2, <2>3, FirstSuccessIs
    <2>4. CASE f # 0
      <3>1. k \in 1..(f - 1) /\ f \in 1..n /\ k < f
        BY <1>1, <2>1, <2>4
      <3>2. ~h[o[k]].success
        BY <2>4, <3>1, FirstSuccessIs
      <3>3. Newer(h, o[k], o[f])
        BY <2>2, <3>1, SortedIs
      <3> QED
        BY <1>3, <1>4, <2>1, <2>2, <2>4, <3>1, <3>2, <3>3 DEF Newer
    <2> QED
      BY <2>3, <2>4
  <1>6. ASSUME NEW i \in 1..n, ~h[i].success, h[i].t > last
        PROVE  i \in C
    <2>1. PICK k \in 1..n : o[k] = i
      BY SortedIs
    <2>2. k <= c
      <3>1. CASE f = 0
        BY <1>1, <3>1
      <3>2. CASE f # 0
        <4>1. f \in 1..n /\ h[o[f]].success
          BY <1>1, <3>2, FirstSuccessIs
        <4>2. ~(f < k)
          <5> SUFFICES ASSUME f < k PROVE FALSE
            OBVIOUS
          <5>1. Newer(h, o[f], o[k])
            BY <4>1, SortedIs
          <5> QED
            BY <1>3, <1>4, <1>6, <2>1, <3>2, <4>1, <5>1 DEF Newer
        <4>3. k # f
          BY <1>6, <2>1, <4>1
        <4> QED
          BY <1>1, <3>2, <4>1, <4>2, <4>3
      <3> QED
        BY <3>1, <3>2
    <2>3. k \in 1..c
      BY <1>1, <2>2
    <2> QED
      BY <2>1, <2>3
  <1> QED
    BY <1>2, <1>5, <1>6 DEF last

LEMMA FailuresRight ==
    ASSUME NEW h \in Histories, h # <<>>
    PROVE  LET last == LastSuccessTimestamp(h)
               c == ConsecutiveFailures(h)
               fails == {i \in 1..Len(h) : ~h[i].success}
           IN  /\ c \in 0..Len(h)
               /\ Cardinality({i \in fails : h[i].t > last}) <= c
               /\ c <= Cardinality({i \in fails : h[i].t >= last})
  <1> DEFINE last == LastSuccessTimestamp(h)
             c == ConsecutiveFailures(h)
             fails == {i \in 1..Len(h) : ~h[i].success}
             C == {Ordered(h)[k] : k \in 1..c}
             after == {i \in fails : h[i].t > last}
             notBefore == {i \in fails : h[i].t >= last}
  <1>1. c \in 0..Len(h) /\ after \in SUBSET C /\ C \in SUBSET notBefore
    BY CountedAre
  <1>2. IsFiniteSet(C) /\ Cardinality(C) = c
    BY <1>1, ListedOnce
  <1>3. IsFiniteSet(notBefore)
    <2>1. IsFiniteSet(1..Len(h))
      BY SortedIs, FS_Interval
    <2>2. notBefore \in SUBSET (1..Len(h))
      OBVIOUS
    <2> HIDE DEF notBefore
    <2> QED
      BY <2>1, <2>2, FS_Subset
  <1> HIDE DEF C, after, notBefore
  <1>4. Cardinality(after) <= c
    BY <1>1, <1>2, FS_Subset
  <1>5. c <= Cardinality(notBefore)
    BY <1>1, <1>2, <1>3, FS_Subset
  <1> QED
    BY <1>1, <1>4, <1>5 DEF after, notBefore

LEMMA AttemptRight ==
    ASSUME NEW h \in Histories, h # <<>>
    PROVE  h[LatestIdx(h)].success <=> ConsecutiveFailures(h) = 0
  <1> DEFINE f == FirstSuccess(h)
  <1>1. Len(h) \in Nat /\ Len(h) >= 1 /\ f \in 0..Len(h)
    BY LatestIsFirst, SortedIs, FirstSuccessIs
  <1>2. Ordered(h)[1] \in 1..Len(h)
    <2>1. 1 \in 1..Len(h)
      BY <1>1
    <2> QED
      BY <2>1, SortedIs
  <1>3. h[LatestIdx(h)].success <=> f = 1
    <2>1. CASE f = 0
      BY <1>2, <2>1, LatestIsFirst, FirstSuccessIs
    <2>2. CASE f = 1
      BY <2>2, LatestIsFirst, FirstSuccessIs
    <2>3. CASE f > 1
      <3>1. 1 \in 1..(f - 1) /\ f # 0 /\ f # 1
        BY <1>1, <2>3
      <3> QED
        BY <3>1, LatestIsFirst, FirstSuccessIs
    <2> QED
      BY <1>1, <2>1, <2>2, <2>3
  <1>4. ConsecutiveFailures(h) = 0 <=> f = 1
    BY <1>1 DEF ConsecutiveFailures
  <1> QED
    BY <1>3, <1>4

LEMMA SummaryIs ==
    ASSUME NEW h \in Histories
    PROVE  /\ h = <<>> => Summary(h) = [attempt |-> "none", lastSuccess |-> 0, failures |-> 0]
           /\ h # <<>> => Summary(h) =
                [attempt |-> IF h[LatestIdx(h)].success THEN "success" ELSE "failure",
                 lastSuccess |-> LastSuccessTimestamp(h), failures |-> ConsecutiveFailures(h)]
           /\ LatestSuccess(h, Summary(h).lastSuccess)
           /\ Summary(h).lastSuccess \in Times \cup {0} /\ Summary(h).lastSuccess \in Nat
  <1>1. CASE h = <<>>
    BY <1>1 DEF Summary, LatestSuccess
  <1>2. CASE h # <<>>
    <2>1. LatestSuccess(h, LastSuccessTimestamp(h))
      BY <1>2, LastSuccessRight
    <2>2. \A i \in 1..Len(h) : h[i].t \in Times
      <3>1. \A i \in 1..Len(h) : h[i] \in Attempts
        BY SortedIs, TimesOf
      <3> QED
        BY <3>1 DEF Attempts
    <2>3. LastSuccessTimestamp(h) \in Times \cup {0}
      BY <2>1, <2>2 DEF LatestSuccess
    <2>4. Summary(h) =
            [attempt |-> IF h[LatestIdx(h)].success THEN "success" ELSE "failure",
             lastSuccess |-> LastSuccessTimestamp(h), failures |-> ConsecutiveFailures(h)]
      BY <1>2 DEF Summary
    <2>5. Summary(h).lastSuccess = LastSuccessTimestamp(h)
      BY <2>4
    <2>6. LatestSuccess(h, Summary(h).lastSuccess)
      BY <2>1, <2>5
    <2>7. Summary(h).lastSuccess \in Times \cup {0} /\ Summary(h).lastSuccess \in Nat
      <3>1. \A x \in Times \cup {0} : x \in Nat
        BY BackupHistoryAssumption
      <3> QED
        BY <2>3, <2>5, <3>1, Zenon
    <2> QED
      BY <1>2, <2>4, <2>6, <2>7
  <1> QED
    BY <1>1, <1>2

-----------------------------------------------------------------------------
(* The invariant: what the collector wrote is the summary of its list. *)
BackupInv ==
    /\ history \in Histories
    /\ Backup = NotCollected \/ Backup = Summary(history)

LEMMA BackupInitInv == BackupInit => BackupInv
  BY DEF BackupInit, BackupInv, Histories

LEMMA BackupKeeps ==
    ASSUME BackupInv, BackupNext
    PROVE  BackupInv'
  <1>1. CASE CollectBackup
    <2>1. PICK n \in 0..MaxAttempts : \E answer \in [1..n -> Attempts] :
             history' = answer /\ Backup' = Summary(answer)
      BY <1>1 DEF CollectBackup
    <2>2. history' \in Seq(Attempts)
      BY <2>1, BackupHistoryAssumption
    <2> QED
      BY <2>1, <2>2 DEF BackupInv, Histories
  <1>2. CASE BackupFails
    BY <1>2 DEF BackupInv, BackupFails, backupVars
  <1> QED
    BY <1>1, <1>2 DEF BackupNext

LEMMA BackupInductive == BackupSpec => []BackupInv
  <1>1. BackupInv /\ [BackupNext]_<<fanOutVars, backupVars>> => BackupInv'
    <2>1. CASE BackupNext
      BY <2>1, BackupKeeps
    <2>2. CASE UNCHANGED <<fanOutVars, backupVars>>
      BY <2>2 DEF BackupInv, backupVars
    <2> QED
      BY <2>1, <2>2
  <1> QED
    BY <1>1, BackupInitInv, PTL DEF BackupSpec

LEMMA BackupTypes == BackupInv => BackupTypeOK
  <1> SUFFICES ASSUME BackupInv, Backup = Summary(history)
               PROVE  Backup \in [attempt : {"none", "success", "failure"},
                                  lastSuccess : Times \cup {0}, failures : 0..Len(history)]
    BY DEF BackupInv, BackupTypeOK, Histories
  <1>1. history \in Histories
    BY DEF BackupInv
  <1>2. CASE history = <<>>
    BY <1>1, <1>2, SummaryIs
  <1>3. CASE history # <<>>
    <2>1. LastSuccessTimestamp(history) \in Times \cup {0}
      BY <1>1, <1>3, SummaryIs
    <2>2. ConsecutiveFailures(history) \in 0..Len(history)
      BY <1>1, <1>3, FailuresRight
    <2> QED
      BY <1>1, <1>3, <2>1, <2>2, SummaryIs
  <1> QED
    BY <1>2, <1>3

LEMMA SummaryHolds == BackupInv => SummaryCorrect
  <1> SUFFICES ASSUME BackupInv, Backup = Summary(history), Backup # NotCollected
               PROVE  SummaryCorrect
    BY DEF BackupInv, SummaryCorrect
  <1> DEFINE last == Backup.lastSuccess
             after == {i \in Failures : history[i].t > last}
             notBefore == {i \in Failures : history[i].t >= last}
  <1>1. history \in Histories
    BY DEF BackupInv
  <1>2. /\ DOMAIN history = 1..Len(history)
        /\ Successes = {i \in 1..Len(history) : history[i].success}
        /\ Failures = {i \in 1..Len(history) : ~history[i].success}
    BY <1>1, SortedIs DEF Successes, Failures
  <1>3. LatestSuccess(history, last)
    BY <1>1, SummaryIs
  <1>4. IF Successes = {} THEN last = 0
        ELSE /\ \E i \in Successes : history[i].t = last
             /\ \A i \in Successes : history[i].t <= last
    BY <1>2, <1>3 DEF LatestSuccess
  <1>5. Backup.failures \in Cardinality(after)..Cardinality(notBefore)
    <2>1. CASE history = <<>>
      <3>1. Backup.failures = 0 /\ after = {} /\ notBefore = {}
        BY <1>1, <1>2, <2>1, SummaryIs
      <3>2. Cardinality(after) = 0 /\ Cardinality(notBefore) = 0
        BY <3>1, FS_EmptySet
      <3> QED
        BY <3>1, <3>2
    <2>2. CASE history # <<>>
      <3>1. /\ Backup.failures = ConsecutiveFailures(history)
            /\ last = LastSuccessTimestamp(history)
        BY <1>1, <2>2, SummaryIs
      <3>2. /\ Backup.failures \in Nat
            /\ Cardinality(after) <= Backup.failures
            /\ Backup.failures <= Cardinality(notBefore)
        <4>1. /\ ConsecutiveFailures(history) \in 0..Len(history)
              /\ Cardinality({i \in Failures : history[i].t > LastSuccessTimestamp(history)})
                    <= ConsecutiveFailures(history)
              /\ ConsecutiveFailures(history)
                    <= Cardinality({i \in Failures : history[i].t >= LastSuccessTimestamp(history)})
          BY <1>1, <1>2, <2>2, FailuresRight
        <4> QED
          BY <3>1, <4>1
      <3>3. Cardinality(after) \in Nat /\ Cardinality(notBefore) \in Nat
        <4>1. IsFiniteSet(1..Len(history))
          BY <1>1, SortedIs, FS_Interval
        <4>2. after \in SUBSET (1..Len(history)) /\ notBefore \in SUBSET (1..Len(history))
          BY <1>2
        <4> HIDE DEF after, notBefore
        <4> QED
          BY <4>1, <4>2, FS_Subset, FS_CardinalityType
      <3> QED
        BY <3>2, <3>3
    <2> QED
      BY <2>1, <2>2
  <1> QED
    BY <1>4, <1>5 DEF SummaryCorrect

LEMMA LoopsHold == BackupInv => LoopsAgree
  <1> SUFFICES ASSUME BackupInv, Backup = Summary(history)
               PROVE  /\ (Backup.attempt = "none") <=> (history = <<>>)
                      /\ (Backup.attempt = "failure") <=> (Backup.failures > 0)
    BY DEF BackupInv, LoopsAgree
  <1>1. history \in Histories
    BY DEF BackupInv
  <1>2. CASE history = <<>>
    BY <1>1, <1>2, SummaryIs
  <1>3. CASE history # <<>>
    <2>1. Backup.failures = ConsecutiveFailures(history) /\ Backup.failures \in 0..Len(history)
      <3>1. Backup.failures = ConsecutiveFailures(history)
        BY <1>1, <1>3, SummaryIs
      <3>2. ConsecutiveFailures(history) \in 0..Len(history)
        BY <1>1, <1>3, FailuresRight
      <3> QED
        BY <3>1, <3>2
    <2>2. Backup.attempt = IF Backup.failures = 0 THEN "success" ELSE "failure"
      BY <1>1, <1>3, <2>1, SummaryIs, AttemptRight
    <2> QED
      BY <1>1, <1>3, <2>1, <2>2, SortedIs
  <1> QED
    BY <1>2, <1>3

-----------------------------------------------------------------------------
(* What the runs check, for every history. *)

(* Whatever NSX-T lists, collectBackup writes one of the three statuses, a *)
(* start time of the list or 0, and no more failures than attempts.        *)
THEOREM BackupTypesCorrect == BackupSpec => []BackupTypeOK
  BY BackupTypes, BackupInductive, PTL


(* The loops of summarizeBackupHistory find the latest success, and the     *)
(* failures since, of any list in any order.                                *)
THEOREM SummaryRight == BackupSpec => []SummaryCorrect
  BY SummaryHolds, BackupInductive, PTL


(* The loop over the list and the loop over its sorted copy agree on what  *)
(* the last attempt was, whatever attempts share a start time.             *)
THEOREM LoopsAgreeAlways == BackupSpec => []LoopsAgree
  BY LoopsHold, BackupInductive, PTL
=============================================================================
