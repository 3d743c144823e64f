---------------------------- MODULE ApiClient_proofs ---------------------------
(***************************************************************************)
(* Theorems about ApiClient, for any number of callers, requests and       *)
(* rounds, and any rate and timeout.                                       *)
(*                                                                         *)
(* The semaphore argument.  DenseQueue says that every token owed is owed  *)
(* to a goroutine that waits for it, and that no two wait for the same one.*)
(* All of them hold slots, and so does the one that asks for a token now;  *)
(* so at most Concurrency - 1 are owed, and the next is due within         *)
(* Concurrency periods, a second.                                          *)
(*                                                                         *)
(* The login argument.  A login is under way only in a session that is not *)
(* open, and a fan-out over a shared session begins only after a request   *)
(* of the lister has succeeded, which opens it for good.                   *)
(***************************************************************************)
EXTENDS ApiClient, FiniteSetTheorems, TLAPS

(* A listing needs a lister, and rounds remain while it or its fan-out     *)
(* runs.                                                                   *)
RoundInv ==
    /\ phase = "list" => Lister # NoLister
    /\ phase # "end" /\ Lister # NoLister => round > 0

TypeInv == TypeOK /\ RoundInv

LEMMA ConcurrencyPositive == Concurrency \in Nat /\ Concurrency >= 1
BY ApiClientAssumption DEF Concurrency

LEMMA CallersFinite == IsFiniteSet(Callers)
<1>1. IsFiniteSet({Lister} \ {NoLister})
  BY FS_Singleton, FS_Subset
<1> QED
  BY <1>1, FS_Union, ApiClientAssumption DEF Callers

LEMMA HoldersFinite == IsFiniteSet(Holders) /\ Cardinality(Holders) \in Nat
<1>1. Holders \subseteq Callers
  BY DEF Holders
<1> QED
  BY <1>1, CallersFinite, FS_Subset, FS_CardinalityType

(* A step that gives no slot away keeps their number. *)
LEMMA NoNewHolder ==
    ASSUME Cardinality(Holders) <= Concurrency, Holders' \subseteq Holders
    PROVE  Cardinality(Holders') <= Concurrency
BY HoldersFinite, FS_Subset, FS_CardinalityType, ConcurrencyPositive

(* The step of one caller that moves on without taking a slot.             *)
LEMMA MoveOn ==
    ASSUME TypeOK, NEW c \in Callers, NEW x \in States, at' = [at EXCEPT ![c] = x],
           c \in Holders \/ x \notin {"limit", "wait", "flight"}
    PROVE  at' \in [Callers -> States] /\ Cardinality(Holders') <= Concurrency
<1>1. at' \in [Callers -> States]
  BY DEF TypeOK
<1>2. Holders' \subseteq Holders
  BY DEF Holders, TypeOK
<1> QED
  BY <1>1, <1>2, NoNewHolder DEF TypeOK

LEMMA TakeSlot ==
    ASSUME TypeOK, NEW c \in Callers, at' = [at EXCEPT ![c] = "limit"],
           Cardinality(Holders) < Concurrency
    PROVE  at' \in [Callers -> States] /\ Cardinality(Holders') <= Concurrency
<1>1. at' \in [Callers -> States]
  BY DEF TypeOK, States
<1>2. Holders' \subseteq Holders \cup {c}
  BY DEF Holders, TypeOK
<1>3. /\ IsFiniteSet(Holders \cup {c})
      /\ Cardinality(Holders \cup {c}) \in Nat
      /\ Cardinality(Holders \cup {c}) <= Cardinality(Holders) + 1
  <2>1. /\ IsFiniteSet(Holders \cup {c})
        /\ Cardinality(Holders \cup {c}) =
              IF c \in Holders THEN Cardinality(Holders) ELSE Cardinality(Holders) + 1
    BY HoldersFinite, FS_AddElement
  <2> QED
    BY <2>1, HoldersFinite, FS_CardinalityType
<1>4. Cardinality(Holders') \in Nat /\ Cardinality(Holders') <= Cardinality(Holders \cup {c})
  BY <1>2, <1>3, FS_Subset, FS_CardinalityType
<1> QED
  BY <1>1, <1>3, <1>4, HoldersFinite, ConcurrencyPositive

LEMMA NextRoundType ==
    ASSUME TypeInv, phase # "end", Lister # NoLister, NextRound
    PROVE  /\ phase' \in {"list", "end"}
           /\ round' \in 0..Rounds
           /\ phase' # "end" => round' > 0
           /\ found' = FALSE
           /\ at' \in [Callers -> States]
           /\ \A c \in Callers : at'[c] = "idle"
           /\ left' \in [Callers -> 0..Gets]
           /\ Cardinality(Holders') <= Concurrency
<1>1. Holders' = {}
  BY DEF NextRound, Holders
<1>2. Cardinality(Holders') <= Concurrency
  BY <1>1, FS_EmptySet, ConcurrencyPositive
<1> QED
  BY <1>2, ApiClientAssumption DEF NextRound, TypeInv, TypeOK, RoundInv, States

LEMMA Typing == Spec => []TypeInv
<1>1. Init => TypeInv
  <2> SUFFICES ASSUME Init PROVE TypeInv
    OBVIOUS
  <2>1. Holders = {}
    BY DEF Init, Holders
  <2>2. Cardinality(Holders) <= Concurrency
    BY <2>1, FS_EmptySet, ConcurrencyPositive
  <2>3. /\ phase \in {"list", "fan", "end"} /\ found \in BOOLEAN
        /\ purpose \in [Callers -> {"login", "get"}]
        /\ at \in [Callers -> States]
        /\ session \in [Sessions -> BOOLEAN]
    BY DEF Init, States
  <2>4. /\ round \in 0..Rounds /\ round > 0
        /\ due \in [Callers -> Nat]
        /\ left \in [Callers -> 0..Gets]
        /\ tokens \in Int /\ tokens <= 1
    BY ApiClientAssumption DEF Init
  <2> QED
    BY <2>2, <2>3, <2>4 DEF Init, TypeInv, TypeOK, RoundInv
<1>2. TypeInv /\ [Next]_vars => TypeInv'
  <2> SUFFICES ASSUME TypeInv, [Next]_vars PROVE TypeInv'
    OBVIOUS
  <2>0. TypeOK
    BY DEF TypeInv
  <2>1. ASSUME NEW c \in Callers, Call(c) PROVE TypeInv'
    <3>1. at' \in [Callers -> States] /\ Cardinality(Holders') <= Concurrency
      BY <2>0, <2>1, MoveOn DEF Call, Goto, States
    <3>2. left' \in [Callers -> 0..Gets]
      BY <2>1, ApiClientAssumption DEF Call, MayCall, TypeInv, TypeOK
    <3> QED
      BY <2>1, <3>1, <3>2 DEF Call, TypeInv, TypeOK, RoundInv
  <2>2. ASSUME NEW c \in Callers, Acquire(c) PROVE TypeInv'
    <3>1. at' \in [Callers -> States] /\ Cardinality(Holders') <= Concurrency
      BY <2>0, <2>2, TakeSlot DEF Acquire, Goto
    <3> QED
      BY <2>2, <3>1 DEF Acquire, TypeInv, TypeOK, RoundInv
  <2>3. ASSUME NEW c \in Callers, Allow(c) PROVE TypeInv'
    <3>1. at' \in [Callers -> States] /\ Cardinality(Holders') <= Concurrency
      BY <2>0, <2>3, MoveOn DEF Allow, Goto, States, Holders
    <3> QED
      BY <2>3, <3>1 DEF Allow, TypeInv, TypeOK, RoundInv
  <2>4. ASSUME NEW c \in Callers, Reserve(c) PROVE TypeInv'
    <3>1. at' \in [Callers -> States] /\ Cardinality(Holders') <= Concurrency
      BY <2>0, <2>4, MoveOn DEF Reserve, Goto, States, Holders
    <3>2. due' \in [Callers -> Nat]
      BY <2>4 DEF Reserve, TypeInv, TypeOK
    <3> QED
      BY <2>4, <3>1, <3>2 DEF Reserve, TypeInv, TypeOK, RoundInv
  <2>5. ASSUME NEW c \in Callers, Refuse(c) \/ Proceed(c) \/ DoFails(c) PROVE TypeInv'
    <3>1. at' \in [Callers -> States] /\ Cardinality(Holders') <= Concurrency
      BY <2>0, <2>5, MoveOn DEF Refuse, Proceed, DoFails, Goto, States, Holders
    <3> QED
      BY <2>5, <3>1 DEF Refuse, Proceed, DoFails, TypeInv, TypeOK, RoundInv
  <2>6. ASSUME NEW c \in Callers, LoggedIn(c) PROVE TypeInv'
    <3>1. at' \in [Callers -> States] /\ Cardinality(Holders') <= Concurrency
      BY <2>0, <2>6, MoveOn DEF LoggedIn, Goto, States
    <3> QED
      BY <2>6, <3>1 DEF LoggedIn, TypeInv, TypeOK, RoundInv
  <2>7. ASSUME NEW c \in Callers, Answered(c) PROVE TypeInv'
    <3>1. at' \in [Callers -> States] /\ Cardinality(Holders') <= Concurrency
      BY <2>0, <2>7, MoveOn DEF Answered, Goto, States
    <3> QED
      BY <2>7, <3>1 DEF Answered, TypeInv, TypeOK, RoundInv
  <2>8. ASSUME NEW c \in Callers, ReadBody(c) PROVE TypeInv'
    <3>1. at' \in [Callers -> States] /\ Cardinality(Holders') <= Concurrency
      BY <2>0, <2>8, MoveOn DEF ReadBody, Goto, States
    <3> QED
      BY <2>8, <3>1 DEF ReadBody, TypeInv, TypeOK, RoundInv
  <2>9. CASE Tick
    <3>1. Holders' = Holders
      BY <2>9 DEF Tick, Holders
    <3> QED
      BY <2>9, <3>1 DEF Tick, TypeInv, TypeOK, RoundInv
  <2>10. CASE FanOut
    <3>1. Holders' = Holders
      BY <2>10 DEF FanOut, Holders
    <3> QED
      BY <2>10, <3>1 DEF FanOut, TypeInv, TypeOK, RoundInv
  <2>11. CASE Return
    <3>1. phase # "end" /\ Lister # NoLister /\ NextRound
      BY <2>11 DEF Return, TypeInv, RoundInv
    <3> QED
      BY <2>11, <3>1, NextRoundType DEF Return, TypeInv, TypeOK, RoundInv
  <2>12. CASE Join
    <3>1. CASE Lister = NoLister
      <4>1. Holders' = Holders
        BY <2>12, <3>1 DEF Join, Holders
      <4> QED
        BY <2>12, <3>1, <4>1 DEF Join, TypeInv, TypeOK, RoundInv
    <3>2. CASE Lister # NoLister
      BY <2>12, <3>2, NextRoundType DEF Join, TypeInv, TypeOK, RoundInv
    <3> QED
      BY <3>1, <3>2
  <2>13. CASE UNCHANGED vars
    <3>1. Holders' = Holders
      BY <2>13 DEF vars, Holders
    <3> QED
      BY <2>13, <3>1 DEF vars, TypeInv, TypeOK, RoundInv
  <2> QED
    BY <2>1, <2>2, <2>3, <2>4, <2>5, <2>6, <2>7, <2>8, <2>9, <2>10, <2>11, <2>12, <2>13
       DEF Next, Caller
<1> QED
  BY <1>1, <1>2, PTL DEF Spec

(* The types: no more slots are taken than there are, the balance of       *)
(* tokens never exceeds the burst, no round is begun beyond the last.      *)
THEOREM TypeCorrect == Spec => []TypeOK
BY Typing, PTL DEF TypeInv

-----------------------------------------------------------------------------
(* The workers are idle while the lister lists; it has ended, successfully *)
(* at least once, when they run.                                           *)
PhaseInv ==
    /\ phase = "list" => \A c \in Workers : at[c] = "idle"
    /\ phase = "fan" /\ Lister # NoLister => at[Lister] \in Ended /\ found
    /\ phase = "end" => \A c \in Callers : at[c] \in {"idle"} \cup Ended

Quiet(c) == at[c] \in {"idle"} \cup Ended

LEMMA CallersAre == \A c \in Callers : c \in Workers \/ (c = Lister /\ Lister # NoLister)
BY DEF Callers

LEMMA WorkersCall == Workers \subseteq Callers /\ (Lister # NoLister => Lister \in Callers)
BY DEF Callers

(* A caller that is not at rest moves: only those of the phase do.         *)
LEMMA CallerPhase ==
    ASSUME TypeOK, PhaseInv, NEW c \in Callers, NEW x,
           at' = [at EXCEPT ![c] = x], phase' = phase,
           ~Quiet(c) \/ MayCall(c),
           found => found'
    PROVE  PhaseInv'
<1>1. \A d \in Callers : at'[d] = IF d = c THEN x ELSE at[d]
  BY DEF TypeOK
<1>2. CASE phase = "list"
  <2>1. c \notin Workers
    BY <1>2, CallersAre, ApiClientAssumption DEF PhaseInv, MayCall, Quiet
  <2> QED
    BY <1>1, <1>2, <2>1, WorkersCall DEF PhaseInv
<1>3. CASE phase = "fan"
  <2>1. Lister # NoLister => c # Lister
    BY <1>3 DEF PhaseInv, MayCall, Quiet
  <2> QED
    BY <1>1, <1>3, <2>1, WorkersCall DEF PhaseInv
<1>4. CASE phase = "end"
  <2>1. FALSE
    BY <1>4 DEF PhaseInv, MayCall, Quiet
  <2> QED
    BY <2>1
<1> QED
  BY <1>2, <1>3, <1>4 DEF TypeOK

(* What one step of a caller is, as far as the phase is concerned.         *)
LEMMA CallerMoves ==
    ASSUME TypeOK, NEW c \in Callers, Caller(c)
    PROVE  /\ \E x \in States : at' = [at EXCEPT ![c] = x]
           /\ phase' = phase
           /\ ~Quiet(c) \/ MayCall(c)
           /\ found => found'
<1> USE DEF Goto, States
<1>1. CASE Call(c)
  BY <1>1 DEF Call
<1>2. CASE Acquire(c) \/ Allow(c) \/ Reserve(c) \/ Refuse(c) \/ Proceed(c)
  BY <1>2 DEF Acquire, Allow, Reserve, Refuse, Proceed, Quiet, Ended
<1>3. CASE DoFails(c) \/ LoggedIn(c) \/ Answered(c)
  BY <1>3 DEF DoFails, LoggedIn, Answered, Quiet, Ended
<1>4. CASE ReadBody(c)
  <2>1. \E x \in {"failed", "done"} : at' = [at EXCEPT ![c] = x]
    BY <1>4 DEF ReadBody
  <2>2. phase' = phase /\ ~Quiet(c)
    BY <1>4 DEF ReadBody, Quiet, Ended
  <2>3. found => found'
    BY <1>4, Zenon DEF ReadBody
  <2> QED
    BY <2>1, <2>2, <2>3
<1> QED
  BY <1>1, <1>2, <1>3, <1>4 DEF Caller

LEMMA Phases == Spec => []PhaseInv
<1>1. Init => PhaseInv
  BY WorkersCall DEF Init, PhaseInv
<1>2. TypeInv /\ PhaseInv /\ [Next]_vars => PhaseInv'
  <2> SUFFICES ASSUME TypeInv, PhaseInv, [Next]_vars PROVE PhaseInv'
    OBVIOUS
  <2>1. ASSUME NEW c \in Callers, Caller(c) PROVE PhaseInv'
    BY <2>1, CallerMoves, CallerPhase DEF TypeInv
  <2>2. CASE Tick
    BY <2>2 DEF Tick, PhaseInv
  <2>3. CASE FanOut
    BY <2>3 DEF FanOut, PhaseInv
  <2>4. CASE Return
    BY <2>4, WorkersCall DEF Return, NextRound, PhaseInv
  <2>5. CASE Join
    <3>1. CASE Lister = NoLister
      BY <2>5, <3>1, CallersAre DEF Join, PhaseInv
    <3>2. CASE Lister # NoLister
      BY <2>5, <3>2, WorkersCall DEF Join, NextRound, PhaseInv
    <3> QED
      BY <3>1, <3>2
  <2>6. CASE UNCHANGED vars
    BY <2>6 DEF vars, PhaseInv
  <2> QED
    BY <2>1, <2>2, <2>3, <2>4, <2>5, <2>6 DEF Next
<1> QED
  BY <1>1, <1>2, Typing, PTL DEF Spec

(* At the end of a listing that is given up, and at a join, all are quiet. *)
LEMMA AllQuiet ==
    ASSUME PhaseInv, Return \/ Join
    PROVE  \A c \in Callers : Quiet(c)
BY CallersAre DEF PhaseInv, Return, Join, Quiet

-----------------------------------------------------------------------------
(* The queue at the limiter. *)

(* Whoever asks for a token while n are owed is one of n + 1 holders.      *)
LEMMA NextToken ==
    ASSUME TypeOK, DenseQueue, NEW c \in Callers, at[c] = "limit"
    PROVE  1 - tokens <= Concurrency
<1>1. CASE tokens >= 0
  BY <1>1, ConcurrencyPositive DEF TypeOK
<1>2. CASE tokens < 0
  <2> DEFINE W == {w \in Callers : at[w] = "wait" /\ due[w] \in 1..(-tokens)}
             f == [w \in W |-> due[w]]
  <2>1. f \in [W -> 1..(-tokens)]
    OBVIOUS
  <2>2. \A k \in 1..(-tokens) : \E w \in W : f[w] = k
    <3> SUFFICES ASSUME NEW k \in 1..(-tokens) PROVE \E w \in W : f[w] = k
      OBVIOUS
    <3>1. PICK w \in Callers : at[w] = "wait" /\ due[w] = k
      BY DEF DenseQueue
    <3>2. w \in W /\ f[w] = k
      BY <3>1
    <3> QED
      BY <3>2
  <2>3. W \subseteq Holders \ {c}
    BY DEF Holders
  <2>4. IsFiniteSet(Holders \ {c}) /\ Cardinality(Holders \ {c}) = Cardinality(Holders) - 1
    <3>1. c \in Holders
      BY DEF Holders
    <3> QED
      BY <3>1, HoldersFinite, FS_RemoveElement
  <2> HIDE DEF W, f
  <2>5. IsFiniteSet(W) /\ Cardinality(W) <= Cardinality(Holders) - 1
    BY <2>3, <2>4, FS_Subset
  <2>6. f \in Surjection(W, 1..(-tokens))
    BY <2>1, <2>2 DEF Surjection
  <2>7. Cardinality(1..(-tokens)) <= Cardinality(W)
    BY <2>5, <2>6, FS_Surjection
  <2>8. Cardinality(1..(-tokens)) = -tokens
    <3>1. -tokens \in Int /\ 1 \in Int /\ ~(1 > -tokens)
      BY <1>2 DEF TypeOK
    <3> QED
      BY <3>1, FS_Interval
  <2>9. Cardinality(W) \in Nat
    BY <2>5, FS_CardinalityType
  <2> QED
    BY <2>5, <2>7, <2>8, <2>9, HoldersFinite, ConcurrencyPositive DEF TypeOK
<1> QED
  BY <1>1, <1>2 DEF TypeOK

(* A step that moves a caller which was not waiting, or whose token had    *)
(* come, leaves the queue as it was.                                       *)
LEMMA QueueUndisturbed ==
    ASSUME TypeOK, DenseQueue, NEW c \in Callers, NEW x, x # "wait",
           at' = [at EXCEPT ![c] = x],
           at[c] = "wait" => due[c] = 0,
           due' = due, tokens' = tokens
    PROVE  DenseQueue'
<1>1. \A d \in Callers : at'[d] = IF d = c THEN x ELSE at[d]
  BY DEF TypeOK
<1>2. ASSUME NEW k \in 1..(-tokens)
      PROVE  \E d \in Callers : at'[d] = "wait" /\ due'[d] = k
  <2>1. PICK d \in Callers : at[d] = "wait" /\ due[d] = k
    BY DEF DenseQueue
  <2>2. d # c
    BY <2>1 DEF TypeOK
  <2> QED
    BY <1>1, <2>1, <2>2
<1>3. \A d \in Callers : at'[d] = "wait" => due'[d] <= Concurrency
  BY <1>1 DEF DenseQueue
<1> QED
  BY <1>2, <1>3 DEF DenseQueue, Concurrency

(* No token is owed when nobody waits for one. *)
LEMMA NothingOwed ==
    ASSUME TypeOK, DenseQueue, \A c \in Callers : at[c] # "wait"
    PROVE  tokens >= 0
<1>1. CASE tokens < 0
  <2>1. 1 \in 1..(-tokens)
    BY <1>1 DEF TypeOK
  <2> QED
    BY <2>1 DEF DenseQueue
<1> QED
  BY <1>1 DEF TypeOK

LEMMA NoTokenOwed == \A t \in Int : t >= 0 => \A k \in 1..(-t) : FALSE
OBVIOUS

(* Where nobody waits the queue is empty, whatever else happens.           *)
LEMMA EmptyQueue ==
    ASSUME tokens' \in Int, tokens' >= 0, \A c \in Callers : at'[c] # "wait"
    PROVE  DenseQueue'
<1>1. \A k \in 1..(-tokens') : FALSE
  BY NoTokenOwed
<1> QED
  BY <1>1 DEF DenseQueue

(* DenseQueue is inductive. *)
THEOREM QueueIsDense == Spec => []DenseQueue
<1>1. Init => DenseQueue
  <2> SUFFICES ASSUME Init PROVE DenseQueue
    OBVIOUS
  <2>1. \A k \in 1..(-tokens) : FALSE
    BY DEF Init
  <2> QED
    BY <2>1 DEF Init, DenseQueue
<1>2. TypeInv /\ PhaseInv /\ DenseQueue /\ [Next]_vars => DenseQueue'
  <2> SUFFICES ASSUME TypeInv, PhaseInv, DenseQueue, [Next]_vars PROVE DenseQueue'
    OBVIOUS
  <2>0. TypeOK
    BY DEF TypeInv
  <2>1. ASSUME NEW c \in Callers, Call(c) PROVE DenseQueue'
    <3>1. at' = [at EXCEPT ![c] = "queue"] /\ due' = due /\ tokens' = tokens /\ at[c] # "wait"
      BY <2>1 DEF Call, Goto, MayCall, Ended
    <3> QED
      BY <3>1, <2>0, QueueUndisturbed
  <2>2. ASSUME NEW c \in Callers, Acquire(c) \/ Refuse(c) PROVE DenseQueue'
    <3>1. \E x \in {"limit", "refused"} : at' = [at EXCEPT ![c] = x]
      BY <2>2 DEF Acquire, Refuse, Goto
    <3>2. due' = due /\ tokens' = tokens /\ at[c] # "wait"
      BY <2>2 DEF Acquire, Refuse
    <3> QED
      BY <3>1, <3>2, <2>0, QueueUndisturbed
  <2>3. ASSUME NEW c \in Callers, Allow(c) PROVE DenseQueue'
    <3>1. tokens' \in Int /\ tokens' >= 0 /\ due' = due
      BY <2>3, <2>0 DEF Allow, TypeOK
    <3>2. \A k \in 1..(-tokens') : FALSE
      BY <3>1, NoTokenOwed
    <3>3. \A d \in Callers : at'[d] = "wait" => at[d] = "wait"
      BY <2>3, <2>0 DEF Allow, Goto, TypeOK
    <3> QED
      BY <3>1, <3>2, <3>3 DEF DenseQueue
  <2>4. ASSUME NEW c \in Callers, Reserve(c) PROVE DenseQueue'
    <3>1. /\ tokens \in Int /\ tokens < 1 /\ tokens' = tokens - 1
          /\ \A d \in Callers : due'[d] = IF d = c THEN 1 - tokens ELSE due[d]
          /\ \A d \in Callers : at'[d] = IF d = c THEN "wait" ELSE at[d]
          /\ at[c] = "limit"
      BY <2>4, <2>0 DEF Reserve, Goto, TypeOK
    <3>2. 1 - tokens <= Concurrency
      BY <3>1, <2>0, NextToken
    <3>3. ASSUME NEW k \in 1..(-tokens')
          PROVE  \E d \in Callers : at'[d] = "wait" /\ due'[d] = k
      <4>1. CASE k = 1 - tokens
        BY <4>1, <3>1
      <4>2. CASE k # 1 - tokens
        <5>1. k \in 1..(-tokens)
          BY <4>2, <3>1
        <5>2. PICK d \in Callers : at[d] = "wait" /\ due[d] = k
          BY <5>1 DEF DenseQueue
        <5> QED
          BY <5>2, <3>1
      <4> QED
        BY <4>1, <4>2
    <3>4. \A d \in Callers : at'[d] = "wait" => due'[d] <= Concurrency
      BY <3>1, <3>2 DEF DenseQueue
    <3> QED
      BY <3>3, <3>4 DEF DenseQueue
  <2>5. ASSUME NEW c \in Callers, Proceed(c) PROVE DenseQueue'
    <3>1. at' = [at EXCEPT ![c] = "flight"] /\ due' = due /\ tokens' = tokens /\ due[c] = 0
      BY <2>5 DEF Proceed, Goto
    <3> QED
      BY <3>1, <2>0, QueueUndisturbed
  <2>6. ASSUME NEW c \in Callers, DoFails(c) \/ LoggedIn(c) \/ Answered(c) \/ ReadBody(c)
        PROVE  DenseQueue'
    <3>1. \E x \in {"failed", "queue", "body", "done"} : at' = [at EXCEPT ![c] = x]
      BY <2>6 DEF DoFails, LoggedIn, Answered, ReadBody, Goto
    <3>2. due' = due /\ tokens' = tokens /\ at[c] # "wait"
      BY <2>6 DEF DoFails, LoggedIn, Answered, ReadBody
    <3> QED
      BY <3>1, <3>2, <2>0, QueueUndisturbed
  <2>7. CASE Tick
    <3>1. /\ tokens \in Int /\ tokens' = tokens + 1 /\ at' = at
          /\ \A d \in Callers : due[d] \in Nat
          /\ \A d \in Callers : due'[d] = IF due[d] > 0 THEN due[d] - 1 ELSE 0
      BY <2>7, <2>0 DEF Tick, TypeOK
    <3>2. ASSUME NEW k \in 1..(-tokens')
          PROVE  \E d \in Callers : at'[d] = "wait" /\ due'[d] = k
      <4>1. k + 1 \in 1..(-tokens)
        BY <3>1
      <4>2. PICK d \in Callers : at[d] = "wait" /\ due[d] = k + 1
        BY <4>1 DEF DenseQueue
      <4> QED
        BY <4>2, <3>1
    <3>3. \A d \in Callers : at'[d] = "wait" => due'[d] <= Concurrency
      BY <3>1, ConcurrencyPositive DEF DenseQueue
    <3> QED
      BY <3>2, <3>3 DEF DenseQueue
  <2>8. CASE FanOut
    BY <2>8 DEF FanOut, DenseQueue
  <2>9. CASE Return \/ Join
    <3>1. \A c \in Callers : at[c] # "wait"
      BY <2>9, AllQuiet DEF Quiet, Ended
    <3>2. tokens' = tokens /\ due' = due
      BY <2>9 DEF Return, Join
    <3>3. \A c \in Callers : at'[c] # "wait"
      BY <2>9, <3>1 DEF Return, Join, NextRound
    <3>4. tokens >= 0 /\ tokens \in Int
      BY <2>0, <3>1, NothingOwed DEF TypeOK
    <3> QED
      BY <3>2, <3>3, <3>4, EmptyQueue
  <2>10. CASE UNCHANGED vars
    BY <2>10 DEF vars, DenseQueue
  <2> QED
    BY <2>1, <2>2, <2>3, <2>4, <2>5, <2>6, <2>7, <2>8, <2>9, <2>10 DEF Next, Caller
<1> QED
  BY <1>1, <1>2, Typing, Phases, PTL DEF Spec

(* With a rate and a timeout of at least one, the limiter refuses nobody,  *)
(* however many goroutines there are.                                      *)
THEOREM NobodyRefused ==
    ASSUME RequestsPerSecond >= 1, RequestsPerSecondTimeout >= 1
    PROVE  Spec => []AlwaysDrainable
<1>1. Init => AlwaysDrainable
  BY DEF Init, AlwaysDrainable
<1>2. Concurrency <= LongestWait
  <2>1. /\ RequestsPerSecond \in Nat /\ RequestsPerSecondTimeout \in Nat
        /\ Concurrency = RequestsPerSecond
        /\ LongestWait = RequestsPerSecondTimeout * RequestsPerSecond
    BY ApiClientAssumption DEF Concurrency, LongestWait
  <2>2. \A r, t \in Nat : t >= 1 => r <= t * r
    OBVIOUS
  <2> QED
    BY <2>1, <2>2
<1>3. TypeInv /\ DenseQueue /\ AlwaysDrainable /\ [Next]_vars => AlwaysDrainable'
  <2> SUFFICES ASSUME TypeInv, DenseQueue, AlwaysDrainable, [Next]_vars PROVE AlwaysDrainable'
    OBVIOUS
  <2>0. TypeOK
    BY DEF TypeInv
  <2>1. ASSUME NEW c \in Callers, Caller(c) PROVE AlwaysDrainable'
    <3>1. ~Refuse(c)
      <4> SUFFICES ASSUME Refuse(c) PROVE FALSE
        OBVIOUS
      <4>1. at[c] = "limit" /\ 1 - tokens > LongestWait
        BY DEF Refuse
      <4>2. 1 - tokens <= Concurrency
        BY <4>1, <2>0, NextToken
      <4>3. LongestWait \in Int /\ Concurrency \in Int /\ tokens \in Int
        BY <2>0, ApiClientAssumption DEF TypeOK, Concurrency, LongestWait
      <4> QED
        BY <4>1, <4>2, <4>3, <1>2
    <3>2. \E x : at' = [at EXCEPT ![c] = x] /\ x # "refused"
      BY <2>1, <3>1 DEF Caller, Goto, Call, Acquire, Allow, Reserve, Proceed, DoFails,
                        LoggedIn, Answered, ReadBody
    <3> QED
      BY <3>2, <2>0 DEF AlwaysDrainable, TypeOK
  <2>2. CASE Tick \/ FanOut
    BY <2>2 DEF Tick, FanOut, AlwaysDrainable
  <2>3. CASE Return \/ Join
    BY <2>3 DEF Return, Join, NextRound, AlwaysDrainable
  <2>4. CASE UNCHANGED vars
    BY <2>4 DEF vars, AlwaysDrainable
  <2> QED
    BY <2>1, <2>2, <2>3, <2>4 DEF Next
<1> QED
  BY <1>1, <1>3, Typing, QueueIsDense, PTL DEF Spec

-----------------------------------------------------------------------------
(* The session. *)

LoggingIn(c) == purpose[c] = "login" /\ ~Quiet(c)

SessionInv ==
    /\ found => Lister # NoLister /\ session[SessionOf[Lister]] = TRUE
    /\ \A c \in Callers : LoggingIn(c) => session[SessionOf[c]] = FALSE
    /\ \A c \in Callers : at[c] = "body" => session[SessionOf[c]] = TRUE

(* Two callers of one session that are both active share the lister's, in  *)
(* a fan-out that it has opened.                                           *)
LEMMA Alone == ASSUME TypeOK, PhaseInv, SessionInv PROVE LoginAlone
<1> SUFFICES ASSUME NEW c \in Callers, NEW d \in Callers, c # d, SessionOf[c] = SessionOf[d],
                    LoggingIn(c), ~Quiet(d)
             PROVE  FALSE
  BY DEF LoginAlone, LoggingIn, Quiet
<1>1. ~Quiet(c) /\ session[SessionOf[c]] = FALSE
  BY DEF LoggingIn, SessionInv
<1>2. phase = "fan"
  <2>1. CASE phase = "list"
    BY <1>1, <2>1, CallersAre DEF PhaseInv, Quiet
  <2>2. CASE phase = "end"
    BY <1>1, <2>2 DEF PhaseInv, Quiet
  <2> QED
    BY <2>1, <2>2 DEF TypeOK
<1>3. c \in Workers /\ d \in Workers
  BY <1>1, <1>2, CallersAre DEF PhaseInv, Quiet
<1>4. Lister # NoLister /\ SessionOf[c] = SessionOf[Lister]
  BY <1>3, ApiClientAssumption
<1>5. found
  BY <1>2, <1>4 DEF PhaseInv
<1> QED
  BY <1>1, <1>4, <1>5 DEF SessionInv

LEMMA SessionsOpen == Spec => []SessionInv
<1>1. Init => SessionInv
  BY DEF Init, SessionInv, LoggingIn, Quiet
<1>2. TypeInv /\ PhaseInv /\ SessionInv /\ [Next]_vars => SessionInv'
  <2> SUFFICES ASSUME TypeInv, PhaseInv, SessionInv, [Next]_vars PROVE SessionInv'
    OBVIOUS
  <2>0. TypeOK /\ LoginAlone
    BY Alone DEF TypeInv
  <2>a. \A c \in Callers : SessionOf[c] \in Sessions
    BY DEF Sessions
  <2>1. ASSUME NEW c \in Callers, Call(c) PROVE SessionInv'
    <3>1. /\ session' = session /\ found' = found
          /\ \A d \in Callers : at'[d] = IF d = c THEN "queue" ELSE at[d]
          /\ \A d \in Callers : purpose'[d] =
                IF d = c THEN (IF session[SessionOf[c]] THEN "get" ELSE "login") ELSE purpose[d]
      BY <2>0, <2>1 DEF Call, Goto, TypeOK
    <3>2. session[SessionOf[c]] \in BOOLEAN
      BY <2>0, <2>a DEF TypeOK
    <3> QED
      BY <3>1, <3>2 DEF SessionInv, LoggingIn, Quiet
  <2>2. ASSUME NEW c \in Callers,
               Acquire(c) \/ Allow(c) \/ Reserve(c) \/ Refuse(c) \/ Proceed(c) \/ DoFails(c)
        PROVE  SessionInv'
    <3>1. /\ session' = session /\ found' = found /\ purpose' = purpose
          /\ ~Quiet(c)
          /\ \E x \in {"limit", "flight", "wait", "refused", "failed"} :
                \A d \in Callers : at'[d] = IF d = c THEN x ELSE at[d]
      BY <2>0, <2>2 DEF Acquire, Allow, Reserve, Refuse, Proceed, DoFails, Goto, TypeOK, Quiet, Ended
    <3> QED
      BY <3>1 DEF SessionInv, LoggingIn, Quiet
  <2>3. ASSUME NEW c \in Callers, LoggedIn(c) PROVE SessionInv'
    <3>1. /\ found' = found
          /\ LoggingIn(c)
          /\ \A d \in Callers : at'[d] = IF d = c THEN "queue" ELSE at[d]
          /\ \A d \in Callers : purpose'[d] = IF d = c THEN "get" ELSE purpose[d]
      BY <2>0, <2>3 DEF LoggedIn, Goto, TypeOK, LoggingIn, Quiet, Ended
    <3>2. \A d \in Callers : SessionOf[d] # SessionOf[c] =>
                session'[SessionOf[d]] = session[SessionOf[d]]
      BY <2>0, <2>3, <2>a DEF LoggedIn, TypeOK
    <3>3. \A d \in Callers : d # c /\ SessionOf[d] = SessionOf[c] => Quiet(d)
      BY <2>0, <3>1 DEF LoginAlone, LoggingIn, Quiet
    <3>4. found => SessionOf[Lister] # SessionOf[c] /\ Lister \in Callers
      BY <3>1, WorkersCall DEF SessionInv
    <3>5. found' => Lister # NoLister /\ session'[SessionOf[Lister]] = TRUE
      BY <3>1, <3>2, <3>4 DEF SessionInv
    <3>6. ASSUME NEW d \in Callers, LoggingIn(d)' PROVE session'[SessionOf[d]] = FALSE
      <4>1. d # c /\ LoggingIn(d) /\ ~Quiet(d)
        BY <3>1, <3>6 DEF LoggingIn, Quiet
      <4> QED
        BY <4>1, <3>2, <3>3 DEF SessionInv
    <3>7. ASSUME NEW d \in Callers, at'[d] = "body" PROVE session'[SessionOf[d]] = TRUE
      <4>1. d # c /\ at[d] = "body" /\ ~Quiet(d)
        BY <3>1, <3>7 DEF Quiet, Ended
      <4> QED
        BY <4>1, <3>2, <3>3 DEF SessionInv
    <3> QED
      BY <3>5, <3>6, <3>7 DEF SessionInv
  <2>4. ASSUME NEW c \in Callers, Answered(c) PROVE SessionInv'
    <3>1. /\ session' = session /\ found' = found /\ purpose' = purpose
          /\ purpose[c] = "get"
          /\ \E x \in {"failed", "body"} :
                /\ x = "body" => session[SessionOf[c]]
                /\ \A d \in Callers : at'[d] = IF d = c THEN x ELSE at[d]
      BY <2>0, <2>4 DEF Answered, Goto, TypeOK
    <3>2. session[SessionOf[c]] \in BOOLEAN
      BY <2>0, <2>a DEF TypeOK
    <3> QED
      BY <3>1, <3>2 DEF SessionInv, LoggingIn, Quiet
  <2>5. ASSUME NEW c \in Callers, ReadBody(c) PROVE SessionInv'
    <3>1. /\ session' = session /\ purpose' = purpose
          /\ at[c] = "body"
          /\ found' => found \/ c = Lister
          /\ \E x \in {"failed", "done"} :
                \A d \in Callers : at'[d] = IF d = c THEN x ELSE at[d]
      BY <2>0, <2>5 DEF ReadBody, Goto, TypeOK
    <3>2. c = Lister => Lister # NoLister
      BY CallersAre, ApiClientAssumption
    <3> QED
      BY <3>1, <3>2 DEF SessionInv, LoggingIn, Quiet, Ended
  <2>6. CASE Tick \/ FanOut
    BY <2>6 DEF Tick, FanOut, SessionInv, LoggingIn, Quiet
  <2>7. CASE Return \/ Join
    BY <2>7 DEF Return, Join, NextRound, SessionInv, LoggingIn, Quiet
  <2>8. CASE UNCHANGED vars
    BY <2>8 DEF vars, SessionInv, LoggingIn, Quiet
  <2> QED
    BY <2>1, <2>2, <2>3, <2>4, <2>5, <2>6, <2>7, <2>8 DEF Next, Caller
<1> QED
  BY <1>1, <1>2, Typing, Phases, PTL DEF Spec

(* While a caller logs in, nobody else uses its session.                   *)
THEOREM LoginsAlone == Spec => []LoginAlone
<1>1. TypeInv /\ PhaseInv /\ SessionInv => LoginAlone
  BY Alone DEF TypeInv
<1> QED
  BY <1>1, Typing, Phases, SessionsOpen, PTL
=============================================================================
