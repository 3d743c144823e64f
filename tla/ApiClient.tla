------------------------------- MODULE ApiClient -------------------------------
(***************************************************************************)
(* The NSX-T client: Get and updateEndpointStatus, login, executeRequest.  *)
(*                                                                         *)
(* A call logs in if its client has no session yet, then sends its request;*)
(* either goes through executeRequest, which takes a slot of the semaphore,*)
(* takes a token from the rate limiter (waiting at most                    *)
(* RequestsPerSecondTimeout for it), and gives the slot back when the      *)
(* server has answered.  The body is read afterwards.                      *)
(*                                                                         *)
(* Two uses of a client.  The extended collectors share one, session       *)
(* included: a collector first lists (one goroutine, the lister), then fans*)
(* out (the workers) and joins; collectors follow one another.  The        *)
(* goroutines of a wave work on copies of a client: they share semaphore   *)
(* and limiter, each has a session of its own, there is no lister, and one *)
(* that fails a request makes no more.                                     *)
(*                                                                         *)
(* Time passes in token periods, 1/RequestsPerSecond of a second.  The     *)
(* limiter is external (golang.org/x/time/rate, burst 1): a balance of     *)
(* tokens that reservations may overdraw, to be refilled one per period.   *)
(***************************************************************************)
EXTENDS Integers, FiniteSets

CONSTANTS Workers,          \* goroutines of a fan-out, or of a wave
          Lister,           \* the goroutine that lists, or NoLister
          NoLister,
          SessionOf,        \* the session each caller uses
          RequestsPerSecond,
          RequestsPerSecondTimeout,
          Gets,             \* the most requests of one goroutine in a phase
          Rounds            \* bound: fan-outs, one after the other

Callers == Workers \cup ({Lister} \ {NoLister})
Sessions == {SessionOf[c] : c \in Callers}

(* GetClient: make(chan struct{}, concurrency) *)
Concurrency == IF RequestsPerSecond < 1 THEN 10 ELSE RequestsPerSecond

(* The longest wait for a token, in periods, that ends before the deadline. *)
LongestWait == RequestsPerSecondTimeout * RequestsPerSecond

(* A session that two workers share is the lister's. *)
ASSUME ApiClientAssumption ==
    /\ IsFiniteSet(Workers)
    /\ Lister \notin Workers /\ NoLister \notin Workers
    /\ SessionOf \in [Callers -> Sessions]
    /\ \A c, d \in Workers :
          c # d /\ SessionOf[c] = SessionOf[d] => Lister # NoLister /\ SessionOf[c] = SessionOf[Lister]
    /\ RequestsPerSecond \in Nat /\ RequestsPerSecondTimeout \in Nat
    /\ Gets \in Nat \ {0} /\ Rounds \in Nat \ {0}

VARIABLES phase,    \* "list", "fan" (or wave), "end"
          round,    \* fan-outs still to come
          found,    \* has a request of the lister succeeded?
          at,       \* where each caller is
          purpose,  \* what its request is: a login or the GET itself
          due,      \* periods until the token of a waiting caller is due
          left,     \* requests a caller has still to begin
          tokens,   \* the limiter's balance
          session   \* does the session have a cookie or token?

vars == <<phase, round, found, at, purpose, due, left, tokens, session>>

States == {"idle", "queue", "limit", "wait", "flight", "body", "done", "failed", "refused"}
Ended == {"done", "failed", "refused"}
Holders == {c \in Callers : at[c] \in {"limit", "wait", "flight"}}

Init ==
    /\ phase = IF Lister = NoLister THEN "fan" ELSE "list"
    /\ round = Rounds
    /\ found = FALSE
    /\ at = [c \in Callers |-> "idle"]
    /\ purpose = [c \in Callers |-> "get"]
    /\ due = [c \in Callers |-> 0]
    /\ left = [c \in Callers |-> Gets]
    /\ tokens = 1
    /\ session = [s \in Sessions |-> FALSE]

Goto(c, s) == at' = [at EXCEPT ![c] = s]

-----------------------------------------------------------------------------
(* A call of Get or updateEndpointStatus by caller c. *)

(* A lister may go on after a request that failed (collectIPPools, and      *)
(* collectLB with its name tables), and so may a worker, but not a          *)
(* goroutine of a wave.                                                     *)
MayCall(c) ==
    /\ left[c] > 0
    /\ phase = IF c = Lister THEN "list" ELSE "fan"
    /\ at[c] \in {"idle"} \cup (IF Lister = NoLister THEN {"done"} ELSE Ended)

(* login returns at once if the client has a cookie or a token, otherwise  *)
(* it sends a request of its own first.                                    *)
Call(c) ==
    /\ MayCall(c)
    /\ left' = [left EXCEPT ![c] = @ - 1]
    /\ purpose' = [purpose EXCEPT ![c] = IF session[SessionOf[c]] THEN "get" ELSE "login"]
    /\ Goto(c, "queue")
    /\ UNCHANGED <<phase, round, found, due, tokens, session>>

Mutant_NoSemaphore(c) ==
    /\ at[c] = "queue"
    /\ Goto(c, "limit")
    /\ UNCHANGED <<phase, round, found, purpose, due, left, tokens, session>>

(* c.sem <- struct{}{} *)
Acquire(c) ==
    /\ at[c] = "queue"
    /\ Cardinality(Holders) < Concurrency
    /\ Goto(c, "limit")
    /\ UNCHANGED <<phase, round, found, purpose, due, left, tokens, session>>

(* limiter.Allow *)
Allow(c) ==
    /\ at[c] = "limit"
    /\ tokens >= 1
    /\ tokens' = tokens - 1
    /\ Goto(c, "flight")
    /\ UNCHANGED <<phase, round, found, purpose, due, left, session>>

(* limiter.Wait reserves the next token and sleeps until it is due. *)
Reserve(c) ==
    /\ at[c] = "limit"
    /\ tokens < 1
    /\ RequestsPerSecond > 0
    /\ 1 - tokens <= LongestWait
    /\ tokens' = tokens - 1
    /\ due' = [due EXCEPT ![c] = 1 - tokens]
    /\ Goto(c, "wait")
    /\ UNCHANGED <<phase, round, found, purpose, left, session>>

(* limiter.Wait refuses: the token would be due after the deadline, or     *)
(* never if no tokens are refilled.  executeRequest returns the error.     *)
Refuse(c) ==
    /\ at[c] = "limit"
    /\ tokens < 1
    /\ RequestsPerSecond = 0 \/ 1 - tokens > LongestWait
    /\ Goto(c, "refused")
    /\ UNCHANGED <<phase, round, found, purpose, due, left, tokens, session>>

Mutant_ProceedAtOnce(c) ==
    /\ at[c] = "wait"
    /\ Goto(c, "flight")
    /\ UNCHANGED <<phase, round, found, purpose, due, left, tokens, session>>

(* The token is due. *)
Proceed(c) ==
    /\ at[c] = "wait"
    /\ due[c] = 0
    /\ Goto(c, "flight")
    /\ UNCHANGED <<phase, round, found, purpose, due, left, tokens, session>>

(* client.Do fails, or the request times out. *)
DoFails(c) ==
    /\ at[c] = "flight"
    /\ Goto(c, "failed")
    /\ UNCHANGED <<phase, round, found, purpose, due, left, tokens, session>>

(* The server answers the login.  Its status is not looked at: a refused   *)
(* login leaves the session without cookie and token.  The GET follows,    *)
(* through executeRequest again.                                           *)
LoggedIn(c) ==
    /\ at[c] = "flight"
    /\ purpose[c] = "login"
    /\ \E granted \in BOOLEAN : session' = [session EXCEPT ![SessionOf[c]] = granted]
    /\ purpose' = [purpose EXCEPT ![c] = "get"]
    /\ Goto(c, "queue")
    /\ UNCHANGED <<phase, round, found, due, left, tokens>>

(* The server answers the GET: with an error status, as it always does     *)
(* without a session and as it may do once a session has expired, or with  *)
(* a body to read.                                                         *)
Answered(c) ==
    /\ at[c] = "flight"
    /\ purpose[c] = "get"
    /\ \/ Goto(c, "failed")
       \/ session[SessionOf[c]] /\ Goto(c, "body")
    /\ UNCHANGED <<phase, round, found, purpose, due, left, tokens, session>>

(* io.ReadAll and json.Unmarshal. *)
ReadBody(c) ==
    /\ at[c] = "body"
    /\ \/ Goto(c, "failed") /\ UNCHANGED found
       \/ Goto(c, "done") /\ found' = (found \/ c = Lister)
    /\ UNCHANGED <<phase, round, purpose, due, left, tokens, session>>

-----------------------------------------------------------------------------
(* A token period passes. *)
Tick ==
    /\ RequestsPerSecond > 0
    /\ tokens < 1
    /\ tokens' = tokens + 1
    /\ due' = [c \in Callers |-> IF due[c] > 0 THEN due[c] - 1 ELSE 0]
    /\ UNCHANGED <<phase, round, found, at, purpose, left, session>>

NextRound ==
    /\ round' = round - 1
    /\ phase' = IF round' = 0 THEN "end" ELSE "list"
    /\ found' = FALSE
    /\ at' = [c \in Callers |-> "idle"]
    /\ left' = [c \in Callers |-> Gets]

Mutant_FanOutAnyway ==
    /\ phase = "list"
    /\ at[Lister] \in Ended
    /\ phase' = "fan"
    /\ UNCHANGED <<round, found, at, left, purpose, due, tokens, session>>

(* The collector has items to fan out over. *)
FanOut ==
    /\ phase = "list"
    /\ at[Lister] \in Ended
    /\ found
    /\ phase' = "fan"
    /\ UNCHANGED <<round, found, at, left, purpose, due, tokens, session>>

(* It returns the error, or has nothing to fan out over: the next          *)
(* collector runs.                                                         *)
Return ==
    /\ phase = "list"
    /\ at[Lister] \in Ended
    /\ NextRound
    /\ UNCHANGED <<purpose, due, tokens, session>>

Mutant_JoinOnSuccess ==
    /\ phase = "fan"
    /\ \A c \in Workers : at[c] = "done"
    /\ IF Lister = NoLister
       THEN phase' = "end" /\ UNCHANGED <<round, found, at, left>>
       ELSE NextRound
    /\ UNCHANGED <<purpose, due, tokens, session>>

(* wg.Wait, or the last message of the wave: no worker has more to ask. *)
Join ==
    /\ phase = "fan"
    /\ \A c \in Workers : at[c] \in Ended
    /\ IF Lister = NoLister
       THEN phase' = "end" /\ UNCHANGED <<round, found, at, left>>
       ELSE NextRound
    /\ UNCHANGED <<purpose, due, tokens, session>>

Caller(c) ==
    \/ Call(c) \/ Acquire(c) \/ Allow(c) \/ Reserve(c) \/ Refuse(c) \/ Proceed(c)
    \/ DoFails(c) \/ LoggedIn(c) \/ Answered(c) \/ ReadBody(c)

Next == (\E c \in Callers : Caller(c)) \/ Tick \/ FanOut \/ Return \/ Join

Spec == Init /\ [][Next]_vars

(* Requests end (RequestTimeout is set), time passes, and the runtime      *)
(* hands a free slot of the semaphore to some waiting goroutine.           *)
FairSpec == /\ Spec
            /\ \A c \in Callers : WF_vars(Caller(c))
            /\ WF_vars(Tick) /\ WF_vars(FanOut \/ Return) /\ WF_vars(Join)

-----------------------------------------------------------------------------
(* Properties. *)

TypeOK ==
    /\ phase \in {"list", "fan", "end"}
    /\ round \in 0..Rounds
    /\ found \in BOOLEAN
    /\ at \in [Callers -> States]
    /\ purpose \in [Callers -> {"login", "get"}]
    /\ due \in [Callers -> Nat]
    /\ left \in [Callers -> 0..Gets]
    /\ tokens \in Int /\ tokens <= 1
    /\ session \in [Sessions -> BOOLEAN]
    /\ Cardinality(Holders) <= Concurrency

(* The tokens owed are owed to goroutines that wait for them, one per      *)
(* period without a gap; so a goroutine that has its slot waits at most    *)
(* one second for its token, however many goroutines there are.            *)
DenseQueue ==
    /\ \A k \in 1..(-tokens) : \E c \in Callers : at[c] = "wait" /\ due[c] = k
    /\ \A c \in Callers : at[c] = "wait" => due[c] <= Concurrency

(* The comment on sem (http.go:58): without it the tail of the queue at    *)
(* the limiter "blows past RequestsPerSecondTimeout"; its size "matches    *)
(* RequestsPerSecond so the queue is always drainable".  The limiter       *)
(* refuses nobody.                                                         *)
AlwaysDrainable == \A c \in Callers : at[c] # "refused"

(* cookie and token are read and written without a lock.  While a caller   *)
(* logs in, no other caller of that client makes a request: the session is *)
(* never written under another goroutine's hands, nor logged in twice.     *)
LoginAlone ==
    \A c, d \in Callers :
        /\ c # d
        /\ SessionOf[c] = SessionOf[d]
        /\ purpose[c] = "login"
        /\ at[c] \notin {"idle"} \cup Ended
        => at[d] \in {"idle"} \cup Ended

(* Every listing is followed by its join, every fan-out and wave ends: no  *)
(* goroutine waits for a slot that nobody gives back.                      *)
AllJoin == <>(phase = "end")
=============================================================================
