----------------------------- MODULE RateLimiter -----------------------------
(***************************************************************************)
(* The first onRequest hook (apps/api/src/server.ts): a fixed window of    *)
(* requests for each bucket and client address.  A window opens with the   *)
(* first request after the previous one ended; nothing ever removes an     *)
(* entry.  The hook runs to its end on one thread.                         *)
(*                                                                         *)
(* Time is an integer clock that Tick advances up to MaxClock; Second is   *)
(* how many of its units make the unit of the retry-after header.          *)
(***************************************************************************)
EXTENDS Integers, Sequences, FiniteSets, Functions

CONSTANTS
  Ip,                \* client addresses
  Limit,             \* requests of each bucket admitted per window
  RateLimitWindow,   \* RATE_LIMIT_WINDOW_MS
  Second,            \* clock units per second
  MaxClock           \* bound of the model on the clock

(* What the routes tell apart: the method and the part of the url that the *)
(* tests look for.                                                         *)
Method == {"GET", "POST"}
Url    == {"/health", "/v1/assignments/poll", "/submit", "other"}

BucketName == {"worker-poll", "worker-submit", "mutations", "reads"}

ASSUME RateLimiterAssumption ==
  /\ Limit \in [BucketName -> Nat \ {0}]
  /\ RateLimitWindow \in Nat \ {0}
  /\ Second \in Nat \ {0}
  /\ MaxClock \in Nat

VARIABLES
  clock,
  rateLimitState,    \* the window of each key that ever made a request
  admitted,          \* history: when each key's requests were let through
  promised           \* history: when a refused key was last told to return

limiterVars == <<clock, rateLimitState, admitted, promised>>

Key == BucketName \X Ip

NoBucket == "none"

ResolveRateLimitBucket(method, url) ==
  CASE url = "/health" -> NoBucket
    [] method = "GET" /\ url = "/v1/assignments/poll" -> "worker-poll"
    [] method = "POST" /\ url = "/submit" -> "worker-submit"
    [] method = "POST" /\ url # "/submit" /\ url # "/health" -> "mutations"
    [] OTHER -> "reads"

RateLimitEntry == [count : Nat, resetAt : Nat]

LimiterTypeOK ==
  /\ clock \in Nat
  /\ DOMAIN rateLimitState \subseteq Key
  /\ rateLimitState \in [DOMAIN rateLimitState -> RateLimitEntry]
  /\ admitted \in [Key -> Seq(Nat)]
  /\ promised \in [Key -> [at : Nat, served : Nat]]

LimiterInit ==
  /\ clock = 0
  /\ rateLimitState = [k \in {} |-> k]
  /\ admitted = [k \in Key |-> <<>>]
  /\ promised = [k \in Key |-> [at |-> 0, served |-> 0]]

-----------------------------------------------------------------------------
WindowOpen(key) ==
  key \in DOMAIN rateLimitState /\ rateLimitState[key].resetAt > clock

SetEntry(key, entry) ==
  rateLimitState' = [k \in DOMAIN rateLimitState \cup {key} |->
                       IF k = key THEN entry ELSE rateLimitState[k]]

OpenWindowUncounted(key) ==  \* slip: the request that opens it is not counted
  /\ ~WindowOpen(key)
  /\ SetEntry(key, [count |-> 0, resetAt |-> clock + RateLimitWindow])

OpenWindow(key) ==
  /\ ~WindowOpen(key)
  /\ SetEntry(key, [count |-> 1, resetAt |-> clock + RateLimitWindow])

CountInWindow(key) ==
  /\ WindowOpen(key)
  /\ rateLimitState[key].count < Limit[key[1]]
  /\ SetEntry(key, [rateLimitState[key] EXCEPT !.count = @ + 1])

Admit(key) ==
  /\ OpenWindow(key) \/ CountInWindow(key)
  /\ admitted' = [admitted EXCEPT ![key] = Append(@, clock)]
  /\ UNCHANGED promised

Refused(key) ==
  /\ WindowOpen(key)
  /\ rateLimitState[key].count >= Limit[key[1]]

RetryAfterFloor(key) ==      \* slip: rounded down
  (rateLimitState[key].resetAt - clock) \div Second

(* Math.ceil of the rest of the window in seconds.                         *)
RetryAfter(key) ==
  (rateLimitState[key].resetAt - clock + Second - 1) \div Second

(* 429: the entry is left as it is.                                        *)
Refuse(key) ==
  /\ Refused(key)
  /\ promised' = [promised EXCEPT ![key] =
       [at |-> clock + RetryAfter(key) * Second, served |-> Len(admitted[key])]]
  /\ UNCHANGED <<rateLimitState, admitted>>

(* The hook lets a request without a bucket through uncounted.             *)
Uncounted(method, url) ==
  /\ ResolveRateLimitBucket(method, url) = NoBucket
  /\ UNCHANGED <<rateLimitState, admitted, promised>>

LetThrough(method, url, ip) ==
  \/ Uncounted(method, url)
  \/ \E b \in BucketName : b = ResolveRateLimitBucket(method, url) /\ Admit(<<b, ip>>)

TurnAway(method, url, ip) ==
  \E b \in BucketName : b = ResolveRateLimitBucket(method, url) /\ Refuse(<<b, ip>>)

Tick ==
  /\ clock < MaxClock
  /\ clock' = clock + 1
  /\ UNCHANGED <<rateLimitState, admitted, promised>>

-----------------------------------------------------------------------------
AdmittedWithin(key, from) ==
  Cardinality({i \in DOMAIN admitted[key] :
                 from <= admitted[key][i] /\ admitted[key][i] < from + RateLimitWindow})

(* Windows are not aligned and one may follow the other at once, so a burst*)
(* can straddle two of them; yet no stretch as long as a window ever sees  *)
(* twice the limit: the request that opened the first window is already    *)
(* too old when the second opens (server.ts:135).                          *)
BurstIsBounded ==
  \A key \in Key : \A from \in Range(admitted[key]) :
    AdmittedWithin(key, from) < 2 * Limit[key[1]]

(* The entry counts what was let through since its window opened, and no   *)
(* window lets through more than the limit: opening, counting and refusing *)
(* keep one account of the requests (server.ts:135-157).                   *)
WindowKeepsQuota ==
  \A key \in DOMAIN rateLimitState :
    LET entry == rateLimitState[key]
        opened == entry.resetAt - RateLimitWindow
    IN  /\ entry.count <= Limit[key[1]]
        /\ entry.count = Cardinality({i \in DOMAIN admitted[key] : admitted[key][i] >= opened})

(* A client told to come back after some seconds and patient enough to do  *)
(* so is refused again only if others behind its address were served in    *)
(* between: the header never promises too early (server.ts:148).           *)
PatienceIsServed ==
  \A key \in Key :
    /\ Refused(key)
    /\ 0 < promised[key].at
    /\ promised[key].at <= clock
    => Len(admitted[key]) > promised[key].served

=============================================================================
