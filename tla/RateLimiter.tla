------------------------------ MODULE RateLimiter ------------------------------
(***************************************************************************)
(* pdsno/security/rate_limiter.py: TokenBucket, RateLimiter and            *)
(* AuthenticationRateLimiter.                                              *)
(*                                                                         *)
(* Time is counted in ticks and tokens in what one tick refills, so the    *)
(* refill rate is 1, a request costs Cost and a full bucket holds          *)
(* Capacity (burst_size requests).  Fractions of a token, which the code   *)
(* keeps as floats, are therefore kept too.                                *)
(***************************************************************************)
EXTENDS Naturals

CONSTANTS
    Clients,            \* client ids; for the login limiter, user names
    None,               \* no bucket, no lock-out, no answer
    Cost,               \* one request, in ticks of refill
    Capacity,           \* burst_size requests
    MaxIdle,            \* cleanup_old_buckets' max_idle_seconds
    LockoutThreshold,   \* refusals in a row that lock a client out
    LockoutDuration     \* how long it stays locked out

(***************************************************************************)
(* The defaults are: 5 attempts a minute (Cost = 12 s, Capacity = 60 s),   *)
(* MaxIdle = 3600 s, 10 refusals, 15 minutes.  A bucket that may be        *)
(* dropped, and a lock-out that ends, are both older than a full refill.   *)
(***************************************************************************)
ASSUME LimiterAssumption ==
    /\ Cost \in Nat \ {0}
    /\ Capacity \in Nat
    /\ Cost <= Capacity
    /\ MaxIdle \in Nat
    /\ Capacity <= MaxIdle
    /\ LockoutThreshold \in Nat \ {0}
    /\ LockoutDuration \in Nat
    /\ Capacity <= LockoutDuration
    /\ None \notin Nat
    /\ None \notin [tokens : Nat, last_refill : Nat]
    /\ None \notin [client : Clients, allowed : BOOLEAN]

VARIABLES
    now,            \* time.time() and datetime.now()
    buckets,        \* client -> [tokens, last_refill], or None
    violations,     \* client -> refusals since the last success (0: no entry)
    lockouts,       \* client -> end of its lock-out, or None
    verdict         \* the last answer of allow_request

limiterVars == <<now, buckets, violations, lockouts, verdict>>

LimiterInit ==
    /\ now = 0
    /\ buckets = [c \in Clients |-> None]
    /\ violations = [c \in Clients |-> 0]
    /\ lockouts = [c \in Clients |-> None]
    /\ verdict = None

--------------------------------------------------------------------------------
\* TokenBucket

NewBucket == [tokens |-> Capacity, last_refill |-> now]

\* TokenBucket._refill
Refill(b) ==
    LET filled == b.tokens + (now - b.last_refill)
    IN  [tokens |-> IF filled <= Capacity THEN filled ELSE Capacity,
         last_refill |-> now]

--------------------------------------------------------------------------------
\* RateLimiter

\* The bucket allow_request works on when the dictionary of buckets is bs.
BucketIn(bs, c) == IF bs[c] = None THEN NewBucket ELSE Refill(bs[c])

\* RateLimiter.allow_request, on buckets bs and violations vs: both outcomes
\* leave a refilled bucket, an allowed request pays and clears the refusals.
AllowRequest(bs, vs, c) ==
    LET b == BucketIn(bs, c)
    IN  \/ /\ b.tokens >= Cost
           /\ buckets' = [bs EXCEPT ![c] = [b EXCEPT !.tokens = @ - Cost]]
           /\ violations' = [vs EXCEPT ![c] = 0]
           /\ verdict' = [client |-> c, allowed |-> TRUE]
        \/ /\ b.tokens < Cost
           /\ buckets' = [bs EXCEPT ![c] = b]
           /\ violations' = [vs EXCEPT ![c] = @ + 1]
           /\ verdict' = [client |-> c, allowed |-> FALSE]

\* RateLimiter.get_remaining refills the bucket it looks at.
GetRemaining(c) ==
    /\ buckets[c] # None
    /\ buckets' = [buckets EXCEPT ![c] = Refill(buckets[c])]
    /\ UNCHANGED <<now, violations, lockouts, verdict>>

\* RateLimiter.reset_client, an operator's act; a lock-out stays.
ResetClient(c) ==
    /\ buckets' = [buckets EXCEPT ![c] = None]
    /\ violations' = [violations EXCEPT ![c] = 0]
    /\ UNCHANGED <<now, lockouts, verdict>>

\* A bug to be caught: idleness counted against a fixed short time, before
\* the bucket has refilled.
IdleTooSoon(c) == buckets[c] # None /\ now - buckets[c].last_refill > 0

Idle(c) == buckets[c] # None /\ now - buckets[c].last_refill > MaxIdle

\* RateLimiter.cleanup_old_buckets
CleanupOldBuckets ==
    /\ buckets' = [c \in Clients |-> IF Idle(c) THEN None ELSE buckets[c]]
    /\ violations' = [c \in Clients |-> IF Idle(c) THEN 0 ELSE violations[c]]
    /\ UNCHANGED <<now, lockouts, verdict>>

--------------------------------------------------------------------------------
\* AuthenticationRateLimiter

LockedOut(c) == lockouts[c] # None /\ now < lockouts[c]

\* A client whose lock-out has run out is reset before its attempt counts.
Released(c) == lockouts[c] # None /\ now >= lockouts[c]

BucketsAfterRelease(c) ==
    IF Released(c) THEN [buckets EXCEPT ![c] = None] ELSE buckets

ViolationsAfterRelease(c) ==
    IF Released(c) THEN [violations EXCEPT ![c] = 0] ELSE violations

\* allow_authentication_attempt, unless it answers "Account locked" at once.
CountedAttempt(c) ==
    /\ ~LockedOut(c)
    /\ AllowRequest(BucketsAfterRelease(c), ViolationsAfterRelease(c), c)
    /\ lockouts' = [lockouts EXCEPT ![c] =
            IF ~verdict'.allowed /\ violations'[c] >= LockoutThreshold
            THEN now + LockoutDuration
            ELSE None]
    /\ UNCHANGED now

\* A restarted process has new, empty dictionaries.
LimiterRestart ==
    /\ buckets' = [c \in Clients |-> None]
    /\ violations' = [c \in Clients |-> 0]
    /\ lockouts' = [c \in Clients |-> None]
    /\ verdict' = None
    /\ UNCHANGED now

\* The clock moves.
Tick ==
    /\ now' = now + 1
    /\ UNCHANGED <<buckets, violations, lockouts, verdict>>

--------------------------------------------------------------------------------
\* Ticks until the client's bucket is full again.
Debt(c) ==
    IF buckets[c] = None THEN 0 ELSE Capacity - Refill(buckets[c]).tokens

LimiterTypeOK ==
    /\ now \in Nat
    /\ buckets \in [Clients -> [tokens : 0..Capacity, last_refill : 0..now] \cup {None}]
    /\ violations \in [Clients -> Nat]
    /\ lockouts \in [Clients -> Nat \cup {None}]
    /\ verdict \in [client : Clients, allowed : BOOLEAN] \cup {None}

================================================================================
