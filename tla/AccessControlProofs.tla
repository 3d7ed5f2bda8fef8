-------------------------- MODULE AccessControlProofs --------------------------
(***************************************************************************)
(* Proofs about AccessControl.tla and the limiter below it, for any        *)
(* clients, costs, burst sizes and lock-outs the assumptions allow.        *)
(***************************************************************************)
EXTENDS AccessControl, TLAPS

--------------------------------------------------------------------------------
(* The limiter.  Everything is said in terms of Debt, what the buckets are  *)
(* abstracted to.                                                           *)

\* A lock-out lasts at least until the bucket is full again: this is why
\* ending it may drop the bucket.
LockoutCovers ==
    \A c \in Clients : lockouts[c] # None => Debt(c) = 0 \/ Debt(c) + now <= lockouts[c]

LimiterInv == LimiterTypeOK /\ LockoutCovers

\* A bucket there is, is a record.
LEMMA BucketTyped ==
    ASSUME LimiterTypeOK, NEW c \in Clients, buckets[c] # None
    PROVE  /\ buckets[c] \in [tokens : 0..Capacity, last_refill : 0..now]
           /\ buckets[c].tokens \in 0..Capacity
           /\ buckets[c].last_refill \in 0..now
<1>1. buckets[c] \in [tokens : 0..Capacity, last_refill : 0..now] \cup {None}
  BY DEF LimiterTypeOK
<1>2. QED
  BY <1>1

\* A refilled bucket is typed and holds what the debt leaves of the burst size.
LEMMA RefillTyped ==
    ASSUME LimiterTypeOK, NEW c \in Clients, buckets[c] # None
    PROVE  /\ Refill(buckets[c]) \in [tokens : 0..Capacity, last_refill : 0..now]
           /\ Refill(buckets[c]).tokens = Capacity - Debt(c)
           /\ Refill(buckets[c]).last_refill = now
           /\ Debt(c) \in 0..Capacity
<1>1. now \in Nat /\ Capacity \in Nat
  BY LimiterAssumption DEF LimiterTypeOK
<1>2. /\ Refill(buckets[c]).tokens \in 0..Capacity
      /\ Refill(buckets[c]).last_refill = now
  BY <1>1, BucketTyped DEF Refill
<1>3. Debt(c) = Capacity - Refill(buckets[c]).tokens
  BY DEF Debt
<1>4. Refill(buckets[c]) \in [tokens : 0..Capacity, last_refill : 0..now]
  BY <1>1, <1>2 DEF Refill
<1>5. QED
  BY <1>1, <1>2, <1>3, <1>4

\* What a bucket owes is at most its capacity.
LEMMA DebtTyped ==
    ASSUME LimiterTypeOK, NEW c \in Clients
    PROVE  Debt(c) \in 0..Capacity
<1>1. CASE buckets[c] = None
  BY <1>1, LimiterAssumption DEF Debt
<1>2. CASE buckets[c] # None
  BY <1>2, RefillTyped
<1>3. QED
  BY <1>1, <1>2

\* The debt of a client whose bucket was just made or refilled to n tokens.
LEMMA DebtAfter ==
    ASSUME NEW c \in Clients, NEW n \in 0..Capacity, now' = now, now \in Nat,
           buckets'[c] = [tokens |-> n, last_refill |-> now]
    PROVE  Debt(c)' = Capacity - n
<1>1. buckets'[c] # None
  <2>1. buckets'[c] \in [tokens : Nat, last_refill : Nat]
    BY LimiterAssumption
  <2>2. QED
    BY <2>1, LimiterAssumption
<1>2. n + (now - now) = n /\ n <= Capacity
  BY LimiterAssumption
<1>3. Debt(c)' = Capacity - IF buckets'[c].tokens + (now' - buckets'[c].last_refill) <= Capacity
                            THEN buckets'[c].tokens + (now' - buckets'[c].last_refill)
                            ELSE Capacity
  BY <1>1 DEF Debt, Refill
<1>4. QED
  BY <1>2, <1>3

\* What a client other than the one at hand owes stays.
LEMMA DebtKept ==
    ASSUME NEW c \in Clients, now' = now, buckets'[c] = buckets[c]
    PROVE  Debt(c)' = Debt(c)
BY DEF Debt, Refill

--------------------------------------------------------------------------------
(* One lemma per operation of the limiter.                                 *)

\* With a tick of the clock every debt falls by one, down to none.
LEMMA TickPaysBack ==
    ASSUME LimiterInv, Tick
    PROVE  /\ LimiterInv'
           /\ \A c \in Clients : Debt(c)' = IF Debt(c) = 0 THEN 0 ELSE Debt(c) - 1
<1>1. LimiterTypeOK'
  <2>1. 0..now \subseteq 0..(now + 1)
    BY DEF LimiterInv, LimiterTypeOK
  <2>2. [tokens : 0..Capacity, last_refill : 0..now]
            \subseteq [tokens : 0..Capacity, last_refill : 0..(now + 1)]
    BY <2>1
  <2>3. buckets' \in [Clients -> [tokens : 0..Capacity, last_refill : 0..now'] \cup {None}]
    BY <2>2 DEF LimiterInv, LimiterTypeOK, Tick
  <2>4. QED
    BY <2>3 DEF LimiterInv, LimiterTypeOK, Tick
<1>2. ASSUME NEW c \in Clients
      PROVE  Debt(c)' = IF Debt(c) = 0 THEN 0 ELSE Debt(c) - 1
  <2>1. CASE buckets[c] = None
    BY <2>1 DEF Tick, Debt
  <2>2. CASE buckets[c] # None
    <3>1. /\ buckets[c].tokens \in 0..Capacity
          /\ buckets[c].last_refill \in 0..now
      BY <2>2, BucketTyped DEF LimiterInv
    <3>2. now \in Nat /\ Capacity \in Nat /\ now' = now + 1 /\ buckets' = buckets
      BY LimiterAssumption DEF LimiterInv, LimiterTypeOK, Tick
    <3>3. Debt(c) = Capacity - IF buckets[c].tokens + (now - buckets[c].last_refill) <= Capacity
                               THEN buckets[c].tokens + (now - buckets[c].last_refill)
                               ELSE Capacity
      BY <2>2 DEF Debt, Refill
    <3>4. Debt(c)' = Capacity - IF buckets'[c].tokens + (now' - buckets'[c].last_refill) <= Capacity
                                THEN buckets'[c].tokens + (now' - buckets'[c].last_refill)
                                ELSE Capacity
      <4>1. buckets'[c] # None
        BY <2>2, <3>2
      <4>2. QED
        BY <4>1 DEF Debt, Refill
    <3>5. QED
      BY <3>1, <3>2, <3>3, <3>4
  <2>3. QED
    BY <2>1, <2>2
<1>3. LockoutCovers'
  <2>1. ASSUME NEW c \in Clients, lockouts'[c] # None
        PROVE  Debt(c)' = 0 \/ Debt(c)' + now' <= lockouts'[c]
    <3>1. Debt(c) = 0 \/ Debt(c) + now <= lockouts[c]
      BY <2>1 DEF Tick, LimiterInv, LockoutCovers
    <3>2. Debt(c) \in 0..Capacity /\ now \in Nat /\ Capacity \in Nat
      BY DebtTyped, LimiterAssumption DEF LimiterInv, LimiterTypeOK
    <3>3. lockouts[c] \in Nat
      BY <2>1 DEF Tick, LimiterInv, LimiterTypeOK
    <3>4. QED
      BY <1>2, <3>1, <3>2, <3>3 DEF Tick
  <2>2. QED
    BY <2>1 DEF LockoutCovers
<1>4. QED
  BY <1>1, <1>2, <1>3 DEF LimiterInv

\* The debts of the others, and with them what their lock-outs cover, are not
\* touched by a step about client c.
LEMMA OneClient ==
    ASSUME LimiterInv, NEW c \in Clients, now' = now, LimiterTypeOK',
           \A d \in Clients : d # c => buckets'[d] = buckets[d] /\ lockouts'[d] = lockouts[d],
           lockouts'[c] # None => Debt(c)' = 0 \/ Debt(c)' + now <= lockouts'[c]
    PROVE  LimiterInv' /\ \A d \in Clients : d # c => Debt(d)' = Debt(d)
<1>1. \A d \in Clients : d # c => Debt(d)' = Debt(d)
  BY DebtKept
<1>2. LockoutCovers'
  BY <1>1 DEF LimiterInv, LockoutCovers
<1>3. QED
  BY <1>1, <1>2 DEF LimiterInv

\* allow_request after a lock-out has ended works on a full bucket, and the
\* client owed nothing.
LEMMA ReleasedOwesNothing ==
    ASSUME LimiterInv, NEW c \in Clients, Released(c)
    PROVE  Debt(c) = 0
<1>1. lockouts[c] \in Nat /\ now \in Nat /\ Capacity \in Nat /\ Debt(c) \in 0..Capacity
  BY DebtTyped, LimiterAssumption DEF LimiterInv, LimiterTypeOK, Released
<1>2. Debt(c) = 0 \/ Debt(c) + now <= lockouts[c]
  BY DEF LimiterInv, LockoutCovers, Released
<1>3. QED
  BY <1>1, <1>2 DEF Released

\* The bucket an attempt works on holds what the debt leaves.
LEMMA BucketAtHand ==
    ASSUME LimiterInv, NEW c \in Clients
    PROVE  BucketIn(BucketsAfterRelease(c), c) = [tokens |-> Capacity - Debt(c), last_refill |-> now]
<1>0. buckets \in [Clients -> [tokens : 0..Capacity, last_refill : 0..now] \cup {None}]
      /\ Capacity \in Nat
  BY LimiterAssumption DEF LimiterInv, LimiterTypeOK
<1>1. CASE Released(c)
  <2>1. BucketsAfterRelease(c)[c] = None
    BY <1>0, <1>1 DEF BucketsAfterRelease
  <2>2. Debt(c) = 0
    BY <1>1, ReleasedOwesNothing
  <2>3. QED
    BY <1>0, <2>1, <2>2 DEF BucketIn, NewBucket
<1>2. CASE ~Released(c) /\ buckets[c] = None
  BY <1>0, <1>2 DEF BucketsAfterRelease, BucketIn, NewBucket, Debt
<1>3. CASE ~Released(c) /\ buckets[c] # None
  <2>1. BucketIn(BucketsAfterRelease(c), c) = Refill(buckets[c])
    BY <1>3 DEF BucketsAfterRelease, BucketIn
  <2>2. Refill(buckets[c]).tokens = Capacity - Debt(c)
    BY <1>3, RefillTyped DEF LimiterInv
  <2>3. Refill(buckets[c]) = [tokens |-> Refill(buckets[c]).tokens, last_refill |-> now]
    BY DEF Refill
  <2>4. QED
    BY <2>1, <2>2, <2>3
<1>4. QED
  BY <1>1, <1>2, <1>3

\* allow_authentication_attempt charges the cost exactly when it fits.
LEMMA AttemptCharges ==
    ASSUME LimiterInv, NEW c \in Clients, CountedAttempt(c)
    PROVE  /\ LimiterInv'
           /\ \A d \in Clients : d # c => Debt(d)' = Debt(d)
           /\ \/ /\ Debt(c) + Cost <= Capacity
                 /\ Debt(c)' = Debt(c) + Cost
                 /\ verdict' = [client |-> c, allowed |-> TRUE]
              \/ /\ Debt(c) + Cost > Capacity
                 /\ Debt(c)' = Debt(c)
                 /\ verdict' = [client |-> c, allowed |-> FALSE]
<1> DEFINE bs == BucketsAfterRelease(c)
           vs == ViolationsAfterRelease(c)
           b == BucketIn(bs, c)
<1>1. /\ now \in Nat /\ Capacity \in Nat /\ Cost \in Nat /\ LockoutDuration \in Nat
      /\ Capacity <= LockoutDuration /\ Cost > 0
      /\ Debt(c) \in 0..Capacity /\ now' = now
  BY DebtTyped, LimiterAssumption DEF LimiterInv, CountedAttempt, LimiterTypeOK
<1>2. /\ b = [tokens |-> Capacity - Debt(c), last_refill |-> now]
      /\ b.tokens = Capacity - Debt(c)
      /\ b.tokens \in 0..Capacity
      /\ [b EXCEPT !.tokens = @ - Cost] = [tokens |-> Capacity - Debt(c) - Cost, last_refill |-> now]
  <2>1. b = [tokens |-> Capacity - Debt(c), last_refill |-> now]
    BY BucketAtHand
  <2>2. QED
    BY <1>1, <2>1
<1>3. bs \in [Clients -> [tokens : 0..Capacity, last_refill : 0..now] \cup {None}]
      /\ \A d \in Clients : d # c => bs[d] = buckets[d]
  BY DEF BucketsAfterRelease, LimiterInv, LimiterTypeOK
<1>4. vs \in [Clients -> Nat]
  BY DEF ViolationsAfterRelease, LimiterInv, LimiterTypeOK
<1>5. lockouts' = [lockouts EXCEPT ![c] =
            IF ~verdict'.allowed /\ violations'[c] >= LockoutThreshold
            THEN now + LockoutDuration ELSE None]
  BY DEF CountedAttempt
<1>6. lockouts' \in [Clients -> Nat \cup {None}]
      /\ \A d \in Clients : d # c => lockouts'[d] = lockouts[d]
  BY <1>1, <1>5 DEF LimiterInv, LimiterTypeOK
<1>7. CASE b.tokens >= Cost
  <2>1. /\ buckets' = [bs EXCEPT ![c] = [b EXCEPT !.tokens = @ - Cost]]
        /\ violations' = [vs EXCEPT ![c] = 0]
        /\ verdict' = [client |-> c, allowed |-> TRUE]
    BY <1>1, <1>2, <1>7 DEF CountedAttempt, AllowRequest
  <2>2. Capacity - Debt(c) - Cost \in 0..Capacity
    BY <1>1, <1>2, <1>7
  <2>3. buckets'[c] = [tokens |-> Capacity - Debt(c) - Cost, last_refill |-> now]
    BY <1>2, <1>3, <2>1
  <2>4. Debt(c)' = Debt(c) + Cost
    <3>1. Debt(c)' = Capacity - (Capacity - Debt(c) - Cost)
      BY <1>1, <2>2, <2>3, DebtAfter
    <3>2. QED
      BY <1>1, <3>1
  <2>5. buckets' \in [Clients -> [tokens : 0..Capacity, last_refill : 0..now] \cup {None}]
        /\ \A d \in Clients : d # c => buckets'[d] = buckets[d]
    BY <1>1, <1>2, <1>3, <2>1, <2>2
  <2>6. violations' \in [Clients -> Nat] /\ verdict' \in [client : Clients, allowed : BOOLEAN]
    BY <1>4, <2>1
  <2>7. LimiterTypeOK'
    BY <1>1, <1>6, <2>5, <2>6 DEF LimiterTypeOK
  <2>8. lockouts'[c] = None
    BY <1>5, <2>1 DEF LimiterInv, LimiterTypeOK
  <2>9. QED
    BY <1>1, <1>2, <1>6, <1>7, <2>1, <2>4, <2>5, <2>7, <2>8, OneClient
<1>8. CASE b.tokens < Cost
  <2>1. /\ buckets' = [bs EXCEPT ![c] = b]
        /\ violations' = [vs EXCEPT ![c] = @ + 1]
        /\ verdict' = [client |-> c, allowed |-> FALSE]
    BY <1>1, <1>2, <1>8 DEF CountedAttempt, AllowRequest
  <2>2. Capacity - Debt(c) \in 0..Capacity
    BY <1>1
  <2>3. buckets'[c] = [tokens |-> Capacity - Debt(c), last_refill |-> now]
    BY <1>2, <1>3, <2>1
  <2>4. Debt(c)' = Debt(c)
    <3>1. Debt(c)' = Capacity - (Capacity - Debt(c))
      BY <1>1, <2>2, <2>3, DebtAfter
    <3>2. QED
      BY <1>1, <3>1
  <2>5. buckets' \in [Clients -> [tokens : 0..Capacity, last_refill : 0..now] \cup {None}]
        /\ \A d \in Clients : d # c => buckets'[d] = buckets[d]
    BY <1>1, <1>2, <1>3, <2>1, <2>2
  <2>6. violations' \in [Clients -> Nat] /\ verdict' \in [client : Clients, allowed : BOOLEAN]
    BY <1>4, <2>1
  <2>7. LimiterTypeOK'
    BY <1>1, <1>6, <2>5, <2>6 DEF LimiterTypeOK
  <2>8. lockouts'[c] # None => lockouts'[c] = now + LockoutDuration
    BY <1>5 DEF LimiterInv, LimiterTypeOK
  <2>9. lockouts'[c] # None => Debt(c)' + now <= lockouts'[c]
    BY <1>1, <2>4, <2>8
  <2>10. Debt(c) + Cost > Capacity
    BY <1>1, <1>2, <1>8
  <2>11. QED
    BY <1>1, <1>6, <2>1, <2>4, <2>5, <2>7, <2>9, <2>10, OneClient
<1>9. QED
  BY <1>1, <1>2, <1>7, <1>8

\* get_remaining refills the bucket and changes no debt.
LEMMA GetRemainingKeeps ==
    ASSUME LimiterInv, NEW c \in Clients, GetRemaining(c)
    PROVE  LimiterInv' /\ \A d \in Clients : Debt(d)' = Debt(d)
<1>1. /\ buckets[c] # None /\ now' = now /\ lockouts' = lockouts
      /\ buckets' = [buckets EXCEPT ![c] = Refill(buckets[c])]
  BY DEF GetRemaining
<1>2. /\ Refill(buckets[c]) \in [tokens : 0..Capacity, last_refill : 0..now]
      /\ Refill(buckets[c]).tokens = Capacity - Debt(c)
      /\ Debt(c) \in 0..Capacity /\ Capacity \in Nat /\ now \in Nat
  BY <1>1, RefillTyped, LimiterAssumption DEF LimiterInv, LimiterTypeOK
<1>3. Refill(buckets[c]) = [tokens |-> Refill(buckets[c]).tokens, last_refill |-> now]
  BY DEF Refill
<1>4. /\ buckets' \in [Clients -> [tokens : 0..Capacity, last_refill : 0..now] \cup {None}]
      /\ buckets'[c] = [tokens |-> Capacity - Debt(c), last_refill |-> now]
      /\ \A d \in Clients : d # c => buckets'[d] = buckets[d]
  BY <1>1, <1>2, <1>3 DEF LimiterInv, LimiterTypeOK
<1>5. LimiterTypeOK'
  BY <1>1, <1>4 DEF LimiterInv, LimiterTypeOK, GetRemaining
<1>6. Debt(c)' = Debt(c)
  <2>1. Capacity - Debt(c) \in 0..Capacity
    BY <1>2
  <2>2. Debt(c)' = Capacity - (Capacity - Debt(c))
    BY <1>1, <1>2, <1>4, <2>1, DebtAfter
  <2>3. QED
    BY <1>2, <2>2
<1>7. lockouts'[c] # None => Debt(c)' = 0 \/ Debt(c)' + now <= lockouts'[c]
  BY <1>1, <1>6 DEF LimiterInv, LockoutCovers
<1>8. QED
  BY <1>1, <1>4, <1>5, <1>6, <1>7, OneClient

\* reset_client drops one client's bucket, and with it the debt.
LEMMA ResetForgives ==
    ASSUME LimiterInv, NEW c \in Clients, ResetClient(c)
    PROVE  /\ LimiterInv' /\ Debt(c)' = 0
           /\ \A d \in Clients : d # c => Debt(d)' = Debt(d)
<1>1. LimiterTypeOK' /\ buckets'[c] = None /\ now' = now /\ lockouts' = lockouts
  BY DEF LimiterInv, LimiterTypeOK, ResetClient
<1>2. Debt(c)' = 0
  BY <1>1 DEF Debt
<1>3. \A d \in Clients : d # c => buckets'[d] = buckets[d] /\ lockouts'[d] = lockouts[d]
  BY DEF LimiterInv, LimiterTypeOK, ResetClient
<1>4. QED
  BY <1>1, <1>2, <1>3, OneClient

\* A bucket that is dropped as idle was full.
LEMMA CleanupForgivesNothing ==
    ASSUME LimiterInv, CleanupOldBuckets
    PROVE  LimiterInv' /\ \A c \in Clients : Debt(c)' = Debt(c)
<1>1. /\ now' = now /\ lockouts' = lockouts
      /\ buckets' = [c \in Clients |-> IF Idle(c) THEN None ELSE buckets[c]]
  BY DEF CleanupOldBuckets
<1>2. LimiterTypeOK'
  BY DEF LimiterInv, LimiterTypeOK, CleanupOldBuckets
<1>3. ASSUME NEW c \in Clients
      PROVE  Debt(c)' = Debt(c)
  <2>1. CASE Idle(c)
    <3>1. /\ buckets[c] # None /\ now - buckets[c].last_refill > MaxIdle
          /\ buckets[c].tokens \in 0..Capacity /\ buckets[c].last_refill \in 0..now
      BY <2>1, BucketTyped DEF Idle, LimiterInv
    <3>2. now \in Nat /\ Capacity \in Nat /\ MaxIdle \in Nat /\ Capacity <= MaxIdle
      BY LimiterAssumption DEF LimiterInv, LimiterTypeOK
    <3>3. Refill(buckets[c]).tokens = Capacity
      BY <3>1, <3>2 DEF Refill
    <3>4. Debt(c) = 0
      BY <3>1, <3>2, <3>3 DEF Debt
    <3>5. buckets'[c] = None
      BY <1>1, <2>1
    <3>6. QED
      BY <3>4, <3>5 DEF Debt
  <2>2. CASE ~Idle(c)
    BY <1>1, <2>2, DebtKept
  <2>3. QED
    BY <2>1, <2>2
<1>4. LockoutCovers'
  BY <1>1, <1>3 DEF LimiterInv, LockoutCovers
<1>5. QED
  BY <1>2, <1>3, <1>4 DEF LimiterInv

\* A restart drops all buckets, and with them all debts.
LEMMA RestartForgives ==
    ASSUME LimiterInv, LimiterRestart
    PROVE  LimiterInv' /\ \A c \in Clients : Debt(c)' = 0
<1>1. LimiterTypeOK'
  BY DEF LimiterInv, LimiterTypeOK, LimiterRestart
<1>2. \A c \in Clients : Debt(c)' = 0
  BY DEF LimiterRestart, Debt
<1>3. LockoutCovers'
  BY DEF LimiterRestart, LockoutCovers
<1>4. QED
  BY <1>1, <1>2, <1>3 DEF LimiterInv

\* Nobody owes anything at the start.
LEMMA LimiterStarts ==
    LimiterInit => LimiterInv /\ \A c \in Clients : Debt(c) = 0
BY LimiterAssumption DEF LimiterInit, LimiterInv, LimiterTypeOK, LockoutCovers, Debt

\* A step that leaves the limiter and the clock alone leaves all debts.
LEMMA LimiterStutters ==
    ASSUME LimiterInv, UNCHANGED limiterVars
    PROVE  LimiterInv' /\ \A c \in Clients : Debt(c)' = Debt(c)
BY DEF LimiterInv, LimiterTypeOK, LockoutCovers, Debt, Refill, limiterVars

--------------------------------------------------------------------------------
(* AccessControl as a user of the limiter.                                  *)

\* The steps of ANext by what they do to the limiter.
LEMMA StepKinds ==
    ASSUME [ANext]_avars
    PROVE  \/ Tick /\ UNCHANGED forgiven
           \/ \E u \in Clients : GetRemaining(u) /\ UNCHANGED forgiven
           \/ \E u \in Clients : /\ ResetClient(u)
                                  /\ forgiven' = [forgiven EXCEPT ![u] = @ + 1]
           \/ CleanupOldBuckets /\ UNCHANGED forgiven
           \/ \E u \in Clients : CountedAttempt(u) /\ UNCHANGED forgiven
           \/ LimiterRestart /\ forgiven' = [u \in Clients |-> forgiven[u] + 1]
           \/ UNCHANGED <<limiterVars, forgiven>>
<1>1. CASE LimiterStep
  BY <1>1 DEF LimiterStep
<1>2. CASE \E u \in Clients, role \in UserRoles, mfa \in BOOLEAN : CreateUser(u, role, mfa)
  BY <1>2 DEF CreateUser
<1>3. CASE \E u \in Clients, passwordOK \in BOOLEAN, mfa \in {"none", "bad", "good"} :
                Authenticate(u, passwordOK, mfa)
  BY <1>3 DEF Authenticate
<1>4. CASE \E u \in Clients, role \in AssignedRoles : AssignRole(u, role)
  BY <1>4 DEF AssignRole
<1>5. CASE Restart
  BY <1>5 DEF Restart
<1>6. CASE UNCHANGED avars
  BY <1>6 DEF avars
<1>7. QED
  BY <1>1, <1>2, <1>3, <1>4, <1>5, <1>6 DEF ANext

\* Every step keeps the limiter's invariant and is a step of the meter.
LEMMA MeterStep ==
    ASSUME LimiterInv, [ANext]_avars
    PROVE  LimiterInv' /\ [Meter!Next]_(Meter!vars)
<1> DEFINE debt == [c \in Clients |-> Debt(c)]
<1>1. CASE Tick /\ UNCHANGED forgiven
  <2>1. LimiterInv' /\ \A c \in Clients : Debt(c)' = IF Debt(c) = 0 THEN 0 ELSE Debt(c) - 1
    BY <1>1, TickPaysBack
  <2>2. debt' = [c \in Clients |-> IF debt[c] = 0 THEN 0 ELSE debt[c] - 1]
    BY <2>1
  <2>3. Meter!Tick
    BY <1>1, <2>2 DEF Meter!Tick, Tick
  <2>4. QED
    BY <2>1, <2>3 DEF Meter!Next
<1>2. ASSUME NEW u \in Clients, GetRemaining(u), UNCHANGED forgiven
      PROVE  LimiterInv' /\ UNCHANGED Meter!vars
  <2>1. LimiterInv' /\ \A c \in Clients : Debt(c)' = Debt(c)
    BY <1>2, GetRemainingKeeps
  <2>2. debt' = debt
    BY <2>1
  <2>3. QED
    BY <1>2, <2>1, <2>2 DEF Meter!vars, GetRemaining
<1>3. ASSUME NEW u \in Clients, ResetClient(u), forgiven' = [forgiven EXCEPT ![u] = @ + 1]
      PROVE  LimiterInv' /\ Meter!Next
  <2>1. LimiterInv' /\ Debt(u)' = 0 /\ \A d \in Clients : d # u => Debt(d)' = Debt(d)
    BY <1>3, ResetForgives
  <2>2. debt' = [debt EXCEPT ![u] = 0]
    BY <2>1
  <2>3. Meter!Forgive(u)
    BY <1>3, <2>2 DEF Meter!Forgive, ResetClient
  <2>4. QED
    BY <2>1, <2>3 DEF Meter!Next
<1>4. CASE CleanupOldBuckets /\ UNCHANGED forgiven
  <2>1. LimiterInv' /\ \A c \in Clients : Debt(c)' = Debt(c)
    BY <1>4, CleanupForgivesNothing
  <2>2. debt' = debt
    BY <2>1
  <2>3. QED
    BY <1>4, <2>1, <2>2 DEF Meter!vars, CleanupOldBuckets
<1>5. ASSUME NEW u \in Clients, CountedAttempt(u), UNCHANGED forgiven
      PROVE  LimiterInv' /\ Meter!Next
  <2>1. /\ LimiterInv'
        /\ \A d \in Clients : d # u => Debt(d)' = Debt(d)
        /\ \/ /\ Debt(u) + Cost <= Capacity
              /\ Debt(u)' = Debt(u) + Cost
              /\ verdict' = [client |-> u, allowed |-> TRUE]
           \/ /\ Debt(u) + Cost > Capacity
              /\ Debt(u)' = Debt(u)
              /\ verdict' = [client |-> u, allowed |-> FALSE]
    BY <1>5, AttemptCharges
  <2>2. CASE /\ Debt(u) + Cost <= Capacity
             /\ Debt(u)' = Debt(u) + Cost
             /\ verdict' = [client |-> u, allowed |-> TRUE]
    <3>1. debt' = [debt EXCEPT ![u] = @ + Cost] /\ debt[u] + Cost <= Capacity
      BY <2>1, <2>2
    <3>2. Meter!Allow(u)
      BY <1>5, <2>2, <3>1 DEF Meter!Allow, CountedAttempt
    <3>3. QED
      BY <2>1, <3>2 DEF Meter!Next
  <2>3. CASE /\ Debt(u) + Cost > Capacity
             /\ Debt(u)' = Debt(u)
             /\ verdict' = [client |-> u, allowed |-> FALSE]
    <3>1. debt' = debt /\ debt[u] + Cost > Capacity
      BY <2>1, <2>3
    <3>2. Meter!Refuse(u)
      BY <1>5, <2>3, <3>1 DEF Meter!Refuse, CountedAttempt
    <3>3. QED
      BY <2>1, <3>2 DEF Meter!Next
  <2>4. QED
    BY <2>1, <2>2, <2>3
<1>6. CASE LimiterRestart /\ forgiven' = [u \in Clients |-> forgiven[u] + 1]
  <2>1. LimiterInv' /\ \A c \in Clients : Debt(c)' = 0
    BY <1>6, RestartForgives
  <2>2. debt' = [c \in Clients |-> 0]
    BY <2>1
  <2>3. Meter!Restart
    BY <1>6, <2>2 DEF Meter!Restart, LimiterRestart
  <2>4. QED
    BY <2>1, <2>3 DEF Meter!Next
<1>7. CASE UNCHANGED <<limiterVars, forgiven>>
  <2>1. LimiterInv' /\ \A c \in Clients : Debt(c)' = Debt(c)
    BY <1>7, LimiterStutters
  <2>2. debt' = debt
    BY <2>1
  <2>3. QED
    BY <1>7, <2>1, <2>2 DEF Meter!vars, limiterVars
<1>8. QED
  BY <1>1, <1>2, <1>3, <1>4, <1>5, <1>6, <1>7, StepKinds

\* The invariant of the limiter, in the whole system.
THEOREM LimiterCorrect == ASpec => []LimiterInv
<1>1. AInit => LimiterInv
  BY LimiterStarts DEF AInit
<1>2. LimiterInv /\ [ANext]_avars => LimiterInv'
  BY MeterStep
<1>3. QED
  BY <1>1, <1>2, PTL DEF ASpec

\* rate_limiter.py beside auth.py and rbac.py answers as a meter that is always
\* up to date: neither dropping idle buckets nor ending lock-outs hands out
\* anything extra, for any rate, burst size and lock-out.
THEOREM MeterIsImplemented == ASpec => MeterImplemented
<1>1. AInit => Meter!Init
  <2>1. SUFFICES ASSUME AInit PROVE Meter!Init
    OBVIOUS
  <2>2. \A c \in Clients : Debt(c) = 0
    BY <2>1, LimiterStarts DEF AInit
  <2>3. now = 0 /\ verdict = None /\ forgiven = [c \in Clients |-> 0]
    BY <2>1 DEF AInit, LimiterInit
  <2>4. QED
    BY <2>2, <2>3 DEF Meter!Init
<1>2. LimiterInv /\ [ANext]_avars => [Meter!Next]_(Meter!vars)
  BY MeterStep
<1>3. QED
  BY <1>1, <1>2, LimiterCorrect, PTL DEF ASpec, MeterImplemented, Meter!Spec

--------------------------------------------------------------------------------
(* Sessions.                                                                *)

\* Accounts are typed; a token names the process that issued it, and one of the
\* present process an account with the role the token shows.
SessionInv ==
    /\ users \in [Clients -> Account \cup {None}]
    /\ jwt_secret \in Nat
    /\ \A t \in issued :
        /\ t.username \in Clients
        /\ t.secret \in Nat /\ t.secret <= jwt_secret
        /\ t.exp \in Nat /\ t.exp <= now + SessionLifetime
        /\ t.secret = jwt_secret =>
            users[t.username] # None /\ users[t.username].role = t.role

\* A user that exists has an account.
LEMMA AccountTyped ==
    ASSUME SessionInv, NEW u \in Clients, users[u] # None
    PROVE  users[u] \in Account
BY DEF SessionInv

\* The time goes on, and nothing else that sessions depend on changes.
LEMMA SessionsAge ==
    ASSUME LimiterTypeOK, SessionInv, UNCHANGED authVars, now' \in Nat, now' >= now
    PROVE  SessionInv'
<1>1. now \in Nat /\ SessionLifetime \in Nat
  BY AccessAssumption DEF LimiterTypeOK
<1>2. users' = users /\ jwt_secret' = jwt_secret /\ issued' = issued
  BY DEF authVars
<1>3. \A t \in issued : t.exp \in Nat /\ t.exp <= now' + SessionLifetime
  BY <1>1 DEF SessionInv
<1>4. QED
  BY <1>2, <1>3 DEF SessionInv

\* An account's counter changes, its role does not.
LEMMA CounterChanges ==
    ASSUME SessionInv, NEW u \in Clients, users[u] # None, NEW n \in 0..MaxFailed
    PROVE  LET new == [users EXCEPT ![u].failed_attempts = n]
           IN  /\ new \in [Clients -> Account \cup {None}]
               /\ \A v \in Clients : users[v] # None =>
                    new[v] # None /\ new[v].role = users[v].role
               /\ \A v \in Clients : new[v] = None => users[v] = None
<1> DEFINE new == [users EXCEPT ![u].failed_attempts = n]
<1>1. users[u] \in Account /\ users \in [Clients -> Account \cup {None}]
  BY AccountTyped DEF SessionInv
<1>2. /\ [users[u] EXCEPT !.failed_attempts = n] \in Account
      /\ [users[u] EXCEPT !.failed_attempts = n].role = users[u].role
  BY <1>1 DEF Account
<1>3. /\ new[u] = [users[u] EXCEPT !.failed_attempts = n]
      /\ \A v \in Clients : v # u => new[v] = users[v]
  BY <1>1
<1>4. None \notin Account
  BY AccessAssumption DEF Account
<1>5. new \in [Clients -> Account \cup {None}]
  BY <1>1, <1>2
<1>6. QED
  BY <1>2, <1>3, <1>4, <1>5

\* Every step keeps the sessions that verify in agreement with the accounts.
LEMMA SessionKept ==
    ASSUME LimiterInv, SessionInv, [ANext]_avars
    PROVE  SessionInv'
<1> USE AccessAssumption
<1>0. now \in Nat /\ LimiterTypeOK /\ SessionLifetime \in Nat /\ MaxFailed \in Nat
  BY DEF LimiterInv, LimiterTypeOK
<1>1. CASE LimiterStep /\ UNCHANGED authVars
  <2>1. now' = now + 1 \/ now' = now
    BY <1>1 DEF LimiterStep, Tick, CountedAttempt, GetRemaining, ResetClient, CleanupOldBuckets
  <2>2. QED
    BY <1>0, <1>1, <2>1, SessionsAge
<1>2. ASSUME NEW u \in Clients, NEW role \in UserRoles, NEW mfa \in BOOLEAN,
             CreateUser(u, role, mfa)
      PROVE  SessionInv'
  <2> DEFINE a == [role |-> role, mfa_enabled |-> mfa, failed_attempts |-> 0]
  <2>1. /\ users[u] = None /\ users' = [users EXCEPT ![u] = a]
        /\ jwt_secret' = jwt_secret /\ issued' = issued /\ now' = now
    BY <1>2 DEF CreateUser, limiterVars
  <2>2. a \in Account
    BY <1>0 DEF Account
  <2>3. users' \in [Clients -> Account \cup {None}]
    BY <2>1, <2>2 DEF SessionInv
  <2>4. \A v \in Clients : v # u => users'[v] = users[v]
    BY <2>1 DEF SessionInv
  <2>5. \A t \in issued : t.secret = jwt_secret => t.username # u
    BY <2>1 DEF SessionInv
  <2>6. QED
    BY <2>1, <2>3, <2>4, <2>5 DEF SessionInv
<1>3. ASSUME NEW u \in Clients, NEW passwordOK \in BOOLEAN, NEW mfa \in {"none", "bad", "good"},
             Authenticate(u, passwordOK, mfa)
      PROVE  SessionInv'
  <2>1. jwt_secret' = jwt_secret /\ now' = now
    BY <1>3 DEF Authenticate, limiterVars
  <2>2. \/ users' = users /\ issued' = issued
        \/ /\ ~TurnedAway(u)
           /\ \/ /\ users' = [users EXCEPT ![u].failed_attempts = @ + 1]
                 /\ issued' = issued
              \/ /\ users' = [users EXCEPT ![u].failed_attempts = 0]
                 /\ issued' = issued \cup {Token(u)}
    BY <1>3 DEF Authenticate
  <2>3. CASE users' = users /\ issued' = issued
    BY <2>1, <2>3 DEF SessionInv
  <2>4. CASE ~TurnedAway(u)
    <3>1. users[u] # None /\ ~(users[u].failed_attempts >= MaxFailed)
      BY <2>4 DEF TurnedAway
    <3>2. users[u] \in Account /\ users[u].failed_attempts \in 0..MaxFailed
      BY <3>1, AccountTyped DEF Account
    <3>3. users[u].failed_attempts + 1 \in 0..MaxFailed /\ 0 \in 0..MaxFailed
      BY <1>0, <3>1, <3>2
    <3>4. CASE users' = [users EXCEPT ![u].failed_attempts = @ + 1] /\ issued' = issued
      <4>1. users' = [users EXCEPT ![u].failed_attempts = users[u].failed_attempts + 1]
        BY <3>4 DEF SessionInv
      <4>2. /\ users' \in [Clients -> Account \cup {None}]
            /\ \A v \in Clients : users[v] # None =>
                    users'[v] # None /\ users'[v].role = users[v].role
        BY <3>1, <3>3, <4>1, CounterChanges
      <4>3. QED
        BY <2>1, <3>4, <4>2 DEF SessionInv
    <3>5. CASE /\ users' = [users EXCEPT ![u].failed_attempts = 0]
               /\ issued' = issued \cup {Token(u)}
      <4>1. /\ users' \in [Clients -> Account \cup {None}]
            /\ \A v \in Clients : users[v] # None =>
                    users'[v] # None /\ users'[v].role = users[v].role
        BY <3>1, <3>3, <3>5, CounterChanges
      <4>2. /\ Token(u).username = u /\ Token(u).role = users[u].role
            /\ Token(u).secret = jwt_secret /\ Token(u).exp = now + SessionLifetime
        BY DEF Token
      <4>3. ASSUME NEW t \in issued'
            PROVE  /\ t.username \in Clients
                   /\ t.secret \in Nat /\ t.secret <= jwt_secret
                   /\ t.exp \in Nat /\ t.exp <= now + SessionLifetime
                   /\ t.secret = jwt_secret =>
                        users'[t.username] # None /\ users'[t.username].role = t.role
        <5>1. CASE t \in issued
          BY <4>1, <5>1 DEF SessionInv
        <5>2. CASE t = Token(u)
          BY <1>0, <3>1, <4>1, <4>2, <5>2 DEF SessionInv
        <5>3. QED
          BY <3>5, <5>1, <5>2
      <4>4. QED
        BY <2>1, <4>1, <4>3 DEF SessionInv
    <3>6. QED
      BY <2>2, <2>3, <3>4, <3>5
  <2>5. QED
    BY <2>2, <2>3, <2>4
<1>4. CASE \/ \E u \in Clients, role \in AssignedRoles : AssignRole(u, role)
           \/ UNCHANGED avars
  <2>1. now' = now /\ UNCHANGED authVars
    BY <1>4 DEF AssignRole, avars, limiterVars
  <2>2. QED
    BY <1>0, <2>1, SessionsAge
<1>5. CASE Restart
  <2>1. /\ users' = [u \in Clients |-> None] /\ jwt_secret' = jwt_secret + 1
        /\ issued' = issued /\ now' = now
    BY <1>5 DEF Restart, LimiterRestart
  <2>2. \A t \in issued : t.secret # jwt_secret + 1 /\ t.secret <= jwt_secret + 1
    BY DEF SessionInv
  <2>3. QED
    BY <2>1, <2>2 DEF SessionInv
<1>6. QED
  BY <1>1, <1>2, <1>3, <1>4, <1>5 DEF ANext

\* A token verify_session accepts names an account of this process with the
\* role it shows, whatever restarts and new accounts came in between.
THEOREM SessionsAreSound == ASpec => []SessionSound
<1>1. AInit => SessionInv
  BY DEF AInit, SessionInv
<1>2. LimiterInv /\ SessionInv /\ [ANext]_avars => SessionInv'
  BY SessionKept
<1>3. SessionInv => SessionSound
  BY DEF SessionInv, SessionSound, VerifySession
<1>4. QED
  BY <1>1, <1>2, <1>3, LimiterCorrect, PTL DEF ASpec

--------------------------------------------------------------------------------
(* Roles.                                                                   *)

\* The permissions among ps to approve configurations are those for the
\* sensitivities ss.
Approves(ps, ss) ==
    /\ Perm("approve", "config", ss) \in ps
    /\ \A perm \in ps : perm.resource = "config" /\ perm.action = "approve"
            => perm.sensitivities = ss

\* What each controller's role may approve.
LEMMA ApprovalRights ==
    /\ Approves(Permissions("global_controller"), {"LOW", "MEDIUM", "HIGH"})
    /\ Approves(Permissions("regional_controller"), {"MEDIUM", "LOW"})
    /\ Approves(Permissions("local_controller"), {"LOW"})
<1> USE DEF Approves, Perm, Any, Sensitivities
<1>1. Approves(Permissions("global_controller"), {"LOW", "MEDIUM", "HIGH"})
  BY DEF Permissions
<1>2. Approves(Permissions("regional_controller"), {"MEDIUM", "LOW"})
  BY DEF Permissions
<1>3. Approves(Permissions("local_controller"), {"LOW"})
  BY DEF Permissions
<1>4. QED
  BY <1>1, <1>2, <1>3

\* The role of a controller allows what the engine allows its tier.
LEMMA TablesAgree ==
    ASSUME NEW role \in DOMAIN Tier, NEW s \in Sensitivities
    PROVE  (\E perm \in Permissions(role) : Matches(perm, "config", "approve", s))
           <=> EngineCanApprove(Tier[role], s)
<1> DEFINE Has == \E perm \in Permissions(role) : Matches(perm, "config", "approve", s)
<1>1. s # None
  BY AccessAssumption DEF Sensitivities
<1>2. ASSUME NEW ss, Approves(Permissions(role), ss)
      PROVE  Has <=> s \in ss
  <2>1. /\ Perm("approve", "config", ss) \in Permissions(role)
        /\ Perm("approve", "config", ss).resource = "config"
        /\ Perm("approve", "config", ss).action = "approve"
        /\ Perm("approve", "config", ss).sensitivities = ss
    BY <1>2 DEF Approves, Perm
  <2>2. Has => s \in ss
    BY <1>1, <1>2 DEF Approves, Matches
  <2>3. s \in ss => Has
    BY <2>1 DEF Matches
  <2>4. QED
    BY <2>2, <2>3
<1>3. CASE role = "global_controller"
  <2>1. Has <=> s \in {"LOW", "MEDIUM", "HIGH"}
    BY <1>2, <1>3, ApprovalRights
  <2>2. Tier[role] = "global"
    BY <1>3 DEF Tier
  <2>3. QED
    BY <2>1, <2>2 DEF Sensitivities, EngineCanApprove
<1>4. CASE role = "regional_controller"
  <2>1. Has <=> s \in {"MEDIUM", "LOW"}
    BY <1>2, <1>4, ApprovalRights
  <2>2. Tier[role] = "regional"
    BY <1>4 DEF Tier
  <2>3. QED
    BY <2>1, <2>2 DEF Sensitivities, EngineCanApprove
<1>5. CASE role = "local_controller"
  <2>1. Has <=> s \in {"LOW"}
    BY <1>2, <1>5, ApprovalRights
  <2>2. Tier[role] = "local"
    BY <1>5 DEF Tier
  <2>3. QED
    BY <2>1, <2>2 DEF Sensitivities, EngineCanApprove
<1>6. QED
  BY <1>3, <1>4, <1>5 DEF Tier

\* The permissions of rbac.py and the rule of approval_engine.py give a controller
\* the same right to approve, whichever roles are assigned in whatever order.
THEOREM AuthoritiesAlwaysAgree == ASpec => []AuthoritiesAgree
<1>1. AuthoritiesAgree
  <2> SUFFICES ASSUME NEW u \in Clients, NEW s \in Sensitivities,
                      role_assignments[u] \in DOMAIN Tier
               PROVE  CanApproveConfig(u, s) <=> EngineCanApprove(Tier[role_assignments[u]], s)
    BY DEF AuthoritiesAgree
  <2>1. role_assignments[u] # None
    BY AccessAssumption DEF Tier, Roles
  <2>2. CanApproveConfig(u, s) <=>
          \E perm \in Permissions(role_assignments[u]) : Matches(perm, "config", "approve", s)
    BY <2>1 DEF CanApproveConfig, CheckPermission
  <2>3. QED
    BY <2>2, TablesAgree
<1>2. QED
  BY <1>1, PTL

================================================================================
