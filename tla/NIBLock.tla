------------------------------- MODULE NIBLock -------------------------------
(***************************************************************************)
(* The Controller Sync Table of the NIB: time-bounded locks that           *)
(* controllers take on a subject (a device, a config) before a multi-step  *)
(* operation.  pdsno/datastore/sqlite_store.py, NIBStore.acquire_lock,     *)
(* release_lock and check_lock.                                            *)
(*                                                                         *)
(* Every NIBStore call runs in a connection and transaction of its own.    *)
(* acquire_lock starts with a DELETE, which takes SQLite's write lock, so  *)
(* the whole call is one atomic step; so is release_lock.                  *)
(***************************************************************************)
EXTENDS Integers, FiniteSets

CONSTANTS
    Controllers,   \* values of held_by
    Subjects,      \* values of subject_id
    LockTypes,     \* DEVICE_LOCK, CONFIG_LOCK, VALIDATION_LOCK
    TTLs,          \* the ttl_seconds callers pass
    MaxTime,       \* bound: the last instant at which a lock may still expire
    MaxLocks       \* bound: locks granted in one behaviour

ASSUME TTLAssumption == TTLs \subseteq Nat
ASSUME BoundAssumption == MaxTime \in Nat /\ MaxLocks \in Nat

VARIABLES
    locks,    \* the rows of the locks table
    issued,   \* how many lock ids uuid4 has produced so far
    leases,   \* leases[c]: the rows c was granted and has not released
    now       \* datetime.now(timezone.utc)

vars == <<locks, issued, leases, now>>

\* A row of the locks table; associated_request and status ('ACTIVE' in every
\* row) do not influence any operation of the store.
Row == [lock_id : Nat, subject_id : Subjects, lock_type : LockTypes,
        held_by : Controllers, expires_at : Nat]

Init ==
    /\ locks = {}
    /\ issued = 0
    /\ leases = [c \in Controllers |-> {}]
    /\ now = 0

-----------------------------------------------------------------------------
(* The statements of the two transactions.                                 *)

\* A bug to be caught: the purge runs one second early.
PurgeExpiredEarly(rows, t) == {l \in rows : l.expires_at > t + 1}

\* DELETE FROM locks WHERE expires_at < now
PurgeExpired(rows, t) == {l \in rows : l.expires_at >= t}

\* SELECT * FROM locks WHERE subject_id = ? AND lock_type = ?
RowsFor(rows, s, ty) == {l \in rows : l.subject_id = s /\ l.lock_type = ty}

\* A bug to be caught: check_lock forgets the expiry condition.
CheckLockNoExpiry(s, ty) == RowsFor(locks, s, ty)

\* check_lock: the rows for the subject that have not expired.  It compares
\* with ">" where acquire_lock purges with "<": at the very instant of expiry
\* check_lock reports the subject free and acquire_lock still refuses it.
CheckLock(s, ty) == {l \in RowsFor(locks, s, ty) : l.expires_at > now}

\* acquire_lock: purge, then insert unless some row for the subject is left.
\* A refusal returns from inside the transaction, which commits the purge.
AcquireLock(c, s, ty, ttl) ==
    LET kept == PurgeExpired(locks, now)
        row  == [lock_id |-> issued + 1, subject_id |-> s, lock_type |-> ty,
                 held_by |-> c, expires_at |-> now + ttl]
    IN  /\ IF RowsFor(kept, s, ty) = {}
           THEN /\ issued < MaxLocks
                /\ now + ttl <= MaxTime
                /\ locks' = kept \union {row}
                /\ leases' = [leases EXCEPT ![c] = @ \union {row}]
                /\ issued' = issued + 1
           ELSE /\ locks' = kept
                /\ UNCHANGED <<leases, issued>>
        /\ UNCHANGED now

\* A bug to be caught: release_lock does not compare held_by.
RowsAfterReleaseByAnyone(rows, id, c) == {l \in rows : l.lock_id # id}

\* DELETE FROM locks WHERE lock_id = ? AND held_by = ?
RowsAfterRelease(rows, id, c) ==
    {l \in rows : ~(l.lock_id = id /\ l.held_by = c)}

\* release_lock: the caller forgets the lock whether or not a row was deleted.
ReleaseLock(c, id) ==
    /\ locks' = RowsAfterRelease(locks, id, c)
    /\ leases' = [leases EXCEPT ![c] = {l \in @ : l.lock_id # id}]
    /\ UNCHANGED <<issued, now>>

\* Time passes.
Tick ==
    /\ now < MaxTime
    /\ now' = now + 1
    /\ UNCHANGED <<locks, issued, leases>>

Next ==
    \/ \E c \in Controllers, s \in Subjects, ty \in LockTypes, ttl \in TTLs :
           AcquireLock(c, s, ty, ttl)
    \/ \E c \in Controllers : \E id \in 1..issued : ReleaseLock(c, id)
    \/ Tick

\* Time is the only actor that is owed a step.
Fairness == WF_vars(Tick)

Spec == Init /\ [][Next]_vars /\ Fairness
-----------------------------------------------------------------------------
(* Properties.                                                             *)

\* Type correctness of the locks table and of what the controllers remember.
TypeOK ==
    /\ locks \subseteq Row
    /\ issued \in Nat
    /\ leases \in [Controllers -> SUBSET Row]
    /\ now \in Nat

\* The table never holds two rows for the same subject and lock type, although
\* it has no UNIQUE constraint on that pair: acquire_lock alone ensures it.
OneRowPerSubject ==
    \A l, m \in locks :
        l.subject_id = m.subject_id /\ l.lock_type = m.lock_type => l = m

\* Two controllers that both believe to hold an unexpired lock of the same type
\* on the same subject hold the same lock: no purge, release by another
\* controller or expiry of a third lock ever takes a live lock away.
LeasesExclusive ==
    \A c, d \in Controllers : \A l \in leases[c], m \in leases[d] :
        (/\ l.subject_id = m.subject_id /\ l.lock_type = m.lock_type
         /\ l.expires_at > now /\ m.expires_at > now)
        => l = m /\ c = d

\* A lock is granted only when a check_lock at that instant would have found
\* the subject free: the two queries of the store never contradict each other
\* in the dangerous direction.
GrantOnlyIfFree ==
    [][\A l \in locks' \ locks : CheckLock(l.subject_id, l.lock_type) = {}]_vars

\* A lock whose holder never releases it (a crashed controller) stops blocking
\* its subject: check_lock eventually no longer returns it.
LocksAreTimeBounded ==
    \A id \in 1..MaxLocks :
        (\E l \in locks : l.lock_id = id) ~>
        (\A s \in Subjects, ty \in LockTypes : \A l \in CheckLock(s, ty) : l.lock_id # id)

-----------------------------------------------------------------------------
(* The strengthening of the exclusion properties that is inductive.        *)

\* Row ids are unique and already issued.
IdsIssued ==
    /\ \A l \in locks : l.lock_id <= issued
    /\ \A c \in Controllers : \A l \in leases[c] : l.lock_id <= issued /\ l.held_by = c
    /\ \A l, m \in locks : l.lock_id = m.lock_id => l = m

\* A lease that has not expired is backed by its row.
LeasesBacked ==
    \A c \in Controllers : \A l \in leases[c] : l.expires_at >= now => l \in locks

IInv == TypeOK /\ OneRowPerSubject /\ IdsIssued /\ LeasesBacked
=============================================================================
