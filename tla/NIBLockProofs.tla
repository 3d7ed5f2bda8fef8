---------------------------- MODULE NIBLockProofs ----------------------------
(***************************************************************************)
(* Proofs about NIBLock for every set of controllers, subjects and lock    *)
(* types, every set of TTLs and every bound; and about NIBRetention, the   *)
(* clean-up script beside the controllers' lock operations, for any old    *)
(* rows, retention time and batch size.                                    *)
(***************************************************************************)
EXTENDS NIBRetention, TLAPS

\* The empty table satisfies the inductive invariant.
LEMMA InitIInv == Init => IInv
BY DEF Init, IInv, TypeOK, OneRowPerSubject, IdsIssued, LeasesBacked, Row

\* acquire_lock preserves the inductive invariant.  The purge only removes
\* rows that expired before now, which back no live lease; the insertion
\* happens only when no row for the subject is left, with a fresh id.
LEMMA AcquireIInv ==
    ASSUME IInv,
           NEW c \in Controllers, NEW s \in Subjects, NEW ty \in LockTypes,
           NEW ttl \in TTLs, AcquireLock(c, s, ty, ttl)
    PROVE  IInv'
<1> DEFINE kept == PurgeExpired(locks, now)
           row  == [lock_id |-> issued + 1, subject_id |-> s, lock_type |-> ty,
                    held_by |-> c, expires_at |-> now + ttl]
<1>1. ttl \in Nat
  BY TTLAssumption
<1>2. kept \subseteq locks /\ \A l \in locks : l.expires_at >= now => l \in kept
  BY DEF PurgeExpired
<1>3. CASE RowsFor(kept, s, ty) = {}
  <2>1. /\ locks' = kept \union {row}
        /\ leases' = [leases EXCEPT ![c] = @ \union {row}]
        /\ issued' = issued + 1
        /\ now' = now
    BY <1>3 DEF AcquireLock
  <2>2. row \in Row
    BY <1>1 DEF IInv, TypeOK, Row
  <2>3. TypeOK'
    BY <1>2, <2>1, <2>2 DEF IInv, TypeOK
  <2>4. \A l \in kept : ~(l.subject_id = s /\ l.lock_type = ty)
    BY <1>3 DEF RowsFor
  <2>5. OneRowPerSubject'
    BY <1>2, <2>1, <2>4 DEF IInv, OneRowPerSubject
  <2>6. \A l \in kept : l.lock_id <= issued /\ l.lock_id \in Nat
    BY <1>2 DEF IInv, IdsIssued, TypeOK, Row
  <2>7. IdsIssued'
    <3>1. \A l \in locks' : l.lock_id <= issued'
      BY <2>1, <2>6 DEF IInv, TypeOK
    <3>2. \A d \in Controllers : \A l \in leases'[d] : l.lock_id <= issued' /\ l.held_by = d
      <4>1. TAKE d \in Controllers
      <4>2. leases[d] \subseteq Row /\ \A l \in leases[d] : l.lock_id <= issued /\ l.held_by = d
        BY DEF IInv, TypeOK, IdsIssued
      <4>3. leases'[d] \subseteq leases[d] \union (IF d = c THEN {row} ELSE {})
        BY <2>1 DEF IInv, TypeOK
      <4> QED
        BY <2>1, <4>2, <4>3 DEF IInv, TypeOK, Row
    <3>3. \A l, m \in locks' : l.lock_id = m.lock_id => l = m
      BY <1>2, <2>1, <2>6 DEF IInv, IdsIssued, TypeOK
    <3> QED
      BY <3>1, <3>2, <3>3 DEF IdsIssued
  <2>8. LeasesBacked'
    <3> SUFFICES ASSUME NEW d \in Controllers
                 PROVE  \A l \in leases'[d] : l.expires_at >= now' => l \in locks'
      BY DEF LeasesBacked
    <3>2. leases'[d] \subseteq leases[d] \union {row}
      BY <2>1 DEF IInv, TypeOK
    <3> QED
      BY <1>2, <2>1, <3>2 DEF IInv, LeasesBacked
  <2> QED
    BY <2>3, <2>5, <2>7, <2>8 DEF IInv
<1>4. CASE RowsFor(kept, s, ty) # {}
  <2>1. locks' = kept /\ UNCHANGED <<leases, issued, now>>
    BY <1>4 DEF AcquireLock
  <2> QED
    BY <1>2, <2>1 DEF IInv, TypeOK, OneRowPerSubject, IdsIssued, LeasesBacked
<1> QED
  BY <1>3, <1>4

\* release_lock preserves the inductive invariant: the row it deletes is the
\* one the caller holds, so no lease of another controller loses its row.
LEMMA ReleaseIInv ==
    ASSUME IInv, NEW c \in Controllers, NEW id \in 1..issued, ReleaseLock(c, id)
    PROVE  IInv'
<1>1. /\ locks' = {l \in locks : ~(l.lock_id = id /\ l.held_by = c)}
      /\ leases' = [leases EXCEPT ![c] = {l \in @ : l.lock_id # id}]
      /\ issued' = issued /\ now' = now
  BY DEF ReleaseLock, RowsAfterRelease
<1>2. TypeOK' /\ OneRowPerSubject'
  BY <1>1 DEF IInv, TypeOK, OneRowPerSubject
<1>3. \A d \in Controllers : leases'[d] \subseteq leases[d]
  BY <1>1 DEF IInv, TypeOK
<1>4. IdsIssued'
  BY <1>1, <1>3 DEF IInv, IdsIssued
<1>5. LeasesBacked'
  <2> SUFFICES ASSUME NEW d \in Controllers, NEW l \in leases'[d], l.expires_at >= now
               PROVE  l \in locks'
    BY <1>1 DEF LeasesBacked
  <2>1. l \in leases[d] /\ l \in locks /\ l.held_by = d
    BY <1>3 DEF IInv, LeasesBacked, IdsIssued
  <2>2. d = c => l.lock_id # id
    BY <1>1 DEF IInv, TypeOK
  <2> QED
    BY <1>1, <2>1, <2>2
<1> QED
  BY <1>2, <1>4, <1>5 DEF IInv

\* Every step preserves the inductive invariant.
LEMMA NextIInv == IInv /\ [Next]_vars => IInv'
<1> SUFFICES ASSUME IInv, [Next]_vars PROVE IInv'
  OBVIOUS
<1>1. CASE \E c \in Controllers, s \in Subjects, ty \in LockTypes, ttl \in TTLs :
               AcquireLock(c, s, ty, ttl)
  BY <1>1, AcquireIInv
<1>2. CASE \E c \in Controllers : \E id \in 1..issued : ReleaseLock(c, id)
  BY <1>2, ReleaseIInv
<1>3. CASE Tick
  <2>1. now' = now + 1 /\ UNCHANGED <<locks, issued, leases>>
    BY <1>3 DEF Tick
  <2>2. TypeOK' /\ OneRowPerSubject' /\ IdsIssued'
    BY <2>1 DEF IInv, TypeOK, OneRowPerSubject, IdsIssued
  <2>3. \A c \in Controllers : \A l \in leases[c] :
            l.expires_at >= now' => l.expires_at >= now
    BY <2>1 DEF IInv, TypeOK, Row
  <2> QED
    BY <2>1, <2>2, <2>3 DEF IInv, LeasesBacked
<1>4. CASE UNCHANGED vars
  BY <1>4 DEF vars, IInv, TypeOK, OneRowPerSubject, IdsIssued, LeasesBacked
<1> QED
  BY <1>1, <1>2, <1>3, <1>4 DEF Next

\* The inductive invariant holds in every reachable state.
THEOREM Invariance == Spec => []IInv
BY InitIInv, NextIInv, PTL DEF Spec

\* The locks table and the controllers' leases are always well typed.
THEOREM TypeCorrect == Spec => []TypeOK
<1>1. IInv => TypeOK
  BY DEF IInv
<1> QED
  BY <1>1, Invariance, PTL

\* acquire_lock keeps at most one row per subject and lock type.
THEOREM RowsUnique == Spec => []OneRowPerSubject
<1>1. IInv => OneRowPerSubject
  BY DEF IInv
<1> QED
  BY <1>1, Invariance, PTL

\* Rows are unique per subject, and live leases have theirs.
LEMMA IInvExclusive == IInv => LeasesExclusive
<1> SUFFICES ASSUME IInv, NEW c \in Controllers, NEW d \in Controllers,
                    NEW l \in leases[c], NEW m \in leases[d],
                    l.subject_id = m.subject_id, l.lock_type = m.lock_type,
                    l.expires_at > now, m.expires_at > now
             PROVE  l = m /\ c = d
  BY DEF LeasesExclusive
<1>1. l.expires_at >= now /\ m.expires_at >= now
  BY DEF IInv, TypeOK, Row
<1>2. l \in locks /\ m \in locks /\ l.held_by = c /\ m.held_by = d
  BY <1>1 DEF IInv, LeasesBacked, IdsIssued
<1> QED
  BY <1>2 DEF IInv, OneRowPerSubject

\* Live locks exclude each other: two controllers never both hold an unexpired
\* lock of one type on one subject.
THEOREM Exclusion == Spec => []LeasesExclusive
BY IInvExclusive, Invariance, PTL

\* A row is inserted only for a subject without an unexpired row.
LEMMA GrantStep ==
    ASSUME IInv, Next
    PROVE  \A l \in locks' \ locks : CheckLock(l.subject_id, l.lock_type) = {}
<1>1. CASE \E c \in Controllers, s \in Subjects, ty \in LockTypes, ttl \in TTLs :
               AcquireLock(c, s, ty, ttl)
  <2>1. PICK c \in Controllers, s \in Subjects, ty \in LockTypes, ttl \in TTLs :
               AcquireLock(c, s, ty, ttl)
    BY <1>1
  <2> DEFINE kept == PurgeExpired(locks, now)
  <2>2. kept \subseteq locks
    BY DEF PurgeExpired
  <2>3. CASE RowsFor(kept, s, ty) = {}
    <3>1. \A l \in locks' \ locks : l.subject_id = s /\ l.lock_type = ty
      BY <2>1, <2>2, <2>3 DEF AcquireLock
    <3>2. \A m \in RowsFor(locks, s, ty) : ~(m.expires_at > now)
      <4> SUFFICES ASSUME NEW m \in RowsFor(locks, s, ty), m.expires_at > now
                   PROVE  FALSE
        OBVIOUS
      <4>1. m \in locks /\ m.expires_at >= now
        BY DEF RowsFor, IInv, TypeOK, Row
      <4>2. m \in RowsFor(kept, s, ty)
        BY <4>1 DEF RowsFor, PurgeExpired
      <4> QED
        BY <2>3, <4>2
    <3>3. CheckLock(s, ty) = {}
      BY <3>2 DEF CheckLock
    <3> QED
      BY <3>1, <3>3
  <2>4. CASE RowsFor(kept, s, ty) # {}
    BY <2>1, <2>2, <2>4 DEF AcquireLock
  <2> QED
    BY <2>3, <2>4
<1>2. CASE \E c \in Controllers : \E id \in 1..issued : ReleaseLock(c, id)
  BY <1>2 DEF ReleaseLock, RowsAfterRelease
<1>3. CASE Tick
  BY <1>3 DEF Tick
<1> QED
  BY <1>1, <1>2, <1>3 DEF Next

\* Whenever a row appears in the table, check_lock would have reported its
\* subject free in the state before.
THEOREM GrantsOnlyFree == Spec => GrantOnlyIfFree
<1>1. IInv /\ [Next]_vars =>
          [\A l \in locks' \ locks : CheckLock(l.subject_id, l.lock_type) = {}]_vars
  BY GrantStep
<1> QED
  BY <1>1, Invariance, PTL DEF Spec, GrantOnlyIfFree

--------------------------------------------------------------------------------
(***************************************************************************)
(* The clean-up script.  RInv adds to the invariant of NIBLock that the    *)
(* script's cutoff lies in the past, so the locks it deletes back no live  *)
(* lease; that the rows of the other tables are not lock rows, have keys   *)
(* and references that hold; and that what was stale at the start is, for  *)
(* every table the script has left behind, gone or reported.               *)
(***************************************************************************)

ScriptType ==
    [table : 1..Len(Specs), phase : {"count", "delete"}, cutoff : Int, dry : BOOLEAN,
     open : BOOLEAN, owed : SUBSET OldRow]

ScriptTyped == script # None => script \in ScriptType

CutoffPast == script # None => script.cutoff < now

RowsTyped ==
    /\ rows \subseteq OldRow
    /\ \A r, q \in rows : r.table = q.table /\ r.id = q.id => r = q

\* What is owed was stale, and its key is not that of another row.
OwedStale ==
    script # None => \A r \in script.owed :
        /\ Stale(r, script.cutoff)
        /\ \A q \in rows : r.table = q.table /\ r.id = q.id => r = q

\* The tables done with owe nothing but what they report.
OwedReported ==
    script # None /\ ~script.dry =>
        \A r \in script.owed \cap rows, i \in 1..Len(Specs) :
            i < script.table /\ Specs[i] = r.table => r.table \in errors

\* Past the locks table no lock is left from before the cutoff.
LocksGone ==
    script # None /\ ~script.dry /\ script.table > 7 =>
        \A l \in locks : l.expires_at >= script.cutoff

RInv ==
    /\ IInv
    /\ ScriptTyped /\ CutoffPast /\ RowsTyped /\ ForeignKeysHold(rows)
    /\ OwedStale /\ OwedReported /\ LocksGone

--------------------------------------------------------------------------------

\* A row of the locks table is none of another table.
LEMMA RowsAreApart == \A r \in OldRow, l \in Row : r # l
<1> SUFFICES ASSUME NEW r \in OldRow, NEW l \in Row, r = l PROVE FALSE
  OBVIOUS
<1>1. "parent" \in DOMAIN r
  BY DEF OldRow
<1>2. DOMAIN l = {"lock_id", "subject_id", "lock_type", "held_by", "expires_at"}
  BY DEF Row
<1>3. QED
  BY <1>1, <1>2

\* The lock rows may lose expired members.
LEMMA ExpiredLocksGo ==
    ASSUME IInv, UNCHANGED <<issued, leases, now>>, locks' \subseteq locks,
           \A l \in locks : l.expires_at >= now => l \in locks'
    PROVE  IInv'
<1>1. TypeOK' /\ OneRowPerSubject'
  BY DEF IInv, TypeOK, OneRowPerSubject
<1>2. IdsIssued'
  BY DEF IInv, IdsIssued
<1>3. LeasesBacked'
  BY DEF IInv, LeasesBacked
<1>4. QED
  BY <1>1, <1>2, <1>3 DEF IInv

\* Specs has eight tables, the seventh of them the locks.
LEMMA SpecsFacts == Len(Specs) = 8 /\ Specs[7] = "locks"
BY DEF Specs

\* NextTable ends the script or changes only its place and its transaction.
LEMMA NextTableKeeps ==
    ASSUME ScriptTyped, script # None, NEW open \in BOOLEAN, NextTable(open)
    PROVE  /\ ScriptTyped'
           /\ \/ script.table = Len(Specs) /\ script' = None /\ done'
              \/ /\ script'.cutoff = script.cutoff /\ script'.dry = script.dry
                 /\ script'.owed = script.owed /\ script'.table = script.table + 1
                 /\ script.table # Len(Specs) /\ done' = done
<1>1. script \in ScriptType /\ Len(Specs) = 8
  BY SpecsFacts DEF ScriptTyped
<1>2. CASE script.table = Len(Specs)
  BY <1>2 DEF NextTable, ScriptTyped
<1>3. CASE script.table # Len(Specs)
  <2>1. script' = [script EXCEPT !.table = @ + 1, !.phase = "count", !.open = open] /\ done' = done
    BY <1>3 DEF NextTable
  <2>2. script.table + 1 \in 1..8
    BY <1>1, <1>3 DEF ScriptType
  <2>3. script' \in ScriptType
    BY <1>1, <2>1, <2>2 DEF ScriptType
  <2>4. /\ script'.cutoff = script.cutoff /\ script'.dry = script.dry
        /\ script'.owed = script.owed /\ script'.table = script.table + 1
    BY <1>1, <2>1 DEF ScriptType
  <2>5. QED
    BY <1>3, <2>1, <2>3, <2>4 DEF ScriptTyped
<1>4. QED
  BY <1>2, <1>3

\* No row a batch takes is a lock that has not expired.
LEMMA BatchIsPast ==
    ASSUME RInv, script # None, NEW batch \in SUBSET StaleRows,
           NEW l \in locks, l.expires_at >= now
    PROVE  l \notin batch
<1>1. l \in Row /\ l.expires_at \in Nat /\ now \in Nat
  BY DEF RInv, IInv, TypeOK, Row
<1>2. script.cutoff \in Int /\ script.cutoff < now
  BY DEF RInv, ScriptTyped, ScriptType, CutoffPast
<1>3. CASE Specs[script.table] = "locks"
  <2>1. StaleRows = {m \in locks : m.expires_at < script.cutoff}
    BY <1>3 DEF StaleRows
  <2>2. ~(l.expires_at < script.cutoff)
    BY <1>1, <1>2
  <2>3. QED
    BY <2>1, <2>2
<1>4. CASE Specs[script.table] # "locks"
  <2>1. StaleRows \subseteq rows
    BY <1>4 DEF StaleRows
  <2>2. QED
    BY <1>1, <2>1, RowsAreApart DEF RInv, RowsTyped
<1>5. QED
  BY <1>3, <1>4

\* A step that leaves a table behind, as seen by what is owed of that table.
TurnEnds ==
    \/ StaleRows = {} /\ UNCHANGED <<locks, rows, errors>>
    \/ BatchDeleted(StaleRows)
    \/ \E batch \in SUBSET StaleRows :
          /\ ~Deletable(batch)
          /\ errors' = errors \cup {Specs[script.table]}
          /\ UNCHANGED <<locks, rows>>

\* What is owed of a table is gone or reported at the end of the table's turn.
LEMMA TurnEndsReported ==
    ASSUME RInv, script # None, ~script.dry, TurnEnds,
           NEW r \in script.owed \cap rows', NEW i \in 1..Len(Specs),
           i <= script.table, Specs[i] = r.table
    PROVE  r.table \in errors'
<1>1. script \in ScriptType /\ Len(Specs) = 8
  BY SpecsFacts DEF RInv, ScriptTyped
<1>2. r \in rows /\ errors \subseteq errors'
  BY DEF TurnEnds, BatchDeleted
<1>3. CASE i < script.table
  BY <1>2, <1>3 DEF RInv, OwedReported
<1>4. CASE i = script.table
  <2>1. Stale(r, script.cutoff) /\ r.table # "locks"
    BY <1>2 DEF RInv, OwedStale, RowsTyped, OldRow
  <2>2. r \in StaleRows
    BY <1>2, <1>4, <2>1 DEF StaleRows
  <2>3. r.table = Specs[script.table]
    BY <1>4
  <2>4. QED
    BY <2>2, <2>3 DEF TurnEnds, BatchDeleted
<1>5. script.table \in Int
  BY <1>1 DEF ScriptType
<1>6. QED
  BY <1>3, <1>4, <1>5

\* After the turn of the locks table no lock is left from before the cutoff: a
\* DELETE of locks cannot fail.
LEMMA TurnEndsLocks ==
    ASSUME RInv, script # None, TurnEnds, Specs[script.table] = "locks",
           NEW l \in locks'
    PROVE  l.expires_at >= script.cutoff
<1>1. StaleRows = {m \in locks : m.expires_at < script.cutoff}
  BY DEF StaleRows
<1>2. l \in locks /\ l.expires_at \in Int /\ script.cutoff \in Int
  <2>1. l \in locks
    BY DEF TurnEnds, BatchDeleted
  <2>2. QED
    BY <2>1 DEF RInv, IInv, TypeOK, Row, ScriptTyped, ScriptType
<1>3. l \notin StaleRows
  <2>1. ASSUME NEW batch \in SUBSET StaleRows PROVE Deletable(batch)
    <3>1. rows \ batch = rows
      <4>1. batch \subseteq Row /\ rows \subseteq OldRow
        BY <1>1 DEF RInv, IInv, TypeOK, RowsTyped
      <4>2. QED
        BY <4>1, RowsAreApart
    <3>2. QED
      BY <3>1 DEF RInv, Deletable
  <2>2. QED
    BY <2>1 DEF TurnEnds, BatchDeleted
<1>4. QED
  BY <1>1, <1>2, <1>3

\* A batch, or the count, leaves its table or changes nothing of the script that
\* the invariant is about.
LEMMA ScriptSteps ==
    ASSUME RInv, CountStale \/ DeleteBatch
    PROVE  /\ script # None /\ UNCHANGED <<issued, leases, now>>
           /\ locks' \subseteq locks /\ rows' \subseteq rows /\ errors \subseteq errors'
           /\ \A l \in locks : l.expires_at >= now => l \in locks'
           /\ ForeignKeysHold(rows)'
           /\ \/ /\ script' \in ScriptType
                 /\ script'.cutoff = script.cutoff /\ script'.dry = script.dry
                 /\ script'.owed = script.owed /\ script'.table = script.table
                 /\ done' = done
              \/ /\ \E open \in BOOLEAN : NextTable(open)
                 /\ script.dry \/ TurnEnds
<1>1. script \in ScriptType
  BY DEF RInv, ScriptTyped, CountStale, DeleteBatch
<1>2. CASE CountStale
  <2>1. script # None /\ UNCHANGED <<vars, rows, errors>>
    BY <1>2 DEF CountStale
  <2>2. ForeignKeysHold(rows)'
    BY <2>1 DEF RInv, ForeignKeysHold
  <2>3. CASE (script.dry \/ StaleRows = {}) /\ NextTable(script.open)
    BY <1>1, <2>1, <2>2, <2>3 DEF vars, TurnEnds, ScriptType
  <2>4. CASE script' = [script EXCEPT !.phase = "delete"] /\ UNCHANGED done
    <3>1. /\ script' \in ScriptType /\ script'.cutoff = script.cutoff
          /\ script'.dry = script.dry /\ script'.owed = script.owed
          /\ script'.table = script.table
      BY <1>1, <2>4 DEF ScriptType
    <3>2. QED
      BY <2>1, <2>2, <2>4, <3>1 DEF vars
  <2>5. QED
    BY <1>2, <2>3, <2>4 DEF CountStale
<1>3. CASE DeleteBatch
  <2>1. script # None /\ UNCHANGED <<issued, leases, now>>
    BY <1>3 DEF DeleteBatch
  <2>2. PICK batch \in SUBSET StaleRows :
          /\ Limited(batch)
          /\ \/ /\ BatchDeleted(batch)
                /\ \/ Cardinality(batch) < BatchSize /\ NextTable(FALSE)
                   \/ /\ Cardinality(batch) = BatchSize
                      /\ script' = [script EXCEPT !.open = FALSE]
                      /\ UNCHANGED done
             \/ BatchFails(batch)
    BY <1>3 DEF DeleteBatch
  <2>3. CASE BatchDeleted(batch)
    <3>1. \A l \in locks : l.expires_at >= now => l \in locks'
      BY <2>1, <2>3, BatchIsPast DEF BatchDeleted
    <3>2. ForeignKeysHold(rows)'
      BY <2>3 DEF BatchDeleted, Deletable, ForeignKeysHold
    <3>3. CASE Cardinality(batch) < BatchSize /\ NextTable(FALSE)
      <4>1. batch = StaleRows
        <5>1. ~(Cardinality(batch) = BatchSize)
          BY <3>3, RetentionAssumption
        <5>2. QED
          BY <2>2, <5>1 DEF Limited
      <4>2. TurnEnds
        BY <2>3, <4>1 DEF TurnEnds
      <4>3. QED
        BY <2>1, <2>3, <3>1, <3>2, <3>3, <4>2 DEF BatchDeleted
    <3>4. CASE script' = [script EXCEPT !.open = FALSE] /\ UNCHANGED done
      <4>1. /\ script' \in ScriptType /\ script'.cutoff = script.cutoff
            /\ script'.dry = script.dry /\ script'.owed = script.owed
            /\ script'.table = script.table
        BY <1>1, <3>4 DEF ScriptType
      <4>2. QED
        BY <2>1, <2>3, <3>1, <3>2, <3>4, <4>1 DEF BatchDeleted
    <3>5. QED
      BY <2>1, <2>2, <2>3, <3>3, <3>4 DEF BatchFails, BatchDeleted
  <2>4. CASE BatchFails(batch)
    <3>1. ForeignKeysHold(rows)'
      BY <2>4 DEF RInv, BatchFails, ForeignKeysHold
    <3>2. TurnEnds
      BY <2>4 DEF BatchFails, TurnEnds
    <3>3. QED
      BY <2>1, <2>4, <3>1, <3>2 DEF BatchFails
  <2>5. QED
    BY <2>2, <2>3, <2>4
<1>4. QED
  BY <1>2, <1>3

\* The script's own steps preserve the invariant.
LEMMA ScriptRInv ==
    ASSUME RInv, CountStale \/ DeleteBatch
    PROVE  RInv'
<1>1. /\ script # None /\ UNCHANGED <<issued, leases, now>>
      /\ locks' \subseteq locks /\ rows' \subseteq rows /\ errors \subseteq errors'
      /\ \A l \in locks : l.expires_at >= now => l \in locks'
      /\ ForeignKeysHold(rows)'
  BY ScriptSteps
<1>2. IInv'
  BY <1>1, ExpiredLocksGo DEF RInv
<1>3. RowsTyped'
  BY <1>1 DEF RInv, RowsTyped
<1>4. script \in ScriptType /\ Len(Specs) = 8
  BY <1>1, SpecsFacts DEF RInv, ScriptTyped
<1>5. CASE /\ script' \in ScriptType
           /\ script'.cutoff = script.cutoff /\ script'.dry = script.dry
           /\ script'.owed = script.owed /\ script'.table = script.table
  <2>1. ScriptTyped' /\ CutoffPast'
    BY <1>1, <1>5 DEF RInv, ScriptTyped, CutoffPast
  <2>2. OwedStale'
    BY <1>1, <1>5 DEF RInv, OwedStale, Stale
  <2>3. OwedReported'
    BY <1>1, <1>5 DEF RInv, OwedReported
  <2>4. LocksGone'
    BY <1>1, <1>5 DEF RInv, LocksGone
  <2>5. QED
    BY <1>1, <1>2, <1>3, <2>1, <2>2, <2>3, <2>4 DEF RInv
<1>6. CASE (\E open \in BOOLEAN : NextTable(open)) /\ (script.dry \/ TurnEnds)
  <2>1. /\ ScriptTyped'
        /\ \/ script' = None
           \/ /\ script'.cutoff = script.cutoff /\ script'.dry = script.dry
              /\ script'.owed = script.owed /\ script'.table = script.table + 1
              /\ script.table # Len(Specs)
    BY <1>1, <1>6, NextTableKeeps DEF RInv
  <2>2. CASE script' = None
    BY <1>1, <1>2, <1>3, <2>1, <2>2
      DEF RInv, CutoffPast, OwedStale, OwedReported, LocksGone
  <2>3. CASE /\ script' # None
             /\ script'.cutoff = script.cutoff /\ script'.dry = script.dry
             /\ script'.owed = script.owed /\ script'.table = script.table + 1
             /\ script.table # Len(Specs)
    <3>1. CutoffPast'
      BY <1>1, <2>3 DEF RInv, CutoffPast
    <3>2. OwedStale'
      BY <1>1, <2>3 DEF RInv, OwedStale, Stale
    <3>3. OwedReported'
      <4> SUFFICES ASSUME ~script.dry, NEW r \in script.owed \cap rows',
                          NEW i \in 1..Len(Specs), i < script.table + 1, Specs[i] = r.table
                   PROVE  r.table \in errors'
        BY <2>3 DEF OwedReported
      <4>1. i <= script.table
        BY <1>4 DEF ScriptType
      <4>2. TurnEnds
        BY <1>6
      <4>3. QED
        BY <1>1, <4>1, <4>2, TurnEndsReported
    <3>4. LocksGone'
      <4> SUFFICES ASSUME ~script.dry, script.table + 1 > 7, NEW l \in locks'
                   PROVE  l.expires_at >= script.cutoff
        BY <2>3 DEF LocksGone
      <4>1. script.table = 7
        BY <1>4, <2>3 DEF ScriptType
      <4>2. TurnEnds /\ Specs[script.table] = "locks"
        BY <1>6, <4>1, SpecsFacts
      <4>3. QED
        BY <1>1, <4>2, TurnEndsLocks
    <3>5. QED
      BY <1>1, <1>2, <1>3, <2>1, <3>1, <3>2, <3>3, <3>4 DEF RInv
  <2>4. QED
    BY <2>1, <2>2, <2>3
<1>7. QED
  BY <1>5, <1>6, ScriptSteps

\* A row that becomes final keeps its id and its reference.
LEMMA BecomeTerminalRInv ==
    ASSUME RInv, NEW r \in rows, BecomeTerminal(r)
    PROVE  RInv'
<1> DEFINE new == [r EXCEPT !.terminal = TRUE]
<1>1. r \in OldRow
  BY DEF RInv, RowsTyped
<1>2. /\ new \in OldRow
      /\ new.table = r.table /\ new.id = r.id /\ new.parent = r.parent
  BY <1>1 DEF OldRow
<1>3. rows' = (rows \ {r}) \cup {new} /\ UNCHANGED <<vars, script>>
  BY DEF BecomeTerminal
<1>4. IInv'
  BY <1>3, ExpiredLocksGo DEF RInv, vars
<1>5. RowsTyped'
  <2>1. rows' \subseteq OldRow
    BY <1>2, <1>3 DEF RInv, RowsTyped
  <2>2. ASSUME NEW p \in rows', NEW q \in rows', p.table = q.table, p.id = q.id
        PROVE  p = q
    BY <1>2, <1>3, <2>2 DEF RInv, RowsTyped
  <2>3. QED
    BY <2>1, <2>2 DEF RowsTyped
<1>6. ForeignKeysHold(rows)'
  <2> SUFFICES ASSUME NEW q \in rows', q.parent # None
               PROVE  \E p \in rows' : p.table = "config_records" /\ p.id = q.parent
    BY DEF ForeignKeysHold
  <2>1. \E p \in rows : p.table = "config_records" /\ p.id = q.parent
    BY <1>2, <1>3 DEF RInv, ForeignKeysHold
  <2>2. PICK p \in rows : p.table = "config_records" /\ p.id = q.parent
    BY <2>1
  <2>3. CASE p = r
    BY <1>2, <1>3, <2>2, <2>3
  <2>4. CASE p # r
    BY <1>3, <2>2, <2>4
  <2>5. QED
    BY <2>3, <2>4
<1>7. ScriptTyped' /\ CutoffPast' /\ LocksGone'
  BY <1>3 DEF RInv, ScriptTyped, CutoffPast, LocksGone, vars
<1>8. ASSUME script # None, NEW o \in script.owed
      PROVE  ~(o.table = r.table /\ o.id = r.id)
  <2>1. Stale(o, script.cutoff) /\ (o.table = r.table /\ o.id = r.id => o = r)
    BY <1>8 DEF RInv, OwedStale
  <2>2. QED
    BY <2>1 DEF Stale, BecomeTerminal
<1>9. OwedStale'
  <2> SUFFICES ASSUME script # None, NEW o \in script.owed
               PROVE  /\ Stale(o, script.cutoff)
                      /\ \A q \in rows' : o.table = q.table /\ o.id = q.id => o = q
    BY <1>3 DEF OwedStale, Stale
  <2>1. Stale(o, script.cutoff) /\ \A q \in rows : o.table = q.table /\ o.id = q.id => o = q
    BY DEF RInv, OwedStale
  <2>2. QED
    BY <1>2, <1>3, <1>8, <2>1
<1>10. OwedReported'
  <2>1. script # None => script.owed \cap rows' \subseteq rows
    BY <1>2, <1>3, <1>8
  <2>2. UNCHANGED <<script, errors>>
    BY DEF BecomeTerminal
  <2>3. QED
    BY <2>1, <2>2 DEF RInv, OwedReported
<1>11. QED
  BY <1>4, <1>5, <1>6, <1>7, <1>9, <1>10 DEF RInv

\* The script starts with tables whose references hold.
LEMMA RInitRInv == RInit => RInv
<1> SUFFICES ASSUME RInit PROVE RInv
  OBVIOUS
<1>1. IInv
  BY InitIInv DEF RInit
<1>2. rows \subseteq OldRows /\ ForeignKeysHold(rows) /\ script = None
  BY DEF RInit
<1>3. RowsTyped
  BY <1>2, OldRowsAssumption DEF RowsTyped
<1>4. QED
  BY <1>1, <1>2, <1>3
    DEF RInv, ScriptTyped, CutoffPast, OwedStale, OwedReported, LocksGone

\* Every step of the script and of the controllers preserves the invariant.
LEMMA RNextRInv == RInv /\ [RNext]_rvars => RInv'
<1> SUFFICES ASSUME RInv, [RNext]_rvars PROVE RInv'
  OBVIOUS
<1>1. CASE [Next]_vars /\ UNCHANGED retentionVars
  <2>1. IInv'
    BY <1>1, NextIInv DEF RInv
  <2>2. now \in Int /\ now' \in Int /\ now <= now'
    <3>1. now \in Nat /\ now' \in Nat
      BY <2>1 DEF RInv, IInv, TypeOK
    <3>2. now' = now \/ now' = now + 1
      BY <1>1 DEF Next, AcquireLock, ReleaseLock, Tick, vars
    <3>3. QED
      BY <3>1, <3>2
  <2>3. ScriptTyped' /\ CutoffPast'
    BY <1>1, <2>2 DEF RInv, ScriptTyped, ScriptType, CutoffPast, retentionVars
  <2>4. RowsTyped' /\ ForeignKeysHold(rows)' /\ OwedStale' /\ OwedReported'
    BY <1>1 DEF RInv, RowsTyped, ForeignKeysHold, OwedStale, OwedReported, Stale, retentionVars
  <2>5. \A l \in locks' : l \in locks \/ l.expires_at >= now
    <3>1. ASSUME NEW c \in Controllers, NEW s \in Subjects, NEW ty \in LockTypes,
                 NEW ttl \in TTLs, AcquireLock(c, s, ty, ttl)
          PROVE  \A l \in locks' : l \in locks \/ l.expires_at >= now
      <4>1. ttl \in Nat /\ now \in Nat
        BY TTLAssumption DEF RInv, IInv, TypeOK
      <4>2. QED
        BY <3>1, <4>1 DEF AcquireLock, PurgeExpired
    <3>2. QED
      BY <1>1, <3>1 DEF Next, ReleaseLock, RowsAfterRelease, Tick, vars
  <2>6. LocksGone'
    <3> SUFFICES ASSUME script # None, ~script.dry, script.table > 7, NEW l \in locks'
                 PROVE  l.expires_at >= script.cutoff
      BY <1>1 DEF LocksGone, retentionVars
    <3>1. CASE l \in locks
      BY <3>1 DEF RInv, LocksGone
    <3>2. CASE l.expires_at >= now
      <4>1. l.expires_at \in Int /\ script.cutoff \in Int /\ script.cutoff < now
        BY <2>1 DEF RInv, IInv, TypeOK, Row, ScriptTyped, ScriptType, CutoffPast
      <4>2. QED
        BY <2>2, <3>2, <4>1
    <3>3. QED
      BY <2>5, <3>1, <3>2
  <2>7. QED
    BY <2>1, <2>3, <2>4, <2>6 DEF RInv
<1>2. CASE \E dry \in BOOLEAN : StartCleanup(dry)
  <2>1. PICK dry \in BOOLEAN : StartCleanup(dry)
    BY <1>2
  <2> DEFINE owed == {r \in rows : Stale(r, now - Retention)}
             new == [table |-> 1, phase |-> "count", cutoff |-> now - Retention, dry |-> dry,
                     open |-> FALSE, owed |-> owed]
  <2>2. now \in Nat /\ now' = now /\ UNCHANGED <<vars, rows, errors>>
    BY <2>1 DEF StartCleanup, RInv, IInv, TypeOK, vars
  <2>3. script' = new
    BY <2>1 DEF StartCleanup
  <2>4. owed \subseteq OldRow
    BY DEF RInv, RowsTyped
  <2>5. new \in ScriptType
    BY <2>2, <2>4, RetentionAssumption, SpecsFacts DEF ScriptType
  <2>6. ScriptTyped' /\ CutoffPast'
    BY <2>2, <2>3, <2>5, RetentionAssumption DEF ScriptTyped, CutoffPast
  <2>7. IInv'
    BY <2>2, ExpiredLocksGo DEF RInv, vars
  <2>8. RowsTyped' /\ ForeignKeysHold(rows)'
    BY <2>2 DEF RInv, RowsTyped, ForeignKeysHold
  <2>9. OwedStale'
    BY <2>2, <2>3 DEF RInv, OwedStale, RowsTyped
  <2>10. script'.table = 1
    BY <2>3
  <2>11. OwedReported'
    BY <2>10, SpecsFacts DEF OwedReported
  <2>12. LocksGone'
    BY <2>10 DEF LocksGone
  <2>13. QED
    BY <2>6, <2>7, <2>8, <2>9, <2>11, <2>12 DEF RInv
<1>3. CASE CountStale \/ DeleteBatch
  BY <1>3, ScriptRInv
<1>4. CASE \E r \in rows : BecomeTerminal(r)
  BY <1>4, BecomeTerminalRInv
<1>5. QED
  BY <1>1, <1>2, <1>3, <1>4 DEF RNext, rvars

\* The invariant of the locks and of the script beside them.
THEOREM RetentionInvariance == RSpec => []RInv
BY RInitRInv, RNextRInv, PTL DEF RSpec

\* cleanup_old_data.py never takes a live lock away: exclusion holds with the
\* script at work, whichever batches fall between the controllers' calls.
THEOREM ExclusionBesideCleanup == RSpec => []LeasesExclusive
<1>1. RInv => LeasesExclusive
  BY IInvExclusive DEF RInv
<1>2. QED
  BY <1>1, RetentionInvariance, PTL

\* cleanup_old_data.py prints its report only when every row it found stale at
\* the start is gone or reported, and no lock is left from before the cutoff.
THEOREM ReportsAreComplete == RSpec => ReportIsComplete
<1> DEFINE A == ~done /\ done' /\ ~script.dry =>
                  /\ \A r \in script.owed \cap rows' : r.table \in errors'
                  /\ \A l \in locks' : l.expires_at >= script.cutoff
<1>1. RInv /\ [RNext]_rvars => [A]_rvars
  <2> SUFFICES ASSUME RInv, RNext, ~done, done', ~script.dry
               PROVE  /\ \A r \in script.owed \cap rows' : r.table \in errors'
                      /\ \A l \in locks' : l.expires_at >= script.cutoff
    OBVIOUS
  <2>1. CountStale \/ DeleteBatch
    BY DEF RNext, retentionVars, StartCleanup, BecomeTerminal
  <2>2. /\ script # None /\ locks' \subseteq locks /\ rows' \subseteq rows
        /\ (\E open \in BOOLEAN : NextTable(open)) /\ TurnEnds
    BY <2>1, ScriptSteps
  <2>3. script.table = 8 /\ Len(Specs) = 8
    BY <2>2, NextTableKeeps, SpecsFacts DEF RInv
  <2>4. ASSUME NEW r \in script.owed \cap rows' PROVE r.table \in errors'
    <3>1. PICK i \in 1..Len(Specs) : Specs[i] = r.table
      BY <2>2 DEF RInv, RowsTyped, OldRow
    <3>2. i <= script.table
      BY <2>3
    <3>3. QED
      BY <2>2, <2>4, <3>1, <3>2, TurnEndsReported
  <2>5. \A l \in locks' : l.expires_at >= script.cutoff
    BY <2>2, <2>3 DEF RInv, LocksGone
  <2>6. QED
    BY <2>4, <2>5
<1>2. QED
  BY <1>1, RetentionInvariance, PTL DEF RSpec, ReportIsComplete

\* The two lock queries of the store agree also while the script deletes rows.
THEOREM GrantsBesideCleanup == RSpec => GrantOnlyIfFree
<1> DEFINE A == \A l \in locks' \ locks : CheckLock(l.subject_id, l.lock_type) = {}
<1>1. RInv /\ [RNext]_rvars => [A]_vars
  <2> SUFFICES ASSUME RInv, [RNext]_rvars, ~UNCHANGED vars PROVE A
    OBVIOUS
  <2>1. CASE Next
    BY <2>1, GrantStep DEF RInv
  <2>2. CASE DeleteBatch
    BY <2>2 DEF DeleteBatch, BatchDeleted, BatchFails
  <2>3. QED
    BY <2>1, <2>2 DEF RNext, rvars, StartCleanup, CountStale, BecomeTerminal
<1>2. QED
  BY <1>1, RetentionInvariance, PTL DEF RSpec, GrantOnlyIfFree

================================================================================
