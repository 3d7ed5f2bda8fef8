------------------------- MODULE DeviceAccessProofs -------------------------
(***************************************************************************)
(* Proofs about DeviceAccess, for any number of devices and changes, and   *)
(* about SecretStore, which keeps their credentials, for any number of     *)
(* secrets, master keys, failed writes and crashes.                        *)
(***************************************************************************)
EXTENDS DeviceAccess, SecretStore, FiniteSetTheorems, TLAPS

\* The pool and the call agree: a call that is about to connect has found no
\* session for its device and room in the pool; one that executes has a session.
CallInv ==
    \A c \in Changes :
        /\ At("limit", c) => DeviceOf[c] \notin Pooled
        /\ At("connect", c) => /\ DeviceOf[c] \notin Pooled
                               /\ Cardinality(Pooled) < MaxConnections
        /\ At("execute", c) => DeviceOf[c] \in Pooled

\* What is needed, beyond the property itself, for a success to survive: it is saved.
SuccessInv ==
    \A c \in Changes : "ok" \in outcomes[c] =>
        /\ vendor[DeviceOf[c]] \in {"juniper", "netconf"} => running[c] = 2 /\ saved[c] = 2
        /\ vendor[DeviceOf[c]] = "cisco" => running[c] >= 1 /\ saved[c] >= 1

\* What is needed for a refused change to leave no trace: an untried one has none,
\* and none is saved.
RefusedInv ==
    \A c \in Changes :
        vendor[DeviceOf[c]] = "juniper" /\ outcomes[c] \subseteq {"failed"}
            => running[c] = 0 /\ saved[c] = 0 /\ c \notin candidate[DeviceOf[c]]

CandidateInv == \A d \in Devices : \A c \in candidate[d] : DeviceOf[c] = d

IInv == /\ TypeOK /\ CallInv /\ PoolBounded /\ NoLeakedConnection
        /\ CandidateInv /\ SuccessInv /\ RefusedInv

PoolTypes == [Devices -> Session \union {NoSession}]

\* Nothing is connected, applied or tried at the start.
LEMMA InitIInv == Init => IInv
<1> SUFFICES ASSUME Init PROVE IInv
  OBVIOUS
<1>1. Pooled = {}
  BY DEF Init, Pooled
<1>2. Cardinality(Pooled) = 0
  BY <1>1, FS_EmptySet
<1>3. TypeOK
  BY BoundsAssumption DEF Init, TypeOK, Level, IdleCall, Pcs
<1>4. CallInv /\ PoolBounded /\ NoLeakedConnection
  BY <1>1, <1>2, BoundsAssumption
     DEF Init, CallInv, PoolBounded, NoLeakedConnection, At, IdleCall
<1>5. CandidateInv /\ SuccessInv /\ RefusedInv
  BY BoundsAssumption DEF Init, CandidateInv, SuccessInv, RefusedInv
<1> QED
  BY <1>3, <1>4, <1>5 DEF IInv

\* A subset of the pool is finite and not larger.
LEMMA PoolFinite ==
    /\ IsFiniteSet(Pooled) /\ Cardinality(Pooled) \in Nat
    /\ \A P \in SUBSET Pooled : Cardinality(P) \in Nat /\ Cardinality(P) <= Cardinality(Pooled)
<1>1. IsFiniteSet(Pooled)
  BY BoundsAssumption, FS_Subset DEF Pooled
<1>2. \A P \in SUBSET Pooled : IsFiniteSet(P) /\ Cardinality(P) <= Cardinality(Pooled)
  BY <1>1, FS_Subset
<1> QED
  BY <1>1, <1>2, FS_CardinalityType

\* Closing the sessions K, the others keeping their place in the pool.
LEMMA CloseEffect ==
    ASSUME TypeOK, NoLeakedConnection, NEW K \in SUBSET Pooled, Closed(K),
           sessions' \in PoolTypes,
           \A d \in Devices : sessions'[d] = NoSession <=> d \in K \/ d \notin Pooled
    PROVE  /\ Pooled' = Pooled \ K
           /\ NoLeakedConnection'
           /\ link' \in [Devices -> BOOLEAN] /\ opened' \in [Devices -> Int]
           /\ candidate' \in [Devices -> SUBSET Changes]
           /\ \A d \in Devices : candidate'[d] \subseteq candidate[d]
<1>1. Pooled' = Pooled \ K
  BY DEF Pooled
<1>2. /\ opened' = [d \in Devices |-> IF d \in K THEN opened[d] - 1 ELSE opened[d]]
      /\ link' = [d \in Devices |-> link[d] /\ d \notin K]
  BY DEF Closed
<1>3. opened' \in [Devices -> Int]
  BY <1>2 DEF TypeOK
<1>4. link' \in [Devices -> BOOLEAN]
  BY <1>2
<1>5. NoLeakedConnection'
  BY <1>1, <1>2 DEF NoLeakedConnection, TypeOK, Pooled
<1>6. PICK lost \in SUBSET K :
         candidate' = [d \in Devices |-> IF d \in lost THEN {} ELSE candidate[d]]
  BY DEF Closed
<1>7. /\ candidate' \in [Devices -> SUBSET Changes]
      /\ \A d \in Devices : candidate'[d] \subseteq candidate[d]
  BY <1>6 DEF TypeOK
<1> QED
  BY <1>1, <1>3, <1>4, <1>5, <1>7

\* close_session for all of D: they leave the pool.
LEMMA CloseAllEffect ==
    ASSUME TypeOK, NoLeakedConnection, NEW D \in SUBSET Pooled, CloseAll(D)
    PROVE  /\ sessions' \in PoolTypes
           /\ Pooled' = Pooled \ D
           /\ NoLeakedConnection'
           /\ link' \in [Devices -> BOOLEAN] /\ opened' \in [Devices -> Int]
           /\ candidate' \in [Devices -> SUBSET Changes]
           /\ \A d \in Devices : candidate'[d] \subseteq candidate[d]
<1>1. /\ sessions' = [d \in Devices |-> IF d \in D THEN NoSession ELSE sessions[d]]
      /\ Closed(D)
  BY DEF CloseAll
<1>2. sessions' \in PoolTypes
  BY <1>1 DEF TypeOK, PoolTypes
<1>3. \A d \in Devices : sessions'[d] = NoSession <=> d \in D \/ d \notin Pooled
  BY <1>1 DEF Pooled
<1> QED
  BY <1>1, <1>2, <1>3, CloseEffect

\* A close that raises: the pool can only have shrunk.
LEMMA CloseAbortedEffect ==
    ASSUME TypeOK, NoLeakedConnection, NEW D \in SUBSET Pooled, NEW before \in PoolTypes,
           \A d \in Devices : before[d] = NoSession <=> d \notin Pooled,
           CloseAborted(D, before)
    PROVE  /\ sessions' \in PoolTypes
           /\ Pooled' \subseteq Pooled
           /\ NoLeakedConnection'
           /\ link' \in [Devices -> BOOLEAN] /\ opened' \in [Devices -> Int]
           /\ candidate' \in [Devices -> SUBSET Changes]
           /\ \A d \in Devices : candidate'[d] \subseteq candidate[d]
<1>1. PICK K \in SUBSET D :
         /\ sessions' = [e \in Devices |-> IF e \in K THEN NoSession ELSE before[e]]
         /\ Closed(K)
  BY DEF CloseAborted
<1>2. K \in SUBSET Pooled
  BY <1>1
<1>3. sessions' \in PoolTypes
  BY <1>1 DEF PoolTypes
<1>4. \A e \in Devices : sessions'[e] = NoSession <=> e \in K \/ e \notin Pooled
  BY <1>1
<1>5. /\ Pooled' = Pooled \ K
      /\ NoLeakedConnection'
      /\ link' \in [Devices -> BOOLEAN] /\ opened' \in [Devices -> Int]
      /\ candidate' \in [Devices -> SUBSET Changes]
      /\ \A e \in Devices : candidate'[e] \subseteq candidate[e]
  BY <1>1, <1>2, <1>3, <1>4, CloseEffect
<1> QED
  BY <1>3, <1>5

\* A step that changes no configuration, other than by dropping candidates.
LEMMA DevicesKept ==
    ASSUME CandidateInv, SuccessInv, RefusedInv, TypeOK,
           UNCHANGED <<vendor, running, saved, outcomes>>,
           \A d \in Devices : candidate'[d] \subseteq candidate[d]
    PROVE  CandidateInv' /\ SuccessInv' /\ RefusedInv'
<1>1. CandidateInv'
  BY DEF CandidateInv
<1>2. SuccessInv'
  BY DEF SuccessInv
<1>3. RefusedInv'
  BY BoundsAssumption DEF RefusedInv
<1> QED
  BY <1>1, <1>2, <1>3

\* A step of the call, after which the pool P fits the place it has reached.
LEMMA CallMoves ==
    ASSUME CallInv, NEW c \in Changes, NEW pc \in Pcs \ {"idle"}, GoTo(pc, c),
           pc \in {"limit", "connect"} => DeviceOf[c] \notin Pooled',
           pc = "connect" => Cardinality(Pooled') < MaxConnections,
           pc = "execute" => DeviceOf[c] \in Pooled'
    PROVE  CallInv' /\ call' \in [pc : Pcs, chg : SUBSET Changes]
<1>1. call' = [pc |-> pc, chg |-> {c}]
  BY DEF GoTo
<1>2. \A e \in Changes, q \in Pcs : At(q, e)' => q = pc /\ e = c
  <2> SUFFICES ASSUME NEW e \in Changes, NEW q \in Pcs, At(q, e)'
               PROVE  q = pc /\ e = c
    OBVIOUS
  <2>1. [pc |-> pc, chg |-> {c}] = [pc |-> q, chg |-> {e}]
    BY <1>1 DEF At
  <2>2. [pc |-> pc, chg |-> {c}].pc = [pc |-> q, chg |-> {e}].pc /\ [pc |-> pc, chg |-> {c}].chg = [pc |-> q, chg |-> {e}].chg
    BY <2>1
  <2> QED
    BY <2>2
<1>3. CallInv'
  BY <1>2 DEF CallInv, Pcs
<1> QED
  BY <1>1, <1>3

\* A call that has returned makes no claim on the pool.
LEMMA CallReturns ==
    ASSUME Return
    PROVE  CallInv' /\ call' \in [pc : Pcs, chg : SUBSET Changes]
<1>1. call' = [pc |-> "idle", chg |-> {}]
  BY DEF Return, IdleCall
<1>2. \A c \in Changes, q \in {"limit", "connect", "execute"} : ~At(q, c)'
  BY <1>1 DEF At
<1> QED
  BY <1>1, <1>2 DEF CallInv, Pcs

\* What the session operations make of a pooled session is a session again.
LEMMA SessionForms ==
    ASSUME TypeOK, NEW d \in Pooled
    PROVE  Touched(sessions[d]) \in Session /\ Checked(d) \in Session
<1>1. sessions[d] \in Session /\ 0 \in 0..Aged
  BY BoundsAssumption DEF TypeOK, Pooled, Aged
<1> QED
  BY <1>1 DEF Session, Touched, Checked

\* The absence of a session is not a session.
LEMMA NoSessionIsNone == NoSession \notin Session
BY DEF NoSession, Session

\* Finding, using or closing a pooled session preserves the invariant.
LEMMA LookupIInv ==
    ASSUME IInv, NEW c \in Changes, Lookup(c)
    PROVE  IInv'
<1> DEFINE d == DeviceOf[c]
           seen == [sessions EXCEPT ![d] = IF @.state = "error" THEN @ ELSE Checked(d)]
<1> USE DEF IInv
<1>0. d \in Devices /\ UNCHANGED <<vendor, running, saved, outcomes, calls>>
  BY BoundsAssumption DEF Lookup
<1>1. CASE d \notin Pooled /\ GoTo("limit", c) /\ UNCHANGED <<sessions, link, opened, candidate>>
  <2>1. Pooled' = Pooled
    BY <1>1 DEF Pooled
  <2>2. CallInv' /\ call' \in [pc : Pcs, chg : SUBSET Changes]
    BY <1>1, <2>1, CallMoves DEF Pcs
  <2>3. CandidateInv' /\ SuccessInv' /\ RefusedInv'
    BY <1>0, <1>1, DevicesKept
  <2> QED
    BY <1>0, <1>1, <2>1, <2>2, <2>3 DEF TypeOK, PoolBounded, NoLeakedConnection
<1>2. CASE /\ d \in Pooled /\ sessions' = [sessions EXCEPT ![d] = Touched(@)]
           /\ GoTo("execute", c) /\ UNCHANGED <<link, opened, candidate>>
  <2>1. Touched(sessions[d]) \in Session
    BY <1>0, <1>2, SessionForms
  <2>2. sessions' \in PoolTypes /\ Pooled' = Pooled
    BY <1>0, <1>2, <2>1 DEF TypeOK, PoolTypes, Pooled, Session, NoSession
  <2>3. CallInv' /\ call' \in [pc : Pcs, chg : SUBSET Changes]
    BY <1>2, <2>2, CallMoves DEF Pcs
  <2>4. CandidateInv' /\ SuccessInv' /\ RefusedInv'
    BY <1>0, <1>2, DevicesKept
  <2> QED
    BY <1>0, <1>2, <2>2, <2>3, <2>4 DEF TypeOK, PoolTypes, PoolBounded, NoLeakedConnection
<1>3. CASE d \in Pooled /\ CloseAll({d}) /\ GoTo("limit", c)
  <2>1. /\ sessions' \in PoolTypes /\ Pooled' = Pooled \ {d} /\ NoLeakedConnection'
        /\ link' \in [Devices -> BOOLEAN] /\ opened' \in [Devices -> Int]
        /\ candidate' \in [Devices -> SUBSET Changes]
        /\ \A e \in Devices : candidate'[e] \subseteq candidate[e]
    <3>1. {d} \in SUBSET Pooled
      BY <1>3
    <3> QED
      BY <1>3, <3>1, CloseAllEffect
  <2>2. CallInv' /\ call' \in [pc : Pcs, chg : SUBSET Changes]
    BY <1>3, <2>1, CallMoves DEF Pcs
  <2>3. PoolBounded'
    BY <2>1, PoolFinite, BoundsAssumption DEF PoolBounded
  <2>4. CandidateInv' /\ SuccessInv' /\ RefusedInv'
    BY <1>0, <2>1, DevicesKept
  <2> QED
    BY <1>0, <2>1, <2>2, <2>3, <2>4 DEF TypeOK, PoolTypes
<1>4. CASE d \in Pooled /\ CloseAborted({d}, seen) /\ Return
  <2>1. seen \in PoolTypes /\ \A e \in Devices : seen[e] = NoSession <=> e \notin Pooled
    <3>1. sessions[d] \in Session
      BY <1>0, <1>4 DEF TypeOK, Pooled
    <3>2. Checked(d) \in Session /\ Session \cap {NoSession} = {}
      BY <3>1 DEF Checked, Session, NoSession
    <3> QED
      BY <1>0, <3>1, <3>2 DEF TypeOK, PoolTypes, Pooled
  <2>2. /\ sessions' \in PoolTypes /\ Pooled' \subseteq Pooled /\ NoLeakedConnection'
        /\ link' \in [Devices -> BOOLEAN] /\ opened' \in [Devices -> Int]
        /\ candidate' \in [Devices -> SUBSET Changes]
        /\ \A e \in Devices : candidate'[e] \subseteq candidate[e]
    <3>1. {d} \in SUBSET Pooled
      BY <1>4
    <3> HIDE DEF seen
    <3> QED
      BY <1>4, <2>1, <3>1, CloseAbortedEffect
  <2>3. CallInv' /\ call' \in [pc : Pcs, chg : SUBSET Changes]
    BY <1>4, CallReturns
  <2>4. PoolBounded'
    BY <2>2, PoolFinite, BoundsAssumption DEF PoolBounded
  <2>5. CandidateInv' /\ SuccessInv' /\ RefusedInv'
    BY <1>0, <2>2, DevicesKept
  <2> QED
    BY <1>0, <2>2, <2>3, <2>4, <2>5 DEF TypeOK, PoolTypes
<1> QED
  BY <1>1, <1>2, <1>3, <1>4 DEF Lookup

\* The check of the limit, with its clean-up, preserves the invariant.
LEMMA LimitIInv ==
    ASSUME IInv, NEW c \in Changes, Limit(c)
    PROVE  IInv'
<1> DEFINE idle == {d \in Pooled : IsIdle(d)}
           marked == [d \in Devices |-> IF d \in Pooled THEN Checked(d) ELSE NoSession]
<1> USE DEF IInv
<1>0. /\ DeviceOf[c] \in Devices /\ DeviceOf[c] \notin Pooled
      /\ UNCHANGED <<vendor, running, saved, outcomes, calls>>
  BY BoundsAssumption DEF Limit, CallInv
<1>1. CASE /\ RoomFor(Cardinality(Pooled)) /\ GoTo("connect", c)
           /\ UNCHANGED <<sessions, link, opened, candidate>>
  <2>1. Pooled' = Pooled /\ Cardinality(Pooled) < MaxConnections
    BY <1>1 DEF Pooled, RoomFor
  <2>2. CallInv' /\ call' \in [pc : Pcs, chg : SUBSET Changes]
    BY <1>0, <1>1, <2>1, CallMoves DEF Pcs
  <2>3. CandidateInv' /\ SuccessInv' /\ RefusedInv'
    BY <1>0, <1>1, DevicesKept
  <2> QED
    BY <1>0, <1>1, <2>1, <2>2, <2>3 DEF TypeOK, PoolBounded, NoLeakedConnection
<1>2. CASE /\ CloseAll(idle)
           /\ IF RoomFor(Cardinality(Pooled \ idle)) THEN GoTo("connect", c) ELSE Return
  <2>1. /\ sessions' \in PoolTypes /\ Pooled' = Pooled \ idle /\ NoLeakedConnection'
        /\ link' \in [Devices -> BOOLEAN] /\ opened' \in [Devices -> Int]
        /\ candidate' \in [Devices -> SUBSET Changes]
        /\ \A e \in Devices : candidate'[e] \subseteq candidate[e]
    <3>1. idle \in SUBSET Pooled
      OBVIOUS
    <3> HIDE DEF idle
    <3> QED
      BY <1>2, <3>1, CloseAllEffect
  <2>2. CallInv' /\ call' \in [pc : Pcs, chg : SUBSET Changes]
    <3> HIDE DEF idle
    <3>1. CASE RoomFor(Cardinality(Pooled \ idle)) /\ GoTo("connect", c)
      <4>1. DeviceOf[c] \notin Pooled' /\ Cardinality(Pooled') < MaxConnections
        BY <1>0, <2>1, <3>1 DEF RoomFor
      <4> QED
        BY <3>1, <4>1, CallMoves DEF Pcs
    <3>2. CASE Return
      BY <3>2, CallReturns
    <3> QED
      BY <1>2, <3>1, <3>2
  <2>3. PoolBounded'
    BY <2>1, PoolFinite, BoundsAssumption DEF PoolBounded
  <2>4. CandidateInv' /\ SuccessInv' /\ RefusedInv'
    BY <1>0, <2>1, DevicesKept
  <2> QED
    BY <1>0, <2>1, <2>2, <2>3, <2>4 DEF TypeOK, PoolTypes
<1>3. CASE CloseAborted(idle, marked) /\ Return
  <2>1. marked \in PoolTypes /\ \A e \in Devices : marked[e] = NoSession <=> e \notin Pooled
    <3>1. \A e \in Pooled : Checked(e) \in Session
      BY SessionForms
    <3> QED
      BY <3>1, NoSessionIsNone DEF PoolTypes
  <2>2. /\ sessions' \in PoolTypes /\ Pooled' \subseteq Pooled /\ NoLeakedConnection'
        /\ link' \in [Devices -> BOOLEAN] /\ opened' \in [Devices -> Int]
        /\ candidate' \in [Devices -> SUBSET Changes]
        /\ \A e \in Devices : candidate'[e] \subseteq candidate[e]
    <3>1. idle \in SUBSET Pooled
      OBVIOUS
    <3> HIDE DEF marked, idle
    <3> QED
      BY <1>3, <2>1, <3>1, CloseAbortedEffect
  <2>3. CallInv' /\ call' \in [pc : Pcs, chg : SUBSET Changes]
    BY <1>3, CallReturns
  <2>4. PoolBounded'
    BY <2>2, PoolFinite, BoundsAssumption DEF PoolBounded
  <2>5. CandidateInv' /\ SuccessInv' /\ RefusedInv'
    BY <1>0, <2>2, DevicesKept
  <2> QED
    BY <1>0, <2>2, <2>3, <2>4, <2>5 DEF TypeOK, PoolTypes
<1> QED
  BY <1>1, <1>2, <1>3 DEF Limit, IdleSessions

\* Connecting, or failing to, preserves the invariant.
LEMMA CreateSessionIInv ==
    ASSUME IInv, NEW c \in Changes, CreateSession(c)
    PROVE  IInv'
<1> DEFINE d == DeviceOf[c]
<1> USE DEF IInv
<1>0. /\ d \in Devices /\ d \notin Pooled /\ Cardinality(Pooled) < MaxConnections
      /\ UNCHANGED <<vendor, running, saved, candidate, outcomes, calls>>
  BY BoundsAssumption DEF CreateSession, CallInv, deviceVars
<1>1. CandidateInv' /\ SuccessInv' /\ RefusedInv'
  BY <1>0, DevicesKept
<1>2. CASE /\ sessions' = [sessions EXCEPT ![d] = [state |-> "connected", age |-> 0]]
           /\ link' = [link EXCEPT ![d] = TRUE]
           /\ opened' = [opened EXCEPT ![d] = @ + 1]
           /\ GoTo("execute", c)
  <2>1. [state |-> "connected", age |-> 0] \in Session
    BY BoundsAssumption DEF Session, Aged
  <2>2. sessions' \in PoolTypes /\ Pooled' = Pooled \union {d}
    BY <1>0, <1>2, <2>1, NoSessionIsNone DEF TypeOK, PoolTypes, Pooled
  <2>3. opened' \in [Devices -> Int] /\ NoLeakedConnection'
    BY <1>0, <1>2, <2>2 DEF TypeOK, NoLeakedConnection
  <2>4. Cardinality(Pooled') = Cardinality(Pooled) + 1
    BY <1>0, <2>2, PoolFinite, FS_AddElement
  <2>5. PoolBounded'
    BY <1>0, <2>4, PoolFinite, BoundsAssumption DEF PoolBounded
  <2>6. CallInv' /\ call' \in [pc : Pcs, chg : SUBSET Changes]
    BY <1>2, <2>2, CallMoves DEF Pcs
  <2> QED
    BY <1>0, <1>1, <1>2, <2>2, <2>3, <2>5, <2>6 DEF TypeOK, PoolTypes
<1>3. CASE Return /\ UNCHANGED <<sessions, link, opened>>
  <2>1. Pooled' = Pooled
    BY <1>3 DEF Pooled
  <2>2. CallInv' /\ call' \in [pc : Pcs, chg : SUBSET Changes]
    BY <1>3, CallReturns
  <2> QED
    BY <1>0, <1>1, <1>3, <2>1, <2>2 DEF TypeOK, PoolBounded, NoLeakedConnection
<1> QED
  BY <1>2, <1>3 DEF CreateSession

\* What the configurations need to satisfy after an attempt at change c.
ConfigsOK ==
    /\ running \in [Changes -> Level] /\ saved \in [Changes -> Level]
    /\ candidate \in [Devices -> SUBSET Changes]
    /\ CandidateInv /\ SuccessInv /\ RefusedInv

\* Cisco and Arista type a change into the running configuration, and may save it.
LEMMA TypedEffect ==
    ASSUME IInv, NEW c \in Changes, NEW result \in {"ok", "failed"}, NEW n \in Level,
           vendor[DeviceOf[c]] \in {"cisco", "arista"},
           Typed(c, n), WriteMemory(DeviceOf[c]) \/ UNCHANGED saved,
           result = "ok" /\ vendor[DeviceOf[c]] = "cisco" => n >= 1 /\ WriteMemory(DeviceOf[c]),
           outcomes' = [outcomes EXCEPT ![c] = @ \union {result}],
           UNCHANGED <<vendor, candidate>>
    PROVE  ConfigsOK'
<1> USE DEF IInv
<1>1. /\ running' \in [Changes -> Level]
      /\ \A e \in Changes : e # c => running'[e] = running[e]
      /\ running'[c] >= running[c] /\ running'[c] >= n
  BY DEF Typed, TypeOK, Level
<1>2. /\ saved' \in [Changes -> Level]
      /\ \A e \in Changes : saved'[e] = saved[e] \/ saved'[e] = running'[e]
      /\ \A e \in Changes : DeviceOf[e] # DeviceOf[c] => saved'[e] = saved[e]
  BY <1>1 DEF WriteMemory, TypeOK
<1>3. \A e \in Changes : e # c => outcomes'[e] = outcomes[e]
  BY DEF TypeOK
<1>4. outcomes'[c] = outcomes[c] \union {result}
  BY DEF TypeOK
<1>5. SuccessInv'
  <2> SUFFICES ASSUME NEW e \in Changes, "ok" \in outcomes'[e]
               PROVE  /\ vendor[DeviceOf[e]] \in {"juniper", "netconf"} =>
                             running'[e] = 2 /\ saved'[e] = 2
                      /\ vendor[DeviceOf[e]] = "cisco" => running'[e] >= 1 /\ saved'[e] >= 1
    BY DEF SuccessInv
  <2>1. CASE e # c
    BY <1>1, <1>2, <1>3, <2>1 DEF SuccessInv
  <2>2. CASE e = c /\ "ok" \in outcomes[c]
    <3>1. vendor[DeviceOf[c]] = "cisco" => running[c] >= 1 /\ saved[c] >= 1
      BY <2>2 DEF SuccessInv
    <3>2. running[c] \in 0..2 /\ saved[c] \in 0..2 /\ running'[c] \in 0..2
      BY <1>1 DEF TypeOK, Level
    <3>3. running'[c] >= running[c] /\ (saved'[c] = saved[c] \/ saved'[c] = running'[c])
      BY <1>1, <1>2
    <3> QED
      BY <2>2, <3>1, <3>2, <3>3
  <2>3. CASE e = c /\ result = "ok"
    BY <1>1, <1>2, <2>3 DEF WriteMemory, TypeOK, Level
  <2> QED
    BY <1>4, <2>1, <2>2, <2>3
<1>6. RefusedInv'
  BY <1>1, <1>2, <1>3 DEF RefusedInv
<1>7. CandidateInv'
  BY DEF CandidateInv
<1> QED
  BY <1>1, <1>2, <1>5, <1>6, <1>7 DEF ConfigsOK, TypeOK

\* Loading or discarding: the running configuration stays, and so does the
\* success of every change.
LEMMA UncommittedEffect ==
    ASSUME IInv, NEW c \in Changes, NEW result \in {"failed", "raised"},
           UNCHANGED <<vendor, running, saved>>,
           \/ Discarded(DeviceOf[c])
           \/ Loaded(DeviceOf[c], {})
           \/ /\ Loaded(DeviceOf[c], {c})
              /\ vendor[DeviceOf[c]] = "juniper" => result = "raised",
           outcomes' = [outcomes EXCEPT ![c] = @ \union {result}]
    PROVE  ConfigsOK'
<1> USE DEF IInv
<1>1. DeviceOf[c] \in Devices
  BY BoundsAssumption
<1>2. /\ candidate' \in [Devices -> SUBSET Changes]
      /\ \A d \in Devices : candidate'[d] \subseteq candidate[d] \union
             (IF d = DeviceOf[c] THEN {c} ELSE {})
      /\ vendor[DeviceOf[c]] = "juniper" /\ result = "failed" =>
             candidate'[DeviceOf[c]] \subseteq candidate[DeviceOf[c]]
  BY <1>1 DEF Discarded, Loaded, TypeOK
<1>3. /\ \A e \in Changes : e # c => outcomes'[e] = outcomes[e]
      /\ outcomes'[c] = outcomes[c] \union {result}
  BY DEF TypeOK
<1>4. CandidateInv'
  BY <1>2 DEF CandidateInv
<1>5. SuccessInv'
  BY <1>3 DEF SuccessInv
<1>6. RefusedInv'
  <2> SUFFICES ASSUME NEW e \in Changes, vendor[DeviceOf[e]] = "juniper",
                      outcomes'[e] \subseteq {"failed"}
               PROVE  running[e] = 0 /\ saved[e] = 0 /\ e \notin candidate'[DeviceOf[e]]
    BY DEF RefusedInv
  <2>1. outcomes[e] \subseteq {"failed"} /\ (e = c => result = "failed")
    BY <1>3
  <2>2. DeviceOf[e] \in Devices
    BY BoundsAssumption
  <2> QED
    BY <1>2, <2>1, <2>2 DEF RefusedInv
<1> QED
  BY <1>2, <1>4, <1>5, <1>6 DEF ConfigsOK, TypeOK

\* A commit puts the candidate and c into force and saves them.
LEMMA CommittedEffect ==
    ASSUME IInv, NEW c \in Changes, NEW result \in {"ok", "failed", "raised"},
           vendor[DeviceOf[c]] = "juniper" => result # "failed",
           vendor[DeviceOf[c]] \in {"juniper", "netconf"},
           Committed(DeviceOf[c], {c}), UNCHANGED vendor,
           outcomes' = [outcomes EXCEPT ![c] = @ \union {result}]
    PROVE  ConfigsOK'
<1> USE DEF IInv
<1> DEFINE d == DeviceOf[c]
<1>1. d \in Devices
  BY BoundsAssumption
<1>2. /\ candidate' = [candidate EXCEPT ![d] = {}]
      /\ running' = [e \in Changes |-> IF e \in candidate[d] \union {c} THEN 2 ELSE running[e]]
      /\ saved' = [e \in Changes |-> IF DeviceOf[e] = d THEN running'[e] ELSE saved[e]]
  BY DEF Committed, WriteMemory
<1>3. /\ candidate' \in [Devices -> SUBSET Changes]
      /\ \A e \in Devices : candidate'[e] \subseteq candidate[e]
  BY <1>1, <1>2 DEF TypeOK
<1>4. running' \in [Changes -> Level]
  BY <1>2 DEF TypeOK, Level
<1>5. saved' \in [Changes -> Level]
  BY <1>2, <1>4 DEF TypeOK
<1>6. \A e \in Changes : DeviceOf[e] # d => running'[e] = running[e] /\ saved'[e] = saved[e]
  BY <1>1, <1>2 DEF CandidateInv
<1>7. \A e \in Changes : DeviceOf[e] = d => saved'[e] = running'[e]
                                            /\ (running'[e] = 2 \/ running'[e] = running[e])
  BY <1>2
<1>8. /\ \A e \in Changes : e # c => outcomes'[e] = outcomes[e]
      /\ outcomes'[c] = outcomes[c] \union {result}
  BY DEF TypeOK
<1>9. CandidateInv'
  BY <1>3 DEF CandidateInv
<1>10. SuccessInv'
  <2> SUFFICES ASSUME NEW e \in Changes, "ok" \in outcomes'[e]
               PROVE  /\ vendor[DeviceOf[e]] \in {"juniper", "netconf"} =>
                             running'[e] = 2 /\ saved'[e] = 2
                      /\ vendor[DeviceOf[e]] = "cisco" => running'[e] >= 1 /\ saved'[e] >= 1
    BY DEF SuccessInv
  <2>1. CASE DeviceOf[e] # d
    BY <1>6, <1>8, <2>1 DEF SuccessInv
  <2>2. CASE DeviceOf[e] = d /\ e # c
    BY <1>7, <1>8, <2>2 DEF SuccessInv
  <2>3. CASE e = c
    BY <1>2, <2>3
  <2> QED
    BY <2>1, <2>2, <2>3
<1>11. RefusedInv'
  <2> SUFFICES ASSUME NEW e \in Changes, vendor[DeviceOf[e]] = "juniper",
                      outcomes'[e] \subseteq {"failed"}
               PROVE  running'[e] = 0 /\ saved'[e] = 0 /\ e \notin candidate'[DeviceOf[e]]
    BY DEF RefusedInv
  <2>1. e # c /\ outcomes[e] \subseteq {"failed"} /\ DeviceOf[e] \in Devices
    BY <1>8, BoundsAssumption
  <2>2. running[e] = 0 /\ saved[e] = 0 /\ e \notin candidate[DeviceOf[e]]
    BY <2>1 DEF RefusedInv
  <2>3. running'[e] = 0
    BY <1>2, <1>6, <2>1, <2>2
  <2> QED
    BY <1>3, <1>6, <1>7, <2>1, <2>2, <2>3
<1> QED
  BY <1>3, <1>4, <1>5, <1>9, <1>10, <1>11 DEF ConfigsOK

\* apply_config of every adapter preserves the invariant.
LEMMA ExecuteIInv ==
    ASSUME IInv, NEW c \in Changes, Execute(c)
    PROVE  IInv'
<1> DEFINE d == DeviceOf[c]
<1> USE DEF IInv
<1>1. PICK result \in {"ok", "failed", "raised"} :
         /\ \/ CiscoApply(c, result) \/ AristaApply(c, result)
            \/ JuniperApply(c, result) \/ NetconfApply(c, result)
         /\ sessions' = [sessions EXCEPT ![d] =
                IF result = "raised" THEN [@ EXCEPT !.state = "error"] ELSE Touched(@)]
         /\ outcomes' = [outcomes EXCEPT ![c] = @ \union {result}]
  BY DEF Execute
<1>2. /\ d \in Devices /\ d \in Pooled /\ Return
      /\ UNCHANGED <<vendor, link, opened, calls>>
  BY BoundsAssumption DEF Execute, CallInv
<1>3. sessions' \in PoolTypes /\ Pooled' = Pooled
  <2>1. sessions[d] \in Session /\ Touched(sessions[d]) \in Session
    BY <1>2, SessionForms DEF TypeOK, Pooled
  <2>2. [sessions[d] EXCEPT !.state = "error"] \in Session
    BY <2>1 DEF Session
  <2>3. sessions'[d] \in Session /\ \A e \in Devices : e # d => sessions'[e] = sessions[e]
    BY <1>1, <1>2, <2>1, <2>2 DEF TypeOK
  <2>4. sessions' \in PoolTypes
    <3> HIDE DEF d
    <3> QED
      BY <1>1, <1>2, <2>1, <2>2 DEF TypeOK, PoolTypes
  <2> QED
    BY <1>2, <2>3, <2>4, NoSessionIsNone DEF Pooled
<1>4. ConfigsOK'
  <2>1. CASE CiscoApply(c, result)
    <3>1. result \in {"ok", "failed"}
      BY <2>1 DEF CiscoApply
    <3>2. PICK n \in Level : /\ Typed(c, n) /\ (WriteMemory(d) \/ UNCHANGED saved)
                             /\ result = "ok" => n >= 1 /\ WriteMemory(d)
      BY <2>1 DEF CiscoApply, Level
    <3> QED
      BY <1>1, <1>2, <2>1, <3>1, <3>2, TypedEffect DEF CiscoApply
  <2>2. CASE AristaApply(c, result)
    <3>1. result \in {"ok", "failed"}
      BY <2>2 DEF AristaApply
    <3>2. PICK n \in Level : Typed(c, n) /\ (WriteMemory(d) \/ UNCHANGED saved)
      BY <2>2 DEF AristaApply, Level
    <3> QED
      BY <1>1, <1>2, <2>2, <3>1, <3>2, TypedEffect DEF AristaApply
  <2>3. CASE JuniperApply(c, result)
    <3>1. CASE result \in {"ok", "raised"} /\ Committed(d, {c})
      BY <1>1, <1>2, <2>3, <3>1, CommittedEffect DEF JuniperApply
    <3>2. CASE result = "failed" /\ Discarded(d)
      BY <1>1, <1>2, <3>2, UncommittedEffect DEF Discarded
    <3>3. CASE result = "raised" /\ (Loaded(d, {}) \/ Loaded(d, {c}))
      BY <1>1, <1>2, <3>3, UncommittedEffect DEF Loaded
    <3> QED
      BY <2>3, <3>1, <3>2, <3>3 DEF JuniperApply, JuniperRefused
  <2>4. CASE NetconfApply(c, result)
    <3>1. CASE Committed(d, {c})
      BY <1>1, <1>2, <2>4, <3>1, CommittedEffect DEF NetconfApply
    <3>2. CASE result = "failed" /\ (Loaded(d, {}) \/ Loaded(d, {c}))
      <4>1. vendor[d] # "juniper"
        BY <2>4 DEF NetconfApply
      <4> QED
        BY <1>1, <1>2, <3>2, <4>1, UncommittedEffect DEF Loaded
    <3> QED
      BY <2>4, <3>1, <3>2 DEF NetconfApply
  <2> QED
    BY <1>1, <2>1, <2>2, <2>3, <2>4
<1>5. CallInv' /\ call' \in [pc : Pcs, chg : SUBSET Changes]
  BY <1>2, CallReturns
<1>6. outcomes' \in [Changes -> SUBSET {"ok", "failed", "raised"}]
  BY <1>1 DEF TypeOK
<1>7. TypeOK'
  BY <1>2, <1>3, <1>4, <1>5, <1>6 DEF TypeOK, ConfigsOK, PoolTypes
<1> QED
  BY <1>2, <1>3, <1>4, <1>5, <1>7 DEF ConfigsOK, PoolBounded, NoLeakedConnection

\* The operations outside of a call, and the environment.
LEMMA OtherIInv ==
    ASSUME IInv, NEW d \in Devices,
           \/ GetConfig(d) \/ HealthCheckAll \/ Tick
           \/ LinkBreaks(d) \/ LinkRecovers(d) \/ DeviceRestarts(d)
    PROVE  IInv'
<1> USE DEF IInv
<1>1. CASE GetConfig(d) \/ HealthCheckAll \/ Tick
  <2>1. /\ UNCHANGED <<vendor, link, opened, running, saved, candidate, call, outcomes, calls>>
        /\ sessions' \in PoolTypes
        /\ \A e \in Devices : sessions'[e] = NoSession <=> sessions[e] = NoSession
    <3>1. UNCHANGED <<vendor, link, opened, running, saved, candidate, call, outcomes, calls>>
      BY <1>1 DEF GetConfig, HealthCheckAll, Tick, deviceVars
    <3>2. CASE GetConfig(d)
      <4>1. Touched(sessions[d]) \in Session /\ d \in Pooled
        BY <3>2, SessionForms DEF GetConfig
      <4>2. sessions' = [sessions EXCEPT ![d] = Touched(sessions[d])]
        BY <3>2 DEF GetConfig
      <4> QED
        BY <3>1, <4>1, <4>2, NoSessionIsNone DEF TypeOK, PoolTypes, Pooled
    <3>3. CASE HealthCheckAll
      <4>1. \A e \in Pooled : Checked(e) \in Session
        BY SessionForms
      <4>2. sessions' = [e \in Devices |->
               IF e \in Pooled /\ sessions[e].state # "error" THEN Checked(e) ELSE sessions[e]]
        BY <3>3 DEF HealthCheckAll
      <4> QED
        BY <3>1, <4>1, <4>2, NoSessionIsNone DEF TypeOK, PoolTypes, Pooled
    <3>4. CASE Tick
      <4>1. \A e \in Pooled : sessions[e].age < Aged =>
                [sessions[e] EXCEPT !.age = @ + 1] \in Session
        <5> SUFFICES ASSUME NEW e \in Pooled, sessions[e].age < Aged
                     PROVE  [sessions[e] EXCEPT !.age = @ + 1] \in Session
          OBVIOUS
        <5>1. sessions[e] \in Session
          BY DEF TypeOK, Pooled
        <5>2. sessions[e].age + 1 \in 0..Aged
          BY <5>1, BoundsAssumption DEF Session, Aged
        <5> QED
          BY <5>1, <5>2 DEF Session
      <4>2. sessions' = [e \in Devices |->
               IF e \in Pooled /\ sessions[e].age < Aged THEN [sessions[e] EXCEPT !.age = @ + 1]
               ELSE sessions[e]]
        BY <3>4 DEF Tick
      <4> QED
        BY <3>1, <4>1, <4>2, NoSessionIsNone DEF TypeOK, PoolTypes, Pooled
    <3> QED
      BY <1>1, <3>2, <3>3, <3>4
  <2>2. Pooled' = Pooled
    BY <2>1 DEF Pooled
  <2>3. CandidateInv' /\ SuccessInv' /\ RefusedInv'
    BY <2>1, DevicesKept
  <2> QED
    BY <2>1, <2>2, <2>3 DEF TypeOK, PoolTypes, CallInv, At, PoolBounded, NoLeakedConnection
<1>2. CASE LinkBreaks(d) \/ LinkRecovers(d)
  <2>1. /\ UNCHANGED <<vendor, sessions, opened, running, saved, call, outcomes, calls>>
        /\ link' \in [Devices -> BOOLEAN] /\ candidate' \in [Devices -> SUBSET Changes]
        /\ \A e \in Devices : candidate'[e] \subseteq candidate[e]
    BY <1>2 DEF LinkBreaks, LinkRecovers, deviceVars, TypeOK
  <2>2. Pooled' = Pooled
    BY <2>1 DEF Pooled
  <2>3. CandidateInv' /\ SuccessInv' /\ RefusedInv'
    BY <2>1, DevicesKept
  <2> QED
    BY <2>1, <2>2, <2>3 DEF TypeOK, CallInv, At, PoolBounded, NoLeakedConnection
<1>3. CASE DeviceRestarts(d)
  <2>1. /\ UNCHANGED <<vendor, sessions, opened, saved, call, outcomes, calls>>
        /\ link' \in [Devices -> BOOLEAN] /\ candidate' \in [Devices -> SUBSET Changes]
        /\ \A e \in Devices : candidate'[e] \subseteq candidate[e]
        /\ running' \in [Changes -> Level]
        /\ \A c \in Changes : running'[c] = running[c] \/ running'[c] = saved[c]
    BY <1>3 DEF DeviceRestarts, TypeOK
  <2>2. Pooled' = Pooled
    BY <2>1 DEF Pooled
  <2>3. CandidateInv' /\ SuccessInv' /\ RefusedInv'
    <3>1. SuccessInv'
      BY <2>1 DEF SuccessInv
    <3>2. RefusedInv'
      BY <2>1, BoundsAssumption DEF RefusedInv
    <3> QED
      BY <2>1, <3>1, <3>2 DEF CandidateInv
  <2> QED
    BY <2>1, <2>2, <2>3 DEF TypeOK, CallInv, At, PoolBounded, NoLeakedConnection
<1> QED
  BY <1>1, <1>2, <1>3

\* shutdown preserves the invariant, complete or not.
LEMMA ShutdownIInv ==
    ASSUME IInv, Shutdown
    PROVE  IInv'
<1> USE DEF IInv
<1>0. call = IdleCall /\ UNCHANGED <<vendor, running, saved, call, outcomes, calls>>
  BY DEF Shutdown
<1>1. /\ sessions' \in PoolTypes /\ Pooled' \subseteq Pooled /\ NoLeakedConnection'
      /\ link' \in [Devices -> BOOLEAN] /\ opened' \in [Devices -> Int]
      /\ candidate' \in [Devices -> SUBSET Changes]
      /\ \A e \in Devices : candidate'[e] \subseteq candidate[e]
  <2>1. CASE CloseAll(Pooled)
    BY <2>1, CloseAllEffect
  <2>2. CASE CloseAborted(Pooled, sessions)
    <3>1. sessions \in PoolTypes /\ \A e \in Devices : sessions[e] = NoSession <=> e \notin Pooled
      BY DEF TypeOK, PoolTypes, Pooled
    <3> QED
      BY <2>2, <3>1, CloseAbortedEffect
  <2> QED
    BY <2>1, <2>2 DEF Shutdown
<1>2. CallInv' /\ call' \in [pc : Pcs, chg : SUBSET Changes]
  BY <1>0, CallReturns DEF Return
<1>3. PoolBounded'
  BY <1>1, PoolFinite, BoundsAssumption DEF PoolBounded
<1>4. CandidateInv' /\ SuccessInv' /\ RefusedInv'
  BY <1>0, <1>1, DevicesKept
<1> QED
  BY <1>0, <1>1, <1>2, <1>3, <1>4 DEF TypeOK, PoolTypes

\* A new call preserves the invariant.
LEMMA ExecuteOnDeviceIInv ==
    ASSUME IInv, NEW c \in Changes, ExecuteOnDevice(c)
    PROVE  IInv'
<1> USE DEF IInv
<1>1. /\ calls < MaxCalls /\ calls' = calls + 1 /\ GoTo("lookup", c)
      /\ UNCHANGED <<vendor, sessions, link, opened, running, saved, candidate, outcomes>>
  BY DEF ExecuteOnDevice, deviceVars
<1>2. Pooled' = Pooled
  BY <1>1 DEF Pooled
<1>3. CallInv' /\ call' \in [pc : Pcs, chg : SUBSET Changes]
  BY <1>1, CallMoves DEF Pcs
<1>4. CandidateInv' /\ SuccessInv' /\ RefusedInv'
  BY <1>1, DevicesKept
<1> QED
  BY <1>1, <1>2, <1>3, <1>4, BoundsAssumption DEF TypeOK, PoolBounded, NoLeakedConnection

\* Every step preserves the invariant.
LEMMA NextIInv ==
    ASSUME IInv, [Next]_vars
    PROVE  IInv'
<1>1. CASE \E c \in Changes : ExecuteOnDevice(c)
  BY <1>1, ExecuteOnDeviceIInv
<1>2. CASE \E c \in Changes : Lookup(c)
  BY <1>2, LookupIInv
<1>3. CASE \E c \in Changes : Limit(c)
  BY <1>3, LimitIInv
<1>4. CASE \E c \in Changes : CreateSession(c)
  BY <1>4, CreateSessionIInv
<1>5. CASE \E c \in Changes : Execute(c)
  BY <1>5, ExecuteIInv
<1>6. CASE \E d \in Devices :
              GetConfig(d) \/ LinkBreaks(d) \/ LinkRecovers(d) \/ DeviceRestarts(d)
  BY <1>6, OtherIInv
<1>7. CASE HealthCheckAll \/ Tick
  <2>1. CASE Devices = {}
    <3>1. UNCHANGED <<vendor, link, opened, running, saved, candidate, call, outcomes, calls>>
      BY <1>7 DEF HealthCheckAll, Tick, deviceVars
    <3>2. sessions' = sessions
      BY <1>7, <2>1 DEF HealthCheckAll, Tick, IInv, TypeOK
    <3> QED
      BY <3>1, <3>2 DEF IInv, TypeOK, CallInv, At, Pooled, PoolBounded, NoLeakedConnection,
                        CandidateInv, SuccessInv, RefusedInv
  <2>2. CASE \E d \in Devices : TRUE
    BY <1>7, <2>2, OtherIInv
  <2> QED
    BY <2>1, <2>2
<1>8. CASE Shutdown
  BY <1>8, ShutdownIInv
<1>9. CASE UNCHANGED vars
  BY <1>9 DEF vars, IInv, TypeOK, CallInv, At, Pooled, PoolBounded, NoLeakedConnection,
              CandidateInv, SuccessInv, RefusedInv
<1> QED
  BY <1>1, <1>2, <1>3, <1>4, <1>5, <1>6, <1>7, <1>8, <1>9 DEF Next

\* The inductive invariant holds in every state.
THEOREM Invariance == Spec => []IInv
BY InitIInv, NextIInv, PTL DEF Spec

\* Pool, call and configurations are well typed.
THEOREM TypeCorrect == Spec => []TypeOK
<1>1. IInv => TypeOK
  BY DEF IInv
<1> QED
  BY <1>1, Invariance, PTL

\* get_or_create_session respects max_connections, also when closing fails.
THEOREM PoolIsBounded == Spec => []PoolBounded
<1>1. IInv => PoolBounded
  BY DEF IInv
<1> QED
  BY <1>1, Invariance, PTL

\* No connection outlives its session, and none is opened beside one.
THEOREM ConnectionsAreKnown == Spec => []NoLeakedConnection
<1>1. IInv => NoLeakedConnection
  BY DEF IInv
<1> QED
  BY <1>1, Invariance, PTL

\* A reported success is still in force after any number of losses and restarts.
THEOREM SuccessesSurvive == Spec => []SuccessSurvives
<1>1. IInv => SuccessSurvives
  BY DEF IInv, SuccessInv, SuccessSurvives
<1> QED
  BY <1>1, Invariance, PTL

\* What Juniper's adapter refused is neither in force nor waiting to be committed.
THEOREM RefusalsLeaveNoTrace == Spec => []RefusedLeavesNoTrace
<1>1. IInv => RefusedLeavesNoTrace
  BY DEF IInv, RefusedInv, RefusedLeavesNoTrace
<1> QED
  BY <1>1, Invariance, PTL

--------------------------------------------------------------------------------
\* SecretStore: credentials, on disk and in memory

\* Files, index, call in progress and history are well typed.
StoreTyped ==
    /\ enc \in [Ids -> File \cup {Torn, None}]
    /\ metaFile \in [Ids -> Entry \cup {None}] \cup {Torn}
    /\ metadata \in [Ids -> Entry \cup {None}]
    /\ op \in Operation \cup {None}
    /\ master_key \in Nat /\ now \in Nat /\ version \in Nat
    /\ latest \in [Ids -> Nat \cup {None}]
    /\ deadline \in [Ids -> Nat \cup {None}]
    /\ damaged \in SUBSET Ids
    /\ index \in {"ok", "behind", "lost"}

\* A file that is whole holds the latest value; and a secret has a whole file unless
\* a write of it is under way or was cut off.
FilesAreLatest ==
    \A id \in Ids :
        /\ enc[id] \in File => enc[id].value = latest[id]
        /\ latest[id] # None => \/ enc[id] \in File
                                \/ id \in damaged
                                \/ InStep({"write_enc"}) /\ op.id = id

\* The index in memory knows every secret and its deadline, and the one on disk is
\* the same unless a rewrite of it is under way or failed.
IndexIsTrue ==
    /\ index # "lost" =>
        \A id \in Ids :
            /\ latest[id] # None => metadata[id] # None
            /\ metadata[id] # None => metadata[id].expires_at = deadline[id]
    /\ index = "ok" /\ ~InStep({"open_meta", "dump_meta"}) => metaFile = metadata

\* A retrieval under way found the latest value, in time; a store keeps the deadline.
CallIsRight ==
    op # None =>
        /\ op.kind = "retrieve" =>
            /\ op.step \in {"open_meta", "dump_meta"}
            /\ op.value = latest[op.id]
            /\ op.at \in Nat
            /\ index # "lost" /\ deadline[op.id] # None => op.at <= deadline[op.id]
        /\ op.step \in {"open_enc", "write_enc"} =>
            /\ op.value \in Nat
            /\ index # "lost" => op.expires_at = op.deadline

StoreInv == StoreTyped /\ FilesAreLatest /\ IndexIsTrue /\ CallIsRight

\* An empty directory has nothing to keep.
LEMMA StoreInitInv == StoreInit => StoreInv
<1> SUFFICES ASSUME StoreInit PROVE StoreInv
  OBVIOUS
<1>1. StoreTyped /\ CallIsRight
  BY StoreAssumption DEF StoreInit, StoreTyped, CallIsRight
<1>2. FilesAreLatest /\ IndexIsTrue
  BY StoreAssumption DEF StoreInit, FilesAreLatest, IndexIsTrue
<1> QED
  BY <1>1, <1>2 DEF StoreInv

\* A call that only starts, from rest, changes nothing that is stored.
LEMMA CallStarts ==
    ASSUME StoreInv, op = None, op' \in Operation \cup {None}, version' \in Nat, now' \in Nat,
           UNCHANGED <<enc, metaFile, metadata, master_key, latest, deadline, damaged, index>>,
           CallIsRight'
    PROVE  StoreInv'
<1>1. StoreTyped'
  BY DEF StoreInv, StoreTyped
<1>2. FilesAreLatest'
  BY DEF StoreInv, FilesAreLatest, InStep
<1>3. IndexIsTrue'
  BY DEF StoreInv, IndexIsTrue, InStep
<1> QED
  BY <1>1, <1>2, <1>3 DEF StoreInv

\* A call to store_secret starts: with the deadline its owner asked for.
LEMMA CallStoreInv ==
    ASSUME StoreInv, NEW id \in Ids, NEW e \in Nat \cup {None}, NEW d \in Nat \cup {None},
           index # "lost" => e = d, CallStore(id, e, d),
           UNCHANGED <<enc, metaFile, metadata, master_key, now, latest, deadline, damaged, index>>
    PROVE  StoreInv'
<1>1. op = None /\ version' = version + 1
  BY DEF CallStore
<1>2. version \in Nat /\ now \in Nat
  BY DEF StoreInv, StoreTyped
<1>3. op' = [kind |-> "store", step |-> "open_enc", id |-> id, value |-> version + 1,
             expires_at |-> e, deadline |-> d, at |-> None]
  BY DEF CallStore, Call
<1>4. /\ op' \in Operation
      /\ op'.kind = "store" /\ op'.value \in Nat /\ op'.step = "open_enc"
      /\ op'.expires_at = e /\ op'.deadline = d
  BY <1>2, <1>3 DEF Operation
<1>5. CallIsRight'
  BY <1>4 DEF CallIsRight
<1> QED
  BY <1>1, <1>2, <1>4, <1>5, CallStarts

\* The calls that start storing: by an operator, a rotation, a device or an API client.
LEMMA StartingStores ==
    ASSUME StoreInv, NEW id \in Ids,
           \/ \E e \in Expiries : StoreSecret(id, e)
           \/ RotateSecret(id)
           \/ id \in DeviceIds /\ RegisterDevice(id)
           \/ id \in ApiKeyIds /\ GenerateApiKey(id)
    PROVE  StoreInv'
<1> USE DEF disk, memory, history, faultVars
<1>1. CASE \E e \in Expiries : StoreSecret(id, e)
  <2>1. PICK e \in Expiries : StoreSecret(id, e)
    BY <1>1
  <2>2. e \in Nat \cup {None}
    BY StoreAssumption
  <2> QED
    BY <2>1, <2>2, CallStoreInv DEF StoreSecret
<1>2. CASE RotateSecret(id)
  <2>1. metadata[id] \in Entry /\ deadline[id] \in Nat \cup {None}
    BY <1>2 DEF RotateSecret, StoreInv, StoreTyped
  <2>2. metadata[id].expires_at \in Nat \cup {None}
    BY <2>1 DEF Entry
  <2>3. index # "lost" => metadata[id].expires_at = deadline[id]
    BY <1>2 DEF RotateSecret, StoreInv, IndexIsTrue
  <2> QED
    BY <1>2, <2>1, <2>2, <2>3, CallStoreInv DEF RotateSecret
<1>3. CASE RegisterDevice(id)
  BY <1>3, CallStoreInv DEF RegisterDevice
<1>4. CASE GenerateApiKey(id)
  BY <1>4, CallStoreInv DEF GenerateApiKey
<1> QED
  BY <1>1, <1>2, <1>3, <1>4

\* A retrieval finds, in a whole file, the latest value, and in time.
LEMMA RetrieveSecretInv ==
    ASSUME StoreInv, NEW id \in Ids, RetrieveSecret(id)
    PROVE  StoreInv'
<1>1. /\ op = None
      /\ UNCHANGED <<enc, metaFile, metadata, master_key, now, version, latest, deadline,
                     damaged, index>>
  BY DEF RetrieveSecret, disk, memory, history, faultVars
<1>2. version' \in Nat /\ now' \in Nat /\ now \in Nat
  BY <1>1 DEF StoreInv, StoreTyped
<1>3. CASE op' = op
  <2>1. CallIsRight' /\ op' \in Operation \cup {None}
    BY <1>1, <1>3 DEF CallIsRight
  <2> QED
    BY <1>1, <1>2, <2>1, CallStarts
<1>4. CASE op' # op
  <2>1. Retrievable(id) /\ Call("retrieve", "open_meta", id, enc[id].value, None, None, now)
    BY <1>4 DEF RetrieveSecret
  <2>2. metadata[id] # None /\ ~Expired(metadata[id]) /\ Decrypts(enc[id])
    BY <2>1 DEF Retrievable
  <2>3. enc[id] \in File
    BY <2>2 DEF Decrypts, StoreInv, StoreTyped
  <2>4. enc[id].value \in Nat /\ enc[id].value = latest[id]
    BY <2>3 DEF File, StoreInv, FilesAreLatest
  <2>5. index # "lost" /\ deadline[id] # None => now <= deadline[id]
    <3>1. deadline[id] \in Nat \cup {None}
      BY DEF StoreInv, StoreTyped
    <3>2. index # "lost" => metadata[id].expires_at = deadline[id]
      BY <2>2 DEF StoreInv, IndexIsTrue
    <3> QED
      BY <1>2, <2>2, <3>1, <3>2 DEF Expired
  <2>6. op' = [kind |-> "retrieve", step |-> "open_meta", id |-> id, value |-> enc[id].value,
               expires_at |-> None, deadline |-> None, at |-> now]
    BY <2>1 DEF Call
  <2>7. /\ op' \in Operation
        /\ op'.kind = "retrieve" /\ op'.step = "open_meta" /\ op'.id = id
        /\ op'.value = enc[id].value /\ op'.at = now
    BY <1>2, <2>4, <2>6 DEF Operation
  <2>8. CallIsRight'
    BY <1>1, <1>2, <2>4, <2>5, <2>7 DEF CallIsRight
  <2> QED
    BY <1>1, <1>2, <2>7, <2>8, CallStarts
<1> QED
  BY <1>3, <1>4

\* A step of a call keeps what the call is about.
LEMMA StepForward ==
    ASSUME NEW o \in Operation,
           NEW s \in {"open_enc", "write_enc", "open_meta", "dump_meta"}
    PROVE  /\ [o EXCEPT !.step = s] \in Operation
           /\ [o EXCEPT !.step = s].step = s
           /\ [o EXCEPT !.step = s].kind = o.kind
           /\ [o EXCEPT !.step = s].id = o.id
           /\ [o EXCEPT !.step = s].value = o.value
           /\ [o EXCEPT !.step = s].expires_at = o.expires_at
           /\ [o EXCEPT !.step = s].deadline = o.deadline
           /\ [o EXCEPT !.step = s].at = o.at
BY DEF Operation

\* The file is emptied: the write of it is under way.
LEMMA OpenEncInv == ASSUME StoreInv, OpenEnc PROVE StoreInv'
<1>1. /\ op \in Operation /\ op # None /\ op.step = "open_enc"
      /\ enc' = [enc EXCEPT ![op.id] = Torn] /\ op' = [op EXCEPT !.step = "write_enc"]
      /\ UNCHANGED <<metaFile, metadata, master_key, now, version, latest, deadline, damaged, index>>
  BY DEF OpenEnc, StoreInv, StoreTyped, disk, memory, history, faultVars
<1>2. op.id \in Ids
  BY <1>1 DEF Operation
<1>3. /\ op' \in Operation /\ op'.step = "write_enc" /\ op'.kind = op.kind /\ op'.id = op.id
      /\ op'.value = op.value /\ op'.expires_at = op.expires_at /\ op'.deadline = op.deadline
  BY <1>1, StepForward
<1>4. op' # None
  BY <1>3, StoreAssumption
<1>5. StoreTyped'
  BY <1>1, <1>2, <1>3 DEF StoreInv, StoreTyped
<1>6. FilesAreLatest'
  <2> SUFFICES ASSUME NEW id \in Ids
               PROVE  /\ enc'[id] \in File => enc'[id].value = latest'[id]
                      /\ latest'[id] # None => \/ enc'[id] \in File
                                               \/ id \in damaged'
                                               \/ InStep({"write_enc"})' /\ op'.id = id
    BY DEF FilesAreLatest
  <2>1. enc \in [Ids -> File \cup {Torn, None}]
    BY DEF StoreInv, StoreTyped
  <2>2. CASE id = op.id
    BY <1>1, <1>3, <1>4, <2>1, <2>2, StoreAssumption DEF InStep
  <2>3. CASE id # op.id
    <3>1. enc'[id] = enc[id] /\ latest'[id] = latest[id] /\ damaged' = damaged
      BY <1>1, <2>1, <2>3
    <3>2. ~InStep({"write_enc"})
      BY <1>1 DEF InStep
    <3> QED
      BY <3>1, <3>2 DEF StoreInv, FilesAreLatest
  <2> QED
    BY <2>2, <2>3
<1>7. IndexIsTrue'
  <2>1. ~InStep({"open_meta", "dump_meta"})
    BY <1>1 DEF InStep
  <2> QED
    BY <1>1, <2>1 DEF StoreInv, IndexIsTrue
<1>8. CallIsRight'
  BY <1>1, <1>3 DEF StoreInv, CallIsRight
<1> QED
  BY <1>5, <1>6, <1>7, <1>8 DEF StoreInv

\* File, index in memory and what is owed change together.
LEMMA WriteEncInv == ASSUME StoreInv, WriteEnc PROVE StoreInv'
<1> DEFINE f == [value |-> op.value, key |-> master_key]
           m == [expires_at |-> op.expires_at]
<1>1. /\ op \in Operation /\ op # None /\ op.step = "write_enc"
      /\ enc' = [enc EXCEPT ![op.id] = f]
      /\ metadata' = [metadata EXCEPT ![op.id] = m]
      /\ latest' = [latest EXCEPT ![op.id] = op.value]
      /\ deadline' = [deadline EXCEPT ![op.id] = op.deadline]
      /\ op' = [op EXCEPT !.step = "open_meta"] /\ damaged' = damaged \ {op.id}
      /\ UNCHANGED <<metaFile, master_key, now, version, index>>
  BY DEF WriteEnc, StoreInv, StoreTyped
<1>2. op.id \in Ids /\ op.expires_at \in Nat \cup {None} /\ op.deadline \in Nat \cup {None}
  BY <1>1 DEF Operation
<1>3. /\ op.kind # "retrieve" /\ op.value \in Nat
      /\ index # "lost" => op.expires_at = op.deadline
  BY <1>1 DEF StoreInv, CallIsRight
<1>4. /\ op' \in Operation /\ op'.step = "open_meta" /\ op'.kind = op.kind
  BY <1>1, StepForward
<1>5. f \in File /\ f.value = op.value /\ m \in Entry /\ m.expires_at = op.expires_at
  BY <1>2, <1>3 DEF StoreInv, StoreTyped, File, Entry
<1>6. m # None /\ op' # None
  BY <1>4, <1>5, StoreAssumption
<1> HIDE DEF f, m
<1>7. StoreTyped'
  BY <1>1, <1>2, <1>3, <1>4, <1>5 DEF StoreInv, StoreTyped
<1>8. FilesAreLatest'
  <2> SUFFICES ASSUME NEW id \in Ids
               PROVE  /\ enc'[id] \in File => enc'[id].value = latest'[id]
                      /\ latest'[id] # None => enc'[id] \in File \/ id \in damaged'
    BY DEF FilesAreLatest
  <2>1. enc \in [Ids -> File \cup {Torn, None}] /\ latest \in [Ids -> Nat \cup {None}]
    BY DEF StoreInv, StoreTyped
  <2>2. CASE id = op.id
    BY <1>1, <1>5, <2>1, <2>2
  <2>3. CASE id # op.id
    <3>1. enc'[id] = enc[id] /\ latest'[id] = latest[id] /\ (id \in damaged => id \in damaged')
      BY <1>1, <2>1, <2>3
    <3> QED
      BY <2>3, <3>1 DEF StoreInv, FilesAreLatest
  <2> QED
    BY <2>2, <2>3
<1>9. IndexIsTrue'
  <2>1. InStep({"open_meta", "dump_meta"})'
    BY <1>4, <1>6 DEF InStep
  <2>2. ASSUME NEW id \in Ids, index' # "lost"
        PROVE  /\ latest'[id] # None => metadata'[id] # None
               /\ metadata'[id] # None => metadata'[id].expires_at = deadline'[id]
    <3>1. /\ metadata \in [Ids -> Entry \cup {None}] /\ latest \in [Ids -> Nat \cup {None}]
          /\ deadline \in [Ids -> Nat \cup {None}]
      BY DEF StoreInv, StoreTyped
    <3>2. CASE id = op.id
      BY <1>1, <1>3, <1>5, <1>6, <2>2, <3>1, <3>2
    <3>3. CASE id # op.id
      <4>1. metadata'[id] = metadata[id] /\ latest'[id] = latest[id] /\ deadline'[id] = deadline[id]
        BY <1>1, <3>1, <3>3
      <4> QED
        BY <1>1, <2>2, <4>1 DEF StoreInv, IndexIsTrue
    <3> QED
      BY <3>2, <3>3
  <2> QED
    BY <2>1, <2>2 DEF IndexIsTrue
<1>10. CallIsRight'
  BY <1>3, <1>4 DEF CallIsRight
<1> QED
  BY <1>7, <1>8, <1>9, <1>10 DEF StoreInv

\* metadata.json is emptied, a rewrite under way.
LEMMA OpenMetaInv == ASSUME StoreInv, OpenMeta PROVE StoreInv'
<1>1. /\ op \in Operation /\ op # None /\ op.step = "open_meta"
      /\ metaFile' = Torn /\ op' = [op EXCEPT !.step = "dump_meta"]
      /\ UNCHANGED <<enc, metadata, master_key, now, version, latest, deadline, damaged, index>>
  BY DEF OpenMeta, StoreInv, StoreTyped, disk, memory, history, faultVars
<1>2. /\ op' \in Operation /\ op'.step = "dump_meta" /\ op'.kind = op.kind /\ op'.id = op.id
      /\ op'.value = op.value /\ op'.at = op.at
  BY <1>1, StepForward
<1>3. op' # None
  BY <1>2, StoreAssumption
<1>4. StoreTyped'
  BY <1>1, <1>2 DEF StoreInv, StoreTyped
<1>5. FilesAreLatest'
  <2>1. ~InStep({"write_enc"})
    BY <1>1 DEF InStep
  <2> QED
    BY <1>1, <2>1 DEF StoreInv, FilesAreLatest
<1>6. IndexIsTrue'
  <2>1. InStep({"open_meta", "dump_meta"})'
    BY <1>2, <1>3 DEF InStep
  <2> QED
    BY <1>1, <2>1 DEF StoreInv, IndexIsTrue
<1>7. CallIsRight'
  BY <1>1, <1>2 DEF StoreInv, CallIsRight
<1> QED
  BY <1>4, <1>5, <1>6, <1>7 DEF StoreInv

\* metadata.json is written: what is on disk is what is in memory again.
LEMMA DumpMetaInv == ASSUME StoreInv, DumpMeta PROVE StoreInv'
<1>1. /\ op # None /\ op.step = "dump_meta" /\ metaFile' = metadata /\ op' = None
      /\ UNCHANGED <<enc, metadata, master_key, now, version, latest, deadline, damaged>>
      /\ index' = IF index = "behind" THEN "ok" ELSE index
  BY DEF DumpMeta, memory, history
<1>2. index' \in {"ok", "behind", "lost"} /\ (index' # "lost" => index # "lost")
  BY <1>1 DEF StoreInv, StoreTyped
<1>3. StoreTyped'
  BY <1>1, <1>2 DEF StoreInv, StoreTyped
<1>4. FilesAreLatest'
  <2>1. ~InStep({"write_enc"})
    BY <1>1 DEF InStep
  <2> QED
    BY <1>1, <2>1 DEF StoreInv, FilesAreLatest
<1>5. IndexIsTrue'
  BY <1>1, <1>2 DEF StoreInv, IndexIsTrue
<1>6. CallIsRight'
  BY <1>1 DEF CallIsRight
<1> QED
  BY <1>3, <1>4, <1>5, <1>6 DEF StoreInv

\* A deletion takes file, metadata and what is owed away together.
LEMMA DeleteSecretInv ==
    ASSUME StoreInv, NEW id \in Ids, DeleteSecret(id) PROVE StoreInv'
<1>1. /\ op = None
      /\ enc' = [enc EXCEPT ![id] = None] /\ metadata' = [metadata EXCEPT ![id] = None]
      /\ latest' = [latest EXCEPT ![id] = None] /\ damaged' = damaged \ {id}
      /\ UNCHANGED <<metaFile, master_key, now, version, deadline, index>>
      /\ op' = [kind |-> "delete", step |-> "open_meta", id |-> id, value |-> None,
                expires_at |-> None, deadline |-> None, at |-> None]
  BY DEF DeleteSecret, Call
<1>2. op' \in Operation /\ op'.kind = "delete" /\ op'.step = "open_meta"
  BY <1>1 DEF Operation
<1>3. op' # None
  BY <1>2, StoreAssumption
<1>4. StoreTyped'
  BY <1>1, <1>2 DEF StoreInv, StoreTyped
<1>5. FilesAreLatest'
  <2> SUFFICES ASSUME NEW i \in Ids
               PROVE  /\ enc'[i] \in File => enc'[i].value = latest'[i]
                      /\ latest'[i] # None => enc'[i] \in File \/ i \in damaged'
    BY DEF FilesAreLatest
  <2>1. enc \in [Ids -> File \cup {Torn, None}] /\ latest \in [Ids -> Nat \cup {None}]
    BY DEF StoreInv, StoreTyped
  <2>2. CASE i = id
    BY <1>1, <2>1, <2>2, StoreAssumption
  <2>3. CASE i # id
    <3>1. enc'[i] = enc[i] /\ latest'[i] = latest[i] /\ (i \in damaged => i \in damaged')
      BY <1>1, <2>1, <2>3
    <3> QED
      BY <1>1, <3>1 DEF StoreInv, FilesAreLatest, InStep
  <2> QED
    BY <2>2, <2>3
<1>6. IndexIsTrue'
  <2>1. InStep({"open_meta", "dump_meta"})'
    BY <1>2, <1>3 DEF InStep
  <2>2. ASSUME NEW i \in Ids, index' # "lost"
        PROVE  /\ latest'[i] # None => metadata'[i] # None
               /\ metadata'[i] # None => metadata'[i].expires_at = deadline'[i]
    <3>1. metadata \in [Ids -> Entry \cup {None}] /\ latest \in [Ids -> Nat \cup {None}]
      BY DEF StoreInv, StoreTyped
    <3> QED
      BY <1>1, <2>2, <3>1 DEF StoreInv, IndexIsTrue
  <2> QED
    BY <2>1, <2>2 DEF IndexIsTrue
<1>7. CallIsRight'
  BY <1>2 DEF CallIsRight
<1> QED
  BY <1>4, <1>5, <1>6, <1>7 DEF StoreInv

\* An interrupted call leaves at most the file it was writing torn.
LEMMA CallInterrupted ==
    ASSUME StoreInv, op' = None, damaged' \in SUBSET Ids, damaged \subseteq damaged',
           InStep({"write_enc"}) => op.id \in damaged',
           UNCHANGED <<enc, latest>>
    PROVE  FilesAreLatest' /\ CallIsRight'
BY DEF StoreInv, FilesAreLatest, CallIsRight

\* An interruption inside a write of a file marks it as damaged.
LEMMA InterruptedMarks ==
    ASSUME StoreTyped, op # None, Interrupted
    PROVE  /\ damaged' \in SUBSET Ids /\ damaged \subseteq damaged'
           /\ InStep({"write_enc"}) => op.id \in damaged'
<1>1. op.id \in Ids /\ damaged \in SUBSET Ids
  BY DEF StoreTyped, Operation
<1> QED
  BY <1>1 DEF Interrupted

\* A write that fails inside a rewrite of the index leaves the disk behind memory.
LEMMA WriteFailsInv == ASSUME StoreInv, WriteFails PROVE StoreInv'
<1>1. /\ op # None /\ op' = None /\ Interrupted
      /\ UNCHANGED <<enc, metaFile, metadata, master_key, now, version, latest, deadline>>
      /\ index' = IF InStep({"open_meta", "dump_meta"}) /\ index = "ok" THEN "behind" ELSE index
  BY DEF WriteFails, disk, memory, history
<1>2. /\ damaged' \in SUBSET Ids /\ damaged \subseteq damaged'
      /\ InStep({"write_enc"}) => op.id \in damaged'
  BY <1>1, InterruptedMarks DEF StoreInv
<1>3. FilesAreLatest' /\ CallIsRight'
  BY <1>1, <1>2, CallInterrupted
<1>4. /\ index' \in {"ok", "behind", "lost"}
      /\ index' # "lost" => index # "lost"
      /\ index' = "ok" => index = "ok" /\ ~InStep({"open_meta", "dump_meta"})
  BY <1>1 DEF StoreInv, StoreTyped
<1>5. StoreTyped'
  BY <1>1, <1>2, <1>4 DEF StoreInv, StoreTyped
<1>6. IndexIsTrue'
  BY <1>1, <1>4 DEF StoreInv, IndexIsTrue
<1> QED
  BY <1>3, <1>5, <1>6 DEF StoreInv

\* A restart reads back what memory held, unless the index was being rewritten.
LEMMA RestartInv ==
    ASSUME StoreInv, NEW k \in Nat, Restart(k) PROVE StoreInv'
<1>1. /\ op' = None /\ metadata' = LoadMetadata /\ master_key' = k
      /\ UNCHANGED <<enc, metaFile, now, version, latest, deadline>>
      /\ index' = IF index # "ok" \/ InStep({"open_meta", "dump_meta"}) THEN "lost" ELSE "ok"
      /\ (op = None /\ damaged' = damaged) \/ (op # None /\ Interrupted)
  BY DEF Restart, disk, history
<1>2. /\ damaged' \in SUBSET Ids /\ damaged \subseteq damaged'
      /\ InStep({"write_enc"}) => op.id \in damaged'
  <2>1. CASE op = None /\ damaged' = damaged
    BY <2>1 DEF InStep, StoreInv, StoreTyped
  <2>2. CASE op # None /\ Interrupted
    BY <2>2, InterruptedMarks DEF StoreInv
  <2> QED
    BY <1>1, <2>1, <2>2
<1>3. FilesAreLatest' /\ CallIsRight'
  BY <1>1, <1>2, CallInterrupted
<1>4. metadata' \in [Ids -> Entry \cup {None}]
  BY <1>1 DEF LoadMetadata, StoreInv, StoreTyped
<1>5. StoreTyped'
  BY <1>1, <1>2, <1>4 DEF StoreInv, StoreTyped
<1>6. IndexIsTrue'
  <2>1. CASE index = "ok" /\ ~InStep({"open_meta", "dump_meta"})
    <3>1. metaFile = metadata
      BY <2>1 DEF StoreInv, IndexIsTrue
    <3>2. metaFile # Torn
      BY <3>1, StoreAssumption DEF StoreInv, StoreTyped
    <3>3. metadata' = metadata /\ metaFile' = metaFile
      BY <1>1, <3>1, <3>2 DEF LoadMetadata
    <3> QED
      BY <1>1, <2>1, <3>1, <3>3 DEF StoreInv, IndexIsTrue
  <2>2. CASE ~(index = "ok" /\ ~InStep({"open_meta", "dump_meta"}))
    <3>1. index' = "lost"
      BY <1>1, <2>2
    <3> QED
      BY <3>1 DEF IndexIsTrue
  <2> QED
    BY <2>1, <2>2
<1> QED
  BY <1>3, <1>5, <1>6 DEF StoreInv

\* Steps that leave files, index and call alone.
LEMMA StoreUntouched ==
    ASSUME StoreInv, now' \in Nat,
           UNCHANGED <<enc, metaFile, metadata, master_key, op, version, latest, deadline,
                       damaged, index>>
    PROVE  StoreInv'
<1>1. StoreTyped'
  BY DEF StoreInv, StoreTyped
<1>2. FilesAreLatest' /\ IndexIsTrue'
  BY DEF StoreInv, FilesAreLatest, IndexIsTrue, InStep
<1>3. CallIsRight'
  BY DEF StoreInv, CallIsRight
<1> QED
  BY <1>1, <1>2, <1>3 DEF StoreInv

\* Every step of the store, its clients and its faults preserves the invariant.
LEMMA StoreNextInv == StoreInv /\ [StoreNext]_storeVars => StoreInv'
<1> SUFFICES ASSUME StoreInv, [StoreNext]_storeVars PROVE StoreInv'
  OBVIOUS
<1>1. now \in Nat /\ master_key \in Nat
  BY DEF StoreInv, StoreTyped
<1>2. ASSUME NEW id \in Ids,
             (\E e \in Expiries : StoreSecret(id, e)) \/ RotateSecret(id)
      PROVE  StoreInv'
  BY <1>2, StartingStores
<1>3. ASSUME NEW id \in Ids, DeleteSecret(id) PROVE StoreInv'
  BY <1>3, DeleteSecretInv
<1>4. ASSUME NEW id \in Ids, RetrieveSecret(id) PROVE StoreInv'
  BY <1>4, RetrieveSecretInv
<1>5. ASSUME NEW id \in DeviceIds, RegisterDevice(id) \/ GetDeviceCredentials(id)
      PROVE  StoreInv'
  <2>1. id \in Ids
    BY DEF Ids
  <2>2. CASE RegisterDevice(id)
    BY <2>1, <2>2, StartingStores
  <2>3. CASE GetDeviceCredentials(id)
    BY <2>1, <2>3, RetrieveSecretInv DEF GetDeviceCredentials
  <2> QED
    BY <1>5, <2>2, <2>3
<1>6. ASSUME NEW id \in ApiKeyIds, GenerateApiKey(id) \/ VerifyApiKey(id)
      PROVE  StoreInv'
  <2>1. id \in Ids
    BY DEF Ids
  <2>2. CASE GenerateApiKey(id)
    BY <2>1, <2>2, StartingStores
  <2>3. CASE VerifyApiKey(id)
    BY <1>1, <2>3, StoreUntouched DEF VerifyApiKey, disk, history, faultVars
  <2> QED
    BY <1>6, <2>2, <2>3
<1>7. CASE OpenEnc
  BY <1>7, OpenEncInv
<1>8. CASE WriteEnc
  BY <1>8, WriteEncInv
<1>9. CASE OpenMeta
  BY <1>9, OpenMetaInv
<1>10. CASE DumpMeta
  BY <1>10, DumpMetaInv
<1>11. CASE WriteFails
  BY <1>11, WriteFailsInv
<1>12. CASE Restart(master_key) \/ Restart(master_key + 1)
  <2>1. master_key + 1 \in Nat
    BY <1>1
  <2> QED
    BY <1>1, <1>12, <2>1, RestartInv
<1>13. CASE StoreTick
  BY <1>1, <1>13, StoreUntouched DEF StoreTick, disk, memory, history, faultVars
<1>14. CASE UNCHANGED storeVars
  BY <1>1, <1>14, StoreUntouched DEF storeVars, disk, memory, history, faultVars
<1> QED
  BY <1>2, <1>3, <1>4, <1>5, <1>6, <1>7, <1>8, <1>9, <1>10, <1>11, <1>12, <1>13, <1>14
     DEF StoreNext

\* The store's inductive invariant holds in every state.
THEOREM StoreInvariance == StoreSpec => []StoreInv
BY StoreInitInv, StoreNextInv, PTL DEF StoreSpec

\* store_secret, _save_metadata, _load_metadata: what was stored can be retrieved
\* between calls, whatever happened to other secrets.
THEOREM WhatWasStoredIsKept == StoreSpec => []StoredIsKept
<1>1. ASSUME StoreInv PROVE StoredIsKept
  <2> SUFFICES ASSUME op = None, index # "lost", NEW id \in Ids \ damaged, latest[id] # None,
                      enc[id].key = master_key, ~(deadline[id] # None /\ now > deadline[id])
               PROVE  Retrievable(id)
    BY DEF StoredIsKept
  <2>1. enc[id] \in File
    BY <1>1 DEF StoreInv, FilesAreLatest, InStep
  <2>2. Decrypts(enc[id])
    BY <2>1, StoreAssumption DEF Decrypts
  <2>3. metadata[id] # None /\ metadata[id].expires_at = deadline[id]
    BY <1>1 DEF StoreInv, IndexIsTrue
  <2> QED
    BY <2>2, <2>3 DEF Retrievable, Expired
<1> QED
  BY <1>1, StoreInvariance, PTL

\* Only the end of a retrieval hands out a value: the one it found, at the time it found it.
LEMMA HandedOut ==
    ASSUME StoreInv, StoreNext, HandsOut
    PROVE  /\ op # None /\ op.kind = "retrieve"
           /\ answer'.id = op.id /\ answer'.value = op.value /\ answer'.at = op.at
<1>1. answer' # answer /\ answer'.value # None
  BY DEF HandsOut
<1>2. ASSUME NEW id, RetrieveSecret(id) PROVE FALSE
  BY <1>1, <1>2 DEF RetrieveSecret
<1>3. ~WriteFails
  BY <1>1 DEF WriteFails
<1>4. DumpMeta
  BY <1>1, <1>2, <1>3
     DEF StoreNext, StoreSecret, RotateSecret, DeleteSecret, RegisterDevice, GenerateApiKey,
         VerifyApiKey, GetDeviceCredentials, OpenEnc, WriteEnc, OpenMeta, Restart, StoreTick
<1> QED
  BY <1>1, <1>4 DEF DumpMeta

\* retrieve_secret hands out the value last written, or nothing.
THEOREM HandsOutTheLatest == StoreSpec => LatestOrNothing
<1>1. ASSUME StoreInv, [StoreNext]_storeVars
      PROVE  [HandsOut => answer'.value = latest[answer'.id]]_storeVars
  <2> SUFFICES ASSUME StoreNext, HandsOut PROVE answer'.value = latest[answer'.id]
    BY <1>1
  <2> QED
    BY <1>1, HandedOut DEF StoreInv, CallIsRight
<1> QED
  BY <1>1, StoreInvariance, PTL DEF StoreSpec, LatestOrNothing

\* rotate_secret keeps a deadline: no value is handed out past it.
THEOREM DeadlinesOutliveRotations == StoreSpec => ExpiryOutlivesRotation
<1>1. ASSUME StoreInv, [StoreNext]_storeVars
      PROVE  [HandsOut /\ index # "lost" =>
                (deadline[answer'.id] # None => answer'.at <= deadline[answer'.id])]_storeVars
  <2> SUFFICES ASSUME StoreNext, HandsOut, index # "lost", deadline[answer'.id] # None
               PROVE  answer'.at <= deadline[answer'.id]
    BY <1>1
  <2> QED
    BY <1>1, HandedOut DEF StoreInv, CallIsRight
<1> QED
  BY <1>1, StoreInvariance, PTL DEF StoreSpec, ExpiryOutlivesRotation
=============================================================================
