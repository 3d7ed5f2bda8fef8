------------------------- MODULE DeviceDiscoveryProofs -------------------------
(***************************************************************************)
(* Proofs about DeviceDiscovery for any number of Local Controllers and    *)
(* devices.                                                                *)
(***************************************************************************)
EXTENDS DeviceDiscovery, TLAPS

\* Nothing is seen, written or cached at the start.
LEMMA InitIInv == Init => IInv
BY DiscoveryAssumption
   DEF Init, IInv, TypeOK, InHand, VersionCurrent, ObserversKnown, SoleWriterInSync,
       CollisionsReal, View, Row, NoRow, Cycle, Idle, Writing

\* What l's scans show changes; whoever sees a device now is an observer.
LEMMA ChangeIInv ==
    ASSUME IInv, NEW l \in LCs, NEW d \in Macs, NEW s \in Snapshots \union {Absent},
           Change(l, d, s)
    PROVE  IInv'
<1> USE DEF IInv
<1>1. /\ seen' = [seen EXCEPT ![l][d] = s]
      /\ observers' = [observers EXCEPT ![d] = IF s = Absent THEN @ ELSE @ \union {l}]
      /\ changes' = changes + 1
      /\ UNCHANGED <<devices, cache, cycle, toCheck, crashes, writers, collisions>>
  BY DEF Change
<1>2. TypeOK'
  BY <1>1 DEF TypeOK, View
<1>3. \A e \in Macs : observers[e] \subseteq observers'[e]
  BY <1>1 DEF TypeOK
<1>4. ObserversKnown'
  <2>1. \A k \in LCs, e \in Macs : seen'[k][e] # Absent => k \in observers'[e]
    BY <1>1, <1>3 DEF TypeOK, ObserversKnown, View
  <2>2. \A c \in toCheck' : c[1] \in observers'[c[2]]
    BY <1>1, <1>3 DEF TypeOK, ObserversKnown
  <2> QED
    BY <1>1, <1>3, <2>1, <2>2 DEF ObserversKnown
<1>5. CollisionsReal'
  <2>1. \A c \in collisions : c[1] \in Macs
    BY DEF TypeOK
  <2> QED
    BY <1>1, <1>3, <2>1 DEF CollisionsReal
<1>6. InHand' /\ VersionCurrent' /\ SoleWriterInSync'
  BY <1>1 DEF InHand, VersionCurrent, SoleWriterInSync
<1> QED
  BY <1>2, <1>4, <1>5, <1>6

\* The cycle of l moves to the state new and nothing else changes.
LEMMA CycleIInv ==
    ASSUME IInv, NEW l \in LCs, NEW new \in Cycle,
           cycle' = [cycle EXCEPT ![l] = new],
           UNCHANGED <<seen, devices, cache, toCheck, writers, history>>,
           new.pc \in Writing => /\ new.mac \in Macs /\ new.scan[new.mac] # Absent
                                 /\ writers[new.mac] \subseteq {l} =>
                                        devices[new.mac].version = new.version,
           \A d \in Macs : new.scan[d] # Absent => l \in observers[d],
           \A d \in new.left \union new.report : new.scan[d] # Absent
    PROVE  IInv'
<1> USE DEF IInv
<1>1. /\ cycle'[l] = new
      /\ \A k \in LCs \ {l} : cycle'[k] = cycle[k]
  BY DEF TypeOK
<1>2. UNCHANGED <<seen, devices, cache, toCheck, writers, changes, crashes, observers,
                  collisions>>
  BY DEF history
<1>3. TypeOK'
  BY <1>2 DEF TypeOK
<1>4. InHand' /\ VersionCurrent'
  BY <1>1, <1>2 DEF InHand, VersionCurrent
<1>5. ObserversKnown'
  BY <1>1, <1>2 DEF ObserversKnown
<1>6. SoleWriterInSync' /\ CollisionsReal'
  BY <1>2 DEF SoleWriterInSync, CollisionsReal
<1> QED
  BY <1>3, <1>4, <1>5, <1>6

\* A cycle that is over leaves nothing behind.
LEMMA IdleFacts ==
    /\ Idle \in Cycle /\ Idle.pc \notin Writing
    /\ \A d \in Macs : Idle.scan[d] = Absent
    /\ Idle.left = {} /\ Idle.report = {}
BY DEF Idle, Cycle, View, Writing

\* The cycle of l goes on after its device: it is no longer writing.
LEMMA GoOnChanges ==
    ASSUME IInv, NEW l \in LCs, cycle[l].pc \in Writing, GoOn(l, cycle[l].mac)
    PROVE  LET d == cycle[l].mac
           IN  /\ d \in Macs
               /\ cycle' \in [LCs -> Cycle] /\ cache' \in [LCs -> View]
               /\ \A k \in LCs \ {l} : cycle'[k] = cycle[k] /\ cache'[k] = cache[k]
               /\ cycle'[l].pc = "scan" /\ cycle'[l].scan = cycle[l].scan
               /\ cycle'[l].left = cycle[l].left /\ cycle'[l].report = cycle[l].report
               /\ cache'[l][d] = cycle[l].scan[d]
               /\ \A e \in Macs \ {d} : cache'[l][e] = cache[l][e]
<1>1. cycle[l].mac \in Macs
  BY DEF IInv, InHand
<1>2. cycle[l] \in Cycle /\ cache[l] \in View
  BY DEF IInv, TypeOK
<1>3. /\ cycle' = [cycle EXCEPT ![l] = [cycle[l] EXCEPT !.pc = "scan", !.mac = None]]
      /\ cache' = [cache EXCEPT ![l][cycle[l].mac] = cycle[l].scan[cycle[l].mac]]
  BY DEF GoOn
<1>4. [cycle[l] EXCEPT !.pc = "scan", !.mac = None] \in Cycle
  BY <1>2 DEF Cycle
<1>5. cycle[l].scan[cycle[l].mac] \in Snapshots \union {Absent}
  BY <1>1, <1>2 DEF Cycle, View
<1>6. [cache[l] EXCEPT ![cycle[l].mac] = cycle[l].scan[cycle[l].mac]] \in View
  BY <1>1, <1>2, <1>5 DEF View
<1>7. cycle' \in [LCs -> Cycle] /\ cache' \in [LCs -> View]
  BY <1>3, <1>4, <1>6 DEF IInv, TypeOK
<1>8. /\ cycle'[l] = [cycle[l] EXCEPT !.pc = "scan", !.mac = None]
      /\ cache'[l] = [cache[l] EXCEPT ![cycle[l].mac] = cycle[l].scan[cycle[l].mac]]
      /\ \A k \in LCs \ {l} : cycle'[k] = cycle[k] /\ cache'[k] = cache[k]
  BY <1>3 DEF IInv, TypeOK
<1>9. /\ cycle'[l].pc = "scan" /\ cycle'[l].scan = cycle[l].scan
      /\ cycle'[l].left = cycle[l].left /\ cycle'[l].report = cycle[l].report
  BY <1>2, <1>8 DEF Cycle
<1>10. /\ cache'[l][cycle[l].mac] = cycle[l].scan[cycle[l].mac]
       /\ \A e \in Macs \ {cycle[l].mac} : cache'[l][e] = cache[l][e]
  BY <1>1, <1>2, <1>8 DEF View
<1> QED
  BY <1>1, <1>7, <1>8, <1>9, <1>10

\* A successful write of l's device, by UPDATE or INSERT: cache and row agree, and
\* nobody else is the sole writer of the device any more.
LEMMA PutIInv ==
    ASSUME IInv, NEW l \in LCs, NEW v \in Nat, cycle[l].pc \in Writing,
           Put(l, cycle[l].mac, v), GoOn(l, cycle[l].mac),
           UNCHANGED <<seen, toCheck, changes, crashes, observers, collisions>>
    PROVE  IInv'
<1> DEFINE d == cycle[l].mac
<1>1. /\ d \in Macs
      /\ cycle' \in [LCs -> Cycle] /\ cache' \in [LCs -> View]
      /\ \A k \in LCs \ {l} : cycle'[k] = cycle[k] /\ cache'[k] = cache[k]
      /\ cycle'[l].pc = "scan" /\ cycle'[l].scan = cycle[l].scan
      /\ cycle'[l].left = cycle[l].left /\ cycle'[l].report = cycle[l].report
      /\ cache'[l][d] = cycle[l].scan[d]
      /\ \A e \in Macs \ {d} : cache'[l][e] = cache[l][e]
  BY GoOnChanges
<1> HIDE DEF d
<1>2. cycle[l].scan[d] \in Snapshots \union {Absent} /\ l \in observers[d]
  BY <1>1 DEF IInv, TypeOK, Cycle, View, ObserversKnown, d
<1>3. /\ devices'[d] = [snap |-> cycle[l].scan[d], local_controller |-> l, version |-> v]
      /\ devices' \in [Macs -> Row]
      /\ writers'[d] = writers[d] \union {l}
      /\ writers' \in [Macs -> SUBSET LCs]
      /\ \A e \in Macs \ {d} : devices'[e] = devices[e] /\ writers'[e] = writers[e]
  BY <1>1, <1>2 DEF IInv, TypeOK, Put, Row, d
<1>5. TypeOK'
  BY <1>1, <1>3 DEF IInv, TypeOK
<1>6. InHand'
  BY <1>1 DEF IInv, InHand, Writing
<1>7. VersionCurrent'
  <2> SUFFICES ASSUME NEW k \in LCs, cycle'[k].pc \in Writing,
                      writers'[cycle'[k].mac] \subseteq {k}
               PROVE  devices'[cycle'[k].mac].version = cycle'[k].version
    BY DEF VersionCurrent
  <2>1. k # l /\ cycle'[k] = cycle[k]
    BY <1>1 DEF Writing
  <2>2. cycle[k].mac \in Macs
    BY <2>1 DEF IInv, InHand
  <2>3. cycle[k].mac # d
    BY <1>3, <2>1
  <2> QED
    BY <1>3, <2>1, <2>2, <2>3 DEF IInv, VersionCurrent
<1>8. ObserversKnown'
  <2>1. \A e \in Macs : devices'[e].local_controller \in observers'[e] \union {None}
    BY <1>2, <1>3 DEF IInv, ObserversKnown
  <2>2. \A k \in LCs, e \in Macs : cycle'[k].scan[e] # Absent => k \in observers'[e]
    BY <1>1 DEF IInv, ObserversKnown
  <2>3. \A k \in LCs : \A e \in cycle'[k].left \union cycle'[k].report : cycle'[k].scan[e] # Absent
    BY <1>1 DEF IInv, ObserversKnown
  <2>4. \A k \in LCs : cycle'[k].pc \in Writing => cycle'[k].scan[cycle'[k].mac] # Absent
    BY <1>1 DEF IInv, ObserversKnown, Writing
  <2> QED
    BY <2>1, <2>2, <2>3, <2>4 DEF IInv, ObserversKnown
<1>9. SoleWriterInSync'
  <2> SUFFICES ASSUME NEW k \in LCs, NEW e \in Macs, cache'[k][e] # Absent,
                      writers'[e] \subseteq {k}
               PROVE  devices'[e].snap = cache'[k][e]
    BY DEF SoleWriterInSync
  <2>1. CASE e = d
    BY <1>1, <1>3, <2>1
  <2>2. CASE e # d
    BY <1>1, <1>3, <2>2 DEF IInv, SoleWriterInSync
  <2> QED
    BY <2>1, <2>2
<1> QED
  BY <1>5, <1>6, <1>7, <1>8, <1>9 DEF IInv, CollisionsReal

\* The only step that caches without writing is a conflict, and then somebody
\* else has written the device.
LEMMA ConflictIInv ==
    ASSUME IInv, NEW l \in LCs, UpdateConflict(l)
    PROVE  IInv'
<1> DEFINE d == cycle[l].mac
<1>1. /\ cycle[l].pc \in Writing /\ devices[d].version # cycle[l].version
      /\ GoOn(l, d)
      /\ UNCHANGED <<seen, devices, toCheck, writers, changes, crashes, observers,
                     collisions>>
  BY DEF UpdateConflict, Writing, history
<1>2. /\ d \in Macs
      /\ cycle' \in [LCs -> Cycle] /\ cache' \in [LCs -> View]
      /\ \A k \in LCs \ {l} : cycle'[k] = cycle[k] /\ cache'[k] = cache[k]
      /\ cycle'[l].pc = "scan" /\ cycle'[l].scan = cycle[l].scan
      /\ cycle'[l].left = cycle[l].left /\ cycle'[l].report = cycle[l].report
      /\ cache'[l][d] = cycle[l].scan[d]
      /\ \A e \in Macs \ {d} : cache'[l][e] = cache[l][e]
  BY <1>1, GoOnChanges
<1>3. ~(writers[d] \subseteq {l})
  BY <1>1 DEF IInv, VersionCurrent
<1> HIDE DEF d
<1>4. TypeOK'
  BY <1>1, <1>2 DEF IInv, TypeOK
<1>5. InHand' /\ VersionCurrent'
  BY <1>1, <1>2 DEF IInv, InHand, VersionCurrent, Writing
<1>6. ObserversKnown'
  BY <1>1, <1>2 DEF IInv, ObserversKnown, Writing
<1>7. SoleWriterInSync'
  BY <1>1, <1>2, <1>3 DEF IInv, SoleWriterInSync
<1> QED
  BY <1>1, <1>4, <1>5, <1>6, <1>7 DEF IInv, CollisionsReal

\* Every step preserves the inductive invariant.
LEMMA NextIInv == IInv /\ [Next]_vars => IInv'
<1> SUFFICES ASSUME IInv, [Next]_vars PROVE IInv'
  OBVIOUS
<1>t. TypeOK
  BY DEF IInv
<1>1. ASSUME NEW l \in LCs, NEW d \in Macs, NEW s \in Snapshots \union {Absent}, Change(l, d, s)
      PROVE  IInv'
  BY <1>1, ChangeIInv
<1>2. ASSUME NEW l \in LCs, StartCycle(l) PROVE IInv'
  <2> DEFINE new == [pc |-> "scan", scan |-> seen[l], left |-> Delta(l),
                     report |-> Delta(l), mac |-> None, version |-> 0]
  <2>1. seen[l] \in View /\ Delta(l) \in SUBSET Macs
    BY <1>t DEF TypeOK, Delta
  <2>2. new \in Cycle /\ new.pc \notin Writing
    BY <2>1 DEF Cycle, Writing
  <2>3. \A d \in Macs : new.scan[d] # Absent => l \in observers[d]
    BY DEF IInv, ObserversKnown
  <2>4. \A d \in new.left \union new.report : new.scan[d] # Absent
    BY DEF Delta
  <2>5. /\ cycle' = [cycle EXCEPT ![l] = new]
        /\ UNCHANGED <<seen, devices, cache, toCheck, writers, history>>
    BY <1>2 DEF StartCycle
  <2> HIDE DEF new
  <2> QED
    BY <2>2, <2>3, <2>4, <2>5, CycleIInv
<1>3. ASSUME NEW l \in LCs, NEW d \in Macs, ReadDevice(l, d) PROVE IInv'
  <2> DEFINE new == [cycle[l] EXCEPT !.pc = "lookup", !.mac = d,
                                     !.version = devices[d].version, !.left = @ \ {d}]
  <2>1. cycle[l] \in Cycle /\ devices[d] \in Row
    BY <1>t DEF TypeOK
  <2>2. new \in Cycle
    BY <2>1 DEF Cycle, Row
  <2>3. /\ new.mac = d /\ new.scan = cycle[l].scan /\ new.version = devices[d].version
        /\ new.left = cycle[l].left \ {d} /\ new.report = cycle[l].report
    BY <2>1 DEF Cycle
  <2>4. /\ cycle' = [cycle EXCEPT ![l] = new] /\ d \in cycle[l].left
        /\ UNCHANGED <<seen, devices, cache, toCheck, writers, history>>
    BY <1>3 DEF ReadDevice
  <2> HIDE DEF new
  <2>5. /\ \A e \in Macs : new.scan[e] # Absent => l \in observers[e]
        /\ \A e \in new.left \union new.report : new.scan[e] # Absent
        /\ new.scan[d] # Absent
    BY <2>3, <2>4 DEF IInv, ObserversKnown
  <2> QED
    BY <2>2, <2>3, <2>4, <2>5, CycleIInv
<1>4. ASSUME NEW l \in LCs, LookupDevice(l) PROVE IInv'
  <2> DEFINE next == IF devices[cycle[l].mac] = NoRow THEN "insert" ELSE "update"
             new  == [cycle[l] EXCEPT !.pc = next]
  <2>1. cycle[l] \in Cycle /\ cycle[l].pc \in Writing
    BY <1>4, <1>t DEF TypeOK, LookupDevice, Writing
  <2>2. new \in Cycle
    BY <2>1 DEF Cycle
  <2>3. /\ new.mac = cycle[l].mac /\ new.scan = cycle[l].scan /\ new.version = cycle[l].version
        /\ new.left = cycle[l].left /\ new.report = cycle[l].report
    BY <2>1 DEF Cycle
  <2>4. /\ cycle' = [cycle EXCEPT ![l] = new]
        /\ UNCHANGED <<seen, devices, cache, toCheck, writers, history>>
    BY <1>4 DEF LookupDevice
  <2> HIDE DEF new
  <2>5. /\ \A e \in Macs : new.scan[e] # Absent => l \in observers[e]
        /\ \A e \in new.left \union new.report : new.scan[e] # Absent
        /\ new.scan[new.mac] # Absent /\ new.mac \in Macs
        /\ writers[new.mac] \subseteq {l} => devices[new.mac].version = new.version
    BY <2>1, <2>3 DEF IInv, ObserversKnown, InHand, VersionCurrent
  <2> QED
    BY <2>2, <2>4, <2>5, CycleIInv
<1>5. ASSUME NEW l \in LCs, UpdateDevice(l) PROVE IInv'
  <2>1. /\ cycle[l].pc \in Writing /\ cycle[l].mac \in Macs
        /\ Put(l, cycle[l].mac, devices[cycle[l].mac].version + 1) /\ GoOn(l, cycle[l].mac)
        /\ UNCHANGED <<seen, toCheck, changes, crashes, observers, collisions>>
    BY <1>5 DEF UpdateDevice, Writing, IInv, InHand
  <2>2. devices[cycle[l].mac].version + 1 \in Nat
    BY <1>t, <2>1 DEF TypeOK, Row
  <2> QED
    BY <2>1, <2>2, PutIInv
<1>6. ASSUME NEW l \in LCs, UpdateConflict(l) PROVE IInv'
  BY <1>6, ConflictIInv
<1>7. ASSUME NEW l \in LCs, InsertDevice(l) PROVE IInv'
  <2>1. /\ cycle[l].pc \in Writing
        /\ Put(l, cycle[l].mac, 0) /\ GoOn(l, cycle[l].mac)
        /\ UNCHANGED <<seen, toCheck, changes, crashes, observers, collisions>>
    BY <1>7 DEF InsertDevice, Writing
  <2> QED
    BY <2>1, PutIInv
<1>8. ASSUME NEW l \in LCs, InsertFails(l) PROVE IInv'
  <2>1. /\ cycle' = [cycle EXCEPT ![l] = Idle]
        /\ UNCHANGED <<seen, devices, cache, toCheck, writers, history>>
    BY <1>8 DEF InsertFails
  <2> QED
    BY <2>1, IdleFacts, CycleIInv
<1>9. ASSUME NEW l \in LCs, SendReport(l) PROVE IInv'
  <2>1. /\ cycle' = [cycle EXCEPT ![l] = Idle]
        /\ toCheck' \subseteq toCheck \union {<<l, d>> : d \in cycle[l].report}
        /\ UNCHANGED <<seen, devices, cache, writers, changes, crashes, observers,
                       collisions>>
    BY <1>9 DEF SendReport, history
  <2>2. /\ cycle'[l] = Idle
        /\ \A k \in LCs \ {l} : cycle'[k] = cycle[k]
        /\ cycle' \in [LCs -> Cycle]
    BY <1>t, <2>1, IdleFacts DEF TypeOK
  <2>3. cycle[l].report \subseteq Macs /\ \A d \in cycle[l].report : l \in observers[d]
    BY <1>t DEF TypeOK, Cycle, IInv, ObserversKnown
  <2>4. TypeOK'
    BY <1>t, <2>1, <2>2, <2>3 DEF TypeOK
  <2>5. \A c \in toCheck' : c[1] \in observers'[c[2]]
    BY <2>1, <2>3 DEF IInv, ObserversKnown
  <2>6. InHand' /\ VersionCurrent'
    BY <2>1, <2>2, IdleFacts DEF IInv, InHand, VersionCurrent
  <2>7. ObserversKnown'
    BY <2>1, <2>2, <2>5, IdleFacts DEF IInv, ObserversKnown
  <2> QED
    BY <2>1, <2>4, <2>6, <2>7 DEF IInv, SoleWriterInSync, CollisionsReal
<1>10. ASSUME NEW l \in LCs, Restart(l) PROVE IInv'
  <2>1. /\ cycle' = [cycle EXCEPT ![l] = Idle]
        /\ cache' = [cache EXCEPT ![l] = [d \in Macs |-> Absent]]
        /\ crashes' = crashes + 1
        /\ UNCHANGED <<seen, devices, toCheck, changes, writers, observers, collisions>>
    BY <1>10 DEF Restart
  <2>2. /\ cycle'[l] = Idle
        /\ \A k \in LCs \ {l} : cycle'[k] = cycle[k]
        /\ cycle' \in [LCs -> Cycle]
    BY <1>t, <2>1, IdleFacts DEF TypeOK
  <2>3. /\ \A d \in Macs : cache'[l][d] = Absent
        /\ \A k \in LCs \ {l} : cache'[k] = cache[k]
        /\ cache' \in [LCs -> View]
    BY <1>t, <2>1 DEF TypeOK, View
  <2>4. TypeOK'
    BY <1>t, <2>1, <2>2, <2>3 DEF TypeOK
  <2>5. InHand' /\ VersionCurrent' /\ ObserversKnown'
    BY <2>1, <2>2, IdleFacts DEF IInv, InHand, VersionCurrent, ObserversKnown
  <2>6. SoleWriterInSync'
    BY <2>1, <2>3 DEF IInv, SoleWriterInSync
  <2> QED
    BY <2>1, <2>4, <2>5, <2>6 DEF IInv, CollisionsReal
<1>11. ASSUME NEW l \in LCs, NEW d \in Macs, CheckMacCollisions(l, d) PROVE IInv'
  <2> DEFINE k == devices[d].local_controller
  <2>1. /\ <<l, d>> \in toCheck /\ toCheck' \subseteq toCheck
        /\ collisions' = IF k \in {None, l} THEN collisions ELSE collisions \union {<<d, l, k>>}
        /\ UNCHANGED <<seen, devices, cache, cycle, changes, crashes, writers, observers>>
    BY <1>11 DEF CheckMacCollisions
  <2>2. l \in observers[d] /\ k \in observers[d] \union {None} /\ k \in LCs \union {None}
    BY <1>t, <2>1 DEF IInv, ObserversKnown, TypeOK, Row
  <2> HIDE DEF k
  <2>3. collisions' \subseteq Macs \X LCs \X LCs /\ CollisionsReal'
    BY <1>t, <2>1, <2>2 DEF IInv, TypeOK, CollisionsReal
  <2>4. TypeOK'
    BY <1>t, <2>1, <2>3 DEF TypeOK
  <2> QED
    BY <2>1, <2>3, <2>4
       DEF IInv, InHand, VersionCurrent, ObserversKnown, SoleWriterInSync
<1>12. CASE UNCHANGED vars
  BY <1>12 DEF vars, IInv, TypeOK, InHand, VersionCurrent, ObserversKnown, SoleWriterInSync,
               CollisionsReal
<1> QED
  BY <1>1, <1>2, <1>3, <1>4, <1>5, <1>6, <1>7, <1>8, <1>9, <1>10, <1>11, <1>12
     DEF Next, LCStep

\* The inductive invariant holds in every reachable state.
THEOREM Invariance == Spec => []IInv
BY InitIInv, NextIInv, PTL DEF Spec

\* The table, the caches and the cycles are well typed, for any number of
\* controllers and devices.
THEOREM TypeCorrect == Spec => []TypeOK
<1>1. IInv => TypeOK
  BY DEF IInv
<1> QED
  BY <1>1, Invariance, PTL

\* _write_devices_to_nib and upsert_device keep the cache of a sole writer in
\* agreement with the NIB, whatever its other devices, other controllers and
\* restarts do.
THEOREM SoleWritersInSync == Spec => []SoleWriterInSync
<1>1. IInv => SoleWriterInSync
  BY DEF IInv
<1> QED
  BY <1>1, Invariance, PTL

\* _check_mac_collisions raises no false alarm.
THEOREM CollisionsAreReal == Spec => []CollisionsReal
<1>1. IInv => CollisionsReal
  BY DEF IInv
<1> QED
  BY <1>1, Invariance, PTL
================================================================================
