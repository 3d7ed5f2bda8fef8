---------------------------- MODULE DeviceDiscovery ----------------------------
(***************************************************************************)
(* The discovery cycle of the Local Controllers.  A cycle scans, compares  *)
(* the scan with the controller's cache of what it saw last, writes the    *)
(* new and the changed devices to the devices table of the NIB, one by     *)
(* one, and reports them to the Regional Controller, which looks for MAC   *)
(* addresses that another Local Controller manages.                        *)
(*                                                                         *)
(* A device is known by its MAC address.  What the merged ARP, ICMP and    *)
(* SNMP scans tell about it (address, names, model, reachability, method)  *)
(* is one value, its snapshot.  A write is three NIB transactions: the     *)
(* cycle's get_device_by_mac, the one inside upsert_device, and the UPDATE *)
(* or INSERT.                                                              *)
(***************************************************************************)
EXTENDS Integers, FiniteSets

CONSTANTS
    LCs, Macs,
    Snapshots,
    Absent,      \* not seen; not in the cache; no row
    None,
    MaxChanges,  \* bound: changes of the network
    MaxCrashes   \* bound: restarts of Local Controllers

ASSUME DiscoveryAssumption ==
    /\ Absent \notin Snapshots
    /\ None \notin Macs \union LCs
    /\ MaxChanges \in Nat /\ MaxCrashes \in Nat

VARIABLES
    seen,        \* seen[l][d]: what a scan by l shows of device d now
    devices,     \* devices[d]: its row in the NIB
    cache,       \* cache[l][d]: d's entry in last_scan_devices of l
    cycle,       \* cycle[l]: l's discovery cycle
    toCheck,     \* reported <<l, d>> the Regional Controller has to check
    changes, crashes,
    writers,     \* history: writers[d]: who has written d's row
    observers,   \* history: observers[d]: who has ever seen d
    collisions   \* history: <<d, l, k>>: the RC found that l reports d, k manages it

vars == <<seen, devices, cache, cycle, toCheck, changes, crashes, writers, observers,
          collisions>>
history == <<changes, crashes, observers, collisions>>

View == [Macs -> Snapshots \union {Absent}]

\* A row of the devices table ("snap = Absent": no row).
Row   == [snap : Snapshots \union {Absent}, local_controller : LCs \union {None}, version : Nat]
NoRow == [snap |-> Absent, local_controller |-> None, version |-> 0]

\* A cycle: what was scanned, the devices still to write, those to report, and the
\* device being written with the version read for it.
Cycle == [pc : {"idle", "scan", "lookup", "update", "insert"}, scan : View,
          left : SUBSET Macs, report : SUBSET Macs, mac : Macs \union {None}, version : Nat]
Idle  == [pc |-> "idle", scan |-> [d \in Macs |-> Absent], left |-> {}, report |-> {},
          mac |-> None, version |-> 0]

Init ==
    /\ seen = [l \in LCs |-> [d \in Macs |-> Absent]]
    /\ devices = [d \in Macs |-> NoRow]
    /\ cache = [l \in LCs |-> [d \in Macs |-> Absent]]
    /\ cycle = [l \in LCs |-> Idle]
    /\ toCheck = {}
    /\ changes = 0 /\ crashes = 0
    /\ writers = [d \in Macs |-> {}]
    /\ observers = [d \in Macs |-> {}]
    /\ collisions = {}

\* A device appears in, changes in, or disappears from l's subnet.
Change(l, d, s) ==
    /\ changes < MaxChanges /\ s # seen[l][d]
    /\ changes' = changes + 1
    /\ seen' = [seen EXCEPT ![l][d] = s]
    /\ observers' = [observers EXCEPT ![d] = IF s = Absent THEN @ ELSE @ \union {l}]
    /\ UNCHANGED <<devices, cache, cycle, toCheck, crashes, writers, collisions>>

-----------------------------------------------------------------------------
(* Local Controller: run_discovery_cycle.                                  *)

\* A bug to be caught: a device that is still there but has changed is not written.
DeltaNewOnly(l) == {d \in Macs : seen[l][d] # Absent /\ cache[l][d] = Absent}

\* _detect_deltas: new and updated devices.
Delta(l) == {d \in Macs : seen[l][d] # Absent /\ cache[l][d] # seen[l][d]}

\* _detect_deltas: devices of the cache that the scan does not show.  They are
\* reported, but neither written nor taken out of the cache.
Inactive(l) == {d \in Macs : seen[l][d] = Absent /\ cache[l][d] # Absent}

\* The scans, the merge and the comparison.  A cycle that sees nothing at all
\* ends here.
StartCycle(l) ==
    /\ cycle[l].pc = "idle"
    /\ \E d \in Macs : seen[l][d] # Absent
    /\ cycle' = [cycle EXCEPT ![l] = [pc |-> "scan", scan |-> seen[l], left |-> Delta(l),
                                          report |-> Delta(l), mac |-> None, version |-> 0]]
    /\ UNCHANGED <<seen, devices, cache, toCheck, writers, history>>

\* _write_devices_to_nib: the next device; get_device_by_mac for its version.
ReadDevice(l, d) ==
    /\ cycle[l].pc = "scan" /\ d \in cycle[l].left
    /\ cycle' = [cycle EXCEPT ![l].pc = "lookup", ![l].mac = d,
                              ![l].version = devices[d].version, ![l].left = @ \ {d}]
    /\ UNCHANGED <<seen, devices, cache, toCheck, writers, history>>

\* upsert_device: get_device_by_mac again, to choose between UPDATE and INSERT.
LookupDevice(l) ==
    /\ cycle[l].pc = "lookup"
    /\ cycle' = [cycle EXCEPT ![l].pc =
                     IF devices[cycle[l].mac] = NoRow THEN "insert" ELSE "update"]
    /\ UNCHANGED <<seen, devices, cache, toCheck, writers, history>>

\* The cycle goes on after d; the cache holds what was scanned, written or not.
GoOn(l, d) ==
    /\ cycle' = [cycle EXCEPT ![l].pc = "scan", ![l].mac = None]
    /\ cache' = [cache EXCEPT ![l][d] = cycle[l].scan[d]]

\* The row of d becomes l's.
Put(l, d, version) ==
    /\ devices' = [devices EXCEPT ![d] = [snap |-> cycle[l].scan[d], local_controller |-> l,
                                          version |-> version]]
    /\ writers' = [writers EXCEPT ![d] = @ \union {l}]

\* A bug to be caught: what is in the cache is written, instead of what was scanned.
UpdateDeviceStale(l) ==
    LET d == cycle[l].mac
    IN  /\ cycle[l].pc = "update" /\ devices[d].version = cycle[l].version
        /\ devices' = [devices EXCEPT ![d].version = @ + 1,
                                      ![d].snap = IF cache[l][d] = Absent THEN @ ELSE cache[l][d]]
        /\ GoOn(l, d)
        /\ UNCHANGED <<seen, toCheck, writers, history>>

\* UPDATE devices ... WHERE version = ?
UpdateDevice(l) ==
    LET d == cycle[l].mac
    IN  /\ cycle[l].pc = "update" /\ devices[d].version = cycle[l].version
        /\ Put(l, d, devices[d].version + 1)
        /\ GoOn(l, d)
        /\ UNCHANGED <<seen, toCheck, changes, crashes, observers, collisions>>

\* CONFLICT: a warning, and the cycle goes on as if the device were written.
UpdateConflict(l) ==
    LET d == cycle[l].mac
    IN  /\ cycle[l].pc = "update" /\ devices[d].version # cycle[l].version
        /\ GoOn(l, d)
        /\ UNCHANGED <<seen, devices, toCheck, writers, history>>

\* INSERT INTO devices
InsertDevice(l) ==
    LET d == cycle[l].mac
    IN  /\ cycle[l].pc = "insert" /\ devices[d] = NoRow
        /\ Put(l, d, 0)
        /\ GoOn(l, d)
        /\ UNCHANGED <<seen, toCheck, changes, crashes, observers, collisions>>

\* The MAC address is UNIQUE: the INSERT raises, and the cycle with it.
InsertFails(l) ==
    /\ cycle[l].pc = "insert" /\ devices[cycle[l].mac] # NoRow
    /\ cycle' = [cycle EXCEPT ![l] = Idle]
    /\ UNCHANGED <<seen, devices, cache, toCheck, writers, history>>

\* _send_discovery_report, which may fail without consequence, and the end of the
\* cycle.  Inactive devices in the report have no effect.
SendReport(l) ==
    /\ cycle[l].pc = "scan" /\ cycle[l].left = {}
    /\ cycle' = [cycle EXCEPT ![l] = Idle]
    /\ toCheck' \in {toCheck, toCheck \union {<<l, d>> : d \in cycle[l].report}}
    /\ UNCHANGED <<seen, devices, cache, writers, history>>

\* A restarted Local Controller has an empty cache.
Restart(l) ==
    /\ crashes < MaxCrashes
    /\ crashes' = crashes + 1
    /\ cache' = [cache EXCEPT ![l] = [d \in Macs |-> Absent]]
    /\ cycle' = [cycle EXCEPT ![l] = Idle]
    /\ UNCHANGED <<seen, devices, toCheck, changes, writers, observers, collisions>>

-----------------------------------------------------------------------------
(* Regional Controller: handle_discovery_report.                           *)

\* A bug to be caught: every other Local Controller is taken for the device's manager.
CheckMacCollisionsLax(l, d) ==
    /\ <<l, d>> \in toCheck
    /\ toCheck' = toCheck \ {<<l, d>>}
    /\ collisions' = collisions \union {<<d, l, k>> : k \in LCs \ {l}}
    /\ UNCHANGED <<seen, devices, cache, cycle, changes, crashes, writers, observers>>

\* _check_mac_collisions, one device of a report.
CheckMacCollisions(l, d) ==
    /\ <<l, d>> \in toCheck
    /\ toCheck' = toCheck \ {<<l, d>>}
    /\ collisions' = IF devices[d].local_controller \in {None, l} THEN collisions
                     ELSE collisions \union {<<d, l, devices[d].local_controller>>}
    /\ UNCHANGED <<seen, devices, cache, cycle, changes, crashes, writers, observers>>

-----------------------------------------------------------------------------

LCStep(l) ==
    \/ StartCycle(l)
    \/ \E d \in Macs : ReadDevice(l, d)
    \/ LookupDevice(l)
    \/ UpdateDevice(l) \/ UpdateConflict(l)
    \/ InsertDevice(l) \/ InsertFails(l)
    \/ SendReport(l)

Next ==
    \/ \E l \in LCs, d \in Macs, s \in Snapshots \union {Absent} : Change(l, d, s)
    \/ \E l \in LCs : LCStep(l) \/ Restart(l)
    \/ \E l \in LCs, d \in Macs : CheckMacCollisions(l, d)

\* A Local Controller runs its cycle at every discovery interval.
Fairness == \A l \in LCs : WF_vars(LCStep(l))

Spec == Init /\ [][Next]_vars /\ Fairness
-----------------------------------------------------------------------------
(* Properties.                                                             *)

\* Type correctness of the table, the caches and the cycles.
TypeOK ==
    /\ seen \in [LCs -> View] /\ cache \in [LCs -> View]
    /\ devices \in [Macs -> Row]
    /\ cycle \in [LCs -> Cycle]
    /\ toCheck \subseteq LCs \X Macs
    /\ changes \in Nat /\ crashes \in Nat
    /\ writers \in [Macs -> SUBSET LCs] /\ observers \in [Macs -> SUBSET LCs]
    /\ collisions \subseteq Macs \X LCs \X LCs

\* As long as l alone has written a device, its cache and the NIB agree about the
\* device: what l takes for known is known, so that no change is left unwritten.
SoleWriterInSync ==
    \A l \in LCs, d \in Macs :
        (cache[l][d] # Absent /\ writers[d] \subseteq {l}) => devices[d].snap = cache[l][d]

\* The Regional Controller raises no false alarm: two Local Controllers whose
\* devices collide have both really seen the device.
CollisionsReal ==
    \A c \in collisions : c[2] \in observers[c[1]] /\ c[3] \in observers[c[1]] /\ c[2] # c[3]

\* The NIB shows the device that only l sees as l sees it.
ShownAsSeen(l, d) ==
    (/\ seen[l][d] # Absent
     /\ \A k \in LCs \ {l} : seen[k][d] = Absent) => devices[d].snap = seen[l][d]

\* A device that only one Local Controller has ever seen is shown in the NIB as it
\* is, once the network stays as it is, whatever was interrupted before.
SoleObserverConverges ==
    \A l \in LCs, d \in Macs :
        <>[](observers[d] \subseteq {l} => ShownAsSeen(l, d))

-----------------------------------------------------------------------------
(* The strengthening of SoleWriterInSync and CollisionsReal that is        *)
(* inductive.                                                              *)

Writing == {"lookup", "update", "insert"}

\* A cycle that writes has a device in hand.
InHand == \A l \in LCs : cycle[l].pc \in Writing => cycle[l].mac \in Macs

\* As long as l alone has written the device in hand, the version l has read is
\* the current one: a conflict is always somebody else's doing.
VersionCurrent ==
    \A l \in LCs : cycle[l].pc \in Writing =>
        (writers[cycle[l].mac] \subseteq {l} => devices[cycle[l].mac].version = cycle[l].version)

\* Whoever sees, has scanned, writes, reports or manages a device has seen it.
ObserversKnown ==
    /\ \A l \in LCs, d \in Macs : seen[l][d] # Absent => l \in observers[d]
    /\ \A l \in LCs, d \in Macs : cycle[l].scan[d] # Absent => l \in observers[d]
    /\ \A l \in LCs : \A d \in cycle[l].left \union cycle[l].report : cycle[l].scan[d] # Absent
    /\ \A l \in LCs : cycle[l].pc \in Writing => cycle[l].scan[cycle[l].mac] # Absent
    /\ \A c \in toCheck : c[1] \in observers[c[2]]
    /\ \A d \in Macs : devices[d].local_controller \in observers[d] \union {None}

IInv == TypeOK /\ InHand /\ VersionCurrent /\ ObserversKnown /\ SoleWriterInSync /\ CollisionsReal

=============================================================================
