---------------------------- MODULE DeviceAccess ----------------------------
(***************************************************************************)
(* How configuration reaches a device: the ConnectionManager with its pool  *)
(* of DeviceSessions, and the apply_config of the four vendor adapters.     *)
(* One caller uses the manager; links break, devices restart and answers    *)
(* get lost around it.                                                     *)
(*                                                                         *)
(* A change is a list of commands for one device.  A device has a running   *)
(* configuration (how much of each change is in it), the saved one it comes *)
(* up with after a restart and, for Juniper and NETCONF, a candidate.       *)
(***************************************************************************)
EXTENDS Integers, FiniteSets

CONSTANTS Devices, Changes,
          DeviceOf,        \* the device a change is for
          MaxConnections,  \* max_connections
          SessionTimeout,  \* session_timeout, in ticks
          MaxCalls         \* bound on the calls of execute_on_device

ASSUME BoundsAssumption ==
    /\ IsFiniteSet(Devices) /\ DeviceOf \in [Changes -> Devices]
    /\ MaxConnections \in Nat /\ SessionTimeout \in Nat /\ MaxCalls \in Nat

VARIABLES
    vendor,     \* the adapter VendorAdapterFactory chooses for a device
    sessions,   \* the pooled sessions: device -> a session or NoSession
    link,       \* external: does the session's transport work?
    opened,     \* history: connections opened and not closed, per device
    running,    \* external: how much of a change is in force
    saved,      \* external: how much of it survives a restart
    candidate,  \* external: changes loaded but not committed, per device
    call,       \* the call in progress
    outcomes,   \* history: how the attempts of a change ended
    calls       \* number of calls so far

vars == <<vendor, sessions, link, opened, running, saved, candidate, call, outcomes, calls>>
deviceVars == <<running, saved, candidate>>

Vendors == {"cisco", "juniper", "arista", "netconf"}
Level == 0..2     \* nothing, part, all of a change
Aged == SessionTimeout + 1

NoSession == [state |-> "none", age |-> 0]
Session == [state : {"connected", "idle", "error"}, age : 0..Aged]
Pcs == {"idle", "lookup", "limit", "connect", "execute"}
IdleCall == [pc |-> "idle", chg |-> {}]

Pooled == {d \in Devices : sessions[d] # NoSession}

TypeOK ==
    /\ vendor \in [Devices -> Vendors]
    /\ sessions \in [Devices -> Session \union {NoSession}]
    /\ link \in [Devices -> BOOLEAN]
    /\ opened \in [Devices -> Int]
    /\ running \in [Changes -> Level] /\ saved \in [Changes -> Level]
    /\ candidate \in [Devices -> SUBSET Changes]
    /\ call \in [pc : Pcs, chg : SUBSET Changes]
    /\ outcomes \in [Changes -> SUBSET {"ok", "failed", "raised"}]
    /\ calls \in 0..MaxCalls

Init ==
    /\ vendor \in [Devices -> Vendors]
    /\ sessions = [d \in Devices |-> NoSession]
    /\ link = [d \in Devices |-> FALSE]
    /\ opened = [d \in Devices |-> 0]
    /\ running = [c \in Changes |-> 0]
    /\ saved = [c \in Changes |-> 0]
    /\ candidate = [d \in Devices |-> {}]
    /\ call = IdleCall
    /\ outcomes = [c \in Changes |-> {}]
    /\ calls = 0

At(pc, c) == call = [pc |-> pc, chg |-> {c}]
GoTo(pc, c) == call' = [pc |-> pc, chg |-> {c}]
Return == call' = IdleCall

-----------------------------------------------------------------------------
(* Sessions.                                                               *)

\* is_idle
IsIdle(d) == sessions[d].age > SessionTimeout

\* is_healthy.  is_connected only asks whether the adapter has a connection
\* object, which it has in every pooled session, whatever the link does.
IsHealthy(d) == sessions[d].state \in {"connected", "idle"} /\ ~IsIdle(d)

\* update_last_activity
Touched(s) == [state |-> IF s.state = "idle" THEN "connected" ELSE s.state, age |-> 0]

\* What is_idle leaves in the session.
Checked(d) ==
    [state |-> IF IsIdle(d) THEN "idle" ELSE sessions[d].state, age |-> sessions[d].age]

\* External: closing a broken NETCONF transport may raise; the other two
\* adapters' disconnect does not.
DisconnectMayRaise(d) == vendor[d] \in {"juniper", "netconf"} /\ ~link[d]

\* The sessions in K are closed and removed.  What they left in a candidate
\* may or may not outlive them.
Closed(K) ==
    /\ opened' = [d \in Devices |-> IF d \in K THEN opened[d] - 1 ELSE opened[d]]
    /\ link' = [d \in Devices |-> link[d] /\ d \notin K]
    /\ \E lost \in SUBSET K :
          candidate' = [d \in Devices |-> IF d \in lost THEN {} ELSE candidate[d]]

\* close_session for each device of D.
CloseAll(D) ==
    /\ sessions' = [d \in Devices |-> IF d \in D THEN NoSession ELSE sessions[d]]
    /\ Closed(D)

\* A bug to be caught: the pool drops the sessions it could not close.
CloseAbortedForgets(D, before) ==
    \E d \in D : \E K \in SUBSET (D \ {d}) :
        /\ DisconnectMayRaise(d)
        /\ sessions' = [e \in Devices |-> IF e \in K \union {d} THEN NoSession ELSE before[e]]
        /\ Closed(K)

\* The same, cut short by a disconnect that raises: that session and the ones
\* not reached stay in the pool as they were before.
CloseAborted(D, before) ==
    \E d \in D : \E K \in SUBSET (D \ {d}) :
        /\ DisconnectMayRaise(d)
        /\ sessions' = [e \in Devices |-> IF e \in K THEN NoSession ELSE before[e]]
        /\ Closed(K)

-----------------------------------------------------------------------------
(* get_or_create_session.                                                  *)

ExecuteOnDevice(c) ==
    /\ call = IdleCall /\ calls < MaxCalls
    /\ calls' = calls + 1
    /\ GoTo("lookup", c)
    /\ UNCHANGED <<vendor, sessions, link, opened, deviceVars, outcomes>>

\* A session in the pool is used if healthy, else closed.
Lookup(c) ==
    LET d == DeviceOf[c]
        seen == [sessions EXCEPT ![d] = IF @.state = "error" THEN @ ELSE Checked(d)]
    IN  /\ At("lookup", c)
        /\ \/ /\ d \notin Pooled
              /\ GoTo("limit", c)
              /\ UNCHANGED <<sessions, link, opened, candidate>>
           \/ /\ d \in Pooled /\ IsHealthy(d)
              /\ sessions' = [sessions EXCEPT ![d] = Touched(@)]
              /\ GoTo("execute", c)
              /\ UNCHANGED <<link, opened, candidate>>
           \/ /\ d \in Pooled /\ ~IsHealthy(d)
              /\ \/ CloseAll({d}) /\ GoTo("limit", c)
                 \/ CloseAborted({d}, seen) /\ Return
        /\ UNCHANGED <<vendor, running, saved, outcomes, calls>>

\* A bug to be caught: the limit is checked off by one.
RoomForOffByOne(n) == n <= MaxConnections

\* len(self.sessions) >= self.max_connections, negated.
RoomFor(n) == n < MaxConnections

\* _cleanup_idle_sessions: the sessions it closes, one after another.
IdleSessions == {d \in Pooled : IsIdle(d)}

\* At the limit _cleanup_idle_sessions closes the idle sessions; then the limit
\* is checked again.
Limit(c) ==
    LET idle == IdleSessions
        marked == [d \in Devices |-> IF d \in Pooled THEN Checked(d) ELSE NoSession]
    IN  /\ At("limit", c)
        /\ \/ /\ RoomFor(Cardinality(Pooled))
              /\ GoTo("connect", c)
              /\ UNCHANGED <<sessions, link, opened, candidate>>
           \/ /\ ~RoomFor(Cardinality(Pooled))
              /\ CloseAll(idle)
              /\ IF RoomFor(Cardinality(Pooled \ idle)) THEN GoTo("connect", c) ELSE Return
           \/ /\ ~RoomFor(Cardinality(Pooled))
              /\ CloseAborted(idle, marked)
              /\ Return
        /\ UNCHANGED <<vendor, running, saved, outcomes, calls>>

\* _create_session: the adapter connects, or the call ends.  A transport that is open
\* when the adapter's connect fails after all (Arista's first command, Juniper's
\* Config object) has no owner any more and is left to the garbage collector: it is
\* not counted in opened.
CreateSession(c) ==
    LET d == DeviceOf[c]
    IN  /\ At("connect", c)
        /\ \/ /\ sessions' = [sessions EXCEPT ![d] = [state |-> "connected", age |-> 0]]
              /\ link' = [link EXCEPT ![d] = TRUE]
              /\ opened' = [opened EXCEPT ![d] = @ + 1]
              /\ GoTo("execute", c)
           \/ /\ Return
              /\ UNCHANGED <<sessions, link, opened>>
        /\ UNCHANGED <<vendor, deviceVars, outcomes, calls>>

-----------------------------------------------------------------------------
(* apply_config of the adapters, and what may happen on the device.        *)

\* External: level n of change c is in force.
Typed(c, n) == running' = [running EXCEPT ![c] = IF n > @ THEN n ELSE @]

\* External: "write memory" on device d.
WriteMemory(d) == saved' = [c \in Changes |-> IF DeviceOf[c] = d THEN running'[c] ELSE saved[c]]

\* External: load changes into the candidate, or commit it.
Loaded(d, C) ==
    /\ candidate' = [candidate EXCEPT ![d] = @ \union C]
    /\ UNCHANGED <<running, saved>>
Committed(d, C) ==
    /\ candidate' = [candidate EXCEPT ![d] = {}]
    /\ running' = [c \in Changes |-> IF c \in candidate[d] \union C THEN 2 ELSE running[c]]
    /\ WriteMemory(d)
Discarded(d) ==
    /\ candidate' = [candidate EXCEPT ![d] = {}]
    /\ UNCHANGED <<running, saved>>

\* Cisco.  A command the device rejects raises nothing, so "ok" may stand for
\* a part.  An exception may come before, among or after the commands, or from
\* write memory.
CiscoApply(c, result) ==
    LET d == DeviceOf[c]
    IN  /\ vendor[d] = "cisco"
        /\ \/ /\ result = "ok" /\ link[d]
              /\ \E n \in {1, 2} : Typed(c, n)
              /\ WriteMemory(d)
           \/ /\ result = "failed"
              /\ \E n \in (IF link[d] THEN Level ELSE {0}) : Typed(c, n)
              /\ (link[d] /\ WriteMemory(d)) \/ UNCHANGED saved
        /\ UNCHANGED candidate

\* Arista.  The answer comes after all commands; that of write memory is not
\* looked at.  No answer means nothing: the request may have been carried out.
AristaApply(c, result) ==
    LET d == DeviceOf[c]
    IN  /\ vendor[d] = "arista"
        /\ \/ /\ result = "ok" /\ link[d]
              /\ Typed(c, 2)
              /\ WriteMemory(d) \/ UNCHANGED saved
           \/ /\ result = "failed"
              /\ \E n \in (IF link[d] THEN Level ELSE {0}) : Typed(c, n)
              /\ UNCHANGED saved
        /\ UNCHANGED candidate

\* A bug to be caught: a refused commit is not rolled back.
JuniperRefusedKept(d, c) == Loaded(d, {c})

\* ConfigLoadError or CommitError: rollback().
JuniperRefused(d, c) == Discarded(d)

\* Juniper.  Any other exception, be it from load, diff, commit or rollback,
\* leaves apply_config, with the change nowhere, in the candidate or committed.
JuniperApply(c, result) ==
    LET d == DeviceOf[c]
    IN  /\ vendor[d] = "juniper"
        /\ \/ result = "ok" /\ link[d] /\ Committed(d, {c})
           \/ result = "failed" /\ link[d] /\ JuniperRefused(d, c)
           \/ /\ result = "raised"
              /\ \/ Loaded(d, {})
                 \/ link[d] /\ (Loaded(d, {c}) \/ Committed(d, {c}))

\* A bug to be caught: success is reported before the commit.
NetconfApplyUncommitted(c, result) ==
    LET d == DeviceOf[c]
    IN  vendor[d] = "netconf" /\ result = "ok" /\ link[d] /\ Loaded(d, {c})

\* NETCONF.  Every exception is caught and nothing is rolled back.
NetconfApply(c, result) ==
    LET d == DeviceOf[c]
    IN  /\ vendor[d] = "netconf"
        /\ \/ result = "ok" /\ link[d] /\ Committed(d, {c})
           \/ /\ result = "failed"
              /\ \/ Loaded(d, {})
                 \/ link[d] /\ (Loaded(d, {c}) \/ Committed(d, {c}))

\* DeviceSession.execute
Execute(c) ==
    LET d == DeviceOf[c]
    IN  /\ At("execute", c)
        /\ \E result \in {"ok", "failed", "raised"} :
              /\ \/ CiscoApply(c, result) \/ AristaApply(c, result)
                 \/ JuniperApply(c, result) \/ NetconfApply(c, result)
              /\ sessions' = [sessions EXCEPT ![d] =
                     IF result = "raised" THEN [@ EXCEPT !.state = "error"] ELSE Touched(@)]
              /\ outcomes' = [outcomes EXCEPT ![c] = @ \union {result}]
        /\ Return
        /\ UNCHANGED <<vendor, link, opened, calls>>

-----------------------------------------------------------------------------
(* Other operations of the manager and of a session.                       *)

\* DeviceSession.get_config, by a caller that holds the session.
GetConfig(d) ==
    /\ call = IdleCall /\ d \in Pooled
    /\ sessions' = [sessions EXCEPT ![d] = Touched(@)]
    /\ UNCHANGED <<vendor, link, opened, deviceVars, call, outcomes, calls>>

\* health_check_all asks is_healthy of every session.
HealthCheckAll ==
    /\ call = IdleCall
    /\ sessions' = [d \in Devices |->
           IF d \in Pooled /\ sessions[d].state # "error" THEN Checked(d) ELSE sessions[d]]
    /\ UNCHANGED <<vendor, link, opened, deviceVars, call, outcomes, calls>>

\* shutdown
Shutdown ==
    /\ call = IdleCall
    /\ CloseAll(Pooled) \/ CloseAborted(Pooled, sessions)
    /\ UNCHANGED <<vendor, running, saved, call, outcomes, calls>>

-----------------------------------------------------------------------------
(* The environment.                                                        *)

\* Time passes; ages beyond the timeout need not be told apart.
Tick ==
    /\ sessions' = [d \in Devices |->
           IF d \in Pooled /\ sessions[d].age < Aged THEN [sessions[d] EXCEPT !.age = @ + 1]
           ELSE sessions[d]]
    /\ UNCHANGED <<vendor, link, opened, deviceVars, call, outcomes, calls>>

\* The link of a session breaks.  The device may drop its candidate.
LinkBreaks(d) ==
    /\ link[d]
    /\ link' = [link EXCEPT ![d] = FALSE]
    /\ candidate' = [candidate EXCEPT ![d] = {}] \/ UNCHANGED candidate
    /\ UNCHANGED <<vendor, sessions, opened, running, saved, call, outcomes, calls>>

\* Arista's requests are connections of their own: the device can be reached again.
LinkRecovers(d) ==
    /\ vendor[d] = "arista" /\ d \in Pooled /\ ~link[d]
    /\ link' = [link EXCEPT ![d] = TRUE]
    /\ UNCHANGED <<vendor, sessions, opened, deviceVars, call, outcomes, calls>>

\* The device restarts with its saved configuration.
DeviceRestarts(d) ==
    /\ running' = [c \in Changes |-> IF DeviceOf[c] = d THEN saved[c] ELSE running[c]]
    /\ candidate' = [candidate EXCEPT ![d] = {}]
    /\ link' = [link EXCEPT ![d] = FALSE]
    /\ UNCHANGED <<vendor, sessions, opened, saved, call, outcomes, calls>>

Next ==
    \/ \E c \in Changes :
          ExecuteOnDevice(c) \/ Lookup(c) \/ Limit(c) \/ CreateSession(c) \/ Execute(c)
    \/ \E d \in Devices : GetConfig(d) \/ LinkBreaks(d) \/ LinkRecovers(d) \/ DeviceRestarts(d)
    \/ HealthCheckAll \/ Shutdown \/ Tick

Spec == Init /\ [][Next]_vars

-----------------------------------------------------------------------------
(* Properties.                                                             *)

\* The pool never holds more than max_connections sessions, whatever fails in
\* the clean-up at the limit.
PoolBounded == Cardinality(Pooled) <= MaxConnections

\* A device is connected exactly as often as the pool knows: no connection is
\* left open when a session is replaced, and none is closed twice.
NoLeakedConnection == \A d \in Devices : opened[d] = IF d \in Pooled THEN 1 ELSE 0

\* A change reported as successful stays in force, through lost links and restarts
\* of the device: all of it where the adapter commits, at least a part for Cisco.
\* (Arista's adapter does not look at the result of saving.)
SuccessSurvives ==
    \A c \in Changes : "ok" \in outcomes[c] =>
        CASE vendor[DeviceOf[c]] \in {"juniper", "netconf"} -> running[c] = 2
          [] vendor[DeviceOf[c]] = "cisco"                  -> running[c] >= 1
          [] OTHER                                          -> TRUE

\* A change the Juniper adapter only ever reported as failed is not in force and
\* cannot come into force with a later commit.
RefusedLeavesNoTrace ==
    \A c \in Changes :
        vendor[DeviceOf[c]] = "juniper" /\ outcomes[c] = {"failed"}
            => running[c] = 0 /\ c \notin candidate[DeviceOf[c]]
=============================================================================
