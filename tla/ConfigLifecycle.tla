---------------------------- MODULE ConfigLifecycle ----------------------------
(***************************************************************************)
(* The life of a configuration record at a Local Controller: the state     *)
(* machine of pdsno/config/config_state.py, the backups and rollbacks of   *)
(* pdsno/config/rollback_manager.py and the audit trail of                 *)
(* pdsno/config/audit_trail.py, driven in the order of                     *)
(* examples/simulate_config_approval.py.  That driver ignores what         *)
(* transition() returns; several changes are under way at once.            *)
(*                                                                         *)
(* A backup is its number (they are made one after another, so numbers     *)
(* order them as created_at does); the text of configurations and audit    *)
(* events is left out, and a configuration's audit history is its last     *)
(* event.                                                                  *)
(***************************************************************************)
EXTENDS Naturals, Sequences, FiniteSets

CONSTANTS
    Configs,
    DeviceOf,       \* config -> device
    SensitivityOf,  \* config -> LOW, MEDIUM or HIGH
    OneEngine,      \* configs approved by the engine object that holds the request;
                    \* another engine without a NIB does not know it
    KeepCounts,     \* keep_count values cleanup_old_backups is called with, from 1
    None,
    MaxBackups, MaxRollbacks    \* bounds of the model

\* The devices that changes are for
Targets == {DeviceOf[c] : c \in Configs}

States == {"DRAFT", "PENDING_APPROVAL", "APPROVED", "EXECUTING", "EXECUTED", "FAILED",
           "ROLLED_BACK", "CANCELLED"}

ASSUME LifecycleAssumption ==
    /\ None \notin Nat /\ None \notin States \cup {"issued", "verified", "rejected"}
    /\ KeepCounts \subseteq Nat \ {0}
    /\ MaxBackups \in Nat

VARIABLES
    state,          \* config -> ConfigState, or None before it is created
    request,        \* config -> state of its approval request, or None
    token,          \* config -> None, "issued", "verified" or "rejected"
    execution,      \* config -> "open", "started", "succeeded" or "failed", to the driver
    own,            \* config -> the backup made for it, or None
    backups,        \* backup ids -> device, those that exist
    device_backups, \* device -> set of backup ids; the code sorts its list by time
    rollback_events,    \* sequence of [config, backup, success]
    events,         \* audit trail: config -> the last event of its history, or None
    created,        \* number of backups made so far
    newest,         \* history: device -> the backup made last, or None
    approved        \* history: configs that were APPROVED since they were last DRAFT

lifecycleVars == <<state, request, token, execution, own, backups, device_backups,
                   rollback_events, events, created, newest, approved>>
backupVars == <<backups, device_backups, created, newest>>

LifecycleInit ==
    /\ state = [c \in Configs |-> None]
    /\ request = [c \in Configs |-> None]
    /\ token = [c \in Configs |-> None]
    /\ execution = [c \in Configs |-> "open"]
    /\ own = [c \in Configs |-> None]
    /\ backups = <<>>
    /\ device_backups = [d \in Targets |-> {}]
    /\ rollback_events = <<>>
    /\ events = [c \in Configs |-> None]
    /\ created = 0
    /\ newest = [d \in Targets |-> None]
    /\ approved = {}

--------------------------------------------------------------------------------
\* ConfigStateMachine

\* A bug to be caught: the transition the comment in config_state.py says was
\* never valid.
VALID_TRANSITIONS_Early ==
    [s \in States |->
        CASE s = "DRAFT" -> {"PENDING_APPROVAL", "APPROVED", "CANCELLED"}
          [] s = "PENDING_APPROVAL" -> {"APPROVED", "EXECUTING", "CANCELLED", "DRAFT"}
          [] s = "APPROVED" -> {"EXECUTING", "CANCELLED"}
          [] s = "EXECUTING" -> {"EXECUTED", "FAILED"}
          [] s = "EXECUTED" -> {"ROLLED_BACK"}
          [] s = "FAILED" -> {"ROLLED_BACK", "DRAFT"}
          [] s = "ROLLED_BACK" -> {"DRAFT"}
          [] s = "CANCELLED" -> {}]

VALID_TRANSITIONS ==
    [s \in States |->
        CASE s = "DRAFT" -> {"PENDING_APPROVAL", "APPROVED", "CANCELLED"}
          [] s = "PENDING_APPROVAL" -> {"APPROVED", "CANCELLED", "DRAFT"}
          [] s = "APPROVED" -> {"EXECUTING", "CANCELLED"}
          [] s = "EXECUTING" -> {"EXECUTED", "FAILED"}
          [] s = "EXECUTED" -> {"ROLLED_BACK"}
          [] s = "FAILED" -> {"ROLLED_BACK", "DRAFT"}
          [] s = "ROLLED_BACK" -> {"DRAFT"}
          [] s = "CANCELLED" -> {}]

\* transition() refuses what the table does not allow and leaves the state.
Transition(c, to) ==
    LET valid == to \in VALID_TRANSITIONS[state[c]]
    IN  /\ state' = [state EXCEPT ![c] = IF valid THEN to ELSE @]
        /\ approved' = IF ~valid THEN approved
                       ELSE IF to = "APPROVED" THEN approved \cup {c}
                       ELSE IF to = "DRAFT" THEN approved \ {c}
                       ELSE approved

\* AuditTrail.log_event, through its log_* wrappers.  Token events are filed
\* under the token, not the configuration.
Log(type, c) == events' = [events EXCEPT ![c] = type]

--------------------------------------------------------------------------------
\* Creation and approval

\* The record is made and its creation logged.
CreateConfig(c) ==
    /\ state[c] = None
    /\ state' = [state EXCEPT ![c] = "DRAFT"]
    /\ Log("CONFIG_CREATED", c)
    /\ UNCHANGED <<request, token, execution, own, backupVars, rollback_events, approved>>

\* LOW: submit_request approves at once.
SubmitLow(c) ==
    /\ state[c] # None /\ request[c] = None
    /\ SensitivityOf[c] = "LOW"
    /\ request' = [request EXCEPT ![c] = "APPROVED"]
    /\ Transition(c, "APPROVED")
    /\ Log("CONFIG_APPROVED", c)
    /\ UNCHANGED <<token, execution, own, backupVars, rollback_events>>

\* MEDIUM and HIGH wait for an approval.
Submit(c) ==
    /\ state[c] # None /\ request[c] = None
    /\ SensitivityOf[c] # "LOW"
    /\ Transition(c, "PENDING_APPROVAL")
    /\ request' = [request EXCEPT ![c] = "PENDING_APPROVAL"]
    /\ Log("CONFIG_SUBMITTED", c)
    /\ UNCHANGED <<token, execution, own, backupVars, rollback_events>>

\* approve_request: unknown to the approving engine, nothing happens, and the
\* driver goes on; otherwise the driver enters the approval.
Approve(c) ==
    /\ request[c] = "PENDING_APPROVAL"
    /\ c \in OneEngine
    /\ request' = [request EXCEPT ![c] = "APPROVED"]
    /\ Transition(c, "APPROVED")
    /\ Log("CONFIG_APPROVED", c)
    /\ UNCHANGED <<token, execution, own, backupVars, rollback_events>>

\* Withdrawn, or returned for revision: then everything is asked for anew.
Withdraw(c) ==
    /\ state[c] # None
    /\ Transition(c, "CANCELLED")
    /\ UNCHANGED <<request, token, execution, own, backupVars, rollback_events, events>>

Revise(c) ==
    /\ state[c] # None /\ state[c] # "DRAFT"
    /\ "DRAFT" \in VALID_TRANSITIONS[state[c]]
    /\ Transition(c, "DRAFT")
    /\ request' = [request EXCEPT ![c] = None]
    /\ token' = [token EXCEPT ![c] = None]
    /\ own' = [own EXCEPT ![c] = None]
    /\ execution' = [execution EXCEPT ![c] = "open"]
    /\ UNCHANGED <<backupVars, rollback_events, events>>

--------------------------------------------------------------------------------
\* Token, backup and execution

\* The driver asks for a token whatever came of the approval.
AskForToken(c) ==
    /\ request[c] # None /\ token[c] = None
    /\ token' = [token EXCEPT ![c] = "issued"]
    /\ UNCHANGED <<state, request, execution, own, backupVars, rollback_events, events, approved>>

\* verify_token, which may find it expired; then the driver stops.
CheckToken(c) ==
    /\ token[c] = "issued"
    /\ \/ token' = [token EXCEPT ![c] = "verified"]
       \/ token' = [token EXCEPT ![c] = "rejected"]
    /\ UNCHANGED <<state, request, execution, own, backupVars, rollback_events, events, approved>>

\* RollbackManager.create_backup, before the execution.
CreateBackup(c) ==
    /\ token[c] = "verified" /\ own[c] = None
    /\ created < MaxBackups
    /\ created' = created + 1
    /\ backups' = [b \in DOMAIN backups \cup {created + 1} |->
                        IF b = created + 1 THEN DeviceOf[c] ELSE backups[b]]
    /\ device_backups' = [device_backups EXCEPT ![DeviceOf[c]] = @ \cup {created + 1}]
    /\ newest' = [newest EXCEPT ![DeviceOf[c]] = created + 1]
    /\ own' = [own EXCEPT ![c] = created + 1]
    /\ UNCHANGED <<state, request, token, execution, rollback_events, events, approved>>

\* The driver moves to EXECUTING, and does not look whether it got there.
Start(c) ==
    /\ own[c] # None /\ execution[c] = "open"
    /\ execution' = [execution EXCEPT ![c] = "started"]
    /\ Transition(c, "EXECUTING")
    /\ UNCHANGED <<request, token, own, backupVars, rollback_events, events>>

\* A bug to be caught: a failure is not entered in the audit trail.
FinishUnlogged(c) ==
    /\ execution[c] = "started"
    /\ \/ /\ execution' = [execution EXCEPT ![c] = "succeeded"]
          /\ Transition(c, "EXECUTED")
          /\ Log("CONFIG_EXECUTED", c)
       \/ /\ execution' = [execution EXCEPT ![c] = "failed"]
          /\ Transition(c, "FAILED")
          /\ UNCHANGED events
    /\ UNCHANGED <<request, token, own, backupVars, rollback_events>>

\* The outcome is entered and logged.
Finish(c) ==
    /\ execution[c] = "started"
    /\ \/ /\ execution' = [execution EXCEPT ![c] = "succeeded"]
          /\ Transition(c, "EXECUTED")
          /\ Log("CONFIG_EXECUTED", c)
       \/ /\ execution' = [execution EXCEPT ![c] = "failed"]
          /\ Transition(c, "FAILED")
          /\ Log("CONFIG_FAILED", c)
    /\ UNCHANGED <<request, token, own, backupVars, rollback_events>>

--------------------------------------------------------------------------------
\* RollbackManager

\* get_device_backups
DeviceBackups(d) == device_backups[d] \cap DOMAIN backups

\* get_latest_backup
LatestBackup(d) ==
    IF DeviceBackups(d) = {} THEN None
    ELSE CHOOSE b \in DeviceBackups(d) : \A o \in DeviceBackups(d) : o <= b

\* rollback(): an event is recorded in each case; the restoring itself is
\* simulated by the code.  On success the driver enters and logs it.
Rollback(c, b) ==
    LET success == b \in DOMAIN backups /\ backups[b] = DeviceOf[c]
    IN  /\ Len(rollback_events) < MaxRollbacks
        /\ rollback_events' = Append(rollback_events,
                [config |-> c, backup |-> b, success |-> success])
        /\ \/ success /\ Transition(c, "ROLLED_BACK") /\ Log("CONFIG_ROLLED_BACK", c)
           \/ ~success /\ UNCHANGED <<state, approved, events>>
        /\ UNCHANGED <<request, token, execution, own, backupVars>>

\* The driver's own rollback, to the backup it made for the change.
RollbackOwn(c) ==
    /\ execution[c] \in {"succeeded", "failed"}
    /\ Rollback(c, own[c])

\* auto_rollback: to the device's latest backup; without one it gives up.
AutoRollback(c) ==
    /\ execution[c] = "failed"
    /\ LatestBackup(DeviceOf[c]) # None
    /\ Rollback(c, LatestBackup(DeviceOf[c]))

\* A bug to be caught: sorted with the youngest first, so that the oldest are kept.
ToDeleteYoungest(d, keep) ==
    {b \in DeviceBackups(d) : Cardinality({o \in DeviceBackups(d) : o < b}) >= keep}

\* sorted_backups[:-keep_count]: the backups with keep_count or more younger ones,
\* none when there are no more than keep_count.  keep_count = 0, which no caller
\* passes, is left out: its slice [:-0] is empty and deletes nothing, where the
\* docstring ("Number of backups to keep") has everything deleted.
ToDelete(d, keep) ==
    {b \in DeviceBackups(d) : Cardinality({o \in DeviceBackups(d) : o > b}) >= keep}

\* cleanup_old_backups
CleanupOldBackups(d, keep) ==
    /\ ToDelete(d, keep) # {}
    /\ backups' = [b \in DOMAIN backups \ ToDelete(d, keep) |-> backups[b]]
    /\ device_backups' = [device_backups EXCEPT ![d] = @ \ ToDelete(d, keep)]
    /\ UNCHANGED <<state, request, token, execution, own, rollback_events, events,
                   created, newest, approved>>

--------------------------------------------------------------------------------

LifecycleNext ==
    \/ \E c \in Configs :
        \/ CreateConfig(c) \/ SubmitLow(c) \/ Submit(c) \/ Approve(c)
        \/ Withdraw(c) \/ Revise(c)
        \/ AskForToken(c) \/ CheckToken(c) \/ CreateBackup(c) \/ Start(c) \/ Finish(c)
        \/ RollbackOwn(c) \/ AutoRollback(c)
    \/ \E d \in Targets, keep \in KeepCounts : CleanupOldBackups(d, keep)

LifecycleSpec == LifecycleInit /\ [][LifecycleNext]_lifecycleVars

--------------------------------------------------------------------------------
\* Properties

\* config_state.py transition: whatever the driver attempts, with or without
\* an approval, a token or an earlier failure, a change is executing, executed
\* or failed only if it was approved after it last was a draft.
ExecutedWasApproved ==
    \A c \in Configs :
        state[c] \in {"EXECUTING", "EXECUTED", "FAILED", "ROLLED_BACK"} => c \in approved

\* rollback_manager.py cleanup_old_backups and get_latest_backup: once a backup
\* of a device was made, the one made last is always there and is the one an
\* automatic rollback restores, whatever clean-ups ran with a keep_count of at least 1.
NewestSurvives ==
    \A d \in Targets : newest[d] # None => LatestBackup(d) = newest[d]

\* audit_trail.py get_config_history with config_state.py: the last event in
\* the history of a change that is executing, executed, failed or rolled back
\* is the one that brought it there, although the driver also logs steps the
\* state machine refused.
AuditExplainsState ==
    \A c \in Configs :
        state[c] \in {"EXECUTING", "EXECUTED", "FAILED", "ROLLED_BACK"} =>
            events[c] = CASE state[c] = "EXECUTING" -> "CONFIG_APPROVED"
                          [] state[c] = "EXECUTED" -> "CONFIG_EXECUTED"
                          [] state[c] = "FAILED" -> "CONFIG_FAILED"
                          [] state[c] = "ROLLED_BACK" -> "CONFIG_ROLLED_BACK"

================================================================================
