# PDSNO: models, checks and proofs

PDSNO is a three-tier network orchestrator: a Global Controller (GC), Regional
Controllers (RC) and Local Controllers (LC) that propose, approve and execute
configuration changes, validate each other's identities and discover devices.
All controllers share one store, the Network Information Base (NIB, SQLite).
Around that core stand signed messages and their keys, operators' logins and
rights, a store of secrets, and the records kept about each change. This
directory holds TLA+ models of these parts, translated from the Python
source, the TLC runs that check them on small instances, and TLAPS proofs of
the properties that should hold for every instance.

## 1. Inventory

| Part | State | Operations | Talks to |
|---|---|---|---|
| NIB locks (`sqlite_store.py`) | table `locks` | `acquire_lock`, `release_lock`, `check_lock` | all controllers |
| NIB configs | table `configs` with a version per row | `create_config_proposal`, `get_config`, `update_config_status` (compare-and-swap) | approval engines of LC, RC; GC |
| NIB devices | table `devices`, MAC unique, version per row | `get_device_by_mac`, `upsert_device` | LC (writes), RC (reads) |
| NIB controllers, events, policies | tables `controllers`, `events` (append-only), `policies` | `upsert_controller`, `write_event`, `distribute_policy`, `get_active_policy` | GC, RC, LC |
| Approval engine (`approval_engine.py`) | cache of requests, one per controller | create, submit, approve, reject, expire, set token, set result; reload from the NIB | NIB configs |
| Execution tokens (`execution_token.py`) | used nonces and a counter, per verifier | issue, verify, cleanup (`revoke_token` only logs) | issuer RC or GC, verifier LC |
| Regional Controller | `proposal_locks`, request cache | `handle_config_proposal`, `handle_execution_result`, `handle_validation_request`, `handle_discovery_report`, `request_validation`, key exchange | GC and LC by HTTP, the NIB |
| Global Controller | pending challenges, sequence counters | `handle_config_proposal`, `handle_validation_request`, `handle_challenge_response`, key exchange | RC, NIB |
| Local Controller | cache of the last scan, token verifier | `submit_config_proposal`, `handle_execution_instruction`, `run_discovery_cycle` | RC, devices, NIB |
| HTTP client and REST server | attempts left, queues of the servers | `send`, `send_with_retry`, the message endpoint | controllers |
| Message authentication (`message_auth.py`) | key, nonces seen, a counter | `sign_message`, `verify_message`, `rotate_key`, nonce clean-up | transport |
| Key exchange and rotation (`key_distribution.py`) | pending private keys, stored keys, rotation metadata | initiate, respond, finalize; register, initiate and complete a rotation | RC, GC, transport |
| Rate limiter (`rate_limiter.py`) | bucket, refusals, lock-out per client | `allow_request`, `allow_authentication_attempt`, resets, idle clean-up | REST server, logins |
| Operator authentication, RBAC (`auth.py`, `rbac.py`) | accounts, sessions, role assignments | create, authenticate, verify session; assign, check, `can_approve_config` | REST API, operators |
| Secret manager and its clients (`secret_manager.py`, `auth.py`) | one file per secret, one index file, a copy of it in memory | store, retrieve, rotate, delete; register device, generate and verify API keys | files |
| Config state machine, rollback manager, audit trail (`config/`) | state per change, backups per device, events | transition, backup, rollback, clean-up, log | driven by `examples/simulate_config_approval.py` |
| Clean-up script (`scripts/cleanup_old_data.py`) | its place in a loop over tables and batches | count, delete a batch, report | NIB, beside the running controllers |
| Connection manager, sessions, adapters | sessions per device | get or create, execute, close | devices |
| Bus, MQTT, REST API, discovery protocols, automation, start-up scripts | none, or files | publish, scan, render, start | outside world |

What is hard here:

* Controllers are processes of their own. Each serves one request at a time
  (an async endpoint that calls a synchronous handler), but they interleave at
  every NIB call, and every NIB call is a transaction of its own. Status updates
  read a version, write with it, and ignore a conflict.
* HTTP calls end by a 30 s timeout without the callee noticing. A late
  execution then races the failure handling of the caller.
* Locks, tokens, challenges and approval requests expire.
* Request caches, lock handles, nonces, challenges and sequence numbers are in
  memory: a restart forgets them while the NIB keeps its rows.
* Memories are bounded by forgetting everything at a limit.
* Two sides of a key exchange install their keys at different moments, and an
  answer may be lost after the first of them.
* Several files stand for one fact (a secret and its index), and several rows of
  different tables refer to each other while a script deletes them in batches.
* A token shown now was issued in the past: role, account or key may have changed.

What makes the parts correct: live locks are exclusive; a device is worked on by
one Regional Controller; a change reaches a device once and only under a token of
a controller entitled to approve it, and under its lock; the NIB's EXECUTED is true;
an identity is given once and announced only when its record is in the NIB; what a
Local Controller takes for known is in the NIB; every call comes to an end; a signed message passes once per loss
of the nonces; the limiter is a meter nobody can stretch by waiting or by being
locked out; a secret read is the one last written; a change that executes was
approved and its history says so; a clean-up's report hides no stale row.
`PROJECT.json` lists the hazards at
their source lines with the properties that watch them.

## 2. Modules

| Module | Models | Composed of |
|---|---|---|
| `NIBLock` | the locks table and its three operations | |
| `ConfigApproval` | the configuration-change pipeline over LC, RC, GC and NIB | the rules of `NIBLock` and `ExecutionToken`, restated for the lock and token fields the pipeline uses |
| `ExecutionToken` | `ExecutionTokenManager`: issue, verify, bounded replay memory | |
| `ControllerValidation` | challenge-response handshake, identity assignment, NIB record and event | |
| `DeviceDiscovery` | discovery cycles, delta detection, device rows, collision check | |
| `DeviceAccess` | the connection pool, its sessions and the adapters' `apply_config` | |
| `NIBRetention` | `cleanup_old_data.py`, batch by batch | `NIBLock`: it runs beside the controllers' lock operations |
| `SecureChannel` | message authentication, HTTP client and endpoint, key exchange, key rotation | |
| `RateMeter` | what the limiter promises, as an abstract specification | |
| `RateLimiter` | token buckets, idle clean-up, lock-outs |  |
| `AccessControl` | login, sessions, roles and approvals by operators | `RateLimiter`; implements `RateMeter` (`INSTANCE ... WITH debt <- ...`) |
| `SecretStore` | `SecretManager`, device and API key credentials in it | |
| `ConfigLifecycle` | config state machine, rollback manager, audit trail | |
| `MC...` | instances for TLC | the module they are named after |
| `...Proofs` | theorems and proofs | the module they are named after; `NIBLockProofs` also `NIBRetention`, `AccessControlProofs` also `RateLimiter`, `DeviceAccessProofs` also `SecretStore`, `TokenLifecycleProofs` is about `ExecutionToken` and `ConfigLifecycle` |

Conventions. A definition that models code carries the name of the function it
models, in camel case. Operators under the comment "A bug to be caught" are
not used by any specification: each is a faulty variant of the definition that
follows it, and substituting it for that definition must make TLC find a
violation; they show that the property it is paired with (in `PROJECT.json`,
"mutants") can fail. Variables marked `history` only record the past for a
property. Constants named `Max...` are bounds. Where two models share a proof module,
one of them has names of its own for its specification (`LifecycleSpec`, `StoreSpec`,
`RSpec`, `ASpec` beside `Spec`).

### NIBLock

A lock row has subject, type, holder, expiry and an id. `AcquireLock` is one
transaction: delete expired rows, refuse if a row is left for subject and type,
else insert. The purge compares `expires_at < now` while `check_lock` asks for
`expires_at > now`; the model keeps the difference. `leases` is what each
controller believes it holds.

### ConfigApproval

State: the NIB (`config`, `locks`, `events`), one handler per controller (`rc`,
`gc`, `lc`, each with a program counter that names its place in the Python
handler), the caches (`rcReq`, `propLocks`, `used`), messages (`inbox`,
`gcInbox`, `instr`), tokens, and the history `applied` (the tokens under which
a change was really made).

A handler is split where another controller can interfere: at NIB transactions
and at HTTP calls. A status update is `ReadConfig` followed by `WriteConfig`; a
handler puts the updates it makes into `todo` and goes on when they are made.
The 12 places of the Regional Controller follow `handle_config_proposal`:
expire old requests, purge locks of finished ones, check and acquire the lock,
review, then either approve, or escalate and wait; issue the token, dispatch,
wait, record the result, unlock and answer. `RCEscalationFails` and
`RCDispatchFails` are the two HTTP failures; the message may be lost, may wait,
or may be under way. Redelivery is `ResendProposal`. Restarts lose memory and
queued requests.

`http` is the set of Regional Controllers that were started with an HTTP client,
any member of the constant `Wirings`; one without answers ESCALATE to a HIGH
proposal.

`HandlerTime` says that a Regional Controller works on a proposal for less than
the 900 s of a lock: two waits of at most 30 s each and a dozen short
transactions. A lock handle (`propLocks`) is the delivery that acquired the lock, so
that `DeviceExclusive` can speak of the handlers that acquired theirs themselves: a
redelivery that finds an older lock of its own goes on under what is left of it.
Classifications are constants per controller; the instances choose ones that disagree.

A dispatch that fails is answered with DENY and the reason EXECUTION_DISPATCH_FAILED
while the instruction may still be executed, so `answer` keeps the reason of a denial:
"DENY" stands for the other reasons. `DenialReasonTells` says that this one reason is
the only denial under which a change may be on the device, and `ExecutionIsLocked` that
it is the only answer by which an execution loses its lock. Both are about proposals
sent once; a second delivery of a refused proposal may well be approved.

The Local Controller sends a proposal once (local_controller.py:513), and nothing calls
`send_with_retry` for proposals. `ResendProposal` is harder than that code: it lets a
proposal arrive again, as it would with the client's retries.

Left out: config text, hashes and signatures (a token is told by proposal,
delivery and issuer), `execute_at`, missing fields, the columns
`execution_token` and `expiry`, which nobody reads, and `reject_request`, which
no controller calls.

### ExecutionToken

Tokens carry nonce, device, expiry and the secret of the region. A verifier
remembers nonces and counts acceptances; at the `CleanupAt`-th it forgets all,
including the one just accepted. Restarts forget too. Each acceptance is recorded with
the number of losses before it, its memory, so that `OncePerMemory` can say what the
replay memory gives while `SingleUse` says what the documents promise. Refused
presentations change nothing, and neither does `revoke_token`, which only logs.

### ControllerValidation

Candidates run `request_validation` and answer challenges; authorities check
freshness, policy, challenge and region, count a sequence number, look up the
id, write the record and then the event, three transactions. A record that cannot be
written ends in an error; an event that cannot be written is only logged
(Global Controller) or not looked at (Regional Controller), and the validation goes on; a
write that raises ends it and leaves the record behind. Records are written by
UPDATE with version 0 or by INSERT, so an id whose record has version 1 cannot
be written again. Signatures and bootstrap tokens are always right here.

### DeviceDiscovery

A device is its MAC address and a snapshot of what the scans tell about it. A
cycle compares the scan with the cache, then for each new or changed device
reads its version, looks it up again inside `upsert_device`, and updates (or
conflicts) or inserts (or raises). The cache gets the device also when the write
conflicted. A report is checked by the Regional Controller device by device
against the current row.

### DeviceAccess

`ConfigApproval` takes the change to a device as one step; this module opens that
step. State: the pool (`sessions`, a state and an idle time per device), what
connects it to the device (`link`, and the history `opened` of connections made
and closed), and the device: how much of each change is in its running and in its
saved configuration (nothing, a part, all), and which changes lie in its candidate.

A call of `execute_on_device` goes through `Lookup` (use the pooled session if
healthy, else close it), `Limit` (at `max_connections` close the idle sessions and
look again), `CreateSession` and `Execute`, where the adapter of the device's vendor
decides what an error leaves behind. `get_config`, `health_check_all` and `shutdown`
are the other operations. Around them links break, devices restart with what they
saved, and time passes. A `connect` that fails after its transport came up leaves that
transport to the vendor library; `opened` does not count it.

One caller uses the manager at a time, which is how a controller that serves one
request at a time would use it; the manager has no lock. `disconnect` may raise
where it talks to the device over a dead transport (Juniper, NETCONF); the raising
session stays in the pool. Sessions are closed in any order. Idle times saturate just
above the timeout, so time needs no bound: `MaxCalls` is the only one. The initial
states cover every assignment of vendors to devices.

Left out: counters and statistics, `translate_intent` (text), `verify_config`, and
`get_running_config`, which change neither the device nor the pool.

### NIBRetention

The script fixes its cutoff once, then takes the tables in the order of `fk_order`;
for each it counts and deletes the stale rows, a batch per transaction. A batch that
would leave a reference behind fails as a whole, is the table's error and ends its
turn; the transaction it began stays open until the next commit or the end, and until
then no other connection can write (`WritersWait`). Between the batches the controllers of `NIBLock` go on, and rows become final
(used, closed, deactivated). Old rows other than locks are there from the start,
any set of them whose references hold: the tables are those of `init_db.py`, and no
controller in the repository writes them.

### SecureChannel

One side (`r`) posts requests and waits, the other (the Global Controller) serves
them. A request may be lost, delayed, delivered twice, throttled, refused, fail after
its nonce was recorded, or be handled; its answer reaches only a client that still
waits for it. `send_with_retry` signs every attempt anew. `TimeOut` is possible at
any point of a call.

Signatures and Diffie-Hellman are ideal: a signature verifies with the key it was
made with, and the two sides of an exchange compute the same key `{i, j}` from their
private values. `deployed` and `hosted` are the wirings the repository's scripts and
examples use: a configured common secret or none, and controllers in the Global's
process or in one of their own (`hosted` matters because the group parameters are
made per process). The rotation scheduler works on the Global's key manager:
`initiate_rotation` and `complete_rotation` are calls its user makes, at any time and
in any order, and its metadata, which no other code reads, is not kept.
`epoch` counts the times the nonces were forgotten, by the clean-up, by a new
authenticator or by a restart.

Left out: TLS, routing, HTTP headers, the text of envelopes.

### RateMeter, RateLimiter and AccessControl

`RateMeter` has one number per client, the debt, which falls with time; a request
passes if its cost still fits, and the resets and restarts that forgive a debt are
counted. `RateLimiter` is the code: lazily refilled buckets
that are dropped when idle, refusals counted, lock-outs, reset when they end. Tokens
are counted in ticks of refill, so the fractions the code keeps as floats are exact.

`AccessControl` has password, MFA, session tokens and role assignments beside the
limiter, for the same clients; no code of the repository runs the limiter before a
login, and neither does the model. A restart draws a new `JWT_SECRET` and forgets users,
roles and buckets; the tokens operators hold survive it. (The secret belongs to the
class: a second manager made in one process would keep it and have no users. The model
has one per process.) `AuthoritiesAgree` compares the role tables of `rbac.py` with the
rules of `approval_engine.py`, which reads a controller's tier off its id. It is about the
three controller roles: the engine takes every other id for a Local Controller, and RBAC
has operators' roles the engine does not know.

The assumptions `Capacity <= MaxIdle` and `Capacity <= LockoutDuration` are what
makes dropping a bucket harmless; the defaults (60 s, 3600 s, 900 s) meet them.

### SecretStore

Every write of a file is two steps, since `open` empties it. Writes fail and the
process ends between any two steps; a new process reads the index (or none, if it
does not parse) and has the same master key or another. `damaged` and `index` record
which interruptions happened, so that the properties can say exactly what survives
which of them. The memory of the device and API key authenticators is lost with the
process while their secrets stay.

### ConfigLifecycle

Changes are driven in the order of the repository's approval example, which ignores
what `transition` returns and asks for a token whatever came of the approval. Two
changes of one device are under way at once. Backups are numbered in the order of
their timestamps, so a device's backups are a set of numbers, and `ToDelete`, the
code's `sorted_backups[:-k]`, is those with at least `k` younger ones; `k` is
positive. The audit history of a change is its last event.
Restoring a device is simulated by the code itself, and so here.

## 3. Runs

All runs use `tlc -config <cfg> <module>` and end within five minutes. All pass but
`token_single_use`, which shows a disagreement of the code with its documents.
`CHECK_DEADLOCK FALSE` is set where the bounds let the system come to rest
(nobody has to propose, retry or crash).

| Run | Instance | Shows |
|---|---|---|
| `nib_lock` | 2 controllers, 1 subject, TTLs 0 and 2, 2 locks, 3 instants; the clean-up script with batches of 1 on any admissible set of old rows | live leases exclusive, grants only if free and no lock blocks for ever, also while the script deletes locks; a started clean-up gets to its report, and what it leaves of the stale rows is reported as an error |
| `approval_contention` | 2 RCs, 1 LC, 1 device, a MEDIUM and a HIGH proposal, with and without HTTP client, every time limit crossed | exclusion on a device, authority of tokens, truth of EXECUTED; only a denial for a failed dispatch leaves open whether the change is made, and takes the lock from an execution |
| `approval_recovery` | 1 HIGH proposal delivered up to twice, 1 restart of any controller | applied at most once, audited first, every delivery is worked off |
| `token_memory` | 3 tokens, 2 verifiers of 2 regions, cleanup at 2, 1 restart | a verifier accepts a token once per memory, refusals for replay are real |
| `token_single_use` | the same without restarts | violated: a token is accepted a second time after the clean-up of the nonces |
| `validation` | a candidate of the GC with 2 tries and 2 candidates of an RC, challenges that expire, writes that fail, 1 restart of any of them | unique identities as long as nobody restarts, an id announced or logged only if its record exists, calls return |
| `discovery` | 2 LCs, 2 devices, 2 snapshots, 3 changes, 1 restart | cache and NIB agree for sole writers, no false collision, the NIB converges for sole observers |
| `device_access` | 2 devices of any two vendors, 3 changes, a pool of 1, 4 calls | pool bounded, connections neither leaked nor closed twice, reported successes survive restarts, refused Juniper changes leave no trace |
| `secure_channel` | 1 RC and the GC with clocks 1 apart (tolerance 1), nonce clean-up after 2 messages, 2 attempts, 4 random values, 2 generations of a configured secret, 2 versions of a key, 2 losses of the nonces | a transmission passes once per loss of the nonces; the GC's key for an RC is the RC's or a younger one |
| `access_control` | 1 user, 4 instants, burst of 1.5 requests, lock-out after 2 refusals, 1 reset, 1 restart, 2 account roles, 4 RBAC roles | the limiter implements the meter, sessions name accounts of this process, RBAC and the approval engine agree about controllers |
| `secret_store` | a device password and an API key, 3 values, 2 faults, 2 master keys, deadlines | latest value or nothing, what was stored is kept, deadlines outlive rotations |
| `config_lifecycle` | a LOW and a MEDIUM change of one device, 3 backups, 2 rollbacks, clean-ups keeping 1 or 2 | what executes was approved, the newest backup survives, the audit history explains the state |

The bounds are the smallest at which every action fires, every time limit can be
crossed in both orders with its neighbours, and two actors compete for each
shared row. Contention of two proposals and recovery (restart, redelivery) of one multiply
the state space and are separate runs; the proofs of section 4 do without bounds.

Seen while modelling. The properties of the passing runs hold of the code as it is;
these are the places where a document, a comment or a reader would expect more. One of
them, the token accepted twice, is the violation `token_single_use`; the others are
observations that no run checks.

The pipeline, validation and discovery:

* when a dispatch times out the answer is DENY and the lock is released although the
  instruction may still execute (regional_controller.py:725;
  config_approval_logic.md:697 and :725 hold the lock to the end of the execution);
* a request rebuilt from the NIB after a restart is as it was when it was created,
  not as its row says now;
* a restarted Global Controller counts identities from 1 again, so an id can be given
  twice (02_controller_validation_sequence.md:461 asks for a new entry), and so can one
  that the Global and a Regional Controller, or two of one region, number on their own;
* the loser of a version conflict has the device in its cache and never writes it
  again (hence "sole" writers and observers);
* a redelivery reuses a lock without extending it (regional_controller.py:993);
* FAILED is recorded at a dispatch timeout although the change may be made
  (regional_controller.py:1057; the threat model rules out assumed transitions);
* the exception of a failed escalation keeps the lock until it expires
  (regional_controller.py:833; config_approval_logic.md:640: "Default DENY; release
  locks");
* a proposal denied for a lock conflict stays PENDING
  (regional_controller.py:616, config_approval_logic.md:690);
* a LOW proposal is approved by the Local Controller itself
  (local_controller.py:489);
* a token is accepted again after the nonce cleanup (execution_token.py:253, :15; the
  run `token_single_use`), and revocation only logs (execution_token.py:216);
* an event write that raises leaves a controller record without certificate, and one
  that fails a validation without event (global_controller.py:488, :503;
  02_controller_validation_sequence.md:464: "Both writes must succeed");
* the collision check runs after the reporter has overwritten the row
  (regional_controller.py:581);
* disappeared devices are never written as `inactive`
  (device_discovery_sequence.md:379);
* bootstrap tokens are not consumed (02_controller_validation_sequence.md:562);
* `scripts/run_controller.py:304` calls `request_validation` on a Local
  Controller, which has none;
* a challenge survives a response with another temporary id
  (global_controller.py:383);
* `execute_on_device` answers success although the adapter reported a failure in
  `result` (connection_manager.py:198);
* a session whose transport is dead counts as healthy until it is idle, and is not
  reconnected (session.py:109; connection_manager.py:26 lists "Automatic
  reconnection");
* a `disconnect` that raises keeps its session in the pool for good and ends
  clean-up and shutdown at that session (netconf_adapter.py:48);
* the NETCONF adapter leaves a change in the candidate when the commit fails, so a
  later commit brings it into force (netconf_adapter.py:135);
* Arista's adapter does not look at the result of `write memory`
  (arista_adapter.py:314), and Cisco's reports success for commands the device
  rejected (cisco_ios_adapter.py:197).

Messages and keys:

* a message is accepted again after the nonces were cleared, while it is still fresh
  (message_auth.py:197), hence "per loss of the nonces";
* the Diffie-Hellman parameters are generated per process, so an exchange between two
  processes is always rejected;
* after validation the exchange looks its key up under the assigned id while it was
  stored under the temporary one, and reports failure;
* the Global Controller's endpoint gets no authenticator from an exchange; once an
  operator sets one, it refuses the unsigned `KEY_EXCHANGE_INIT`, and it has one key
  for all Regional Controllers;
* a late or duplicated init replaces the Global's key for a controller that goes on
  with the older one (hence "or a younger one");
* `complete_rotation` deletes a key whether or not a rotation was begun;
* `register_key` takes ids that have no key, and `initiate_rotation` stores the new key
  before it looks for the metadata of the old one, replacing a successor made earlier.

Access and secrets:

* nothing calls the rate limiter before `authenticate` (auth.py:381);
* the count of an API key's requests is never set back, although its limit is named
  per hour; a wrong MFA code does not count as a failed attempt;
* `check_permission` without a context takes every condition of a permission as met;
* `retry_after` is truncated to whole seconds, and the limiter reads the wall clock;
* a torn `metadata.json` is read as an empty index: all secrets are lost to the
  process although their files are whole;
* rotating an expired secret reports success and leaves it expired.

Records and retention:

* the audit trail logs EXECUTED or ROLLED_BACK also when the state machine refused
  the transition;
* `cleanup_old_backups(keep_count=0)` deletes nothing, as `[:-0]` is empty, although its
  docstring has it keep that number (rollback_manager.py:323); the model's counts are
  positive;
* `config_approvals` has no status filter in the clean-up, and a token that was never
  used keeps its config record from being deleted, as an error in every run;
* the tables of `init_db.py`, which the script cleans up, are not those of `NIBStore`.

Fairness. Liveness properties assume weak fairness of each controller's own
steps only: a running process goes on with the request it handles, an HTTP call
ends by an answer or its timeout, and a Local Controller starts its periodic
cycle. Nobody is obliged to propose, retry, crash or be delivered in time, and
time need not pass except in `NIBLock` and `NIBRetention`, where a lock expires
because the clock advances. A clean-up script that was started keeps running
(`WF` on its steps); nobody has to start it.

## 4. Proofs

The proofs are checked by TLAPS 1.4.5 with SMT, Zenon and LS4. The constants
are arbitrary but for the named assumptions (bounds are natural numbers,
`CleanupAt` is positive, distinct roles have distinct names).

* `NIBLockProofs`: `TypeCorrect`, `RowsUnique`, `Exclusion`, `GrantsOnlyFree`.
  Exclusion is not inductive, since it says nothing about rows. `IInv` adds that
  ids are unique and issued in order, that a lease carries its owner's name, and
  that an unexpired lease is backed by its row; with one row per subject,
  exclusion follows.
  For the clean-up script beside the locks, for any old rows whose references hold, any
  retention time and batch size: `RetentionInvariance`, `ExclusionBesideCleanup`,
  `ReportsAreComplete`, `GrantsBesideCleanup`. `RInv` adds to `IInv` that the script's
  cutoff lies before now (it was fixed at least a retention time ago, and the clock only
  advances), so a lock it deletes backs no live lease; that rows of the other tables are
  not lock rows; that of the rows stale at the start, those of tables already done are
  gone or reported (`OwedReported`); and that past the locks' turn no lock is left
  that had expired before the cutoff (`LocksGone`), since locks taken meanwhile expire
  later.
* `ConfigApprovalProofs`, for any controllers, proposals, devices, wirings and
  classifications: `TypeCorrect`, `AuthorityHolds`, `HighAudited`, `ExecutedTruthful`,
  `DevicesExclusive`, `AtMostOnce`, `DenialsTell`, `ExecutionsAreLocked`. None of the
  properties is inductive; `IInv` has six parts. `Typed` gives each place of a handler
  what it holds there. `Deliveries`: a delivery is in the inbox or with its handler, which
  has worked on it for at most `HandlerTime`. `Authority`: every token on its way, from
  the decision to the device, was issued for its proposal by the controller entitled to,
  and the approval of a HIGH change is logged already. `Truth`: whoever is about to
  write EXECUTED knows of a change that was made, and made changes stay made, so lost
  and late updates do no harm. `Locking`: one row per device, and a handler that acquired
  its lock finds it in the table until it is done, because the lock's lifetime exceeds
  `HandlerTime`; two handlers on one device would need two rows. `Once`: without a
  restart the engine's cache remembers what was dispatched, and with one delivery only
  one handler comes that far; in both cases a change is in one place only of dispatch,
  instruction, execution and done; and (`Called`) an instruction is under way or at work
  only while its result is awaited or after the wait was given up, so an execution has
  either a handler that holds its lock or the answer EXECUTION_DISPATCH_FAILED.
  All steps of a handler go along one table of arrows between its places (`Arrows`),
  which keeps the cases of each part few.
* `TokenLifecycleProofs`: `TypeCorrect`, `MemoryIsCounted`, `AcceptedOncePerMemory`,
  `ReplaysAreReal`. `OncePerMemory` needs `Remembered`: a nonce accepted since the last
  loss of memory is among the nonces remembered.
  For the life cycle, with any changes, devices and retention counts: `ExecutedApproved`,
  `AuditExplains`, `NewestIsKept`. `Reached` says for each state of the machine which of
  the driver's steps were taken, which event was logged last and that the change was
  approved since it was a draft; `Kept` says that a device's newest backup is listed, is
  the largest number listed, and that no backup is listed for two devices: with no
  younger one, it is never among `ToDelete`.
* `SecureChannelProofs`, for any Regional Controllers, clock skews, tolerances, retries,
  clean-up thresholds and key versions: `HandledAtMostOnce`, `ExchangedKeysAgree`.
  `Numbered`: a signed request has its own number as nonce, and an exchange
  that is waited for is the one whose private key is pending. `Replay`: the nonces let
  through in the present epoch are those the authenticator remembers, so a second pass
  needs a loss. `Agreement`: no key the Global Controller holds for a Regional one is older
  than the one that side uses, nor than one that an answer on its way will give it.
* `ControllerValidationProofs`: `TypeCorrect`, `ValidatedAreRecorded`,
  `RecordsPermitted`, `IdentitiesAreUnique`. `IInv` says that an authority at the event
  has its record in the table, that records are for candidates their authority is in
  charge of, and that, without restarts and with one authority per type and region, no
  record has a number its authority has not counted past (`NumbersFresh`), so that a new
  id has no record and a record keeps its holder.
* `DeviceDiscoveryProofs`: `TypeCorrect`, `SoleWritersInSync`, `CollisionsAreReal`.
  A cycle that is writing a device nobody else has written holds the row's
  current version, so its update cannot conflict; who reports, writes or scans
  a device has seen it.
* `DeviceAccessProofs`: `TypeCorrect`, `PoolIsBounded`, `ConnectionsAreKnown`,
  `SuccessesSurvive`, `RefusalsLeaveNoTrace`, for any devices, changes, vendors and
  pool size. `IInv` adds that the place of the call agrees with the pool (there is
  room when it connects, a session when it executes); that what lies in a candidate
  is for that device; that a successful change is saved as well as running, since a restart
  brings back what was saved; and that a change untried or refused is neither
  running, nor saved, nor in the candidate.
  For the store of secrets, with any secrets, deadlines, master keys and faults:
  `WhatWasStoredIsKept`, `HandsOutTheLatest`, `DeadlinesOutliveRotations`, the last two
  action properties. `FilesAreLatest`: a whole file holds the latest value, and a secret
  has one unless a write of it is under way or was cut off. `IndexIsTrue`: as long as the
  index was not lost, memory knows every secret with its deadline, and `metadata.json`
  agrees with it whenever no rewrite of it is under way or failed, so a restart reads back
  what memory held. `CallIsRight`: a retrieval under way found the latest value in time,
  and a store under way carries the deadline its owner gave, through rotations too.
* `AccessControlProofs`, for any clients, rates, burst sizes, idle times, lock-outs and
  assigned roles: `LimiterCorrect`, `MeterIsImplemented`, `SessionsAreSound`,
  `AuthoritiesAlwaysAgree`.
  The refinement maps a bucket to the time until it is full (`Debt`), none to 0. A
  drop of an idle bucket, or a reset at the end of a lock-out, is a stutter only if
  that debt is 0 by then; for lock-outs this is `LockoutCovers`: a lock-out in force
  ends no earlier than the bucket would be full. `SessionInv` says that a token
  signed with the present secret names an account of this process and the role it was
  created with, which no operation changes. `ApprovalRights` reads off the role
  table who may approve what, and `TablesAgree` compares it with the engine's rules.

Each proof has the same shape: `InitIInv`, one lemma per larger action, `NextIInv`
with one case per action, `Invariance` by temporal logic, and the theorems as
consequences.

A proof attempt found one fault of a model: `MaxSensitivity` in `ConfigApproval` was a
`CASE` whose arms overlapped for a HIGH and a MEDIUM level, which TLC takes in order and a
prover need not; it is now stated without overlap.

Only model-checked: the liveness properties `LocksAreTimeBounded`, `CleanupEnds`,
`ProposalsWorkedOff`, `CallsReturn` and `SoleObserverConverges`, since the prover does not
reason about fairness. Every invariant and every action property of a passing run, and the
refinement of `RateMeter`, has a theorem.

## 5. Not modelled

* Cryptography (signatures, hashes, DH, certificates: `ControllerAuthenticator` has no
  state but a lookup table and no caller), text (config lines, templates,
  classification patterns), vendor libraries and protocols on the wire.
* NIB policies: `distribute_policy` and `get_active_policy` have no caller among the
  controllers. The context manager is one YAML file behind a lock; the algorithm base
  class is a template for subclasses.
* Message bus, MQTT and REST API: the bus is a synchronous call, and no protocol of
  the controllers goes over the other two.
* Discovery protocols and automation: pure input and external programs.
* Logging, metrics, deployment, start-up scripts.

`PROJECT.json` has the full list with reasons.

## 6. Plan

Done: locks, the configuration pipeline, tokens, validation, discovery and device
access, since changes to devices are what the system is for; then messages and keys,
logins and rights, secrets, records of changes, and retention.

All safety properties the passing runs check are proved. What is left:

1. type correctness of `SecureChannel`, `ConfigLifecycle` and `SecretStore` as theorems
   of their own (it is part of their inductive invariants);
2. abstract specifications of the locks and of the change pipeline (a change is proposed,
   allowed, made at most once) with refinement proofs from the invariants above;
3. the non-temporal half of the liveness arguments (a measure that every fair step
   decreases) where it can be stated as an action property.
