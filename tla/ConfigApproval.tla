--------------------------- MODULE ConfigApproval ----------------------------
(***************************************************************************)
(* The configuration-change pipeline of PDSNO: a Local Controller proposes *)
(* a change of a device, its Regional Controller locks the device, reviews *)
(* the proposal (escalating a HIGH one to the Global Controller), issues   *)
(* an execution token and sends the Local Controller the instruction to    *)
(* execute; the result travels back and the device is unlocked.            *)
(*                                                                         *)
(* A controller serves one request at a time (an async endpoint that calls *)
(* a synchronous handler), so each controller is one process here.  What   *)
(* interleaves is the controllers, and what they share is the NIB.  Every  *)
(* NIBStore call is a transaction of its own, hence a step of its own; a   *)
(* status update is two of them, get_config and then update_config_status  *)
(* with the version just read, whose result no caller looks at.            *)
(*                                                                         *)
(* An HTTP call fails, by a lost connection or by the 30 s timeout, at any *)
(* moment of the wait and without the callee noticing.                     *)
(***************************************************************************)
EXTENDS Integers, Sequences, FiniteSets

CONSTANTS
    Proposals,        \* request ids (uuid4): distinct
    Devices, LCs, RCs,
    GC,               \* "global_cntl_1"
    None,             \* no proposal, no token, no approver
    DeviceOf,         \* [Proposals -> Devices]
    OriginOf,         \* [Proposals -> LCs]: the proposing Local Controller
    TargetOf,         \* [Proposals -> RCs]: the rc_id it sends the proposal to
    LCSens,           \* what each controller's own classifier says of the
    RCSens,           \*   config lines: [Proposals -> Sensitivity]
    GCSens,
    Wirings,          \* the sets of Regional Controllers that may have an HTTP client;
                      \*   the others are wired by the in-process bus only
    LockTTL,          \* 900 s
    RCTokenTTL,       \* 15 min
    GCTokenTTL,       \* 5 min
    ApprovalTimeout,  \* 60 min
    HandlerTime,      \* the longest a Regional Controller works on a proposal
    MaxTime,          \* bound on the clock
    MaxSends,         \* bound: times a proposal is sent (1 + retries)
    MaxCrashes        \* bound: controller restarts in one behaviour

Sensitivity == {"LOW", "MEDIUM", "HIGH"}

ASSUME PipelineAssumption ==
    /\ DeviceOf \in [Proposals -> Devices]
    /\ OriginOf \in [Proposals -> LCs]
    /\ TargetOf \in [Proposals -> RCs]
    /\ LCSens \in [Proposals -> Sensitivity]
    /\ RCSens \in [Proposals -> Sensitivity]
    /\ GCSens \in [Proposals -> Sensitivity]
    /\ Wirings \subseteq SUBSET RCs

ASSUME ControllersDistinct ==
    /\ LCs \intersect RCs = {}
    /\ GC \notin LCs \union RCs
    /\ None \notin Proposals \union LCs \union RCs \union {GC}

ASSUME TimeAssumption ==
    /\ LockTTL \in Nat /\ RCTokenTTL \in Nat /\ GCTokenTTL \in Nat
    /\ ApprovalTimeout \in Nat /\ HandlerTime \in Nat
    /\ MaxTime \in Nat /\ MaxSends \in Nat /\ MaxCrashes \in Nat
    \* Two HTTP waits of 30 s and a dozen NIB calls, against 900 s.
    /\ HandlerTime < LockTTL

Controllers == LCs \union RCs \union {GC}

Unread == -1       \* get_config not called yet
NoLock == 0        \* no entry in proposal_locks; delivery numbers start at 1

VARIABLES
    http,       \* the Regional Controllers with an HTTP client; never changes
    now,        \* the clock
    \* The NIB
    config,     \* config[p]: the row of the configs table
    locks,      \* the CONFIG_LOCK rows of the locks table
    events,     \* the event log (append-only), what the pipeline writes to it
    \* The controllers
    rc,         \* rc[r]: the Regional Controller's request handler
    rcReq,      \* rcReq[p]: p's entry in the request cache of RC TargetOf[p]
    propLocks,  \* propLocks[p]: p's entry in proposal_locks of that RC
    gc,         \* the Global Controller's request handler
    lc,         \* lc[l]: the Local Controller's execution handler
    used,       \* used[l]: the nonces (here: tokens) l has seen
    todo, ver,  \* the NIB updates a controller has still to make, and the
                \*   version it has read for the first of them
    \* Tokens and messages
    tokens,     \* every execution token issued
    sent,       \* sent[p]: how often p has been sent to its RC
    inbox,      \* CONFIG_PROPOSAL requests that wait at a Regional Controller
    gcInbox,    \* CONFIG_PROPOSAL requests that wait at the Global Controller
    instr,      \* EXECUTION_INSTRUCTION requests that wait at a Local Controller
    answer,     \* answer[p]: the Regional Controller's last answer about p
    crashes,    \* restarts so far
    applied     \* history: applied[p]: the tokens under which change p was made

nibVars  == <<config, locks, events>>
lockVars == <<locks, propLocks>>
lcVars   == <<lc, used>>
netVars  == <<sent, inbox, gcInbox, instr, answer>>
vars == <<http, now, config, locks, events, rc, rcReq, propLocks, gc, lc,
          used, todo, ver, tokens, sent, inbox, gcInbox, instr, answer, crashes, applied>>

-----------------------------------------------------------------------------
(* Types.                                                                  *)

\* ConfigStatus; ROLLED_BACK and DEGRADED are accepted by the Regional
\* Controller but never reported by a Local Controller.
ConfigStatus == {"PENDING", "APPROVED", "DENIED", "EXECUTING", "EXECUTED", "FAILED"}

\* ApprovalState; DRAFT lasts only inside submit_config_proposal, and REJECTED
\* and ROLLED_BACK are reached by no controller.
ApprovalState == {"PENDING_APPROVAL", "APPROVED", "EXPIRED", "EXECUTED", "FAILED"}

TerminalStates == {"EXPIRED", "EXECUTED", "FAILED"}

\* A row of the configs table ("ABSENT": no row).  config_data holds the request
\* as it was when the row was created, in state PENDING_APPROVAL, and no update
\* ever touches it: of that snapshot only submitted_at varies.
ConfigRow == [status : ConfigStatus \union {"ABSENT"}, version : Nat,
              approver : Controllers \union {None}, submitted : Nat]

\* An ApprovalRequest in the cache of a Regional Controller ("ABSENT": not cached).
Request == [state : ApprovalState \union {"ABSENT"},
            approver : Controllers \union {None}]

\* A row of the locks table.  lock_id is unique; here the request for which the
\* lock was acquired and its delivery number identify the row.
LockRow == [device : Devices, held_by : RCs, req : Proposals, dlv : Nat, expires_at : Nat]

\* An execution token.  token_id and nonce are unique; here proposal, delivery
\* and issuer identify the token.
Token == [prop : Proposals, dlv : Nat, issuer : RCs \union {GC}, expires_at : Nat]

\* The arguments of a pending update_config_status call.
Update == [prop : Proposals, status : ConfigStatus,
           approver : Controllers \union {None}]

\* The two kinds of denial a Regional Controller answers: by its reason, one after
\* the instruction went out, and any other.  Both have the decision DENY.
Denials == {"DENY", "EXECUTION_DISPATCH_FAILED"}

\* What a Regional Controller answers; ERROR is the exception of a failed escalation.
Answers == Denials \union {"none", "APPROVE", "ESCALATE", "ERROR"}

RCPlaces == {"idle", "expire", "purge", "acquire", "review", "await_gc", "gc_reply",
             "issue", "dispatch", "await_lc", "result", "close", "reject"}

\* What a request handler remembers of the message it handles.  "work" is what is
\* left to do of the clean-up at the start of a Regional Controller's handler.
RCHandler == [pc : RCPlaces, prop : Proposals \union {None}, dlv : Nat, start : Nat,
              token : Token \union {None}, reply : Answers \union {"EXECUTED", "FAILED"},
              work : SUBSET Proposals]
GCHandler == [pc : {"idle", "decide"}, prop : Proposals \union {None}, dlv : Nat,
              token : Token \union {None}]
LCHandler == [pc : {"idle", "execute", "report"}, prop : Proposals \union {None}, dlv : Nat,
              token : Token \union {None}, status : {"none", "EXECUTED", "FAILED"}]

NoRow      == [status |-> "ABSENT", version |-> 0, approver |-> None, submitted |-> 0]
NotCached  == [state |-> "ABSENT", approver |-> None]
IdleRC     == [pc |-> "idle", prop |-> None, dlv |-> 0, start |-> 0,
               token |-> None, reply |-> "none", work |-> {}]
IdleGC     == [pc |-> "idle", prop |-> None, dlv |-> 0, token |-> None]
IdleLC     == [pc |-> "idle", prop |-> None, dlv |-> 0, token |-> None, status |-> "none"]

Init ==
    /\ http \in Wirings
    /\ now = 0
    /\ config = [p \in Proposals |-> NoRow]
    /\ locks = {} /\ events = {}
    /\ rc = [r \in RCs |-> IdleRC]
    /\ rcReq = [p \in Proposals |-> NotCached]
    /\ propLocks = [p \in Proposals |-> NoLock]
    /\ gc = IdleGC
    /\ lc = [l \in LCs |-> IdleLC]
    /\ used = [l \in LCs |-> {}]
    /\ todo = [c \in Controllers |-> <<>>]
    /\ ver = [c \in Controllers |-> Unread]
    /\ tokens = {}
    /\ sent = [p \in Proposals |-> 0]
    /\ inbox = {} /\ gcInbox = {} /\ instr = {}
    /\ answer = [p \in Proposals |-> "none"]
    /\ crashes = 0
    /\ applied = [p \in Proposals |-> <<>>]

-----------------------------------------------------------------------------
(* The NIB: configs and locks.                                             *)

\* update_config_status: compare-and-swap on the version; the approver is kept
\* when none is given (COALESCE).  The columns execution_token and expiry are
\* written the same way and read by nobody.
UpdateConfigStatus(row, u, v) ==
    IF row.version = v
    THEN [row EXCEPT !.status = u.status,
                     !.approver = IF u.approver = None THEN @ ELSE u.approver,
                     !.version = @ + 1]
    ELSE row

\* get_config before an update.
ReadConfig(c) ==
    /\ todo[c] # <<>> /\ ver[c] = Unread
    /\ ver' = [ver EXCEPT ![c] = config[Head(todo[c]).prop].version]
    /\ UNCHANGED <<http, now, config, locks, events, rc, rcReq, propLocks, gc, lc,
                   used, todo, tokens, sent, inbox, gcInbox, instr, answer, crashes, applied>>

\* update_config_status with the version just read.  A conflict is ignored:
\* none of the callers looks at the NIBResult.
WriteConfig(c) ==
    /\ todo[c] # <<>> /\ ver[c] # Unread
    /\ LET u == Head(todo[c])
       IN config' = [config EXCEPT ![u.prop] = UpdateConfigStatus(@, u, ver[c])]
    /\ todo' = [todo EXCEPT ![c] = Tail(@)]
    /\ ver' = [ver EXCEPT ![c] = Unread]
    /\ UNCHANGED <<http, now, locks, events, rc, rcReq, propLocks, gc, lc,
                   used, tokens, sent, inbox, gcInbox, instr, answer, crashes, applied>>

\* check_lock(device, CONFIG_LOCK)
CheckLock(d) == {l \in locks : l.device = d /\ l.expires_at > now}

\* A bug to be caught: locks are purged one unit of time too early.
UnexpiredEarly(rows) == {l \in rows : l.expires_at > now + 1}

\* acquire_lock deletes the expired rows first.
Unexpired(rows) == {l \in rows : l.expires_at >= now}

\* release_lock(lock_id, held_by)
WithoutLock(rows, p, n, r) == {l \in rows : ~(l.req = p /\ l.dlv = n /\ l.held_by = r)}

-----------------------------------------------------------------------------
(* The approval engine of a Regional Controller.                           *)

\* A bug to be caught: the request is always rebuilt from the snapshot in the NIB.
GetRequestUncached(p) == [state |-> "PENDING_APPROVAL", approver |-> None]

\* get_request: from the cache, else rebuilt from the snapshot in the NIB.
GetRequest(p) ==
    IF rcReq[p].state = "ABSENT"
    THEN [state |-> "PENDING_APPROVAL", approver |-> None]
    ELSE rcReq[p]

\* _persist_request for a cached request.
Persist(p, q, status) ==
    [prop |-> p, status |-> status, approver |-> q.approver]

\* A direct update_config_status without an approver.
StatusOnly(p, status) ==
    [prop |-> p, status |-> status, approver |-> None]

\* _can_approve: the role is read off the controller's id.
CanApprove(sens, c) ==
    CASE sens = "LOW"    -> TRUE
      [] sens = "MEDIUM" -> c \in RCs \union {GC}
      [] sens = "HIGH"   -> c = GC

\* _is_expired
IsExpired(p) == now - config[p].submitted > ApprovalTimeout

\* approve_request: what becomes of the request ("refused": nothing).
ApprovalOutcome(p, c) ==
    CASE \/ GetRequest(p).state # "PENDING_APPROVAL"
         \/ ~CanApprove(LCSens[p], c) -> "refused"
      [] OTHER -> IF IsExpired(p) THEN "expired" ELSE "approved"

\* A bug to be caught: the Local Controller's suggestion is taken.
TrustSuggestion(s, t) == s

\* _max_sensitivity
MaxSensitivity(s, t) ==
    IF "HIGH" \in {s, t} THEN "HIGH"
    ELSE IF "MEDIUM" \in {s, t} THEN "MEDIUM" ELSE "LOW"

Effective(p) == MaxSensitivity(LCSens[p], RCSens[p])

-----------------------------------------------------------------------------
(* Local Controller: proposing.                                            *)

\* submit_config_proposal: classify, create_request, submit_request (which
\* creates the NIB row), approve at once when LOW, else send to the Regional
\* Controller.  None else knows the row before it is sent: one step.
SubmitConfigProposal(p) ==
    /\ config[p] = NoRow
    /\ IF LCSens[p] = "LOW"
       THEN /\ config' = [config EXCEPT ![p] = [status |-> "APPROVED", version |-> 1,
                              approver |-> OriginOf[p], submitted |-> now]]
            /\ UNCHANGED <<sent, inbox>>
       ELSE /\ config' = [config EXCEPT ![p] = [status |-> "PENDING", version |-> 0,
                              approver |-> None, submitted |-> now]]
            /\ MaxSends > 0
            /\ sent' = [sent EXCEPT ![p] = 1]
            /\ inbox' = inbox \union {<<p, 1>>}
    /\ UNCHANGED <<http, now, locks, events, rc, rcReq, propLocks, gc, lc, used, todo,
                   ver, tokens, gcInbox, instr, answer, crashes, applied>>

\* The same proposal arrives again, whether or not the Regional Controller has
\* received, or is still working on, it.  The Local Controller sends it once; the
\* client's send_with_retry, and any caller that repeats a failed submission, may
\* send it again: with MaxSends > 1 the model is harder than today's callers.
ResendProposal(p) ==
    /\ sent[p] \in 1..(MaxSends - 1)
    /\ sent' = [sent EXCEPT ![p] = @ + 1]
    /\ inbox' = inbox \union {<<p, sent[p] + 1>>}
    /\ UNCHANGED <<http, now, config, locks, events, rc, rcReq, propLocks, gc, lc,
                   used, todo, ver, tokens, gcInbox, instr, answer, crashes, applied>>

-----------------------------------------------------------------------------
(* Regional Controller: handle_config_proposal.                            *)

RCUnchanged == UNCHANGED <<http, now, gc, lc, used, sent, crashes, applied>>

\* _release_proposal_lock
ReleaseProposalLock(r, p) ==
    /\ locks' = IF propLocks[p] = NoLock THEN locks ELSE WithoutLock(locks, p, propLocks[p], r)
    /\ propLocks' = [propLocks EXCEPT ![p] = NoLock]

\* The handler returns its answer.
Answer(r, p, a) ==
    /\ answer' = [answer EXCEPT ![p] = a]
    /\ rc' = [rc EXCEPT ![r] = IdleRC]

\* A bug to be caught: a received proposal is handled again.
RCReceiveAgain(r, p, n) ==
    /\ rc[r].pc = "idle" /\ TargetOf[p] = r /\ <<p, n>> \in inbox
    /\ rc' = [rc EXCEPT ![r] = [IdleRC EXCEPT !.pc = "expire", !.prop = p, !.dlv = n,
                                !.start = now]]
    /\ RCUnchanged
    /\ UNCHANGED <<nibVars, rcReq, propLocks, todo, ver, tokens, inbox, gcInbox, instr, answer>>

\* The endpoint calls the handler, which first looks for expired requests.
RCReceive(r, p, n) ==
    /\ rc[r].pc = "idle" /\ TargetOf[p] = r /\ <<p, n>> \in inbox
    /\ inbox' = inbox \ {<<p, n>>}
    /\ rc' = [rc EXCEPT ![r] =
                  [pc |-> "expire", prop |-> p, dlv |-> n, start |-> now,
                   token |-> None, reply |-> "none",
                   work |-> {q \in Proposals : /\ TargetOf[q] = r
                                               /\ rcReq[q].state = "PENDING_APPROVAL"}]]
    /\ RCUnchanged
    /\ UNCHANGED <<nibVars, rcReq, propLocks, todo, ver, tokens, gcInbox, instr, answer>>

\* cleanup_expired_requests, one pending request at a time.
RCExpire(r, q) ==
    /\ rc[r].pc = "expire" /\ todo[r] = <<>> /\ q \in rc[r].work
    /\ rc' = [rc EXCEPT ![r].work = @ \ {q}]
    /\ IF IsExpired(q)
       THEN /\ rcReq' = [rcReq EXCEPT ![q].state = "EXPIRED"]
            /\ todo' = [todo EXCEPT ![r] = <<Persist(q, rcReq[q], "DENIED")>>]
       ELSE UNCHANGED <<rcReq, todo>>
    /\ RCUnchanged
    /\ UNCHANGED <<nibVars, propLocks, ver, tokens, inbox, gcInbox, instr, answer>>

RCExpireDone(r) ==
    /\ rc[r].pc = "expire" /\ todo[r] = <<>> /\ rc[r].work = {}
    /\ rc' = [rc EXCEPT ![r].pc = "purge",
                  ![r].work = {q \in Proposals : /\ TargetOf[q] = r /\ propLocks[q] # NoLock
                                                 /\ GetRequest(q).state \in TerminalStates}]
    /\ RCUnchanged
    /\ UNCHANGED <<nibVars, rcReq, propLocks, todo, ver, tokens, inbox, gcInbox, instr, answer>>

\* _release_expired_proposal_locks: locks of requests that are over.
RCPurge(r, q) ==
    /\ rc[r].pc = "purge" /\ q \in rc[r].work
    /\ rc' = [rc EXCEPT ![r].work = @ \ {q}]
    /\ ReleaseProposalLock(r, q)
    /\ RCUnchanged
    /\ UNCHANGED <<config, events, rcReq, todo, ver, tokens, inbox, gcInbox, instr, answer>>

\* _acquire_proposal_lock, first half: check_lock.
RCCheckLock(r) ==
    LET p == rc[r].prop
        held == CheckLock(DeviceOf[p])
    IN  /\ rc[r].pc = "purge" /\ rc[r].work = {}
        /\ \/ /\ \E l \in held : l.held_by # r
              /\ Answer(r, p, "DENY")
              /\ UNCHANGED propLocks
           \/ \E l \in held :
                /\ l.held_by = r /\ l.req = p
                /\ propLocks' = [propLocks EXCEPT ![p] = l.dlv]
                /\ rc' = [rc EXCEPT ![r].pc = "review"]
                /\ UNCHANGED answer
           \/ /\ \A l \in held : l.held_by = r /\ l.req # p
              /\ rc' = [rc EXCEPT ![r].pc = "acquire"]
              /\ UNCHANGED <<propLocks, answer>>
        /\ RCUnchanged
        /\ UNCHANGED <<nibVars, rcReq, todo, ver, tokens, inbox, gcInbox, instr>>

\* _acquire_proposal_lock, second half: acquire_lock.
RCAcquireLock(r) ==
    LET p == rc[r].prop
        kept == Unexpired(locks)
    IN  /\ rc[r].pc = "acquire"
        /\ \/ /\ \E l \in kept : l.device = DeviceOf[p]
              /\ locks' = kept
              /\ Answer(r, p, "DENY")
              /\ UNCHANGED propLocks
           \/ /\ \A l \in kept : l.device # DeviceOf[p]
              /\ locks' = kept \union
                     {[device |-> DeviceOf[p], held_by |-> r, req |-> p, dlv |-> rc[r].dlv,
                       expires_at |-> now + LockTTL]}
              /\ propLocks' = [propLocks EXCEPT ![p] = rc[r].dlv]
              /\ rc' = [rc EXCEPT ![r].pc = "review"]
              /\ UNCHANGED answer
        /\ RCUnchanged
        /\ UNCHANGED <<config, events, rcReq, todo, ver, tokens, inbox, gcInbox, instr>>

\* approve_request: q is the request once approved (by q.approver), updates what
\* is then written to the NIB, and next where the handler goes on.
ApproveRequest(r, p, q, updates, next) ==
    LET old == GetRequest(p)
        outcome == ApprovalOutcome(p, q.approver)
    IN  \/ /\ outcome = "approved"
           /\ rcReq' = [rcReq EXCEPT ![p] = q]
           /\ todo' = [todo EXCEPT ![r] = updates]
           /\ rc' = [rc EXCEPT ![r].pc = next]
        \/ /\ outcome = "expired"
           /\ rcReq' = [rcReq EXCEPT ![p] = [old EXCEPT !.state = "EXPIRED"]]
           /\ todo' = [todo EXCEPT ![r] = <<Persist(p, old, "DENIED")>>]
           /\ rc' = [rc EXCEPT ![r].pc = "reject", ![r].reply = "DENY"]
        \/ /\ outcome = "refused"
           /\ rcReq' = [rcReq EXCEPT ![p] = old]
           /\ rc' = [rc EXCEPT ![r].pc = "reject", ![r].reply = "DENY"]
           /\ UNCHANGED todo

\* A proposal nobody considers HIGH: the Regional Controller approves itself.
RCApprove(r) ==
    LET p == rc[r].prop
        q == [GetRequest(p) EXCEPT !.state = "APPROVED", !.approver = r]
    IN  /\ rc[r].pc = "review" /\ Effective(p) # "HIGH"
        /\ ApproveRequest(r, p, q, <<Persist(p, q, "APPROVED")>>, "issue")
        /\ RCUnchanged
        /\ UNCHANGED <<nibVars, propLocks, ver, tokens, inbox, gcInbox, instr, answer>>

\* issue_token, set_execution_token and the update to APPROVED.
RCIssueToken(r) ==
    LET p == rc[r].prop
        t == [prop |-> p, dlv |-> rc[r].dlv, issuer |-> r, expires_at |-> now + RCTokenTTL]
    IN  /\ rc[r].pc = "issue" /\ todo[r] = <<>>
        /\ tokens' = tokens \union {t}
        /\ todo' = [todo EXCEPT ![r] = <<Persist(p, rcReq[p], "APPROVED"),
                                         Persist(p, rcReq[p], "APPROVED")>>]
        /\ rc' = [rc EXCEPT ![r].pc = "dispatch", ![r].token = t]
        /\ RCUnchanged
        /\ UNCHANGED <<nibVars, rcReq, propLocks, ver, inbox, gcInbox, instr, answer>>

\* _handle_high_proposal_via_gc: forward the proposal and wait.
RCEscalate(r) ==
    LET p == rc[r].prop
    IN  /\ rc[r].pc = "review" /\ Effective(p) = "HIGH"
        /\ rcReq' = [rcReq EXCEPT ![p] = GetRequest(p)]
        /\ \/ /\ r \in http
              /\ gcInbox' = gcInbox \union {<<p, rc[r].dlv>>}
              /\ rc' = [rc EXCEPT ![r].pc = "await_gc"]
           \/ /\ r \notin http
              /\ rc' = [rc EXCEPT ![r].pc = "reject", ![r].reply = "ESCALATE"]
              /\ UNCHANGED gcInbox
        /\ RCUnchanged
        /\ UNCHANGED <<nibVars, propLocks, todo, ver, tokens, inbox, instr, answer>>

\* A bug to be caught: the call to the Global Controller has no timeout.
RCEscalationHangs(r) == r \notin RCs /\ UNCHANGED vars

\* The call to the Global Controller raises.  Nothing catches it: the endpoint
\* answers 500 and the lock stays, in the NIB and in proposal_locks.
RCEscalationFails(r) ==
    LET p == rc[r].prop
    IN  /\ rc[r].pc = "await_gc"
        /\ Answer(r, p, "ERROR")
        /\ gcInbox' \in {gcInbox, gcInbox \ {<<p, rc[r].dlv>>}}
        /\ RCUnchanged
        /\ UNCHANGED <<nibVars, rcReq, propLocks, todo, ver, tokens, inbox, instr>>

\* The Global Controller's decision: record its approval, or give up.
RCOnDecision(r) ==
    LET p == rc[r].prop
        q == [GetRequest(p) EXCEPT !.state = "APPROVED", !.approver = GC]
    IN  /\ rc[r].pc = "gc_reply"
        /\ \/ /\ rc[r].reply = "APPROVE"
              /\ ApproveRequest(r, p, q,
                     [i \in 1..3 |-> Persist(p, q, "APPROVED")], "dispatch")
           \/ /\ rc[r].reply # "APPROVE"
              /\ rc' = [rc EXCEPT ![r].pc = "reject", ![r].reply = "DENY"]
              /\ UNCHANGED <<rcReq, todo>>
        /\ RCUnchanged
        /\ UNCHANGED <<nibVars, propLocks, ver, tokens, inbox, gcInbox, instr, answer>>

\* A bug to be caught: the device is unlocked as soon as the instruction is out.
RCDispatchUnlocks(r) ==
    /\ rc[r].pc = "dispatch" /\ todo[r] = <<>>
    /\ instr' = instr \union {[prop |-> rc[r].prop, dlv |-> rc[r].dlv, token |-> rc[r].token]}
    /\ rc' = [rc EXCEPT ![r].pc = "await_lc"]
    /\ ReleaseProposalLock(r, rc[r].prop)
    /\ RCUnchanged
    /\ UNCHANGED <<config, events, rcReq, todo, ver, tokens, inbox, gcInbox, answer>>

\* The EXECUTION_INSTRUCTION goes out.
RCDispatch(r) ==
    /\ rc[r].pc = "dispatch" /\ todo[r] = <<>>
    /\ instr' = instr \union {[prop |-> rc[r].prop, dlv |-> rc[r].dlv, token |-> rc[r].token]}
    /\ rc' = [rc EXCEPT ![r].pc = "await_lc"]
    /\ RCUnchanged
    /\ UNCHANGED <<nibVars, rcReq, propLocks, todo, ver, tokens, inbox, gcInbox, answer>>

\* A bug to be caught: whatever comes back counts as EXECUTED.
SetExecutionResultOptimistic(r, p, status) ==
    /\ rcReq' = [rcReq EXCEPT ![p] = [GetRequest(p) EXCEPT !.state = "EXECUTED"]]
    /\ todo' = [todo EXCEPT ![r] = <<StatusOnly(p, "EXECUTED")>>]

\* set_execution_result (no guard on the request's state), then the Regional
\* Controller's own update of the row.
SetExecutionResult(r, p, status) ==
    /\ rcReq' = [rcReq EXCEPT ![p] = [GetRequest(p) EXCEPT !.state = status]]
    /\ todo' = [todo EXCEPT ![r] = <<Persist(p, GetRequest(p), status), StatusOnly(p, status)>>]

\* No answer to the instruction: _record_dispatch_failure.  The instruction may
\* be lost, still waiting, or being executed.
RCDispatchFails(r) ==
    LET p == rc[r].prop
    IN  /\ rc[r].pc = "await_lc"
        /\ SetExecutionResult(r, p, "FAILED")
        /\ rc' = [rc EXCEPT ![r].pc = "close", ![r].reply = "EXECUTION_DISPATCH_FAILED"]
        /\ instr' \in {instr, {m \in instr : ~(m.prop = p /\ m.dlv = rc[r].dlv)}}
        /\ RCUnchanged
        /\ UNCHANGED <<nibVars, propLocks, ver, tokens, inbox, gcInbox, answer>>

\* handle_execution_result
RCOnResult(r) ==
    /\ rc[r].pc = "result"
    /\ SetExecutionResult(r, rc[r].prop, rc[r].reply)
    /\ rc' = [rc EXCEPT ![r].pc = "close", ![r].reply = "APPROVE"]
    /\ RCUnchanged
    /\ UNCHANGED <<nibVars, propLocks, ver, tokens, inbox, gcInbox, instr, answer>>

\* End of a dispatched proposal: event (for a result), unlock, answer.
RCClose(r) ==
    LET p == rc[r].prop
    IN  /\ rc[r].pc = "close" /\ todo[r] = <<>>
        /\ events' = IF rc[r].reply = "APPROVE"
                     THEN events \union {<<"EXECUTION", r, p, rcReq[p].state>>}
                     ELSE events
        /\ ReleaseProposalLock(r, p)
        /\ Answer(r, p, rc[r].reply)
        /\ RCUnchanged
        /\ UNCHANGED <<config, rcReq, todo, ver, tokens, inbox, gcInbox, instr>>

\* End of a refused proposal: unlock, answer.  The NIB row is left as it is.
RCReject(r) ==
    LET p == rc[r].prop
    IN  /\ rc[r].pc = "reject" /\ todo[r] = <<>>
        /\ ReleaseProposalLock(r, p)
        /\ Answer(r, p, rc[r].reply)
        /\ RCUnchanged
        /\ UNCHANGED <<config, events, rcReq, todo, ver, tokens, inbox, gcInbox, instr>>

-----------------------------------------------------------------------------
(* Global Controller: handle_config_proposal.                              *)

\* The response reaches the Regional Controller if that call still waits.
DeliverToRC(p, n, place, next, reply, t) ==
    LET r == TargetOf[p]
    IN rc' = IF rc[r].pc = place /\ rc[r].prop = p /\ rc[r].dlv = n
             THEN [rc EXCEPT ![r].pc = next, ![r].reply = reply, ![r].token = t]
             ELSE rc

\* A HIGH proposal is approved whatever the NIB says about it; any other is
\* rejected (NOT_HIGH_SENSITIVITY).
GCReceive(p, n) ==
    LET t == [prop |-> p, dlv |-> n, issuer |-> GC, expires_at |-> now + GCTokenTTL]
    IN  /\ gc.pc = "idle" /\ <<p, n>> \in gcInbox
        /\ gcInbox' = gcInbox \ {<<p, n>>}
        /\ \/ /\ GCSens[p] = "HIGH"
              /\ tokens' = tokens \union {t}
              /\ todo' = [todo EXCEPT ![GC] = <<[prop |-> p, status |-> "APPROVED",
                                                 approver |-> GC]>>]
              /\ gc' = [pc |-> "decide", prop |-> p, dlv |-> n, token |-> t]
              /\ UNCHANGED rc
           \/ /\ GCSens[p] # "HIGH"
              /\ DeliverToRC(p, n, "await_gc", "gc_reply", "DENY", None)
              /\ UNCHANGED <<gc, tokens, todo>>
        /\ UNCHANGED <<http, now, nibVars, rcReq, propLocks, lcVars, ver, sent, inbox, instr,
                       answer, crashes, applied>>

\* A bug to be caught: the decision is sent before it is in the event log.
GCDecideUnlogged ==
    /\ gc.pc = "decide" /\ todo[GC] = <<>>
    /\ DeliverToRC(gc.prop, gc.dlv, "await_gc", "gc_reply", "APPROVE", gc.token)
    /\ gc' = IdleGC
    /\ UNCHANGED <<http, now, nibVars, propLocks, rcReq, lcVars, todo, ver, tokens, netVars,
                   crashes, applied>>

\* The NIB row is updated: write the event and return the token.
GCDecide ==
    /\ gc.pc = "decide" /\ todo[GC] = <<>>
    /\ events' = events \union {<<"CONFIG_APPROVED", GC, gc.prop, "APPROVED">>}
    /\ DeliverToRC(gc.prop, gc.dlv, "await_gc", "gc_reply", "APPROVE", gc.token)
    /\ gc' = IdleGC
    /\ UNCHANGED <<http, now, config, lockVars, rcReq, lcVars, todo, ver, tokens, netVars,
                   crashes, applied>>

-----------------------------------------------------------------------------
(* Local Controller: handle_execution_instruction.                         *)

\* verify_token: signature and device are right by construction of the
\* instruction; what can go wrong is age and reuse.
TokenValid(l, t) ==
    /\ now <= t.expires_at
    /\ t \notin used[l]

LCUnchanged == UNCHANGED <<http, now, locks, rcReq, propLocks, gc, tokens, sent, inbox,
                           gcInbox, answer, crashes>>

\* _mark_config_terminal_state and set_execution_result.
LCReport(l, p, status) ==
    todo' = [todo EXCEPT ![l] = <<StatusOnly(p, status), StatusOnly(p, status)>>]

LCReceive(l, m) ==
    LET p == m.prop
        ok == TokenValid(l, m.token)
    IN  /\ lc[l].pc = "idle" /\ m \in instr /\ OriginOf[p] = l
        /\ instr' = instr \ {m}
        /\ \/ /\ ok
              /\ used' = [used EXCEPT ![l] = @ \union {m.token}]
              /\ todo' = [todo EXCEPT ![l] = <<StatusOnly(p, "EXECUTING")>>]
              /\ lc' = [lc EXCEPT ![l] = [pc |-> "execute", prop |-> p, dlv |-> m.dlv,
                                          token |-> m.token, status |-> "none"]]
           \/ /\ ~ok
              /\ LCReport(l, p, "FAILED")
              /\ lc' = [lc EXCEPT ![l] = [pc |-> "report", prop |-> p, dlv |-> m.dlv,
                                          token |-> m.token, status |-> "FAILED"]]
              /\ UNCHANGED used
        /\ LCUnchanged
        /\ UNCHANGED <<config, events, rc, ver, applied>>

\* _execute_config_change: the change is made on the device.
LCExecute(l) ==
    LET p == lc[l].prop
    IN  /\ lc[l].pc = "execute" /\ todo[l] = <<>>
        /\ applied' = [applied EXCEPT ![p] = Append(@, lc[l].token)]
        /\ LCReport(l, p, "EXECUTED")
        /\ lc' = [lc EXCEPT ![l].pc = "report", ![l].status = "EXECUTED"]
        /\ LCUnchanged
        /\ UNCHANGED <<config, events, rc, used, ver, instr>>

\* An exception before the change is made (the NIB stays locked, the driver
\* fails): caught, and reported as FAILED.
LCExecuteFails(l) ==
    LET p == lc[l].prop
    IN  /\ lc[l].pc = "execute"
        /\ LCReport(l, p, "FAILED")
        /\ ver' = [ver EXCEPT ![l] = Unread]
        /\ lc' = [lc EXCEPT ![l].pc = "report", ![l].status = "FAILED"]
        /\ LCUnchanged
        /\ UNCHANGED <<config, events, rc, used, instr, applied>>

\* The event is written and the EXECUTION_RESULT returned.
LCReturn(l) ==
    LET p == lc[l].prop
    IN  /\ lc[l].pc = "report" /\ todo[l] = <<>>
        /\ events' = events \union {<<"EXECUTION", l, p, lc[l].status>>}
        /\ DeliverToRC(p, lc[l].dlv, "await_lc", "result", lc[l].status, lc[l].token)
        /\ lc' = [lc EXCEPT ![l] = IdleLC]
        /\ LCUnchanged
        /\ UNCHANGED <<config, used, todo, ver, instr, applied>>

-----------------------------------------------------------------------------
(* Restarts and time.                                                      *)

\* A controller restarts: its handler, caches, nonces and the requests in its
\* queue are gone; the NIB is what it was.
RestartRC(r) ==
    /\ rc' = [rc EXCEPT ![r] = IdleRC]
    /\ rcReq' = [p \in Proposals |-> IF TargetOf[p] = r THEN NotCached ELSE rcReq[p]]
    /\ propLocks' = [p \in Proposals |-> IF TargetOf[p] = r THEN NoLock ELSE propLocks[p]]
    /\ inbox' = {m \in inbox : TargetOf[m[1]] # r}
    /\ UNCHANGED <<gc, lcVars, gcInbox, instr>>

RestartLC(l) ==
    /\ lc' = [lc EXCEPT ![l] = IdleLC]
    /\ used' = [used EXCEPT ![l] = {}]
    /\ instr' = {m \in instr : OriginOf[m.prop] # l}
    /\ UNCHANGED <<rc, rcReq, propLocks, gc, inbox, gcInbox>>

RestartGC ==
    /\ gc' = IdleGC
    /\ gcInbox' = {}
    /\ UNCHANGED <<rc, rcReq, propLocks, lcVars, inbox, instr>>

Restart(c) ==
    /\ crashes < MaxCrashes
    /\ crashes' = crashes + 1
    /\ todo' = [todo EXCEPT ![c] = <<>>]
    /\ ver' = [ver EXCEPT ![c] = Unread]
    /\ \/ c \in RCs /\ RestartRC(c)
       \/ c \in LCs /\ RestartLC(c)
       \/ c = GC /\ RestartGC
    /\ UNCHANGED <<http, now, nibVars, tokens, sent, answer, applied>>

\* Time passes, but no Regional Controller works longer than HandlerTime.
Tick ==
    /\ now < MaxTime
    /\ \A r \in RCs : rc[r].pc # "idle" => now < rc[r].start + HandlerTime
    /\ now' = now + 1
    /\ UNCHANGED <<http, nibVars, rc, rcReq, propLocks, gc, lcVars, todo, ver, tokens, netVars,
                   crashes, applied>>

-----------------------------------------------------------------------------

\* What a Regional Controller does about the proposal it handles; the two
\* failures stand for the HTTP timeout, which is certain to come.
RCStep(r) ==
    \/ \E p \in Proposals, n \in 1..MaxSends : RCReceive(r, p, n)
    \/ \E q \in Proposals : RCExpire(r, q) \/ RCPurge(r, q)
    \/ RCExpireDone(r) \/ RCCheckLock(r) \/ RCAcquireLock(r)
    \/ RCApprove(r) \/ RCIssueToken(r)
    \/ RCEscalate(r) \/ RCEscalationFails(r) \/ RCOnDecision(r)
    \/ RCDispatch(r) \/ RCDispatchFails(r) \/ RCOnResult(r)
    \/ RCClose(r) \/ RCReject(r)

GCStep == GCDecide \/ \E p \in Proposals, n \in 1..MaxSends : GCReceive(p, n)

LCStep(l) ==
    \/ \E m \in instr : LCReceive(l, m)
    \/ LCExecute(l) \/ LCExecuteFails(l) \/ LCReturn(l)

Next ==
    \/ \E p \in Proposals : SubmitConfigProposal(p) \/ ResendProposal(p)
    \/ \E r \in RCs : RCStep(r)
    \/ GCStep
    \/ \E l \in LCs : LCStep(l)
    \/ \E c \in Controllers : ReadConfig(c) \/ WriteConfig(c) \/ Restart(c)
    \/ Tick

\* Each controller keeps running; nobody is obliged to propose, to retry, to
\* crash, nor time to pass.
Fairness ==
    /\ \A r \in RCs : WF_vars(RCStep(r))
    /\ WF_vars(GCStep)
    /\ \A l \in LCs : WF_vars(LCStep(l))
    /\ \A c \in Controllers : WF_vars(ReadConfig(c) \/ WriteConfig(c))

Spec == Init /\ [][Next]_vars /\ Fairness
-----------------------------------------------------------------------------
(* Properties.                                                             *)

\* Type correctness of the NIB, the controllers' memory and the messages.
TypeOK ==
    /\ http \subseteq RCs
    /\ now \in Nat
    /\ config \in [Proposals -> ConfigRow]
    /\ locks \subseteq LockRow
    /\ rc \in [RCs -> RCHandler]
    /\ rcReq \in [Proposals -> Request]
    /\ propLocks \in [Proposals -> Nat]
    /\ gc \in GCHandler
    /\ lc \in [LCs -> LCHandler]
    /\ used \in [LCs -> SUBSET Token]
    /\ todo \in [Controllers -> Seq(Update)]
    /\ ver \in [Controllers -> Nat \union {Unread}]
    /\ tokens \subseteq Token
    /\ sent \in [Proposals -> Nat]
    /\ inbox \subseteq Proposals \X Nat /\ gcInbox \subseteq Proposals \X Nat
    /\ instr \subseteq [prop : Proposals, dlv : Nat, token : Token]
    /\ answer \in [Proposals -> Answers]
    /\ crashes \in Nat
    /\ applied \in [Proposals -> Seq(Token)]

\* The places of a Regional Controller's handler at which it counts on the lock.
LockedPlaces == {"review", "await_gc", "gc_reply", "issue", "dispatch", "await_lc",
                 "result", "close", "reject"}

\* The lock that the handler counts on was acquired by this very call.  Otherwise
\* check_lock has found the lock of an earlier delivery of the same proposal, which
\* may be about to expire.
AcquiredItself(r) == propLocks[rc[r].prop] = rc[r].dlv

\* Two Regional Controllers that have acquired the CONFIG_LOCK of their device never
\* work on the same device at the same time, from the acquisition to the release.
\* (One that takes up an older lock of its own is not protected: nothing renews it.)
DeviceExclusive ==
    \A r, s \in RCs :
        /\ r # s /\ rc[r].pc \in LockedPlaces /\ rc[s].pc \in LockedPlaces
        /\ AcquiredItself(r) /\ AcquiredItself(s)
        => DeviceOf[rc[r].prop] # DeviceOf[rc[s].prop]

\* Somebody below the Global Controller considers the change HIGH.
IsHigh(p) == "HIGH" \in {LCSens[p], RCSens[p]}

\* A change reaches a device only under a token that was issued for that very
\* proposal by a controller entitled to approve it: the Global Controller if the
\* Local or the Regional Controller considers the change HIGH, its own Regional
\* Controller otherwise.
AppliedWithAuthority ==
    \A p \in Proposals : \A i \in 1..Len(applied[p]) :
        LET t == applied[p][i]
        IN  /\ t \in tokens /\ t.prop = p
            /\ t.issuer = IF IsHigh(p) THEN GC ELSE TargetOf[p]
            /\ t.issuer = GC => GCSens[p] = "HIGH"

\* A HIGH change is made only after the Global Controller's approval is in the
\* event log, whoever crashes.
HighIsAudited ==
    \A p \in Proposals : IsHigh(p) /\ applied[p] # <<>> =>
        <<"CONFIG_APPROVED", GC, p, "APPROVED">> \in events

\* When the NIB says EXECUTED, the change was made.
ExecutedIsTrue ==
    \A p \in Proposals : config[p].status = "EXECUTED" => applied[p] # <<>>

\* A change is made at most once, be the proposal delivered twice or a controller
\* restarted.  (Both together are too much: a restarted Regional Controller does
\* not know a proposal again: get_request rebuilds it from the snapshot in the
\* NIB, which was written before the first execution.)
AppliedOnce ==
    \A p \in Proposals : (crashes = 0 \/ sent[p] = 1) => Len(applied[p]) <= 1

\* The reason of a denial tells whether the change may be on the device: a proposal
\* that was sent once and denied or escalated is not executed, neither before nor
\* after the answer, unless the reason is EXECUTION_DISPATCH_FAILED.  Under that
\* reason the Local Controller may have made the change, or may yet make it, and then
\* once.  (A retry is denied because the request is over, possibly after the change
\* was made on the first delivery.)
DenialReasonTells ==
    \A p \in Proposals : sent[p] = 1 /\ answer[p] \in Denials \union {"ESCALATE"} =>
        \/ applied[p] = <<>>
        \/ answer[p] = "EXECUTION_DISPATCH_FAILED" /\ Len(applied[p]) = 1

\* The CONFIG_LOCK acquired for proposal p, not yet expired.
LockedFor(p) ==
    \E l \in CheckLock(DeviceOf[p]) : l.req = p /\ l.held_by = TargetOf[p]

\* While a Local Controller makes the change of a proposal that was sent once, the
\* device is locked for it, until its Regional Controller has given up and answered
\* EXECUTION_DISPATCH_FAILED: _record_dispatch_failure releases the lock of an
\* execution that may go on.  No other answer, no expiry and no other controller takes
\* the lock from under an execution.  (A restarted Regional Controller leaves the lock
\* behind, to expire whatever the Local Controller does.)
ExecutionIsLocked ==
    \A l \in LCs : LET p == lc[l].prop IN
        lc[l].pc = "execute" /\ crashes = 0 /\ sent[p] = 1 =>
            LockedFor(p) \/ answer[p] = "EXECUTION_DISPATCH_FAILED"

\* Every proposal that reaches a Regional Controller is worked off, whatever
\* the other controllers do: calls between the controllers never end in
\* everyone waiting for everyone.
ProposalsWorkedOff ==
    \A p \in Proposals : \A n \in 1..MaxSends :
        <<p, n>> \in inbox ~> /\ <<p, n>> \notin inbox
                              /\ rc[TargetOf[p]].pc = "idle"

=============================================================================
