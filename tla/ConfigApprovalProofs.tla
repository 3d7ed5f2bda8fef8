------------------------ MODULE ConfigApprovalProofs -------------------------
(***************************************************************************)
(* Proofs about ConfigApproval for any number of proposals, devices and    *)
(* controllers, every classification and wiring, all time limits with      *)
(* HandlerTime < LockTTL and every bound on time, retries and restarts.    *)
(***************************************************************************)
EXTENDS ConfigApproval, SequenceTheorems, TLAPS

-----------------------------------------------------------------------------
(* The inductive invariant.                                                *)

\* What the place of a handler says about its other fields.
RCSound(r) ==
    /\ rc[r].pc # "idle" => rc[r].prop \in Proposals /\ TargetOf[rc[r].prop] = r
    /\ rc[r].pc \in {"dispatch", "await_lc"} => rc[r].token \in Token
    /\ rc[r].pc = "gc_reply" /\ rc[r].reply = "APPROVE" => rc[r].token \in Token
    /\ rc[r].pc = "result" => rc[r].reply \in {"EXECUTED", "FAILED"}
    /\ rc[r].pc = "close" => rc[r].reply \in {"APPROVE", "EXECUTION_DISPATCH_FAILED"}
    /\ rc[r].pc = "reject" => rc[r].reply \in {"DENY", "ESCALATE"}
    /\ \A q \in rc[r].work : TargetOf[q] = r

GCSound == gc.pc # "idle" => gc.prop \in Proposals /\ gc.token \in Token

LCSound(l) ==
    /\ lc[l].pc # "idle" => /\ lc[l].prop \in Proposals /\ OriginOf[lc[l].prop] = l
                            /\ lc[l].token \in Token
    /\ lc[l].pc = "report" => lc[l].status \in {"EXECUTED", "FAILED"}

Places ==
    /\ \A r \in RCs : RCSound(r)
    /\ GCSound
    /\ \A l \in LCs : LCSound(l)

Typed == TypeOK /\ Places

-----------------------------------------------------------------------------
(* Operators and handlers.                                                 *)

\* Handler r goes on to another place, with the same proposal.
GoesTo(r, place, t, reply, work) ==
    rc' = [rc EXCEPT ![r] = [pc |-> place, prop |-> rc[r].prop, dlv |-> rc[r].dlv,
                             start |-> rc[r].start, token |-> t, reply |-> reply,
                             work |-> work]]

\* What assigning some fields of a handler means for the whole record.
LEMMA Fields ==
    ASSUME Typed, NEW r \in RCs, NEW x, NEW y, NEW z
    PROVE  /\ rc' = [rc EXCEPT ![r].pc = x] =>
                  GoesTo(r, x, rc[r].token, rc[r].reply, rc[r].work)
           /\ rc' = [rc EXCEPT ![r].work = x] =>
                  GoesTo(r, rc[r].pc, rc[r].token, rc[r].reply, x)
           /\ rc' = [rc EXCEPT ![r].pc = x, ![r].work = y] =>
                  GoesTo(r, x, rc[r].token, rc[r].reply, y)
           /\ rc' = [rc EXCEPT ![r].pc = x, ![r].token = y] =>
                  GoesTo(r, x, y, rc[r].reply, rc[r].work)
           /\ rc' = [rc EXCEPT ![r].pc = x, ![r].reply = y] =>
                  GoesTo(r, x, rc[r].token, y, rc[r].work)
           /\ rc' = [rc EXCEPT ![r].pc = x, ![r].reply = y, ![r].token = z] =>
                  GoesTo(r, x, z, y, rc[r].work)
BY DEF Typed, TypeOK, RCHandler, GoesTo

\* The fields of a handler that goes on.
LEMMA Moved ==
    ASSUME Typed, NEW r \in RCs, NEW place, NEW t, NEW reply, NEW work,
           GoesTo(r, place, t, reply, work)
    PROVE  /\ rc'[r].pc = place /\ rc'[r].token = t /\ rc'[r].reply = reply
           /\ rc'[r].work = work
           /\ rc'[r].prop = rc[r].prop /\ rc'[r].dlv = rc[r].dlv
           /\ rc'[r].start = rc[r].start
           /\ \A s \in RCs : s # r => rc'[s] = rc[s]
BY DEF Typed, TypeOK, RCHandler, GoesTo

\* A handler that goes on to a place stays a handler.
LEMMA MovedType ==
    ASSUME Typed, NEW r \in RCs, NEW place \in RCPlaces, NEW t \in Token \union {None},
           NEW reply \in Answers \union {"EXECUTED", "FAILED"}, NEW work \in SUBSET Proposals,
           GoesTo(r, place, t, reply, work)
    PROVE  rc' \in [RCs -> RCHandler]
BY DEF Typed, TypeOK, RCHandler, GoesTo

\* The fields of a handler.
LEMMA FieldTypes ==
    ASSUME Typed, NEW r \in RCs
    PROVE  /\ rc[r].pc \in RCPlaces /\ rc[r].token \in Token \union {None}
           /\ rc[r].reply \in Answers \union {"EXECUTED", "FAILED"}
           /\ rc[r].work \in SUBSET Proposals
           /\ rc[r].prop \in Proposals \union {None} /\ rc[r].dlv \in Nat /\ rc[r].start \in Nat
           /\ \A q \in rc[r].work : TargetOf[q] = r
           /\ now \in Nat
BY DEF Typed, TypeOK, RCHandler, Places, RCSound

\* Places and answers, as members of their types.
LEMMA Names ==
    /\ \A s \in LockedPlaces \union {"idle", "expire", "purge", "acquire"} : s \in RCPlaces
    /\ \A s \in {"DENY", "ESCALATE", "APPROVE", "EXECUTION_DISPATCH_FAILED", "ERROR"} : s \in Answers
    /\ {"EXECUTED", "FAILED", "DENIED", "APPROVED", "EXECUTING"} \subseteq ConfigStatus
    /\ {"EXECUTED", "FAILED", "EXPIRED", "APPROVED"} \subseteq ApprovalState
BY DEF RCPlaces, LockedPlaces, Answers, Denials, ConfigStatus, ApprovalState

\* Local and Regional Controllers and the Global Controller write to the NIB.
LEMMA Writers ==
    GC \in Controllers /\ RCs \subseteq Controllers /\ LCs \subseteq Controllers
BY DEF Controllers

\* The two kinds of updates the engines make are updates.
LEMMA UpdateTypes ==
    ASSUME NEW p \in Proposals, NEW q \in Request, NEW status \in ConfigStatus
    PROVE  Persist(p, q, status) \in Update /\ StatusOnly(p, status) \in Update
BY DEF Persist, StatusOnly, Update, Request

\* Three updates in a row, as a sequence.
LEMMA ThreeTimes ==
    ASSUME NEW u \in Update
    PROVE  [i \in 1..3 |-> u] \in Seq(Update)
<1>1. [i \in 1..3 |-> u] \in [1..3 -> Update]
  OBVIOUS
<1> QED
  BY <1>1, SeqDef

\* The updates a controller has still to make.
LEMMA TodoTyped ==
    ASSUME Typed, NEW c \in Controllers, NEW u \in Update, NEW v \in Update
    PROVE  /\ [todo EXCEPT ![c] = <<u>>] \in [Controllers -> Seq(Update)]
           /\ [todo EXCEPT ![c] = <<u, v>>] \in [Controllers -> Seq(Update)]
BY DEF Typed, TypeOK

\* What get_request returns, and what is made of it.
LEMMA RequestTypes ==
    ASSUME Typed, NEW p \in Proposals
    PROVE  /\ GetRequest(p) \in Request
           /\ \A st \in ApprovalState : [GetRequest(p) EXCEPT !.state = st] \in Request
           /\ \A st \in ApprovalState, c \in Controllers :
                  [GetRequest(p) EXCEPT !.state = st, !.approver = c] \in Request
<1>1. GetRequest(p) \in Request
  BY DEF Typed, TypeOK, GetRequest, Request, ApprovalState
<1> QED
  BY <1>1 DEF Request

\* A handler that goes on keeps Places, if the new place agrees with its fields.
LEMMA MovedPlaces ==
    ASSUME Typed, NEW r \in RCs, NEW place, NEW t, NEW reply, NEW work,
           rc[r].pc # "idle", GoesTo(r, place, t, reply, work),
           place \in {"dispatch", "await_lc"} => t \in Token,
           place = "gc_reply" /\ reply = "APPROVE" => t \in Token,
           place = "result" => reply \in {"EXECUTED", "FAILED"},
           place = "close" => reply \in {"APPROVE", "EXECUTION_DISPATCH_FAILED"},
           place = "reject" => reply \in {"DENY", "ESCALATE"},
           \A q \in work : TargetOf[q] = r,
           gc' = gc, lc' = lc
    PROVE  Places'
BY Moved DEF Typed, Places, RCSound, GCSound, LCSound

\* A step that changes nothing but the place.
LEMMA PlaceTyped ==
    ASSUME Typed, NEW r \in RCs, rc[r].pc # "idle",
           NEW place \in {"acquire", "review", "await_gc", "issue"},
           rc' = [rc EXCEPT ![r].pc = place], gc' = gc, lc' = lc
    PROVE  rc' \in [RCs -> RCHandler] /\ Places'
<1>1. GoesTo(r, place, rc[r].token, rc[r].reply, rc[r].work)
  BY Fields
<1>2. place \in RCPlaces
  BY DEF RCPlaces
<1>3. rc' \in [RCs -> RCHandler]
  BY <1>1, <1>2, FieldTypes, MovedType
<1>4. Places'
  BY <1>1, MovedPlaces, FieldTypes
<1> QED
  BY <1>3, <1>4

\* A handler that is about to answer.
LEMMA ReplyTyped ==
    ASSUME Typed, NEW r \in RCs, rc[r].pc # "idle", NEW place, NEW reply,
           \/ place = "reject" /\ reply \in {"DENY", "ESCALATE"}
           \/ place = "close" /\ reply \in {"APPROVE", "EXECUTION_DISPATCH_FAILED"},
           rc' = [rc EXCEPT ![r].pc = place, ![r].reply = reply], gc' = gc, lc' = lc
    PROVE  rc' \in [RCs -> RCHandler] /\ Places'
<1>1. GoesTo(r, place, rc[r].token, reply, rc[r].work)
  BY Fields
<1>2. place \in RCPlaces /\ reply \in Answers
  BY DEF RCPlaces, Answers, Denials
<1>3. rc' \in [RCs -> RCHandler]
  BY <1>1, <1>2, FieldTypes, MovedType
<1>4. Places'
  BY <1>1, MovedPlaces, FieldTypes
<1> QED
  BY <1>3, <1>4

\* A handler that returns its answer.
LEMMA AnswerTyped ==
    ASSUME Typed, NEW r \in RCs, NEW p \in Proposals, NEW a \in Answers, Answer(r, p, a),
           gc' = gc, lc' = lc
    PROVE  /\ answer' \in [Proposals -> Answers]
           /\ rc' \in [RCs -> RCHandler]
           /\ rc'[r] = IdleRC /\ \A s \in RCs : s # r => rc'[s] = rc[s]
           /\ Places'
<1>1. IdleRC \in RCHandler
  BY DEF IdleRC, RCHandler, RCPlaces, Answers, Denials
<1>2. rc'[r] = IdleRC /\ \A s \in RCs : s # r => rc'[s] = rc[s]
  BY DEF Answer, Typed, TypeOK
<1>3. Places'
  BY <1>2 DEF Typed, Places, RCSound, GCSound, LCSound, IdleRC
<1> QED
  BY <1>1, <1>2, <1>3 DEF Answer, Typed, TypeOK

\* Taking the lock of a proposal away.
LEMMA ReleaseTyped ==
    ASSUME Typed, NEW r \in RCs, NEW p \in Proposals, ReleaseProposalLock(r, p)
    PROVE  /\ locks' \subseteq locks /\ locks' \subseteq LockRow
           /\ propLocks' \in [Proposals -> Nat]
BY DEF Typed, TypeOK, ReleaseProposalLock, WithoutLock, NoLock

-----------------------------------------------------------------------------
(* Type correctness, one action at a time.                                 *)

\* submit_config_proposal keeps the types.
LEMMA SubmitTyped ==
    ASSUME Typed, NEW p \in Proposals, SubmitConfigProposal(p) \/ ResendProposal(p)
    PROVE  Typed'
<1>1. Places'
  BY DEF Typed, Places, RCSound, GCSound, LCSound, SubmitConfigProposal, ResendProposal
<1>2. CASE SubmitConfigProposal(p)
  <2>1. config' \in [Proposals -> ConfigRow]
    <3>1. OriginOf[p] \in Controllers
      BY PipelineAssumption, Writers
    <3>2. /\ [status |-> "APPROVED", version |-> 1, approver |-> OriginOf[p],
              submitted |-> now] \in ConfigRow
          /\ [status |-> "PENDING", version |-> 0, approver |-> None,
              submitted |-> now] \in ConfigRow
      BY <3>1 DEF Typed, TypeOK, ConfigRow, ConfigStatus
    <3> QED
      BY <1>2, <3>2 DEF SubmitConfigProposal, Typed, TypeOK
  <2>2. inbox' \subseteq Proposals \X Nat /\ sent' \in [Proposals -> Nat]
    BY <1>2 DEF SubmitConfigProposal, Typed, TypeOK
  <2> QED
    BY <1>1, <1>2, <2>1, <2>2 DEF SubmitConfigProposal, Typed, TypeOK
<1>3. CASE ResendProposal(p)
  <2>1. inbox' \subseteq Proposals \X Nat /\ sent' \in [Proposals -> Nat]
    BY <1>3 DEF ResendProposal, Typed, TypeOK
  <2> QED
    BY <1>1, <1>3, <2>1 DEF ResendProposal, Typed, TypeOK
<1> QED
  BY <1>2, <1>3

\* The arrival of a proposal at handle_config_proposal keeps the types.
LEMMA ReceiveTyped ==
    ASSUME Typed, NEW r \in RCs, NEW p \in Proposals, NEW n \in 1..MaxSends,
           RCReceive(r, p, n)
    PROVE  Typed'
<1> DEFINE work == {q \in Proposals : TargetOf[q] = r /\ rcReq[q].state = "PENDING_APPROVAL"}
           h == [pc |-> "expire", prop |-> p, dlv |-> n, start |-> now,
                 token |-> None, reply |-> "none", work |-> work]
<1>1. rc' = [rc EXCEPT ![r] = h]
  BY DEF RCReceive
<1>2. h \in RCHandler
  BY DEF RCHandler, RCPlaces, Answers, Denials, Typed, TypeOK
<1>3. rc'[r] = h /\ \A s \in RCs : s # r => rc'[s] = rc[s]
  BY <1>1 DEF Typed, TypeOK
<1>4. UNCHANGED <<gc, lc>> /\ TargetOf[p] = r
  BY DEF RCReceive, RCUnchanged
<1>5. Places'
  BY <1>3, <1>4 DEF Typed, Places, RCSound, GCSound, LCSound
<1>6. inbox' \subseteq Proposals \X Nat
  BY DEF RCReceive, Typed, TypeOK
<1>7. rc' \in [RCs -> RCHandler]
  BY <1>1, <1>2 DEF Typed, TypeOK
<1> QED
  BY <1>5, <1>6, <1>7 DEF RCReceive, RCUnchanged, nibVars, Typed, TypeOK

\* expire_requests keeps the types.
LEMMA ExpireTyped ==
    ASSUME Typed, NEW r \in RCs, NEW q \in Proposals, RCExpire(r, q)
    PROVE  Typed'
<1>1. GoesTo(r, "expire", rc[r].token, rc[r].reply, rc[r].work \ {q})
  BY Fields DEF RCExpire
<1>2. rc' \in [RCs -> RCHandler]
  <2>1. rc[r].work \ {q} \in SUBSET Proposals
    BY FieldTypes
  <2> QED
    BY <1>1, <2>1, FieldTypes, MovedType DEF RCPlaces
<1>3. Places'
  BY <1>1, MovedPlaces, FieldTypes DEF RCExpire, RCUnchanged
<1>4. rcReq' \in [Proposals -> Request]
  <2>1. rcReq[q] \in Request /\ [rcReq[q] EXCEPT !.state = "EXPIRED"] \in Request
    BY Names DEF Typed, TypeOK, Request
  <2>2. rcReq' = rcReq \/ rcReq' = [rcReq EXCEPT ![q] = [rcReq[q] EXCEPT !.state = "EXPIRED"]]
    BY DEF RCExpire
  <2> QED
    BY <2>1, <2>2 DEF Typed, TypeOK
<1>5. todo' \in [Controllers -> Seq(Update)]
  <2>1. rcReq[q] \in Request /\ Persist(q, rcReq[q], "DENIED") \in Update
    BY UpdateTypes, Names DEF Typed, TypeOK
  <2>2. todo' = todo \/ todo' = [todo EXCEPT ![r] = <<Persist(q, rcReq[q], "DENIED")>>]
    BY DEF RCExpire
  <2>3. [todo EXCEPT ![r] = <<Persist(q, rcReq[q], "DENIED")>>] \in [Controllers -> Seq(Update)]
    BY <2>1, TodoTyped, Writers
  <2> QED
    BY <2>2, <2>3 DEF Typed, TypeOK
<1> QED
  BY <1>2, <1>3, <1>4, <1>5 DEF RCExpire, RCUnchanged, nibVars, Typed, TypeOK

\* The end of expire_requests keeps the types.
LEMMA ExpireDoneTyped ==
    ASSUME Typed, NEW r \in RCs, RCExpireDone(r)
    PROVE  Typed'
<1> DEFINE work == {q \in Proposals : /\ TargetOf[q] = r /\ propLocks[q] # NoLock
                                      /\ GetRequest(q).state \in TerminalStates}
<1>1. GoesTo(r, "purge", rc[r].token, rc[r].reply, work)
  BY Fields DEF RCExpireDone
<1>2. rc' \in [RCs -> RCHandler]
  <2>1. work \in SUBSET Proposals
    OBVIOUS
  <2> HIDE DEF work
  <2> QED
    BY <1>1, <2>1, FieldTypes, MovedType DEF RCPlaces
<1>3. Places'
  BY <1>1, MovedPlaces DEF RCExpireDone, RCUnchanged
<1> QED
  BY <1>2, <1>3 DEF RCExpireDone, RCUnchanged, nibVars, Typed, TypeOK

\* The purge of locks of finished requests keeps the types.
LEMMA PurgeTyped ==
    ASSUME Typed, NEW r \in RCs, NEW q \in Proposals, RCPurge(r, q)
    PROVE  Typed'
<1>1. GoesTo(r, "purge", rc[r].token, rc[r].reply, rc[r].work \ {q})
  BY Fields DEF RCPurge
<1>2. rc' \in [RCs -> RCHandler]
  <2>1. rc[r].work \ {q} \in SUBSET Proposals
    BY FieldTypes
  <2> QED
    BY <1>1, <2>1, FieldTypes, MovedType DEF RCPlaces
<1>3. Places'
  BY <1>1, MovedPlaces, FieldTypes DEF RCPurge, RCUnchanged
<1>4. locks' \subseteq LockRow /\ propLocks' \in [Proposals -> Nat]
  BY ReleaseTyped DEF RCPurge
<1> QED
  BY <1>2, <1>3, <1>4 DEF RCPurge, RCUnchanged, Typed, TypeOK

\* check_lock and the denial that may follow keep the types.
LEMMA CheckLockTyped ==
    ASSUME Typed, NEW r \in RCs, RCCheckLock(r)
    PROVE  Typed'
<1> DEFINE p == rc[r].prop
           held == CheckLock(DeviceOf[p])
<1>1. p \in Proposals /\ rc[r].pc = "purge" /\ UNCHANGED <<gc, lc>>
  BY DEF RCCheckLock, RCUnchanged, Typed, Places, RCSound
<1>2. /\ rc' \in [RCs -> RCHandler] /\ Places'
      /\ propLocks' \in [Proposals -> Nat] /\ answer' \in [Proposals -> Answers]
  <2>1. CASE Answer(r, p, "DENY") /\ UNCHANGED propLocks
    BY <1>1, <2>1, AnswerTyped, Names DEF Typed, TypeOK
  <2>2. CASE \E l \in held : /\ propLocks' = [propLocks EXCEPT ![p] = l.dlv]
                             /\ rc' = [rc EXCEPT ![r].pc = "review"] /\ UNCHANGED answer
    <3>1. \A l \in held : l.dlv \in Nat
      BY DEF CheckLock, Typed, TypeOK, LockRow
    <3> QED
      BY <1>1, <2>2, <3>1, PlaceTyped DEF Typed, TypeOK
  <2>3. CASE rc' = [rc EXCEPT ![r].pc = "acquire"] /\ UNCHANGED <<propLocks, answer>>
    BY <1>1, <2>3, PlaceTyped DEF Typed, TypeOK
  <2> QED
    BY <2>1, <2>2, <2>3 DEF RCCheckLock
<1> QED
  BY <1>2 DEF RCCheckLock, RCUnchanged, nibVars, Typed, TypeOK

\* acquire_lock and the denial that may follow keep the types.
LEMMA AcquireLockTyped ==
    ASSUME Typed, NEW r \in RCs, RCAcquireLock(r)
    PROVE  Typed'
<1> DEFINE p == rc[r].prop
           row == [device |-> DeviceOf[p], held_by |-> r, req |-> p, dlv |-> rc[r].dlv,
                   expires_at |-> now + LockTTL]
<1>1. p \in Proposals /\ rc[r].pc = "acquire" /\ UNCHANGED <<gc, lc>>
  BY DEF RCAcquireLock, RCUnchanged, Typed, Places, RCSound
<1>2. row \in LockRow /\ Unexpired(locks) \subseteq LockRow
  <2>1. DeviceOf[p] \in Devices /\ rc[r].dlv \in Nat /\ now + LockTTL \in Nat
    BY <1>1, FieldTypes, PipelineAssumption, TimeAssumption
  <2>2. row \in LockRow
    BY <1>1, <2>1 DEF LockRow
  <2> QED
    BY <2>2 DEF Unexpired, Typed, TypeOK
<1>3. /\ rc' \in [RCs -> RCHandler] /\ Places' /\ locks' \subseteq LockRow
      /\ propLocks' \in [Proposals -> Nat] /\ answer' \in [Proposals -> Answers]
  <2>0. rc[r].dlv \in Nat
    BY FieldTypes
  <2>1. CASE locks' = Unexpired(locks) /\ Answer(r, p, "DENY") /\ UNCHANGED propLocks
    BY <1>1, <1>2, <2>1, AnswerTyped, Names DEF Typed, TypeOK
  <2>2. CASE /\ locks' = Unexpired(locks) \union {row}
             /\ propLocks' = [propLocks EXCEPT ![p] = rc[r].dlv]
             /\ rc' = [rc EXCEPT ![r].pc = "review"] /\ UNCHANGED answer
    BY <1>1, <1>2, <2>2, <2>0, PlaceTyped DEF Typed, TypeOK
  <2> QED
    BY <2>1, <2>2 DEF RCAcquireLock
<1> QED
  BY <1>3 DEF RCAcquireLock, RCUnchanged, Typed, TypeOK

\* approve_request, whatever its outcome.
LEMMA ApproveTyped ==
    ASSUME Typed, NEW r \in RCs, NEW p \in Proposals, rc[r].pc # "idle",
           NEW q \in Request, NEW updates \in Seq(Update), NEW next,
           \/ next = "issue"
           \/ next = "dispatch" /\ rc[r].token \in Token,
           ApproveRequest(r, p, q, updates, next), gc' = gc, lc' = lc
    PROVE  /\ rc' \in [RCs -> RCHandler] /\ Places'
           /\ rcReq' \in [Proposals -> Request] /\ todo' \in [Controllers -> Seq(Update)]
<1> DEFINE old == GetRequest(p)
<1>1. /\ old \in Request /\ [old EXCEPT !.state = "EXPIRED"] \in Request
      /\ Persist(p, old, "DENIED") \in Update
  BY RequestTypes, UpdateTypes, Names
<1>2. CASE /\ rcReq' = [rcReq EXCEPT ![p] = q]
           /\ todo' = [todo EXCEPT ![r] = updates]
           /\ rc' = [rc EXCEPT ![r].pc = next]
  <2>1. GoesTo(r, next, rc[r].token, rc[r].reply, rc[r].work)
    BY <1>2, Fields
  <2>2. next \in RCPlaces
    BY DEF RCPlaces
  <2>3. rc' \in [RCs -> RCHandler]
    BY <2>1, <2>2, FieldTypes, MovedType
  <2>4. Places'
    BY <2>1, MovedPlaces, FieldTypes
  <2> QED
    BY <1>2, <2>3, <2>4, Writers DEF Typed, TypeOK
<1>3. CASE /\ rcReq' = [rcReq EXCEPT ![p] = [old EXCEPT !.state = "EXPIRED"]]
           /\ todo' = [todo EXCEPT ![r] = <<Persist(p, old, "DENIED")>>]
           /\ rc' = [rc EXCEPT ![r].pc = "reject", ![r].reply = "DENY"]
  <2>1. rc' \in [RCs -> RCHandler] /\ Places'
    BY <1>3, ReplyTyped
  <2> HIDE DEF old
  <2>2. todo' \in [Controllers -> Seq(Update)]
    BY <1>1, <1>3, TodoTyped, Writers
  <2> QED
    BY <1>1, <1>3, <2>1, <2>2 DEF Typed, TypeOK
<1>4. CASE /\ rcReq' = [rcReq EXCEPT ![p] = old] /\ UNCHANGED todo
           /\ rc' = [rc EXCEPT ![r].pc = "reject", ![r].reply = "DENY"]
  <2>1. rc' \in [RCs -> RCHandler] /\ Places'
    BY <1>4, ReplyTyped
  <2> HIDE DEF old
  <2> QED
    BY <1>1, <1>4, <2>1 DEF Typed, TypeOK
<1> QED
  BY <1>2, <1>3, <1>4 DEF ApproveRequest

\* The Regional Controller's own approval keeps the types.
LEMMA RCApproveTyped ==
    ASSUME Typed, NEW r \in RCs, RCApprove(r)
    PROVE  Typed'
<1> DEFINE p == rc[r].prop
           q == [GetRequest(p) EXCEPT !.state = "APPROVED", !.approver = r]
<1>1. p \in Proposals /\ rc[r].pc = "review" /\ UNCHANGED <<gc, lc>>
  BY DEF RCApprove, RCUnchanged, Typed, Places, RCSound
<1>2. q \in Request /\ <<Persist(p, q, "APPROVED")>> \in Seq(Update)
  <2>1. q \in Request
    BY <1>1, RequestTypes, Names, Writers
  <2>2. Persist(p, q, "APPROVED") \in Update
    BY <1>1, <2>1, UpdateTypes, Names
  <2> QED
    BY <2>1, <2>2
<1>3. ApproveRequest(r, p, q, <<Persist(p, q, "APPROVED")>>, "issue")
  BY DEF RCApprove
<1> HIDE DEF q
<1>4. /\ rc' \in [RCs -> RCHandler] /\ Places'
      /\ rcReq' \in [Proposals -> Request] /\ todo' \in [Controllers -> Seq(Update)]
  BY <1>1, <1>2, <1>3, ApproveTyped
<1> QED
  BY <1>4 DEF RCApprove, RCUnchanged, nibVars, Typed, TypeOK

\* Issuing a token keeps the types.
LEMMA IssueTokenTyped ==
    ASSUME Typed, NEW r \in RCs, RCIssueToken(r)
    PROVE  Typed'
<1> DEFINE p == rc[r].prop
           t == [prop |-> p, dlv |-> rc[r].dlv, issuer |-> r, expires_at |-> now + RCTokenTTL]
<1>1. p \in Proposals /\ rc[r].pc = "issue" /\ UNCHANGED <<gc, lc>>
  BY DEF RCIssueToken, RCUnchanged, Typed, Places, RCSound
<1>2. t \in Token
  <2>1. rc[r].dlv \in Nat /\ now + RCTokenTTL \in Nat
    BY FieldTypes, TimeAssumption
  <2> QED
    BY <1>1, <2>1 DEF Token
<1>3. GoesTo(r, "dispatch", t, rc[r].reply, rc[r].work) /\ tokens' = tokens \union {t}
  BY Fields DEF RCIssueToken
<1> HIDE DEF t
<1>4. rc' \in [RCs -> RCHandler]
  BY <1>2, <1>3, FieldTypes, MovedType DEF RCPlaces
<1>5. Places'
  BY <1>1, <1>2, <1>3, MovedPlaces, FieldTypes
<1>6. todo' \in [Controllers -> Seq(Update)]
  <2>1. Persist(p, rcReq[p], "APPROVED") \in Update
    BY <1>1, UpdateTypes, Names DEF Typed, TypeOK
  <2> QED
    BY <2>1, TodoTyped, Writers DEF RCIssueToken
<1> QED
  BY <1>2, <1>3, <1>4, <1>5, <1>6 DEF RCIssueToken, RCUnchanged, nibVars, Typed, TypeOK

\* The escalation to the Global Controller keeps the types.
LEMMA EscalateTyped ==
    ASSUME Typed, NEW r \in RCs, RCEscalate(r)
    PROVE  Typed'
<1> DEFINE p == rc[r].prop
<1>1. p \in Proposals /\ rc[r].pc = "review" /\ UNCHANGED <<gc, lc>>
  BY DEF RCEscalate, RCUnchanged, Typed, Places, RCSound
<1>2. rcReq' \in [Proposals -> Request]
  <2>1. GetRequest(p) \in Request
    BY <1>1, RequestTypes
  <2> QED
    BY <1>1, <2>1 DEF RCEscalate, Typed, TypeOK
<1>3. gcInbox' \subseteq Proposals \X Nat
  <2>1. rc[r].dlv \in Nat
    BY FieldTypes
  <2> QED
    BY <1>1, <2>1 DEF RCEscalate, Typed, TypeOK
<1>4. rc' \in [RCs -> RCHandler] /\ Places'
  <2>1. CASE rc' = [rc EXCEPT ![r].pc = "await_gc"]
    BY <1>1, <2>1, PlaceTyped
  <2>2. CASE rc' = [rc EXCEPT ![r].pc = "reject", ![r].reply = "ESCALATE"]
    BY <1>1, <2>2, ReplyTyped
  <2> QED
    BY <2>1, <2>2 DEF RCEscalate
<1> QED
  BY <1>2, <1>3, <1>4 DEF RCEscalate, RCUnchanged, nibVars, Typed, TypeOK

\* An escalation that raises keeps the types.
LEMMA EscalationFailsTyped ==
    ASSUME Typed, NEW r \in RCs, RCEscalationFails(r)
    PROVE  Typed'
<1>1. rc[r].prop \in Proposals /\ UNCHANGED <<gc, lc>>
  BY DEF RCEscalationFails, RCUnchanged, Typed, Places, RCSound
<1>2. /\ answer' \in [Proposals -> Answers] /\ rc' \in [RCs -> RCHandler] /\ Places'
  BY <1>1, AnswerTyped, Names DEF RCEscalationFails
<1>3. gcInbox' \subseteq Proposals \X Nat
  BY DEF RCEscalationFails, Typed, TypeOK
<1> QED
  BY <1>2, <1>3 DEF RCEscalationFails, RCUnchanged, nibVars, Typed, TypeOK

\* Acting on the Global Controller's decision keeps the types.
LEMMA OnDecisionTyped ==
    ASSUME Typed, NEW r \in RCs, RCOnDecision(r)
    PROVE  Typed'
<1> DEFINE p == rc[r].prop
           q == [GetRequest(p) EXCEPT !.state = "APPROVED", !.approver = GC]
           updates == [i \in 1..3 |-> Persist(p, q, "APPROVED")]
<1>1. p \in Proposals /\ rc[r].pc = "gc_reply" /\ UNCHANGED <<gc, lc>>
  BY DEF RCOnDecision, RCUnchanged, Typed, Places, RCSound
<1>2. q \in Request /\ updates \in Seq(Update)
  <2>1. q \in Request
    BY <1>1, RequestTypes, Names, Writers
  <2>2. Persist(p, q, "APPROVED") \in Update
    BY <1>1, <2>1, UpdateTypes, Names
  <2> HIDE DEF q
  <2> QED
    BY <2>1, <2>2, ThreeTimes
<1>3. /\ rc' \in [RCs -> RCHandler] /\ Places'
      /\ rcReq' \in [Proposals -> Request] /\ todo' \in [Controllers -> Seq(Update)]
  <2>1. CASE rc[r].reply = "APPROVE" /\ ApproveRequest(r, p, q, updates, "dispatch")
    <3>1. rc[r].token \in Token
      BY <1>1, <2>1 DEF Typed, Places, RCSound
    <3> HIDE DEF q, updates
    <3> QED
      BY <1>1, <1>2, <2>1, <3>1, ApproveTyped
  <2>2. CASE /\ rc' = [rc EXCEPT ![r].pc = "reject", ![r].reply = "DENY"]
             /\ UNCHANGED <<rcReq, todo>>
    BY <1>1, <2>2, ReplyTyped DEF Typed, TypeOK
  <2> QED
    BY <2>1, <2>2 DEF RCOnDecision
<1> QED
  BY <1>3 DEF RCOnDecision, RCUnchanged, nibVars, Typed, TypeOK

\* The dispatch of an instruction keeps the types.
LEMMA DispatchTyped ==
    ASSUME Typed, NEW r \in RCs, RCDispatch(r)
    PROVE  Typed'
<1> DEFINE m == [prop |-> rc[r].prop, dlv |-> rc[r].dlv, token |-> rc[r].token]
<1>1. /\ rc[r].prop \in Proposals /\ rc[r].token \in Token
      /\ rc[r].pc = "dispatch" /\ UNCHANGED <<gc, lc>>
  BY DEF RCDispatch, RCUnchanged, Typed, Places, RCSound
<1>2. GoesTo(r, "await_lc", rc[r].token, rc[r].reply, rc[r].work)
  BY Fields DEF RCDispatch
<1>3. rc' \in [RCs -> RCHandler]
  BY <1>2, FieldTypes, MovedType DEF RCPlaces
<1>4. Places'
  BY <1>1, <1>2, MovedPlaces, FieldTypes
<1>5. instr' \subseteq [prop : Proposals, dlv : Nat, token : Token]
  <2>1. m \in [prop : Proposals, dlv : Nat, token : Token]
    BY <1>1, FieldTypes
  <2> QED
    BY <2>1 DEF RCDispatch, Typed, TypeOK
<1> QED
  BY <1>3, <1>4, <1>5 DEF RCDispatch, RCUnchanged, nibVars, Typed, TypeOK

\* set_execution_result
LEMMA ResultTyped ==
    ASSUME Typed, NEW r \in RCs, NEW p \in Proposals, NEW status \in {"EXECUTED", "FAILED"},
           SetExecutionResult(r, p, status)
    PROVE  rcReq' \in [Proposals -> Request] /\ todo' \in [Controllers -> Seq(Update)]
<1>1. status \in ApprovalState /\ status \in ConfigStatus
  BY Names
<1>2. GetRequest(p) \in Request /\ [GetRequest(p) EXCEPT !.state = status] \in Request
  BY <1>1, RequestTypes
<1>3. Persist(p, GetRequest(p), status) \in Update /\ StatusOnly(p, status) \in Update
  BY <1>1, <1>2, UpdateTypes
<1>4. todo' \in [Controllers -> Seq(Update)]
  BY <1>3, TodoTyped, Writers DEF SetExecutionResult
<1> QED
  BY <1>2, <1>4 DEF SetExecutionResult, Typed, TypeOK

\* A dispatch that times out keeps the types.
LEMMA DispatchFailsTyped ==
    ASSUME Typed, NEW r \in RCs, RCDispatchFails(r)
    PROVE  Typed'
<1>1. rc[r].prop \in Proposals /\ rc[r].pc = "await_lc" /\ UNCHANGED <<gc, lc>>
  BY DEF RCDispatchFails, RCUnchanged, Typed, Places, RCSound
<1>2. rcReq' \in [Proposals -> Request] /\ todo' \in [Controllers -> Seq(Update)]
  BY <1>1, ResultTyped DEF RCDispatchFails
<1>3. rc' \in [RCs -> RCHandler] /\ Places'
  BY <1>1, ReplyTyped DEF RCDispatchFails
<1>4. instr' \subseteq instr
  BY DEF RCDispatchFails
<1> QED
  BY <1>2, <1>3, <1>4 DEF RCDispatchFails, RCUnchanged, nibVars, Typed, TypeOK

\* handle_execution_result keeps the types.
LEMMA OnResultTyped ==
    ASSUME Typed, NEW r \in RCs, RCOnResult(r)
    PROVE  Typed'
<1>1. /\ rc[r].prop \in Proposals /\ rc[r].reply \in {"EXECUTED", "FAILED"}
      /\ rc[r].pc = "result" /\ UNCHANGED <<gc, lc>>
  BY DEF RCOnResult, RCUnchanged, Typed, Places, RCSound
<1>2. rcReq' \in [Proposals -> Request] /\ todo' \in [Controllers -> Seq(Update)]
  BY <1>1, ResultTyped DEF RCOnResult
<1>3. rc' \in [RCs -> RCHandler] /\ Places'
  BY <1>1, ReplyTyped DEF RCOnResult
<1> QED
  BY <1>2, <1>3 DEF RCOnResult, RCUnchanged, nibVars, Typed, TypeOK

\* Unlocking and answering, after an execution or a refusal, keep the types.
LEMMA CloseTyped ==
    ASSUME Typed, NEW r \in RCs, RCClose(r) \/ RCReject(r)
    PROVE  Typed'
<1>1. rc[r].prop \in Proposals /\ rc[r].reply \in Answers /\ UNCHANGED <<gc, lc>>
  BY DEF RCClose, RCReject, RCUnchanged, Typed, Places, RCSound, Answers, Denials
<1>2. Answer(r, rc[r].prop, rc[r].reply) /\ ReleaseProposalLock(r, rc[r].prop)
  BY DEF RCClose, RCReject
<1>3. answer' \in [Proposals -> Answers] /\ rc' \in [RCs -> RCHandler] /\ Places'
  BY <1>1, <1>2, AnswerTyped
<1>4. locks' \subseteq LockRow /\ propLocks' \in [Proposals -> Nat]
  BY <1>1, <1>2, ReleaseTyped
<1> QED
  BY <1>3, <1>4 DEF RCClose, RCReject, RCUnchanged, Typed, TypeOK

\* A response is dropped, or wakes the handler that waits for it.
LEMMA Delivered ==
    ASSUME Typed, NEW p \in Proposals, NEW n, NEW place, NEW next, NEW reply, NEW t,
           DeliverToRC(p, n, place, next, reply, t)
    PROVE  \/ rc' = rc
           \/ /\ rc[TargetOf[p]].pc = place /\ rc[TargetOf[p]].prop = p
              /\ rc[TargetOf[p]].dlv = n
              /\ GoesTo(TargetOf[p], next, t, reply, rc[TargetOf[p]].work)
<1>1. TargetOf[p] \in RCs
  BY PipelineAssumption
<1> QED
  BY <1>1, Fields DEF DeliverToRC

\* The same, seen from one handler.
LEMMA DeliveredTo ==
    ASSUME Typed, NEW p \in Proposals, NEW n, NEW place, NEW next, NEW reply, NEW t,
           DeliverToRC(p, n, place, next, reply, t), NEW s \in RCs
    PROVE  \/ rc'[s] = rc[s]
           \/ /\ s = TargetOf[p] /\ rc[s].pc = place /\ rc[s].prop = p /\ rc[s].dlv = n
              /\ rc'[s].pc = next /\ rc'[s].reply = reply /\ rc'[s].token = t
              /\ rc'[s].prop = p /\ rc'[s].dlv = n /\ rc'[s].start = rc[s].start
<1>1. TargetOf[p] \in RCs
  BY PipelineAssumption
<1>2. CASE rc' = rc
  BY <1>2
<1>3. CASE rc' # rc /\ s = TargetOf[p]
  BY <1>1, <1>3, Delivered, Moved
<1>4. CASE rc' # rc /\ s # TargetOf[p]
  BY <1>1, <1>4, Delivered, Moved
<1> QED
  BY <1>2, <1>3, <1>4

\* The type of what a response leaves; lc may change by the same step.
LEMMA DeliveredTyped ==
    ASSUME Typed, NEW p \in Proposals, NEW n, NEW place, NEW next, NEW reply,
           NEW t \in Token \union {None},
           DeliverToRC(p, n, place, next, reply, t),
           \/ place = "await_gc" /\ next = "gc_reply" /\ reply = "DENY"
           \/ place = "await_gc" /\ next = "gc_reply" /\ reply = "APPROVE" /\ t \in Token
           \/ place = "await_lc" /\ next = "result" /\ reply \in {"EXECUTED", "FAILED"}
    PROVE  /\ rc' \in [RCs -> RCHandler]
           /\ gc' = gc /\ lc' = lc => Places'
           /\ \A s \in RCs : RCSound(s)'
<1> DEFINE r == TargetOf[p]
<1>0. r \in RCs
  BY PipelineAssumption
<1>1. CASE rc' = rc
  BY <1>1 DEF Typed, TypeOK, Places, RCSound, GCSound, LCSound
<1>2. CASE rc[r].pc = place /\ rc[r].prop = p /\ GoesTo(r, next, t, reply, rc[r].work)
  <2>1. next \in RCPlaces /\ reply \in Answers \union {"EXECUTED", "FAILED"}
    BY DEF RCPlaces, Answers, Denials
  <2> HIDE DEF r
  <2>2. rc' \in [RCs -> RCHandler]
    BY <1>0, <1>2, <2>1, FieldTypes, MovedType
  <2>3. /\ rc'[r].pc = next /\ rc'[r].reply = reply /\ rc'[r].token = t
        /\ rc'[r].prop = p /\ rc'[r].work = rc[r].work
        /\ \A s \in RCs : s # r => rc'[s] = rc[s]
    BY <1>0, <1>2, Moved
  <2>4. TargetOf[p] = r
    BY DEF r
  <2> QED
    BY <1>0, <2>2, <2>3, <2>4 DEF Typed, Places, RCSound, GCSound, LCSound
<1> QED
  BY <1>1, <1>2, Delivered

\* The Global Controller's handle_config_proposal keeps the types.
LEMMA GCReceiveTyped ==
    ASSUME Typed, NEW p \in Proposals, NEW n \in 1..MaxSends, GCReceive(p, n)
    PROVE  Typed'
<1> DEFINE t == [prop |-> p, dlv |-> n, issuer |-> GC, expires_at |-> now + GCTokenTTL]
           u == [prop |-> p, status |-> "APPROVED", approver |-> GC]
<1>1. /\ gcInbox' \subseteq Proposals \X Nat
      /\ UNCHANGED <<http, now, config, locks, events, rcReq, propLocks, lc, used, ver, sent,
                     inbox, instr, answer, crashes, applied>>
  BY DEF GCReceive, nibVars, lcVars, Typed, TypeOK
<1>2. CASE /\ tokens' = tokens \union {t} /\ todo' = [todo EXCEPT ![GC] = <<u>>]
           /\ gc' = [pc |-> "decide", prop |-> p, dlv |-> n, token |-> t] /\ UNCHANGED rc
  <2>1. now + GCTokenTTL \in Nat
    BY TimeAssumption DEF Typed, TypeOK
  <2>2. t \in Token /\ u \in Update
    BY <2>1, Names, Writers DEF Token, Update
  <2>3. todo' \in [Controllers -> Seq(Update)]
    BY <1>2, <2>2, TodoTyped, Writers
  <2> HIDE DEF t, u
  <2>4. gc' \in GCHandler
    BY <1>2, <2>2 DEF GCHandler
  <2>5. Places'
    BY <1>1, <1>2, <2>2 DEF Typed, Places, RCSound, GCSound, LCSound
  <2> QED
    BY <1>1, <1>2, <2>2, <2>3, <2>4, <2>5 DEF Typed, TypeOK
<1>3. CASE /\ DeliverToRC(p, n, "await_gc", "gc_reply", "DENY", None)
           /\ UNCHANGED <<gc, tokens, todo>>
  <2>1. rc' \in [RCs -> RCHandler] /\ Places'
    BY <1>1, <1>3, DeliveredTyped
  <2> QED
    BY <1>1, <1>3, <2>1 DEF Typed, TypeOK
<1> QED
  BY <1>2, <1>3 DEF GCReceive

\* The Global Controller's decision keeps the types.
LEMMA GCDecideTyped ==
    ASSUME Typed, GCDecide
    PROVE  Typed'
<1>1. gc.prop \in Proposals /\ gc.token \in Token
  BY DEF GCDecide, Typed, Places, GCSound
<1>2. /\ DeliverToRC(gc.prop, gc.dlv, "await_gc", "gc_reply", "APPROVE", gc.token)
      /\ gc' = IdleGC
      /\ UNCHANGED <<http, now, config, locks, propLocks, rcReq, lc, used, todo, ver, tokens,
                     sent, inbox, gcInbox, instr, answer, crashes, applied>>
  BY DEF GCDecide, lockVars, lcVars, netVars
<1>3. /\ rc' \in [RCs -> RCHandler]
      /\ \A s \in RCs : RCSound(s)'
  BY <1>1, <1>2, DeliveredTyped
<1>4. gc'.pc = "idle" /\ gc' \in GCHandler
  BY <1>2 DEF IdleGC, GCHandler
<1>5. Places'
  BY <1>2, <1>3, <1>4 DEF Typed, Places, RCSound, GCSound, LCSound
<1> QED
  BY <1>2, <1>3, <1>4, <1>5 DEF Typed, TypeOK

\* The Local Controller's two updates when it reports.
LEMMA ReportTyped ==
    ASSUME Typed, NEW l \in LCs, NEW p \in Proposals, NEW status \in {"EXECUTED", "FAILED"},
           LCReport(l, p, status)
    PROVE  todo' \in [Controllers -> Seq(Update)]
<1>1. StatusOnly(p, status) \in Update
  BY Names DEF StatusOnly, Update
<1> QED
  BY <1>1, TodoTyped, Writers DEF LCReport

\* A Local Controller goes on to report about its instruction.
LCGoesTo(l, place, status) ==
    lc' = [lc EXCEPT ![l] = [pc |-> place, prop |-> lc[l].prop, dlv |-> lc[l].dlv,
                             token |-> lc[l].token, status |-> status]]

\* What assigning fields of a Local Controller means for the whole record.
LEMMA LCFields ==
    ASSUME Typed, NEW l \in LCs, NEW x, NEW y
    PROVE  lc' = [lc EXCEPT ![l].pc = x, ![l].status = y] => LCGoesTo(l, x, y)
BY DEF Typed, TypeOK, LCHandler, LCGoesTo

\* The handler of one Local Controller changes; those of the others do not.
LEMMA LCPlaces ==
    ASSUME Typed, NEW l \in LCs, NEW h \in LCHandler, lc' = [lc EXCEPT ![l] = h],
           h.pc # "idle" => h.prop \in Proposals /\ OriginOf[h.prop] = l /\ h.token \in Token,
           h.pc = "report" => h.status \in {"EXECUTED", "FAILED"}
    PROVE  /\ lc' \in [LCs -> LCHandler] /\ lc'[l] = h
           /\ \A k \in LCs : k # l => lc'[k] = lc[k]
           /\ \A k \in LCs : LCSound(k)'
           /\ rc' = rc /\ gc' = gc => Places'
<1>1. lc' \in [LCs -> LCHandler] /\ lc'[l] = h /\ \A k \in LCs : k # l => lc'[k] = lc[k]
  BY DEF Typed, TypeOK
<1>2. \A k \in LCs : LCSound(k)'
  BY <1>1 DEF Typed, Places, LCSound
<1> QED
  BY <1>1, <1>2 DEF Typed, Places, RCSound, GCSound

\* The arrival of an instruction at a Local Controller keeps the types.
LEMMA LCReceiveTyped ==
    ASSUME Typed, NEW l \in LCs, NEW m \in instr, LCReceive(l, m)
    PROVE  Typed'
<1> DEFINE p == m.prop
           h == [pc |-> "execute", prop |-> p, dlv |-> m.dlv, token |-> m.token,
                 status |-> "none"]
           k == [pc |-> "report", prop |-> p, dlv |-> m.dlv, token |-> m.token,
                 status |-> "FAILED"]
<1>1. p \in Proposals /\ m.dlv \in Nat /\ m.token \in Token /\ OriginOf[p] = l
  BY DEF LCReceive, Typed, TypeOK
<1>2. h \in LCHandler /\ k \in LCHandler
  BY <1>1 DEF LCHandler
<1>3. /\ UNCHANGED <<rc, gc>> /\ instr' \subseteq instr
  BY DEF LCReceive, LCUnchanged
<1>4. CASE /\ used' = [used EXCEPT ![l] = @ \union {m.token}]
           /\ todo' = [todo EXCEPT ![l] = <<StatusOnly(p, "EXECUTING")>>]
           /\ lc' = [lc EXCEPT ![l] = h]
  <2>1. StatusOnly(p, "EXECUTING") \in Update
    BY <1>1, Names DEF StatusOnly, Update
  <2>2. todo' \in [Controllers -> Seq(Update)]
    BY <1>4, <2>1, TodoTyped, Writers
  <2>3. lc' \in [LCs -> LCHandler] /\ Places'
    BY <1>1, <1>2, <1>3, <1>4, LCPlaces
  <2>4. used' \in [LCs -> SUBSET Token]
    BY <1>1, <1>4 DEF Typed, TypeOK
  <2> QED
    BY <1>3, <2>2, <2>3, <2>4 DEF LCReceive, LCUnchanged, Typed, TypeOK
<1>5. CASE /\ LCReport(l, p, "FAILED") /\ UNCHANGED used
           /\ lc' = [lc EXCEPT ![l] = k]
  <2>1. lc' \in [LCs -> LCHandler] /\ Places'
    BY <1>1, <1>2, <1>3, <1>5, LCPlaces
  <2>2. todo' \in [Controllers -> Seq(Update)]
    BY <1>1, <1>5, ReportTyped
  <2> QED
    BY <1>3, <1>5, <2>1, <2>2 DEF LCReceive, LCUnchanged, Typed, TypeOK
<1> QED
  BY <1>4, <1>5 DEF LCReceive

\* Execution, done or failed: the handler goes on to report.
LEMMA LCExecuteTyped ==
    ASSUME Typed, NEW l \in LCs, LCExecute(l) \/ LCExecuteFails(l)
    PROVE  Typed'
<1> DEFINE p == lc[l].prop
<1>1. p \in Proposals /\ lc[l].token \in Token /\ OriginOf[p] = l /\ lc[l].dlv \in Nat
  BY DEF LCExecute, LCExecuteFails, Typed, TypeOK, LCHandler, Places, LCSound
<1>2. PICK status \in {"EXECUTED", "FAILED"} :
          /\ LCReport(l, p, status)
          /\ lc' = [lc EXCEPT ![l].pc = "report", ![l].status = status]
  BY DEF LCExecute, LCExecuteFails
<1>3. LCGoesTo(l, "report", status)
  BY <1>2, LCFields
<1>4. [pc |-> "report", prop |-> p, dlv |-> lc[l].dlv, token |-> lc[l].token,
       status |-> status] \in LCHandler
  BY <1>1 DEF LCHandler
<1>5. lc' \in [LCs -> LCHandler] /\ Places'
  <2>1. UNCHANGED <<rc, gc>>
    BY DEF LCExecute, LCExecuteFails, LCUnchanged
  <2> QED
    BY <1>1, <1>3, <1>4, <2>1, LCPlaces DEF LCGoesTo
<1>6. todo' \in [Controllers -> Seq(Update)]
  BY <1>1, <1>2, ReportTyped
<1>7. applied' \in [Proposals -> Seq(Token)] /\ ver' \in [Controllers -> Nat \union {Unread}]
  <2>1. Append(applied[p], lc[l].token) \in Seq(Token)
    BY <1>1 DEF Typed, TypeOK
  <2>2. CASE LCExecute(l)
    BY <1>1, <2>1, <2>2 DEF LCExecute, Typed, TypeOK
  <2>3. CASE LCExecuteFails(l)
    BY <2>3 DEF LCExecuteFails, Typed, TypeOK
  <2> QED
    BY <2>2, <2>3
<1> QED
  BY <1>5, <1>6, <1>7 DEF LCExecute, LCExecuteFails, LCUnchanged, Typed, TypeOK

\* The Local Controller's answer keeps the types.
LEMMA LCReturnTyped ==
    ASSUME Typed, NEW l \in LCs, LCReturn(l)
    PROVE  Typed'
<1> DEFINE p == lc[l].prop
<1>1. p \in Proposals /\ lc[l].token \in Token /\ lc[l].status \in {"EXECUTED", "FAILED"}
  BY DEF LCReturn, Typed, Places, LCSound
<1>2. rc' \in [RCs -> RCHandler] /\ \A s \in RCs : RCSound(s)'
  BY <1>1, DeliveredTyped DEF LCReturn
<1>3. IdleLC \in LCHandler /\ IdleLC.pc = "idle"
  BY DEF IdleLC, LCHandler
<1>4. lc' \in [LCs -> LCHandler] /\ \A k \in LCs : LCSound(k)'
  BY <1>3, LCPlaces DEF LCReturn
<1>5. Places'
  BY <1>2, <1>4 DEF LCReturn, LCUnchanged, Typed, Places, GCSound
<1> QED
  BY <1>2, <1>4, <1>5 DEF LCReturn, LCUnchanged, Typed, TypeOK

\* A row that update_config_status leaves, written or not.
LEMMA UpdateTyped ==
    ASSUME NEW row \in ConfigRow, NEW u \in Update, NEW v
    PROVE  UpdateConfigStatus(row, u, v) \in ConfigRow
<1>1. /\ u.status \in ConfigStatus /\ u.approver \in Controllers \union {None}
      /\ row.version \in Nat /\ row.approver \in Controllers \union {None}
      /\ row.submitted \in Nat
  BY DEF Update, ConfigRow
<1> DEFINE a == IF u.approver = None THEN row.approver ELSE u.approver
<1>2. a \in Controllers \union {None}
  BY <1>1
<1> HIDE DEF a
<1>3. ASSUME NEW new
      PROVE  new = [row EXCEPT !.status = u.status, !.approver = a,
                               !.version = row.version + 1] =>
             new = [status |-> u.status, version |-> row.version + 1, approver |-> a,
                    submitted |-> row.submitted]
  BY DEF ConfigRow
<1>4. [status |-> u.status, version |-> row.version + 1, approver |-> a,
       submitted |-> row.submitted] \in ConfigRow
  BY <1>1, <1>2 DEF ConfigRow
<1> QED
  BY <1>3, <1>4 DEF UpdateConfigStatus, a

\* get_config and update_config_status
LEMMA NIBTyped ==
    ASSUME Typed, NEW c \in Controllers, ReadConfig(c) \/ WriteConfig(c)
    PROVE  Typed'
<1> DEFINE u == Head(todo[c])
           row == UpdateConfigStatus(config[u.prop], u, ver[c])
<1>1. u \in Update /\ Tail(todo[c]) \in Seq(Update)
  BY HeadTailProperties DEF ReadConfig, WriteConfig, Typed, TypeOK
<1>2. u.prop \in Proposals /\ u.status \in ConfigStatus /\ u.approver \in Controllers \union {None}
  BY <1>1 DEF Update
<1>3. config[u.prop] \in ConfigRow /\ config[u.prop].version \in Nat
  BY <1>2 DEF Typed, TypeOK, ConfigRow
<1>4. Places'
  BY DEF ReadConfig, WriteConfig, Typed, Places, RCSound, GCSound, LCSound
<1>5. CASE ReadConfig(c)
  BY <1>3, <1>4, <1>5 DEF ReadConfig, Typed, TypeOK
<1>6. CASE WriteConfig(c)
  <2>1. row \in ConfigRow
    BY <1>1, <1>2, <1>3, UpdateTyped
  <2>2. config' = [config EXCEPT ![u.prop] = row]
    BY <1>6 DEF WriteConfig
  <2>3. /\ todo' = [todo EXCEPT ![c] = Tail(todo[c])]
        /\ ver' = [ver EXCEPT ![c] = Unread]
    BY <1>6 DEF WriteConfig
  <2> HIDE DEF u, row
  <2>4. config' \in [Proposals -> ConfigRow] /\ todo' \in [Controllers -> Seq(Update)]
    BY <1>1, <2>1, <2>2, <2>3 DEF Typed, TypeOK
  <2>5. ver' \in [Controllers -> Nat \union {Unread}]
    BY <2>3 DEF Typed, TypeOK
  <2> QED
    BY <1>4, <1>6, <2>4, <2>5 DEF WriteConfig, Typed, TypeOK
<1> QED
  BY <1>5, <1>6

\* A restart keeps the types.
LEMMA RestartTyped ==
    ASSUME Typed, NEW c \in Controllers, Restart(c)
    PROVE  Typed'
<1>1. /\ crashes' \in Nat /\ todo' \in [Controllers -> Seq(Update)]
      /\ ver' \in [Controllers -> Nat \union {Unread}]
      /\ UNCHANGED <<http, now, config, locks, events, tokens, sent, answer, applied>>
  BY DEF Restart, nibVars, Typed, TypeOK
<1>2. CASE c \in RCs /\ RestartRC(c)
  <2>1. IdleRC \in RCHandler
    BY DEF IdleRC, RCHandler, RCPlaces, Answers, Denials
  <2>2. rc' \in [RCs -> RCHandler] /\ rc'[c] = IdleRC /\ \A s \in RCs : s # c => rc'[s] = rc[s]
    BY <1>2, <2>1 DEF RestartRC, Typed, TypeOK
  <2>3. Places'
    BY <1>2, <2>2 DEF RestartRC, lcVars, Typed, Places, RCSound, GCSound, LCSound, IdleRC
  <2>4. /\ rcReq' \in [Proposals -> Request] /\ propLocks' \in [Proposals -> Nat]
        /\ inbox' \subseteq Proposals \X Nat
    <3>1. NotCached \in Request
      BY DEF NotCached, Request
    <3> QED
      BY <1>2, <3>1 DEF RestartRC, NoLock, Typed, TypeOK
  <2> QED
    BY <1>1, <1>2, <2>2, <2>3, <2>4 DEF RestartRC, lcVars, Typed, TypeOK
<1>3. CASE c \in LCs /\ RestartLC(c)
  <2>1. IdleLC \in LCHandler /\ IdleLC.pc = "idle"
    BY DEF IdleLC, LCHandler
  <2>2. lc' \in [LCs -> LCHandler] /\ Places'
    BY <1>3, <2>1, LCPlaces DEF RestartLC
  <2>3. used' \in [LCs -> SUBSET Token] /\ instr' \subseteq instr
    BY <1>3 DEF RestartLC, Typed, TypeOK
  <2> QED
    BY <1>1, <1>3, <2>2, <2>3 DEF RestartLC, Typed, TypeOK
<1>4. CASE RestartGC
  <2>1. gc' \in GCHandler /\ gc'.pc = "idle"
    BY <1>4 DEF RestartGC, IdleGC, GCHandler
  <2>2. Places'
    BY <1>4, <2>1 DEF RestartGC, lcVars, Typed, Places, RCSound, GCSound, LCSound
  <2> QED
    BY <1>1, <1>4, <2>1, <2>2 DEF RestartGC, lcVars, Typed, TypeOK
<1> QED
  BY <1>2, <1>3, <1>4 DEF Restart

\* The clock keeps the types.
LEMMA TickTyped ==
    ASSUME Typed, Tick
    PROVE  Typed'
<1>1. Places'
  BY DEF Tick, lcVars, Typed, Places, RCSound, GCSound, LCSound
<1>2. TypeOK'
  <2>1. /\ now' = now + 1
        /\ UNCHANGED <<http, config, locks, events, rc, rcReq, propLocks, gc, lc, used, todo, ver,
                       tokens, sent, inbox, gcInbox, instr, answer, crashes, applied>>
    BY DEF Tick, nibVars, lcVars, netVars
  <2>2. now' \in Nat
    BY <2>1 DEF Typed, TypeOK
  <2> QED
    BY <2>1, <2>2 DEF Typed, TypeOK
<1> QED
  BY <1>1, <1>2 DEF Typed

\* The initial state is well typed.
LEMMA InitTyped == Init => Typed
<1> SUFFICES ASSUME Init PROVE Typed
  OBVIOUS
<1>1. /\ NoRow \in ConfigRow /\ NotCached \in Request /\ IdleRC \in RCHandler
      /\ IdleGC \in GCHandler /\ IdleLC \in LCHandler /\ "none" \in Answers
  BY DEF NoRow, ConfigRow, NotCached, Request, IdleRC, RCHandler, RCPlaces, Answers, Denials,
         IdleGC, GCHandler, IdleLC, LCHandler
<1>2. Places
  BY DEF Init, Places, RCSound, GCSound, LCSound, IdleRC, IdleGC, IdleLC
<1>3. TypeOK
  BY <1>1, PipelineAssumption DEF Init, TypeOK, NoLock
<1> QED
  BY <1>2, <1>3 DEF Typed

\* Every step of the pipeline keeps the types.
LEMMA NextTyped ==
    ASSUME Typed, [Next]_vars
    PROVE  Typed'
<1>1. CASE UNCHANGED vars
  BY <1>1 DEF vars, Typed, TypeOK, Places, RCSound, GCSound, LCSound
<1>2. ASSUME NEW r \in RCs, RCStep(r) PROVE Typed'
  BY <1>2, ReceiveTyped, ExpireTyped, PurgeTyped, ExpireDoneTyped, CheckLockTyped,
     AcquireLockTyped, RCApproveTyped, IssueTokenTyped, EscalateTyped, EscalationFailsTyped,
     OnDecisionTyped, DispatchTyped, DispatchFailsTyped, OnResultTyped, CloseTyped
     DEF RCStep
<1>3. CASE GCStep
  BY <1>3, GCReceiveTyped, GCDecideTyped DEF GCStep
<1>4. ASSUME NEW l \in LCs, LCStep(l) PROVE Typed'
  BY <1>4, LCReceiveTyped, LCExecuteTyped, LCReturnTyped DEF LCStep
<1> QED
  BY <1>1, <1>2, <1>3, <1>4, SubmitTyped, NIBTyped, RestartTyped, TickTyped DEF Next

\* Type correctness of the pipeline: the NIB rows, the controllers' handlers and
\* caches, the tokens and the messages keep their types, whoever crashes.
THEOREM TypeCorrect == Spec => []TypeOK
<1>1. Init => Typed
  BY InitTyped
<1>2. Typed /\ [Next]_vars => Typed'
  BY NextTyped
<1>3. Typed => TypeOK
  BY DEF Typed
<1> QED
  BY <1>1, <1>2, <1>3, PTL DEF Spec

-----------------------------------------------------------------------------
(* The way of a proposal through a Regional Controller's handler.          *)

\* From one place to the next, with the same delivery of the same proposal.
Arrows == {<<"expire", "expire">>, <<"expire", "purge">>, <<"purge", "purge">>,
           <<"purge", "acquire">>, <<"purge", "review">>, <<"acquire", "review">>,
           <<"review", "issue">>, <<"review", "await_gc">>, <<"review", "reject">>,
           <<"await_gc", "gc_reply">>, <<"gc_reply", "dispatch">>, <<"gc_reply", "reject">>,
           <<"issue", "dispatch">>, <<"dispatch", "await_lc">>, <<"await_lc", "result">>,
           <<"await_lc", "close">>, <<"result", "close">>}

Advances(s) ==
    /\ <<rc[s].pc, rc'[s].pc>> \in Arrows
    /\ rc'[s].prop = rc[s].prop /\ rc'[s].dlv = rc[s].dlv /\ rc'[s].start = rc[s].start

Proceeds == \A s \in RCs : rc'[s] = rc[s] \/ rc'[s].pc = "idle" \/ Advances(s)

\* A handler that goes on along an arrow, or returns.
LEMMA MovedProceeds ==
    ASSUME Typed, NEW r \in RCs, NEW place, NEW t, NEW reply, NEW work,
           GoesTo(r, place, t, reply, work), <<rc[r].pc, place>> \in Arrows
    PROVE  Proceeds
BY Moved DEF Proceeds, Advances

\* A handler that answers becomes idle.
LEMMA AnswerProceeds ==
    ASSUME Typed, NEW r \in RCs, NEW p, NEW a, Answer(r, p, a)
    PROVE  Proceeds
BY DEF Answer, Proceeds, IdleRC, Typed, TypeOK

\* A handler that gets the answer it waits for goes one place further.
LEMMA DeliveredProceeds ==
    ASSUME Typed, NEW p \in Proposals, NEW n, NEW place, NEW next, NEW reply, NEW t,
           DeliverToRC(p, n, place, next, reply, t), <<place, next>> \in Arrows
    PROVE  Proceeds
<1>1. TargetOf[p] \in RCs
  BY PipelineAssumption
<1>2. CASE rc' = rc
  BY <1>2 DEF Proceeds
<1>3. CASE /\ rc[TargetOf[p]].pc = place
           /\ GoesTo(TargetOf[p], next, t, reply, rc[TargetOf[p]].work)
  BY <1>1, <1>3, MovedProceeds
<1> QED
  BY <1>2, <1>3, Delivered

\* approve_request
LEMMA ApproveProceeds ==
    ASSUME Typed, NEW r \in RCs, NEW p, NEW q, NEW updates, NEW next,
           ApproveRequest(r, p, q, updates, next),
           <<rc[r].pc, next>> \in Arrows, <<rc[r].pc, "reject">> \in Arrows
    PROVE  Proceeds
<1>1. CASE rc' = [rc EXCEPT ![r].pc = next]
  <2>1. GoesTo(r, next, rc[r].token, rc[r].reply, rc[r].work)
    BY <1>1, Fields
  <2> QED
    BY <2>1, MovedProceeds
<1>2. CASE rc' = [rc EXCEPT ![r].pc = "reject", ![r].reply = "DENY"]
  <2>1. GoesTo(r, "reject", rc[r].token, "DENY", rc[r].work)
    BY <1>2, Fields
  <2> QED
    BY <2>1, MovedProceeds
<1> QED
  BY <1>1, <1>2 DEF ApproveRequest

\* A step of a handler takes it one place further, or stays.
LEMMA HandlerProceeds ==
    ASSUME Typed, NEW r \in RCs,
           \/ \E q \in Proposals : RCExpire(r, q) \/ RCPurge(r, q)
           \/ RCExpireDone(r) \/ RCCheckLock(r) \/ RCAcquireLock(r)
           \/ RCApprove(r) \/ RCIssueToken(r)
           \/ RCEscalate(r) \/ RCEscalationFails(r) \/ RCOnDecision(r)
           \/ RCDispatch(r) \/ RCDispatchFails(r) \/ RCOnResult(r)
           \/ RCClose(r) \/ RCReject(r)
    PROVE  Proceeds
<1>1. ASSUME NEW q \in Proposals, RCExpire(r, q) PROVE Proceeds
  <2>1. GoesTo(r, "expire", rc[r].token, rc[r].reply, rc[r].work \ {q}) /\ rc[r].pc = "expire"
    BY <1>1, Fields DEF RCExpire
  <2> QED
    BY <2>1, MovedProceeds DEF Arrows
<1>2. ASSUME NEW q \in Proposals, RCPurge(r, q) PROVE Proceeds
  <2>1. GoesTo(r, "purge", rc[r].token, rc[r].reply, rc[r].work \ {q}) /\ rc[r].pc = "purge"
    BY <1>2, Fields DEF RCPurge
  <2> QED
    BY <2>1, MovedProceeds DEF Arrows
<1>3. CASE RCExpireDone(r)
  <2>1. \E w : GoesTo(r, "purge", rc[r].token, rc[r].reply, w) /\ rc[r].pc = "expire"
    BY <1>3, Fields DEF RCExpireDone
  <2> QED
    BY <2>1, MovedProceeds DEF Arrows
<1>4. CASE RCCheckLock(r)
  <2>1. CASE Answer(r, rc[r].prop, "DENY")
    BY <2>1, AnswerProceeds
  <2>2. CASE rc' = [rc EXCEPT ![r].pc = "review"] /\ rc[r].pc = "purge"
    <3>1. GoesTo(r, "review", rc[r].token, rc[r].reply, rc[r].work)
      BY <2>2, Fields
    <3> QED
      BY <3>1, <2>2, MovedProceeds DEF Arrows
  <2>3. CASE rc' = [rc EXCEPT ![r].pc = "acquire"] /\ rc[r].pc = "purge"
    <3>1. GoesTo(r, "acquire", rc[r].token, rc[r].reply, rc[r].work)
      BY <2>3, Fields
    <3> QED
      BY <3>1, <2>3, MovedProceeds DEF Arrows
  <2> QED
    BY <1>4, <2>1, <2>2, <2>3 DEF RCCheckLock
<1>5. CASE RCAcquireLock(r)
  <2>1. CASE Answer(r, rc[r].prop, "DENY")
    BY <2>1, AnswerProceeds
  <2>2. CASE rc' = [rc EXCEPT ![r].pc = "review"] /\ rc[r].pc = "acquire"
    <3>1. GoesTo(r, "review", rc[r].token, rc[r].reply, rc[r].work)
      BY <2>2, Fields
    <3> QED
      BY <3>1, <2>2, MovedProceeds DEF Arrows
  <2> QED
    BY <1>5, <2>1, <2>2 DEF RCAcquireLock
<1>6. CASE RCApprove(r)
  <2>1. PICK q, u : /\ ApproveRequest(r, rc[r].prop, q, u, "issue")
                    /\ rc[r].pc = "review"
    BY <1>6 DEF RCApprove
  <2> QED
    BY <2>1, ApproveProceeds DEF Arrows
<1>7. CASE RCIssueToken(r)
  <2>1. \E t : GoesTo(r, "dispatch", t, rc[r].reply, rc[r].work) /\ rc[r].pc = "issue"
    BY <1>7, Fields DEF RCIssueToken
  <2> QED
    BY <2>1, MovedProceeds DEF Arrows
<1>8. CASE RCEscalate(r)
  <2>1. CASE rc' = [rc EXCEPT ![r].pc = "await_gc"] /\ rc[r].pc = "review"
    <3>1. GoesTo(r, "await_gc", rc[r].token, rc[r].reply, rc[r].work)
      BY <2>1, Fields
    <3> QED
      BY <3>1, <2>1, MovedProceeds DEF Arrows
  <2>2. CASE /\ rc' = [rc EXCEPT ![r].pc = "reject", ![r].reply = "ESCALATE"]
             /\ rc[r].pc = "review"
    <3>1. GoesTo(r, "reject", rc[r].token, "ESCALATE", rc[r].work)
      BY <2>2, Fields
    <3> QED
      BY <3>1, <2>2, MovedProceeds DEF Arrows
  <2> QED
    BY <1>8, <2>1, <2>2 DEF RCEscalate
<1>9. CASE RCEscalationFails(r)
  BY <1>9, AnswerProceeds DEF RCEscalationFails
<1>10. CASE RCOnDecision(r)
  <2>1. CASE \E q, u : /\ ApproveRequest(r, rc[r].prop, q, u, "dispatch")
                       /\ rc[r].pc = "gc_reply"
    BY <2>1, ApproveProceeds DEF Arrows
  <2>2. CASE /\ rc' = [rc EXCEPT ![r].pc = "reject", ![r].reply = "DENY"]
             /\ rc[r].pc = "gc_reply"
    <3>1. GoesTo(r, "reject", rc[r].token, "DENY", rc[r].work)
      BY <2>2, Fields
    <3> QED
      BY <3>1, <2>2, MovedProceeds DEF Arrows
  <2> QED
    BY <1>10, <2>1, <2>2 DEF RCOnDecision
<1>11. CASE RCDispatch(r)
  <2>1. GoesTo(r, "await_lc", rc[r].token, rc[r].reply, rc[r].work) /\ rc[r].pc = "dispatch"
    BY <1>11, Fields DEF RCDispatch
  <2> QED
    BY <2>1, MovedProceeds DEF Arrows
<1>12. CASE RCDispatchFails(r)
  <2>1. /\ GoesTo(r, "close", rc[r].token, "EXECUTION_DISPATCH_FAILED", rc[r].work)
        /\ rc[r].pc = "await_lc"
    BY <1>12, Fields DEF RCDispatchFails
  <2> QED
    BY <2>1, MovedProceeds DEF Arrows
<1>13. CASE RCOnResult(r)
  <2>1. GoesTo(r, "close", rc[r].token, "APPROVE", rc[r].work) /\ rc[r].pc = "result"
    BY <1>13, Fields DEF RCOnResult
  <2> QED
    BY <2>1, MovedProceeds DEF Arrows
<1>14. CASE RCClose(r) \/ RCReject(r)
  BY <1>14, AnswerProceeds DEF RCClose, RCReject
<1> QED
  BY <1>1, <1>2, <1>3, <1>4, <1>5, <1>6, <1>7, <1>8, <1>9, <1>10, <1>11, <1>12, <1>13, <1>14

-----------------------------------------------------------------------------
(* Deliveries and time limits.                                             *)

\* A delivery is numbered by how often its proposal was sent, and is either in the
\* inbox or being handled, within the handler's time.
Deliveries ==
    /\ \A p \in Proposals, n \in Nat : <<p, n>> \in inbox => n \in 1..sent[p]
    /\ \A p \in Proposals : config[p] = NoRow => sent[p] = 0
    /\ \A r \in RCs : rc[r].pc # "idle" =>
           /\ rc[r].dlv \in 1..sent[rc[r].prop]
           /\ <<rc[r].prop, rc[r].dlv>> \notin inbox
           /\ rc[r].start <= now /\ now <= rc[r].start + HandlerTime

\* A step of a controller, or of the NIB: nothing is sent or received and the
\* clock stands still.
Inside ==
    /\ Proceeds
    /\ sent' = sent /\ now' = now /\ inbox' \subseteq inbox
    /\ \A p \in Proposals : config'[p] = NoRow => config[p] = NoRow

\* update_config_status never makes a row disappear.
LEMMA RowStays ==
    ASSUME Typed, NEW c \in Controllers, WriteConfig(c), NEW p \in Proposals,
           config'[p] = NoRow
    PROVE  config[p] = NoRow
<1> DEFINE u == Head(todo[c])
<1>1. u \in Update
  BY HeadTailProperties DEF WriteConfig, Typed, TypeOK
<1>2. u.prop \in Proposals /\ u.status \in ConfigStatus
  BY <1>1 DEF Update
<1>3. config' = [config EXCEPT ![u.prop] = UpdateConfigStatus(config[u.prop], u, ver[c])]
  BY DEF WriteConfig
<1> HIDE DEF u
<1>4. CASE p # u.prop \/ config[u.prop].version # ver[c]
  BY <1>2, <1>3, <1>4 DEF UpdateConfigStatus, Typed, TypeOK
<1>5. CASE p = u.prop /\ config[u.prop].version = ver[c]
  <2>1. config'[p].status = u.status
    BY <1>2, <1>3, <1>5 DEF UpdateConfigStatus, Typed, TypeOK, ConfigRow
  <2>2. NoRow.status = "ABSENT" /\ "ABSENT" \notin ConfigStatus
    BY DEF NoRow, ConfigStatus
  <2> QED
    BY <1>2, <2>1, <2>2
<1> QED
  BY <1>4, <1>5

\* What a step is.
LEMMA Kinds ==
    ASSUME Typed, [Next]_vars
    PROVE  \/ \E p \in Proposals : SubmitConfigProposal(p) \/ ResendProposal(p)
           \/ \E r \in RCs, p \in Proposals, n \in 1..MaxSends : RCReceive(r, p, n)
           \/ Tick
           \/ Inside
<1>1. CASE UNCHANGED vars
  BY <1>1 DEF vars, Inside, Proceeds
<1>2. ASSUME NEW r \in RCs, RCStep(r),
             ~\E p \in Proposals, n \in 1..MaxSends : RCReceive(r, p, n)
      PROVE  Inside
  <2>1. Proceeds
    BY <1>2, HandlerProceeds DEF RCStep
  <2>2. sent' = sent /\ now' = now
    BY <1>2 DEF RCStep, RCExpire, RCPurge, RCExpireDone, RCCheckLock, RCAcquireLock, RCApprove,
            RCIssueToken, RCEscalate, RCEscalationFails, RCOnDecision, RCDispatch,
            RCDispatchFails, RCOnResult, RCClose, RCReject, RCUnchanged
  <2>3. inbox' = inbox /\ config' = config
    BY <1>2 DEF RCStep, RCExpire, RCPurge, RCExpireDone, RCCheckLock, RCAcquireLock, RCApprove,
            RCIssueToken, RCEscalate, RCEscalationFails, RCOnDecision, RCDispatch,
            RCDispatchFails, RCOnResult, RCClose, RCReject, nibVars
  <2> QED
    BY <2>1, <2>2, <2>3 DEF Inside
<1>3. ASSUME NEW p \in Proposals, NEW n \in 1..MaxSends, GCReceive(p, n) PROVE Inside
  <2>1. Proceeds
    <3>1. CASE UNCHANGED rc
      BY <3>1 DEF Proceeds
    <3>2. CASE DeliverToRC(p, n, "await_gc", "gc_reply", "DENY", None)
      BY <3>2, DeliveredProceeds DEF Arrows
    <3> QED
      BY <1>3, <3>1, <3>2 DEF GCReceive
  <2> QED
    BY <1>3, <2>1 DEF Inside, GCReceive, nibVars
<1>4. CASE GCDecide
  <2>1. gc.prop \in Proposals
    BY <1>4 DEF GCDecide, Typed, Places, GCSound
  <2>2. Proceeds
    BY <1>4, <2>1, DeliveredProceeds DEF GCDecide, Arrows
  <2> QED
    BY <1>4, <2>2 DEF Inside, GCDecide, netVars
<1>5. ASSUME NEW l \in LCs, LCStep(l) PROVE Inside
  <2>1. CASE LCReturn(l)
    <3>1. lc[l].prop \in Proposals
      BY <2>1 DEF LCReturn, Typed, Places, LCSound
    <3>2. Proceeds
      BY <2>1, <3>1, DeliveredProceeds DEF LCReturn, Arrows
    <3> QED
      BY <2>1, <3>2 DEF Inside, LCReturn, LCUnchanged
  <2>2. CASE LCExecute(l) \/ LCExecuteFails(l) \/ \E m \in instr : LCReceive(l, m)
    BY <2>2 DEF Inside, Proceeds, LCExecute, LCExecuteFails, LCReceive, LCUnchanged
  <2> QED
    BY <1>5, <2>1, <2>2 DEF LCStep
<1>6. ASSUME NEW c \in Controllers, ReadConfig(c) \/ WriteConfig(c) PROVE Inside
  <2>1. UNCHANGED <<rc, sent, now, inbox>>
    BY <1>6 DEF ReadConfig, WriteConfig
  <2>2. \A p \in Proposals : config'[p] = NoRow => config[p] = NoRow
    BY <1>6, RowStays DEF ReadConfig
  <2> QED
    BY <2>1, <2>2 DEF Inside, Proceeds
<1>7. ASSUME NEW c \in Controllers, Restart(c) PROVE Inside
  <2>1. UNCHANGED <<sent, now, config>>
    BY <1>7 DEF Restart, nibVars
  <2>2. CASE c \in RCs /\ RestartRC(c)
    BY <2>1, <2>2 DEF Inside, Proceeds, RestartRC, IdleRC, Typed, TypeOK
  <2>3. CASE RestartLC(c) \/ RestartGC
    BY <2>1, <2>3 DEF Inside, Proceeds, RestartLC, RestartGC
  <2> QED
    BY <1>7, <2>2, <2>3 DEF Restart
<1> QED
  BY <1>1, <1>2, <1>3, <1>4, <1>5, <1>6, <1>7 DEF Next, RCStep, GCStep

\* A delivery that is handled and one that waits stay apart: first sending ...
LEMMA SubmitDeliveries ==
    ASSUME Typed, Deliveries, NEW p \in Proposals, SubmitConfigProposal(p)
    PROVE  Deliveries'
<1>1. config[p] = NoRow /\ sent[p] = 0 /\ UNCHANGED <<rc, now>>
  BY DEF SubmitConfigProposal, Deliveries
<1>2. config' \in [Proposals -> ConfigRow] /\ config'[p] # NoRow
      /\ \A q \in Proposals : q # p => config'[q] = config[q]
  <2>1. \/ config' = [config EXCEPT ![p] = [status |-> "APPROVED", version |-> 1,
                          approver |-> OriginOf[p], submitted |-> now]]
        \/ config' = [config EXCEPT ![p] = [status |-> "PENDING", version |-> 0,
                          approver |-> None, submitted |-> now]]
    BY DEF SubmitConfigProposal
  <2>2. config'[p].status # NoRow.status
    BY <2>1 DEF NoRow, Typed, TypeOK
  <2>3. Typed'
    BY SubmitTyped
  <2> QED
    BY <2>1, <2>2, <2>3 DEF Typed, TypeOK
<1>3. CASE UNCHANGED <<sent, inbox>>
  BY <1>1, <1>2, <1>3 DEF Deliveries
<1>4. CASE sent' = [sent EXCEPT ![p] = 1] /\ inbox' = inbox \union {<<p, 1>>}
  <2>1. /\ sent'[p] = 1 /\ \A q \in Proposals : q # p => sent'[q] = sent[q]
        /\ \A q \in Proposals : sent[q] \in Nat
    BY <1>4 DEF Typed, TypeOK
  <2>2. ASSUME NEW q \in Proposals, NEW n \in Nat, <<q, n>> \in inbox'
        PROVE  n \in 1..sent'[q]
    BY <1>1, <1>4, <2>1, <2>2 DEF Deliveries
  <2>3. ASSUME NEW r \in RCs, rc[r].pc # "idle"
        PROVE  /\ rc[r].dlv \in 1..sent'[rc[r].prop] /\ <<rc[r].prop, rc[r].dlv>> \notin inbox'
               /\ rc[r].start <= now /\ now <= rc[r].start + HandlerTime
    <3>1. rc[r].prop \in Proposals /\ rc[r].dlv \in 1..sent[rc[r].prop]
      BY <2>3 DEF Typed, Places, RCSound, Deliveries
    <3>2. rc[r].prop # p
      BY <1>1, <3>1
    <3> QED
      BY <1>4, <2>1, <2>3, <3>1, <3>2 DEF Deliveries
  <2> QED
    BY <1>1, <1>2, <2>1, <2>2, <2>3 DEF Deliveries
<1> QED
  BY <1>3, <1>4 DEF SubmitConfigProposal

\* ... sending again, ...
LEMMA ResendDeliveries ==
    ASSUME Typed, Deliveries, NEW p \in Proposals, ResendProposal(p)
    PROVE  Deliveries'
<1>1. /\ sent[p] >= 1 /\ UNCHANGED <<rc, now, config>>
      /\ sent' = [sent EXCEPT ![p] = sent[p] + 1] /\ inbox' = inbox \union {<<p, sent[p] + 1>>}
  BY DEF ResendProposal
<1>2. /\ sent'[p] = sent[p] + 1 /\ \A q \in Proposals : q # p => sent'[q] = sent[q]
      /\ \A q \in Proposals : sent[q] \in Nat
  BY <1>1 DEF Typed, TypeOK
<1>3. ASSUME NEW q \in Proposals, NEW n \in Nat, <<q, n>> \in inbox'
      PROVE  n \in 1..sent'[q]
  BY <1>1, <1>2, <1>3 DEF Deliveries
<1>4. ASSUME NEW r \in RCs, rc[r].pc # "idle"
      PROVE  /\ rc[r].dlv \in 1..sent'[rc[r].prop] /\ <<rc[r].prop, rc[r].dlv>> \notin inbox'
             /\ rc[r].start <= now /\ now <= rc[r].start + HandlerTime
  <2>1. rc[r].prop \in Proposals /\ rc[r].dlv \in 1..sent[rc[r].prop]
    BY <1>4 DEF Typed, Places, RCSound, Deliveries
  <2> QED
    BY <1>1, <1>2, <1>4, <2>1 DEF Deliveries
<1>5. \A q \in Proposals : config'[q] = NoRow => sent'[q] = 0
  BY <1>1, <1>2 DEF Deliveries
<1> QED
  BY <1>1, <1>3, <1>4, <1>5 DEF Deliveries

\* ... receiving, ...
LEMMA ReceiveDeliveries ==
    ASSUME Typed, Deliveries, NEW r \in RCs, NEW p \in Proposals, NEW n \in 1..MaxSends,
           RCReceive(r, p, n)
    PROVE  Deliveries'
<1>1. /\ <<p, n>> \in inbox /\ inbox' = inbox \ {<<p, n>>}
      /\ UNCHANGED <<now, sent, config>>
  BY DEF RCReceive, RCUnchanged, nibVars
<1>2. /\ rc'[r].prop = p /\ rc'[r].dlv = n /\ rc'[r].start = now
      /\ \A s \in RCs : s # r => rc'[s] = rc[s]
  BY DEF RCReceive, Typed, TypeOK
<1>3. n \in 1..sent[p] /\ now \in Nat /\ now <= now + HandlerTime
  <2>1. now \in Nat /\ now <= now + HandlerTime
    BY TimeAssumption DEF Typed, TypeOK
  <2>2. n \in Nat
    BY TimeAssumption
  <2> QED
    BY <1>1, <2>1, <2>2 DEF Deliveries
<1>4. ASSUME NEW s \in RCs, rc'[s].pc # "idle"
      PROVE  /\ rc'[s].dlv \in 1..sent[rc'[s].prop] /\ <<rc'[s].prop, rc'[s].dlv>> \notin inbox'
             /\ rc'[s].start <= now /\ now <= rc'[s].start + HandlerTime
  <2>1. CASE s = r
    BY <1>1, <1>2, <1>3, <2>1
  <2>2. CASE s # r
    BY <1>1, <1>2, <1>4, <2>2 DEF Deliveries
  <2> QED
    BY <2>1, <2>2
<1> QED
  BY <1>1, <1>4 DEF Deliveries

\* ... and anything else.
LEMMA NextDeliveries ==
    ASSUME Typed, Deliveries, [Next]_vars
    PROVE  Deliveries'
<1>1. CASE Tick
  <2>1. /\ now' = now + 1 /\ UNCHANGED <<sent, inbox, config, rc>>
        /\ \A r \in RCs : rc[r].pc # "idle" => now < rc[r].start + HandlerTime
    BY <1>1 DEF Tick, netVars, nibVars
  <2>2. \A r \in RCs : rc[r].start \in Nat /\ now \in Nat /\ HandlerTime \in Nat
    BY FieldTypes, TimeAssumption
  <2> QED
    BY <2>1, <2>2 DEF Deliveries
<1>2. CASE Inside
  <2>1. ASSUME NEW s \in RCs, rc'[s].pc # "idle"
        PROVE  rc[s].pc # "idle" /\ rc'[s].prop = rc[s].prop /\ rc'[s].dlv = rc[s].dlv
               /\ rc'[s].start = rc[s].start
    BY <1>2, <2>1 DEF Inside, Proceeds, Advances, Arrows
  <2> QED
    BY <1>2, <2>1 DEF Inside, Deliveries
<1> QED
  BY <1>1, <1>2, Kinds, SubmitDeliveries, ResendDeliveries, ReceiveDeliveries

-----------------------------------------------------------------------------
(* Who may approve a change.                                               *)

\* Of the tokens and events given, t allows change p: it was issued for p by the
\* controller entitled to, and the approval of a HIGH change is in the event log.
Allows(issued, log, t, p) ==
    /\ t \in issued /\ t.prop = p
    /\ t.issuer = IF IsHigh(p) THEN GC ELSE TargetOf[p]
    /\ t.issuer = GC => GCSens[p] = "HIGH"
    /\ IsHigh(p) => <<"CONFIG_APPROVED", GC, p, "APPROVED">> \in log

Cleared(t, p) == Allows(tokens, events, t, p)

\* Every token on its way to a device clears the change it is for.
RCCleared(r) ==
    /\ rc[r].pc = "issue" => ~IsHigh(rc[r].prop)
    /\ rc[r].pc \in {"await_gc", "gc_reply"} => IsHigh(rc[r].prop)
    /\ rc[r].pc = "gc_reply" /\ rc[r].reply = "APPROVE" => Cleared(rc[r].token, rc[r].prop)
    /\ rc[r].pc \in {"dispatch", "await_lc"} => Cleared(rc[r].token, rc[r].prop)

GCCleared ==
    gc.pc = "decide" => /\ gc.token \in tokens /\ gc.token.prop = gc.prop
                        /\ gc.token.issuer = GC /\ GCSens[gc.prop] = "HIGH"

LCCleared(l) == lc[l].pc = "execute" => Cleared(lc[l].token, lc[l].prop)

Authority ==
    /\ \A r \in RCs : RCCleared(r)
    /\ GCCleared
    /\ \A m \in instr : Cleared(m.token, m.prop)
    /\ \A l \in LCs : LCCleared(l)
    /\ \A p \in Proposals : \A i \in 1..Len(applied[p]) : Cleared(applied[p][i], p)

\* What is allowed stays allowed.
LEMMA AllowsMore ==
    ASSUME NEW issued, NEW log, NEW more, NEW longer, NEW t, NEW p,
           issued \subseteq more, log \subseteq longer, Allows(issued, log, t, p)
    PROVE  Allows(more, longer, t, p)
BY DEF Allows

\* Tokens and events are never taken back.
LEMMA NothingTakenBack ==
    ASSUME [Next]_vars
    PROVE  tokens \subseteq tokens' /\ events \subseteq events'
<1>1. CASE UNCHANGED vars
  BY <1>1 DEF vars
<1>2. ASSUME NEW r \in RCs, RCStep(r) PROVE tokens \subseteq tokens' /\ events \subseteq events'
  BY <1>2 DEF RCStep, RCReceive, RCExpire, RCPurge, RCExpireDone, RCCheckLock, RCAcquireLock,
          RCApprove, RCIssueToken, RCEscalate, RCEscalationFails, RCOnDecision, RCDispatch,
          RCDispatchFails, RCOnResult, RCClose, RCReject, nibVars
<1>3. CASE GCStep
  BY <1>3 DEF GCStep, GCReceive, GCDecide, nibVars
<1>4. ASSUME NEW l \in LCs, LCStep(l) PROVE tokens \subseteq tokens' /\ events \subseteq events'
  BY <1>4 DEF LCStep, LCReceive, LCExecute, LCExecuteFails, LCReturn, LCUnchanged
<1>5. ASSUME \/ \E p \in Proposals : SubmitConfigProposal(p) \/ ResendProposal(p)
             \/ \E c \in Controllers : ReadConfig(c) \/ WriteConfig(c) \/ Restart(c)
             \/ Tick
      PROVE  tokens \subseteq tokens' /\ events \subseteq events'
  BY <1>5 DEF SubmitConfigProposal, ResendProposal, ReadConfig, WriteConfig, Restart, Tick, nibVars
<1> QED
  BY <1>1, <1>2, <1>3, <1>4, <1>5 DEF Next

\* A Regional Controller touches no handler but its own.
LEMMA Alone ==
    ASSUME Typed, NEW r \in RCs, RCStep(r), NEW s \in RCs, s # r
    PROVE  rc'[s] = rc[s]
BY DEF RCStep, RCReceive, RCExpire, RCPurge, RCExpireDone, RCCheckLock, RCAcquireLock,
       RCApprove, RCIssueToken, RCEscalate, RCEscalationFails, RCOnDecision, RCDispatch,
       RCDispatchFails, RCOnResult, RCClose, RCReject, Answer, ApproveRequest, Typed, TypeOK

\* Nobody considers a change HIGH whose effective sensitivity is not.
LEMMA EffectiveIsHigh ==
    ASSUME NEW p \in Proposals
    PROVE  Effective(p) = "HIGH" <=> IsHigh(p)
BY DEF Effective, MaxSensitivity, IsHigh

\* The handler that makes the step keeps to the authority rules.
LEMMA RCStepCleared ==
    ASSUME Typed, Authority, [Next]_vars, NEW r \in RCs, RCStep(r)
    PROVE  RCCleared(r)'
<1> DEFINE p == rc[r].prop
<1>0. tokens \subseteq tokens' /\ events \subseteq events'
  BY NothingTakenBack
<1>1. CASE rc'[r].pc \notin {"issue", "await_gc", "gc_reply", "dispatch", "await_lc"}
  BY <1>1 DEF RCCleared
<1>2. CASE RCApprove(r)
  <2>1. p \in Proposals /\ ~IsHigh(p) /\ rc[r].pc = "review"
    BY <1>2, EffectiveIsHigh DEF RCApprove, Typed, Places, RCSound
  <2>2. CASE rc' = [rc EXCEPT ![r].pc = "issue"]
    <3>1. rc'[r].pc = "issue" /\ rc'[r].prop = p
      BY <2>2 DEF Typed, TypeOK, RCHandler
    <3> QED
      BY <2>1, <3>1 DEF RCCleared
  <2>3. CASE rc' = [rc EXCEPT ![r].pc = "reject", ![r].reply = "DENY"]
    <3>1. rc'[r].pc = "reject"
      BY <2>3 DEF Typed, TypeOK, RCHandler
    <3> QED
      BY <1>1, <3>1
  <2> QED
    BY <1>2, <2>2, <2>3 DEF RCApprove, ApproveRequest
<1>3. CASE RCIssueToken(r)
  <2> DEFINE t == [prop |-> p, dlv |-> rc[r].dlv, issuer |-> r, expires_at |-> now + RCTokenTTL]
  <2>1. rc[r].pc = "issue" /\ p \in Proposals /\ TargetOf[p] = r /\ ~IsHigh(p) /\ t \in tokens'
    BY <1>3 DEF RCIssueToken, Typed, Places, RCSound, Authority, RCCleared
  <2>2. GoesTo(r, "dispatch", t, rc[r].reply, rc[r].work)
    BY <1>3, Fields DEF RCIssueToken
  <2>3. rc'[r].pc = "dispatch" /\ rc'[r].token = t /\ rc'[r].prop = p
    BY <2>2, Moved
  <2>4. Allows(tokens', events', t, p)
    BY <2>1, ControllersDistinct DEF Allows
  <2> HIDE DEF t, p
  <2> QED
    BY <2>3, <2>4 DEF RCCleared, Cleared
<1>4. CASE RCEscalate(r)
  <2>1. p \in Proposals /\ IsHigh(p)
    BY <1>4, EffectiveIsHigh DEF RCEscalate, Typed, Places, RCSound
  <2>2. rc'[r].pc \in {"await_gc", "reject"} /\ rc'[r].prop = p
    BY <1>4 DEF RCEscalate, Typed, TypeOK, RCHandler
  <2> QED
    BY <2>1, <2>2 DEF RCCleared
<1>5. CASE RCOnDecision(r)
  <2>1. CASE rc[r].reply = "APPROVE" /\ rc' = [rc EXCEPT ![r].pc = "dispatch"]
    <3>1. Allows(tokens, events, rc[r].token, p)
      BY <1>5, <2>1 DEF RCOnDecision, Authority, RCCleared, Cleared
    <3>2. Allows(tokens', events', rc[r].token, p)
      BY <1>0, <3>1, AllowsMore
    <3>3. GoesTo(r, "dispatch", rc[r].token, rc[r].reply, rc[r].work)
      BY <2>1, Fields
    <3>4. rc'[r].pc = "dispatch" /\ rc'[r].token = rc[r].token /\ rc'[r].prop = p
      BY <3>3, Moved
    <3> QED
      BY <3>2, <3>4 DEF RCCleared, Cleared
  <2>2. CASE rc' = [rc EXCEPT ![r].pc = "reject", ![r].reply = "DENY"]
    <3>1. rc'[r].pc = "reject"
      BY <2>2 DEF Typed, TypeOK, RCHandler
    <3> QED
      BY <1>1, <3>1
  <2> QED
    BY <1>5, <2>1, <2>2 DEF RCOnDecision, ApproveRequest
<1>6. CASE RCDispatch(r)
  <2>1. Allows(tokens, events, rc[r].token, p)
    BY <1>6 DEF RCDispatch, Authority, RCCleared, Cleared
  <2>2. Allows(tokens', events', rc[r].token, p)
    BY <1>0, <2>1, AllowsMore
  <2>3. GoesTo(r, "await_lc", rc[r].token, rc[r].reply, rc[r].work)
    BY <1>6, Fields DEF RCDispatch
  <2>4. rc'[r].pc = "await_lc" /\ rc'[r].token = rc[r].token /\ rc'[r].prop = p
    BY <2>3, Moved
  <2> QED
    BY <2>2, <2>4 DEF RCCleared, Cleared
<1>7. CASE RCEscalationFails(r) \/ RCClose(r) \/ RCReject(r)
  <2>1. rc'[r].pc = "idle"
    BY <1>7 DEF RCEscalationFails, RCClose, RCReject, Answer, IdleRC, Typed, TypeOK
  <2> QED
    BY <1>1, <2>1
<1>8. CASE \E n \in 1..MaxSends, q \in Proposals : RCReceive(r, q, n)
  <2>1. rc'[r].pc = "expire"
    BY <1>8 DEF RCReceive, Typed, TypeOK
  <2> QED
    BY <1>1, <2>1
<1>9. CASE \/ \E q \in Proposals : RCExpire(r, q) \/ RCPurge(r, q)
           \/ RCExpireDone(r) \/ RCCheckLock(r) \/ RCAcquireLock(r)
           \/ RCDispatchFails(r) \/ RCOnResult(r)
  <2>1. rc[r].pc \in {"expire", "purge", "acquire", "await_lc", "result"}
    BY <1>9 DEF RCExpire, RCPurge, RCExpireDone, RCCheckLock, RCAcquireLock,
            RCDispatchFails, RCOnResult
  <2>2. rc'[r] = rc[r] \/ rc'[r].pc = "idle" \/ Advances(r)
    BY <1>9, HandlerProceeds DEF Proceeds
  <2>3. rc'[r].pc # "await_lc"
    <3>1. CASE RCDispatchFails(r)
      BY <3>1 DEF RCDispatchFails, Typed, TypeOK, RCHandler
    <3>2. CASE rc[r].pc # "await_lc"
      BY <2>1, <2>2, <3>2 DEF Advances, Arrows
    <3> QED
      BY <1>9, <3>1, <3>2 DEF RCExpire, RCPurge, RCExpireDone, RCCheckLock, RCAcquireLock,
              RCOnResult
  <2> QED
    BY <1>1, <2>1, <2>2, <2>3 DEF Advances, Arrows
<1> QED
  BY <1>2, <1>3, <1>4, <1>5, <1>6, <1>7, <1>8, <1>9 DEF RCStep

\* A handler that a step leaves alone.
LEMMA RCClearedStays ==
    ASSUME Authority, [Next]_vars, NEW s \in RCs, rc'[s] = rc[s]
    PROVE  RCCleared(s)'
<1>1. tokens \subseteq tokens' /\ events \subseteq events'
  BY NothingTakenBack
<1>2. RCCleared(s)
  BY DEF Authority
<1> QED
  BY <1>1, <1>2, AllowsMore DEF RCCleared, Cleared

\* What is allowed to Local Controllers, instructions and changes made stays so.
LEMMA OthersCleared ==
    ASSUME Typed, Authority, [Next]_vars
    PROVE  /\ instr' \subseteq instr => \A m \in instr' : Cleared(m.token, m.prop)'
           /\ \A l \in LCs : lc'[l] = lc[l] => LCCleared(l)'
           /\ applied' = applied =>
                  \A p \in Proposals : \A i \in 1..Len(applied'[p]) : Cleared(applied[p][i], p)'
           /\ gc' = gc => GCCleared'
<1>1. tokens \subseteq tokens' /\ events \subseteq events'
  BY NothingTakenBack
<1>2. ASSUME NEW m \in instr', instr' \subseteq instr PROVE Cleared(m.token, m.prop)'
  BY <1>1, <1>2, AllowsMore DEF Authority, Cleared
<1>3. ASSUME NEW l \in LCs, lc'[l] = lc[l] PROVE LCCleared(l)'
  BY <1>1, <1>3, AllowsMore DEF Authority, LCCleared, Cleared
<1>4. ASSUME applied' = applied, NEW p \in Proposals, NEW i \in 1..Len(applied'[p])
      PROVE  Cleared(applied[p][i], p)'
  BY <1>1, <1>4, AllowsMore DEF Authority, Cleared
<1>5. gc' = gc => GCCleared'
  BY <1>1 DEF Authority, GCCleared
<1> QED
  BY <1>2, <1>3, <1>4, <1>5

\* A step of a Regional Controller sends only tokens that clear their change.
LEMMA RCAuthority ==
    ASSUME Typed, Authority, [Next]_vars, NEW r \in RCs, RCStep(r)
    PROVE  Authority'
<1>1. \A s \in RCs : RCCleared(s)'
  <2>1. ASSUME NEW s \in RCs, s # r PROVE RCCleared(s)'
    BY <2>1, Alone, RCClearedStays
  <2> QED
    BY <2>1, RCStepCleared
<1>2. UNCHANGED <<gc, lc, applied>>
  BY DEF RCStep, RCReceive, RCExpire, RCPurge, RCExpireDone, RCCheckLock, RCAcquireLock,
         RCApprove, RCIssueToken, RCEscalate, RCEscalationFails, RCOnDecision, RCDispatch,
         RCDispatchFails, RCOnResult, RCClose, RCReject, RCUnchanged
<1>3. \A m \in instr' : Cleared(m.token, m.prop)'
  <2>1. CASE RCDispatch(r)
    <3> DEFINE i == [prop |-> rc[r].prop, dlv |-> rc[r].dlv, token |-> rc[r].token]
    <3>1. instr' = instr \union {i} /\ Cleared(rc[r].token, rc[r].prop)
      BY <2>1 DEF RCDispatch, Authority, RCCleared
    <3>2. tokens \subseteq tokens' /\ events \subseteq events'
      BY NothingTakenBack
    <3>3. Allows(tokens', events', i.token, i.prop)
      BY <3>1, <3>2, AllowsMore DEF Cleared
    <3>4. \A m \in instr : Allows(tokens', events', m.token, m.prop)
      BY <3>2, AllowsMore DEF Authority, Cleared
    <3> HIDE DEF i
    <3> QED
      BY <3>1, <3>3, <3>4 DEF Cleared
  <2>2. CASE ~RCDispatch(r)
    <3>1. instr' \subseteq instr
      BY <2>2 DEF RCStep, RCReceive, RCExpire, RCPurge, RCExpireDone, RCCheckLock,
              RCAcquireLock, RCApprove, RCIssueToken, RCEscalate, RCEscalationFails,
              RCOnDecision, RCDispatchFails, RCOnResult, RCClose, RCReject
    <3> QED
      BY <3>1, OthersCleared
  <2> QED
    BY <2>1, <2>2
<1> QED
  BY <1>1, <1>2, <1>3, OthersCleared DEF Authority

\* The Global Controller decides with a token of its own, and logs it.
LEMMA GCAuthority ==
    ASSUME Typed, Authority, [Next]_vars, GCStep
    PROVE  Authority'
<1>0. UNCHANGED <<lc, instr, applied>> /\ tokens \subseteq tokens' /\ events \subseteq events'
  BY NothingTakenBack DEF GCStep, GCReceive, GCDecide, lcVars, netVars
<1>1. \A s \in RCs : RCCleared(s)'
  <2>1. ASSUME NEW p \in Proposals, NEW n \in 1..MaxSends, GCReceive(p, n), NEW s \in RCs
        PROVE  RCCleared(s)'
    <3>1. CASE rc' = rc
      BY <3>1, RCClearedStays
    <3>2. CASE rc' # rc
      <4>1. /\ rc[TargetOf[p]].pc = "await_gc" /\ rc[TargetOf[p]].prop = p
            /\ GoesTo(TargetOf[p], "gc_reply", None, "DENY", rc[TargetOf[p]].work)
        BY <2>1, <3>2, Delivered DEF GCReceive
      <4>2. TargetOf[p] \in RCs
        BY PipelineAssumption
      <4>3. /\ rc'[TargetOf[p]].pc = "gc_reply" /\ rc'[TargetOf[p]].reply = "DENY"
            /\ rc'[TargetOf[p]].prop = p /\ (s # TargetOf[p] => rc'[s] = rc[s])
        BY <4>1, <4>2, Moved
      <4>4. IsHigh(p)
        BY <4>1, <4>2 DEF Authority, RCCleared
      <4> QED
        BY <4>3, <4>4, RCClearedStays DEF RCCleared
    <3> QED
      BY <3>1, <3>2
  <2>2. ASSUME GCDecide, NEW s \in RCs PROVE RCCleared(s)'
    <3> DEFINE p == gc.prop
    <3>0. p \in Proposals
      BY <2>2 DEF GCDecide, Typed, Places, GCSound
    <3>1. CASE rc' = rc
      BY <3>1, RCClearedStays
    <3>2. CASE rc' # rc
      <4>1. /\ rc[TargetOf[p]].pc = "await_gc" /\ rc[TargetOf[p]].prop = p
            /\ GoesTo(TargetOf[p], "gc_reply", gc.token, "APPROVE", rc[TargetOf[p]].work)
        BY <2>2, <3>0, <3>2, Delivered DEF GCDecide
      <4>2. TargetOf[p] \in RCs
        BY <3>0, PipelineAssumption
      <4> HIDE DEF p
      <4>3. /\ rc'[TargetOf[p]].pc = "gc_reply" /\ rc'[TargetOf[p]].token = gc.token
            /\ rc'[TargetOf[p]].prop = p /\ (s # TargetOf[p] => rc'[s] = rc[s])
        BY <4>1, <4>2, Moved
      <4>4. IsHigh(p)
        BY <4>1, <4>2 DEF Authority, RCCleared
      <4>5. Allows(tokens', events', gc.token, p)
        BY <1>0, <2>2, <4>4 DEF GCDecide, Authority, GCCleared, Allows, p
      <4> QED
        BY <4>3, <4>4, <4>5, RCClearedStays DEF RCCleared, Cleared
    <3> QED
      BY <3>1, <3>2
  <2> QED
    BY <2>1, <2>2 DEF GCStep
<1>2. GCCleared'
  <2>1. ASSUME NEW p \in Proposals, NEW n \in 1..MaxSends, GCReceive(p, n) PROVE GCCleared'
    <3>1. CASE gc' = gc
      BY <3>1, OthersCleared
    <3>2. CASE gc' # gc
      BY <2>1, <3>2 DEF GCReceive, GCCleared
    <3> QED
      BY <3>1, <3>2
  <2>2. CASE GCDecide
    BY <2>2 DEF GCDecide, GCCleared, IdleGC
  <2> QED
    BY <2>1, <2>2 DEF GCStep
<1> QED
  BY <1>0, <1>1, <1>2, OthersCleared DEF Authority

\* A Local Controller executes only under the token it was sent.
LEMMA LCAuthority ==
    ASSUME Typed, Authority, [Next]_vars, NEW l \in LCs, LCStep(l)
    PROVE  Authority'
<1>1. gc' = gc /\ instr' \subseteq instr /\ tokens \subseteq tokens' /\ events \subseteq events'
  BY NothingTakenBack DEF LCStep, LCReceive, LCExecute, LCExecuteFails, LCReturn, LCUnchanged
<1>2. \A s \in RCs : RCCleared(s)'
  <2>1. CASE rc' = rc
    BY <2>1, RCClearedStays
  <2>2. CASE rc' # rc
    <3> DEFINE p == lc[l].prop
               r == TargetOf[p]
    <3>1. LCReturn(l)
      BY <2>2 DEF LCStep, LCReceive, LCExecute, LCExecuteFails
    <3>2. p \in Proposals /\ r \in RCs
      BY <3>1, PipelineAssumption DEF LCReturn, Typed, Places, LCSound
    <3>3. GoesTo(r, "result", lc[l].token, lc[l].status, rc[r].work)
      BY <2>2, <3>1, <3>2, Delivered DEF LCReturn
    <3> HIDE DEF r
    <3>4. rc'[r].pc = "result" /\ \A s \in RCs : s # r => rc'[s] = rc[s]
      BY <3>2, <3>3, Moved
    <3>5. ASSUME NEW s \in RCs, s = r PROVE RCCleared(s)'
      BY <3>4, <3>5 DEF RCCleared
    <3>6. ASSUME NEW s \in RCs, s # r PROVE RCCleared(s)'
      BY <3>4, <3>6, RCClearedStays
    <3> QED
      BY <3>5, <3>6
  <2> QED
    BY <2>1, <2>2
<1>3. \A k \in LCs : LCCleared(k)'
  <2>1. ASSUME NEW k \in LCs, k # l PROVE LCCleared(k)'
    <3>1. lc'[k] = lc[k]
      BY <2>1 DEF LCStep, LCReceive, LCExecute, LCExecuteFails, LCReturn, Typed, TypeOK
    <3> QED
      BY <3>1, OthersCleared
  <2>2. LCCleared(l)'
    <3>1. ASSUME NEW m \in instr, LCReceive(l, m) PROVE LCCleared(l)'
      <4>1. lc'[l].pc = "execute" => lc'[l].token = m.token /\ lc'[l].prop = m.prop
        BY <3>1 DEF LCReceive, Typed, TypeOK
      <4>2. Allows(tokens', events', m.token, m.prop)
        BY <1>1, AllowsMore DEF Authority, Cleared
      <4> QED
        BY <4>1, <4>2 DEF LCCleared, Cleared
    <3>2. CASE LCExecute(l) \/ LCExecuteFails(l)
      <4>1. \E st : LCGoesTo(l, "report", st)
        BY <3>2, LCFields DEF LCExecute, LCExecuteFails
      <4>2. lc'[l].pc = "report"
        BY <4>1 DEF LCGoesTo, Typed, TypeOK
      <4> QED
        BY <4>2 DEF LCCleared
    <3>3. CASE LCReturn(l)
      <4>1. lc'[l].pc = "idle"
        BY <3>3 DEF LCReturn, IdleLC, Typed, TypeOK
      <4> QED
        BY <4>1 DEF LCCleared
    <3> QED
      BY <3>1, <3>2, <3>3 DEF LCStep
  <2> QED
    BY <2>1, <2>2
<1>4. ASSUME NEW p \in Proposals, NEW i \in 1..Len(applied'[p])
      PROVE  Allows(tokens', events', applied'[p][i], p)
  <2>1. CASE applied' = applied
    BY <1>1, <1>4, <2>1, AllowsMore DEF Authority, Cleared
  <2>2. CASE applied' # applied
    <3>1. LCExecute(l)
      BY <2>2 DEF LCStep, LCReceive, LCReturn, LCExecuteFails
    <3>2. /\ applied' = [applied EXCEPT ![lc[l].prop] = Append(@, lc[l].token)]
          /\ lc[l].prop \in Proposals /\ lc[l].token \in Token
          /\ Allows(tokens, events, lc[l].token, lc[l].prop)
      BY <3>1 DEF LCExecute, Typed, Places, LCSound, Authority, LCCleared, Cleared
    <3>3. CASE p = lc[l].prop
      <4>1. applied'[p] = Append(applied[p], lc[l].token) /\ applied[p] \in Seq(Token)
        BY <3>2, <3>3 DEF Typed, TypeOK
      <4>2. /\ Len(applied'[p]) = Len(applied[p]) + 1
            /\ applied'[p][i] = IF i = Len(applied[p]) + 1 THEN lc[l].token ELSE applied[p][i]
        BY <1>4, <3>2, <4>1, AppendProperties
      <4>3. CASE i = Len(applied[p]) + 1
        BY <1>1, <3>2, <3>3, <4>2, <4>3, AllowsMore
      <4>4. CASE i # Len(applied[p]) + 1
        <5>1. i \in 1..Len(applied[p])
          BY <1>4, <4>1, <4>2, <4>4, LenProperties
        <5>2. Allows(tokens, events, applied[p][i], p)
          BY <5>1 DEF Authority, Cleared
        <5> QED
          BY <1>1, <4>2, <4>4, <5>2, AllowsMore
      <4> QED
        BY <4>3, <4>4
    <3>4. CASE p # lc[l].prop
      <4>1. applied'[p] = applied[p]
        BY <3>2, <3>4 DEF Typed, TypeOK
      <4>2. Allows(tokens, events, applied[p][i], p)
        BY <1>4, <4>1 DEF Authority, Cleared
      <4> QED
        BY <1>1, <4>1, <4>2, AllowsMore
    <3> QED
      BY <3>3, <3>4
  <2> QED
    BY <2>1, <2>2
<1> QED
  BY <1>1, <1>2, <1>3, <1>4, OthersCleared DEF Authority, Cleared

\* Every step keeps every token on its way, or used, entitled.
LEMMA NextAuthority ==
    ASSUME Typed, Authority, [Next]_vars
    PROVE  Authority'
<1>1. CASE \/ UNCHANGED vars \/ Tick
           \/ \E p \in Proposals : SubmitConfigProposal(p) \/ ResendProposal(p)
           \/ \E c \in Controllers : ReadConfig(c) \/ WriteConfig(c)
  <2>1. UNCHANGED <<rc, gc, lc, instr, applied>>
    BY <1>1 DEF vars, Tick, lcVars, netVars, SubmitConfigProposal, ResendProposal,
            ReadConfig, WriteConfig
  <2> QED
    BY <2>1, RCClearedStays, OthersCleared DEF Authority
<1>2. ASSUME NEW c \in Controllers, Restart(c) PROVE Authority'
  <2>1. applied' = applied /\ instr' \subseteq instr
    BY <1>2 DEF Restart, RestartRC, RestartLC, RestartGC
  <2>2. ASSUME NEW s \in RCs PROVE RCCleared(s)'
    <3>1. rc'[s] = rc[s] \/ rc'[s].pc = "idle"
      BY <1>2 DEF Restart, RestartRC, RestartLC, RestartGC, IdleRC, Typed, TypeOK
    <3> QED
      BY <3>1, RCClearedStays DEF RCCleared
  <2>3. ASSUME NEW k \in LCs PROVE LCCleared(k)'
    <3>1. lc'[k] = lc[k] \/ lc'[k].pc = "idle"
      BY <1>2 DEF Restart, RestartRC, RestartLC, RestartGC, lcVars, IdleLC, Typed, TypeOK
    <3> QED
      BY <3>1, OthersCleared DEF LCCleared
  <2>4. GCCleared'
    <3>1. gc' = gc \/ gc'.pc = "idle"
      BY <1>2 DEF Restart, RestartRC, RestartLC, RestartGC, IdleGC
    <3> QED
      BY <3>1, OthersCleared DEF GCCleared
  <2> QED
    BY <2>1, <2>2, <2>3, <2>4, OthersCleared DEF Authority
<1> QED
  BY <1>1, <1>2, RCAuthority, GCAuthority, LCAuthority DEF Next

-----------------------------------------------------------------------------
(* What the NIB says.                                                      *)

\* Of the updates given, every one to EXECUTED is about a change that was made.
Honest(updates, made) ==
    \A i \in 1..Len(updates) : updates[i].status = "EXECUTED" => made[updates[i].prop] # <<>>

\* Whoever says EXECUTED, or is about to write it, knows of a change made.
RCTrue(r) == rc[r].pc = "result" /\ rc[r].reply = "EXECUTED" => applied[rc[r].prop] # <<>>
LCTrue(l) == lc[l].pc = "report" /\ lc[l].status = "EXECUTED" => applied[lc[l].prop] # <<>>

Truth ==
    /\ ExecutedIsTrue
    /\ \A c \in Controllers : Honest(todo[c], applied)
    /\ \A l \in LCs : LCTrue(l)
    /\ \A r \in RCs : RCTrue(r)

\* A change that was made stays made.
LEMMA AppliedStays ==
    ASSUME Typed, [Next]_vars, NEW p \in Proposals, applied[p] # <<>>
    PROVE  applied'[p] # <<>>
<1>1. CASE \E l \in LCs : LCExecute(l)
  <2>1. PICK l \in LCs : LCExecute(l)
    BY <1>1
  <2>2. /\ applied' = [applied EXCEPT ![lc[l].prop] = Append(@, lc[l].token)]
        /\ lc[l].token \in Token /\ lc[l].prop \in Proposals
    BY <2>1 DEF LCExecute, Typed, Places, LCSound
  <2>3. applied[p] \in Seq(Token)
    BY DEF Typed, TypeOK
  <2>4. Append(applied[p], lc[l].token) # <<>>
    BY <2>2, <2>3, AppendProperties
  <2> QED
    BY <2>2, <2>4 DEF Typed, TypeOK
<1>2. CASE applied' = applied
  BY <1>2
<1>3. ASSUME NEW r \in RCs, RCStep(r) PROVE applied' = applied
  BY <1>3 DEF RCStep, RCReceive, RCExpire, RCPurge, RCExpireDone, RCCheckLock, RCAcquireLock,
          RCApprove, RCIssueToken, RCEscalate, RCEscalationFails, RCOnDecision, RCDispatch,
          RCDispatchFails, RCOnResult, RCClose, RCReject, RCUnchanged
<1>4. ASSUME NEW l \in LCs, LCStep(l), ~LCExecute(l) PROVE applied' = applied
  BY <1>4 DEF LCStep, LCReceive, LCExecuteFails, LCReturn
<1>5. ASSUME \/ UNCHANGED vars \/ Tick \/ GCStep
             \/ \E q \in Proposals : SubmitConfigProposal(q) \/ ResendProposal(q)
             \/ \E c \in Controllers : ReadConfig(c) \/ WriteConfig(c) \/ Restart(c)
      PROVE  applied' = applied
  BY <1>5 DEF vars, Tick, GCStep, GCReceive, GCDecide, SubmitConfigProposal, ResendProposal,
          ReadConfig, WriteConfig, Restart
<1> QED
  BY <1>1, <1>2, <1>3, <1>4, <1>5 DEF Next

\* Updates that were honest stay honest.
LEMMA HonestStays ==
    ASSUME Typed, [Next]_vars, NEW updates \in Seq(Update), Honest(updates, applied)
    PROVE  Honest(updates, applied')
<1>1. ASSUME NEW i \in 1..Len(updates), updates[i].status = "EXECUTED"
      PROVE  applied'[updates[i].prop] # <<>>
  <2>1. updates[i] \in Update
    BY LenProperties
  <2>2. updates[i].prop \in Proposals
    BY <2>1 DEF Update
  <2> QED
    BY <1>1, <2>2, AppliedStays DEF Honest
<1> QED
  BY <1>1 DEF Honest

\* New updates are honest if they do not say EXECUTED, or if the change was made.
LEMMA HonestUpdate ==
    ASSUME NEW made, NEW u, u.status = "EXECUTED" => made[u.prop] # <<>>
    PROVE  /\ Honest(<<u>>, made)
           /\ Honest([i \in 1..3 |-> u], made)
<1>1. Len([i \in 1..3 |-> u]) = 3
  OBVIOUS
<1> QED
  BY <1>1 DEF Honest

\* Two honest updates in a row are honest.
LEMMA HonestUpdates ==
    ASSUME NEW made, NEW u, NEW v,
           u.status = "EXECUTED" => made[u.prop] # <<>>,
           v.status = "EXECUTED" => made[v.prop] # <<>>
    PROVE  Honest(<<u, v>>, made)
BY DEF Honest

\* To plan no update is honest.
LEMMA HonestNothing ==
    ASSUME NEW made PROVE Honest(<<>>, made)
BY DEF Honest

\* Updates of one controller change, those of the others do not.
LEMMA TodoHonest ==
    ASSUME Typed, Truth, [Next]_vars, NEW c \in Controllers, NEW updates,
           todo' = [todo EXCEPT ![c] = updates], Honest(updates, applied')
    PROVE  \A d \in Controllers : Honest(todo'[d], applied')
<1>1. ASSUME NEW d \in Controllers PROVE Honest(todo'[d], applied')
  <2>1. CASE d = c
    BY <2>1 DEF Typed, TypeOK
  <2>2. CASE d # c
    <3>1. todo'[d] = todo[d] /\ todo[d] \in Seq(Update) /\ Honest(todo[d], applied)
      BY <2>2 DEF Typed, TypeOK, Truth
    <3> QED
      BY <3>1, HonestStays
  <2> QED
    BY <2>1, <2>2
<1> QED
  BY <1>1

\* What a step leaves alone stays true.
LEMMA OthersTrue ==
    ASSUME Typed, Truth, [Next]_vars
    PROVE  /\ todo' = todo => \A d \in Controllers : Honest(todo'[d], applied')
           /\ \A l \in LCs : lc'[l] = lc[l] => LCTrue(l)'
           /\ \A r \in RCs : rc'[r] = rc[r] => RCTrue(r)'
           /\ config' = config => ExecutedIsTrue'
<1>1. ASSUME todo' = todo, NEW d \in Controllers PROVE Honest(todo'[d], applied')
  BY <1>1, HonestStays DEF Truth, Typed, TypeOK
<1>2. ASSUME NEW l \in LCs, lc'[l] = lc[l] PROVE LCTrue(l)'
  <2>1. lc[l].pc = "report" => lc[l].prop \in Proposals
    BY DEF Typed, Places, LCSound
  <2> QED
    BY <1>2, <2>1, AppliedStays DEF Truth, LCTrue
<1>3. ASSUME NEW r \in RCs, rc'[r] = rc[r] PROVE RCTrue(r)'
  <2>1. rc[r].pc = "result" => rc[r].prop \in Proposals
    BY DEF Typed, Places, RCSound
  <2> QED
    BY <1>3, <2>1, AppliedStays DEF Truth, RCTrue
<1>4. config' = config => ExecutedIsTrue'
  BY AppliedStays DEF Truth, ExecutedIsTrue
<1> QED
  BY <1>1, <1>2, <1>3, <1>4

\* The updates a Regional Controller's step puts up.
LEMMA RCHonest ==
    ASSUME Typed, Truth, [Next]_vars, NEW r \in RCs, RCStep(r)
    PROVE  \A d \in Controllers : Honest(todo'[d], applied')
<1> DEFINE p == rc[r].prop
           Goal == \A d \in Controllers : Honest(todo'[d], applied')
<1>0. r \in Controllers
  BY Writers
<1>1. ASSUME NEW q, NEW x, NEW st, st # "EXECUTED"
      PROVE  /\ Persist(q, x, st).status # "EXECUTED"
             /\ StatusOnly(q, st).status # "EXECUTED"
  BY <1>1 DEF Persist, StatusOnly
<1>2. ASSUME NEW q \in Proposals, RCExpire(r, q) PROVE Goal
  <2>1. CASE todo' = todo
    BY <2>1, OthersTrue
  <2>2. CASE todo' = [todo EXCEPT ![r] = <<Persist(q, rcReq[q], "DENIED")>>]
    <3>1. Honest(<<Persist(q, rcReq[q], "DENIED")>>, applied')
      BY <1>1, HonestUpdate
    <3> QED
      BY <1>0, <2>2, <3>1, TodoHonest
  <2> QED
    BY <1>2, <2>1, <2>2 DEF RCExpire
<1>3. ASSUME NEW q, NEW updates, NEW next, Honest(updates, applied'),
             ApproveRequest(r, p, q, updates, next)
      PROVE  Goal
  <2>1. CASE todo' = todo
    BY <2>1, OthersTrue
  <2>2. CASE todo' = [todo EXCEPT ![r] = updates]
    BY <1>0, <1>3, <2>2, TodoHonest
  <2>3. CASE todo' = [todo EXCEPT ![r] = <<Persist(p, GetRequest(p), "DENIED")>>]
    <3>1. Honest(<<Persist(p, GetRequest(p), "DENIED")>>, applied')
      BY <1>1, HonestUpdate
    <3> QED
      BY <1>0, <2>3, <3>1, TodoHonest
  <2> QED
    BY <1>3, <2>1, <2>2, <2>3 DEF ApproveRequest
<1>4. CASE RCApprove(r)
  <2> DEFINE q == [GetRequest(p) EXCEPT !.state = "APPROVED", !.approver = r]
  <2>1. ApproveRequest(r, p, q, <<Persist(p, q, "APPROVED")>>, "issue")
    BY <1>4 DEF RCApprove
  <2> HIDE DEF q
  <2>2. Honest(<<Persist(p, q, "APPROVED")>>, applied')
    BY <1>1, HonestUpdate
  <2> QED
    BY <1>3, <2>1, <2>2
<1>5. CASE RCIssueToken(r)
  <2> DEFINE u == Persist(p, rcReq[p], "APPROVED")
  <2>1. todo' = [todo EXCEPT ![r] = <<u, u>>]
    BY <1>5 DEF RCIssueToken
  <2>2. u.status # "EXECUTED"
    BY <1>1
  <2> HIDE DEF u
  <2>3. Honest(<<u, u>>, applied')
    BY <2>2, HonestUpdates
  <2> QED
    BY <1>0, <2>1, <2>3, TodoHonest
<1>6. CASE RCOnDecision(r)
  <2> DEFINE q == [GetRequest(p) EXCEPT !.state = "APPROVED", !.approver = GC]
             u == Persist(p, q, "APPROVED")
  <2>1. CASE ApproveRequest(r, p, q, [i \in 1..3 |-> u], "dispatch")
    <3>1. u.status # "EXECUTED"
      BY <1>1
    <3> HIDE DEF q, u
    <3>2. Honest([i \in 1..3 |-> u], applied')
      BY <3>1, HonestUpdate
    <3> QED
      BY <1>3, <2>1, <3>2
  <2>2. CASE todo' = todo
    BY <2>2, OthersTrue
  <2> QED
    BY <1>6, <2>1, <2>2 DEF RCOnDecision
<1>7. ASSUME NEW st, SetExecutionResult(r, p, st), st = "EXECUTED" => applied'[p] # <<>>
      PROVE  Goal
  <2> DEFINE u == Persist(p, GetRequest(p), st)
             v == StatusOnly(p, st)
  <2>1. todo' = [todo EXCEPT ![r] = <<u, v>>]
    BY <1>7 DEF SetExecutionResult
  <2>2. u.status = st /\ v.status = st /\ u.prop = p /\ v.prop = p
    BY DEF Persist, StatusOnly
  <2> HIDE DEF u, v
  <2>3. Honest(<<u, v>>, applied')
    BY <1>7, <2>2, HonestUpdates
  <2> QED
    BY <1>0, <2>1, <2>3, TodoHonest
<1>8. CASE RCDispatchFails(r)
  BY <1>7, <1>8 DEF RCDispatchFails
<1>9. CASE RCOnResult(r)
  <2>1. p \in Proposals /\ (rc[r].reply = "EXECUTED" => applied[p] # <<>>)
    BY <1>9 DEF RCOnResult, Typed, Places, RCSound, Truth, RCTrue
  <2>2. rc[r].reply = "EXECUTED" => applied'[p] # <<>>
    BY <2>1, AppliedStays
  <2> QED
    BY <1>7, <1>9, <2>2 DEF RCOnResult
<1>10. CASE todo' = todo
  BY <1>10, OthersTrue
<1>11. \/ todo' = todo \/ RCApprove(r) \/ RCIssueToken(r) \/ RCOnDecision(r)
       \/ RCDispatchFails(r) \/ RCOnResult(r) \/ \E q \in Proposals : RCExpire(r, q)
  BY DEF RCStep, RCReceive, RCPurge, RCExpireDone, RCCheckLock, RCAcquireLock, RCEscalate,
         RCEscalationFails, RCDispatch, RCClose, RCReject
<1> QED
  BY <1>2, <1>4, <1>5, <1>6, <1>8, <1>9, <1>10, <1>11

\* A Regional Controller plans EXECUTED only on a result that says so.
LEMMA RCTruth ==
    ASSUME Typed, Truth, [Next]_vars, NEW r \in RCs, RCStep(r)
    PROVE  Truth'
<1>1. UNCHANGED <<config, lc>>
  BY DEF RCStep, RCReceive, RCExpire, RCPurge, RCExpireDone, RCCheckLock, RCAcquireLock,
         RCApprove, RCIssueToken, RCEscalate, RCEscalationFails, RCOnDecision, RCDispatch,
         RCDispatchFails, RCOnResult, RCClose, RCReject, RCUnchanged, nibVars
<1>2. ASSUME NEW s \in RCs PROVE RCTrue(s)'
  <2>1. CASE rc'[s] = rc[s]
    BY <2>1, OthersTrue
  <2>2. CASE s = r /\ rc'[r].pc # "result"
    BY <2>2 DEF RCTrue
  <2>3. rc'[r] = rc[r] \/ rc'[r].pc # "result"
    <3>1. CASE \E p \in Proposals, n \in 1..MaxSends : RCReceive(r, p, n)
      BY <3>1 DEF RCReceive, Typed, TypeOK
    <3>2. CASE RCDispatchFails(r)
      BY <3>2 DEF RCDispatchFails, Typed, TypeOK, RCHandler
    <3>3. CASE /\ ~RCDispatchFails(r)
               /\ ~\E p \in Proposals, n \in 1..MaxSends : RCReceive(r, p, n)
      <4>1. rc[r].pc # "await_lc"
        BY <3>3 DEF RCStep, RCExpire, RCPurge, RCExpireDone, RCCheckLock, RCAcquireLock,
                RCApprove, RCIssueToken, RCEscalate, RCEscalationFails, RCOnDecision,
                RCDispatch, RCOnResult, RCClose, RCReject
      <4>2. rc'[r] = rc[r] \/ rc'[r].pc = "idle" \/ Advances(r)
        BY <3>3, HandlerProceeds DEF RCStep, Proceeds
      <4> QED
        BY <4>1, <4>2 DEF Advances, Arrows
    <3> QED
      BY <3>1, <3>2, <3>3
  <2> QED
    BY <2>1, <2>2, <2>3, Alone
<1> QED
  BY <1>1, <1>2, RCHonest, OthersTrue DEF Truth

\* The Global Controller plans no EXECUTED.
LEMMA GCTruth ==
    ASSUME Typed, Truth, [Next]_vars, GCStep
    PROVE  Truth'
<1>1. UNCHANGED <<config, lc>>
  BY DEF GCStep, GCReceive, GCDecide, nibVars, lcVars
<1>2. ASSUME NEW s \in RCs PROVE RCTrue(s)'
  <2>1. rc'[s] = rc[s] \/ rc'[s].pc = "gc_reply"
    <3>1. ASSUME NEW p \in Proposals, NEW n \in 1..MaxSends, GCReceive(p, n)
          PROVE  rc'[s] = rc[s] \/ rc'[s].pc = "gc_reply"
      BY <3>1, DeliveredTo DEF GCReceive
    <3>2. ASSUME GCDecide PROVE rc'[s] = rc[s] \/ rc'[s].pc = "gc_reply"
      <4>1. gc.prop \in Proposals
        BY <3>2 DEF GCDecide, Typed, Places, GCSound
      <4> QED
        BY <3>2, <4>1, DeliveredTo DEF GCDecide
    <3> QED
      BY <3>1, <3>2 DEF GCStep
  <2> QED
    BY <2>1, OthersTrue DEF RCTrue
<1>3. \A d \in Controllers : Honest(todo'[d], applied')
  <2>1. CASE todo' = todo
    BY <2>1, OthersTrue
  <2>2. ASSUME NEW p \in Proposals,
               todo' = [todo EXCEPT ![GC] = <<[prop |-> p, status |-> "APPROVED",
                                               approver |-> GC]>>]
        PROVE  \A d \in Controllers : Honest(todo'[d], applied')
    <3> DEFINE u == [prop |-> p, status |-> "APPROVED", approver |-> GC]
    <3>1. u.status # "EXECUTED"
      OBVIOUS
    <3> HIDE DEF u
    <3>2. Honest(<<u>>, applied')
      BY <3>1, HonestUpdate
    <3> QED
      BY <2>2, <3>2, TodoHonest, Writers DEF u
  <2> QED
    BY <2>1, <2>2 DEF GCStep, GCReceive, GCDecide
<1> QED
  BY <1>1, <1>2, <1>3, OthersTrue DEF Truth

\* A Local Controller reports EXECUTED only after it executed.
LEMMA LCTruth ==
    ASSUME Typed, Truth, [Next]_vars, NEW l \in LCs, LCStep(l)
    PROVE  Truth'
<1> DEFINE p == lc[l].prop
<1>1. config' = config /\ l \in Controllers
  BY Writers DEF LCStep, LCReceive, LCExecute, LCExecuteFails, LCReturn
<1>2. ASSUME NEW q, NEW st, LCReport(l, q, st), st = "EXECUTED" => applied'[q] # <<>>
      PROVE  \A d \in Controllers : Honest(todo'[d], applied')
  <2> DEFINE u == StatusOnly(q, st)
  <2>1. todo' = [todo EXCEPT ![l] = <<u, u>>] /\ u.status = st /\ u.prop = q
    BY <1>2 DEF LCReport, StatusOnly
  <2> HIDE DEF u
  <2>2. Honest(<<u, u>>, applied')
    BY <1>2, <2>1, HonestUpdates
  <2> QED
    BY <1>1, <2>1, <2>2, TodoHonest
<1>3. ASSUME NEW k \in LCs, k # l PROVE LCTrue(k)'
  <2>1. lc'[k] = lc[k]
    BY <1>3 DEF LCStep, LCReceive, LCExecute, LCExecuteFails, LCReturn, Typed, TypeOK
  <2> QED
    BY <2>1, OthersTrue
<1>4. ASSUME NEW m \in instr, LCReceive(l, m) PROVE Truth'
  <2>1. \A d \in Controllers : Honest(todo'[d], applied')
    <3>1. CASE LCReport(l, m.prop, "FAILED")
      BY <1>2, <3>1
    <3>2. CASE todo' = [todo EXCEPT ![l] = <<StatusOnly(m.prop, "EXECUTING")>>]
      <4>1. StatusOnly(m.prop, "EXECUTING").status # "EXECUTED"
        BY DEF StatusOnly
      <4>2. Honest(<<StatusOnly(m.prop, "EXECUTING")>>, applied')
        BY <4>1, HonestUpdate
      <4> QED
        BY <1>1, <3>2, <4>2, TodoHonest
    <3> QED
      BY <1>4, <3>1, <3>2 DEF LCReceive
  <2>2. lc'[l].status # "EXECUTED" /\ rc' = rc
    BY <1>4 DEF LCReceive, Typed, TypeOK
  <2>3. LCTrue(l)'
    BY <2>2 DEF LCTrue
  <2> QED
    BY <1>1, <1>3, <2>1, <2>2, <2>3, OthersTrue DEF Truth
<1>5. CASE LCExecute(l)
  <2>1. p \in Proposals /\ lc[l].token \in Token /\ rc' = rc
    BY <1>5 DEF LCExecute, Typed, Places, LCSound
  <2>2. applied'[p] # <<>>
    <3>1. applied'[p] = Append(applied[p], lc[l].token) /\ applied[p] \in Seq(Token)
      BY <1>5, <2>1 DEF LCExecute, Typed, TypeOK
    <3> QED
      BY <2>1, <3>1, AppendProperties
  <2>3. LCReport(l, p, "EXECUTED") /\ LCGoesTo(l, "report", "EXECUTED")
    BY <1>5, LCFields DEF LCExecute
  <2>4. lc'[l].prop = p
    BY <2>3 DEF LCGoesTo, Typed, TypeOK
  <2>5. LCTrue(l)'
    BY <2>2, <2>4 DEF LCTrue
  <2>6. \A d \in Controllers : Honest(todo'[d], applied')
    BY <1>2, <2>2, <2>3
  <2> QED
    BY <1>1, <1>3, <2>1, <2>5, <2>6, OthersTrue DEF Truth
<1>6. CASE LCExecuteFails(l)
  <2>1. LCReport(l, p, "FAILED") /\ LCGoesTo(l, "report", "FAILED") /\ rc' = rc
    BY <1>6, LCFields DEF LCExecuteFails
  <2>2. lc'[l].status = "FAILED"
    BY <2>1 DEF LCGoesTo, Typed, TypeOK
  <2>3. LCTrue(l)'
    BY <2>2 DEF LCTrue
  <2>4. \A d \in Controllers : Honest(todo'[d], applied')
    BY <1>2, <2>1
  <2> QED
    BY <1>1, <1>3, <2>1, <2>3, <2>4, OthersTrue DEF Truth
<1>7. CASE LCReturn(l)
  <2>1. /\ p \in Proposals /\ todo' = todo /\ lc'[l].pc = "idle"
        /\ lc[l].status = "EXECUTED" => applied[p] # <<>>
    BY <1>7 DEF LCReturn, Typed, TypeOK, Places, LCSound, Truth, LCTrue, IdleLC
  <2>2. LCTrue(l)'
    BY <2>1 DEF LCTrue
  <2>3. ASSUME NEW s \in RCs PROVE RCTrue(s)'
    <3>1. \/ rc'[s] = rc[s]
          \/ rc'[s].reply = lc[l].status /\ rc'[s].prop = p
      BY <1>7 DEF LCReturn, DeliverToRC, Typed, TypeOK, RCHandler
    <3>2. lc[l].status = "EXECUTED" => applied'[p] # <<>>
      BY <2>1, AppliedStays
    <3> QED
      BY <3>1, <3>2, OthersTrue DEF RCTrue
  <2> QED
    BY <1>1, <1>3, <2>1, <2>2, <2>3, OthersTrue DEF Truth
<1> QED
  BY <1>4, <1>5, <1>6, <1>7 DEF LCStep

\* update_config_status writes EXECUTED only for a change that was made.
LEMMA WriteTruth ==
    ASSUME Typed, Truth, [Next]_vars, NEW c \in Controllers, WriteConfig(c)
    PROVE  Truth'
<1> DEFINE u == Head(todo[c])
<1>1. /\ todo[c] \in Seq(Update) /\ todo[c] # <<>> /\ UNCHANGED <<rc, lc, applied>>
      /\ Honest(todo[c], applied)
  BY DEF WriteConfig, Typed, TypeOK, Truth
<1>2. u \in Update /\ Len(todo[c]) \in Nat \ {0} /\ u = todo[c][1]
  BY <1>1, HeadTailProperties, LenProperties, EmptySeq
<1>3. u.prop \in Proposals /\ (u.status = "EXECUTED" => applied[u.prop] # <<>>)
  BY <1>1, <1>2 DEF Update, Honest
<1>4. Honest(Tail(todo[c]), applied)
  <2>1. /\ Len(Tail(todo[c])) = Len(todo[c]) - 1
        /\ \A i \in 1..Len(Tail(todo[c])) : Tail(todo[c])[i] = todo[c][i + 1]
    BY <1>1, HeadTailProperties
  <2> QED
    BY <1>1, <1>2, <2>1 DEF Honest
<1>5. \A d \in Controllers : Honest(todo'[d], applied')
  BY <1>1, <1>4, TodoHonest DEF WriteConfig
<1>6. config' = [config EXCEPT ![u.prop] = UpdateConfigStatus(config[u.prop], u, ver[c])]
  BY DEF WriteConfig
<1>7. ExecutedIsTrue'
  <2> HIDE DEF u
  <2>1. ASSUME NEW q \in Proposals, config'[q].status = "EXECUTED" PROVE applied[q] # <<>>
    <3>1. CASE q # u.prop \/ config[u.prop].version # ver[c]
      <4>1. config'[q] = config[q]
        BY <1>3, <1>6, <3>1 DEF UpdateConfigStatus, Typed, TypeOK
      <4> QED
        BY <2>1, <4>1 DEF Truth, ExecutedIsTrue
    <3>2. CASE q = u.prop /\ config[u.prop].version = ver[c]
      <4>1. config'[q].status = u.status
        BY <1>3, <1>6, <3>2 DEF UpdateConfigStatus, Typed, TypeOK, ConfigRow
      <4> QED
        BY <1>3, <2>1, <3>2, <4>1
    <3> QED
      BY <3>1, <3>2
  <2> QED
    BY <1>1, <2>1 DEF ExecutedIsTrue
<1> QED
  BY <1>1, <1>5, <1>7, OthersTrue DEF Truth

\* Every step keeps EXECUTED true.
LEMMA NextTruth ==
    ASSUME Typed, Truth, [Next]_vars
    PROVE  Truth'
<1>1. CASE \/ UNCHANGED vars \/ Tick
           \/ \E p \in Proposals : ResendProposal(p)
           \/ \E c \in Controllers : ReadConfig(c)
  <2>1. UNCHANGED <<config, todo, rc, lc>>
    BY <1>1 DEF vars, Tick, nibVars, lcVars, ResendProposal, ReadConfig
  <2> QED
    BY <2>1, OthersTrue DEF Truth
<1>2. ASSUME NEW p \in Proposals, SubmitConfigProposal(p) PROVE Truth'
  <2>1. UNCHANGED <<todo, rc, lc, applied>>
    BY <1>2 DEF SubmitConfigProposal
  <2>2. \A q \in Proposals : config'[q] = config[q] \/ config'[q].status # "EXECUTED"
    BY <1>2 DEF SubmitConfigProposal, Typed, TypeOK
  <2>3. ExecutedIsTrue'
    BY <2>1, <2>2 DEF Truth, ExecutedIsTrue
  <2> QED
    BY <2>1, <2>3, OthersTrue DEF Truth
<1>3. ASSUME NEW c \in Controllers, Restart(c) PROVE Truth'
  <2>1. config' = config /\ todo' = [todo EXCEPT ![c] = <<>>]
    BY <1>3 DEF Restart, nibVars
  <2>2. \A d \in Controllers : Honest(todo'[d], applied')
    BY <2>1, HonestNothing, TodoHonest
  <2>3. ASSUME NEW s \in RCs PROVE RCTrue(s)'
    <3>1. rc'[s] = rc[s] \/ rc'[s].pc = "idle"
      BY <1>3 DEF Restart, RestartRC, RestartLC, RestartGC, IdleRC, Typed, TypeOK
    <3> QED
      BY <3>1, OthersTrue DEF RCTrue
  <2>4. ASSUME NEW k \in LCs PROVE LCTrue(k)'
    <3>1. lc'[k] = lc[k] \/ lc'[k].pc = "idle"
      BY <1>3 DEF Restart, RestartRC, RestartLC, RestartGC, lcVars, IdleLC, Typed, TypeOK
    <3> QED
      BY <3>1, OthersTrue DEF LCTrue
  <2> QED
    BY <2>1, <2>2, <2>3, <2>4, OthersTrue DEF Truth
<1> QED
  BY <1>1, <1>2, <1>3, RCTruth, GCTruth, LCTruth, WriteTruth DEF Next

-----------------------------------------------------------------------------
(* Locks.                                                                  *)

\* A lock row names its device and holder as the request does, and the delivery
\* that acquired it has left the inbox.
LockSound(l) ==
    /\ l.held_by = TargetOf[l.req] /\ l.device = DeviceOf[l.req]
    /\ l.dlv \in 1..sent[l.req] /\ <<l.req, l.dlv>> \notin inbox

\* The lock acquired by delivery n of proposal p.
IsLockOf(l, p, n) == l.req = p /\ l.dlv = n

EarlyPlaces == {"expire", "purge", "acquire"}

\* Up to its acquire_lock a handler has no lock of its own; from there on it knows
\* of one, and its own outlives the handler.
RCLocked(r) ==
    /\ rc[r].pc \in EarlyPlaces => \A l \in locks : ~IsLockOf(l, rc[r].prop, rc[r].dlv)
    /\ rc[r].pc \in LockedPlaces =>
           /\ propLocks[rc[r].prop] # NoLock
           /\ propLocks[rc[r].prop] = rc[r].dlv =>
                  \E l \in locks : /\ IsLockOf(l, rc[r].prop, rc[r].dlv)
                                   /\ l.expires_at >= rc[r].start + LockTTL

\* The locks table holds one row per device.
Locking ==
    /\ \A l, m \in locks : l.device = m.device => l = m
    /\ \A l \in locks : LockSound(l)
    /\ \A p \in Proposals : propLocks[p] \in 0..sent[p]
    /\ \A r \in RCs : RCLocked(r)

\* A handler after a step that neither sends nor receives is where it was, or one
\* place further.
LEMMA Before ==
    ASSUME Typed, Inside, NEW s \in RCs, rc'[s].pc # "idle"
    PROVE  /\ rc[s].pc # "idle"
           /\ rc'[s].prop = rc[s].prop /\ rc'[s].dlv = rc[s].dlv /\ rc'[s].start = rc[s].start
           /\ rc'[s].pc \in EarlyPlaces => rc[s].pc \in EarlyPlaces
           /\ rc'[s].pc \in LockedPlaces =>
                  rc[s].pc \in LockedPlaces \/ (rc[s].pc \in {"purge", "acquire"} /\ rc'[s].pc = "review")
BY DEF Inside, Proceeds, Advances, Arrows, EarlyPlaces, LockedPlaces

\* A step that at most removes locks keeps the invariant, if no handler counts on them.
LEMMA FewerLocks ==
    ASSUME Typed, Locking, Inside, locks' \subseteq locks,
           \A p \in Proposals : propLocks'[p] = propLocks[p] \/ propLocks'[p] = NoLock,
           \A s \in RCs : rc'[s].pc \in LockedPlaces =>
               /\ rc[s].pc \in LockedPlaces
               /\ propLocks'[rc[s].prop] = propLocks[rc[s].prop]
               /\ \A l \in locks : /\ IsLockOf(l, rc[s].prop, rc[s].dlv)
                                   /\ l.expires_at >= rc[s].start + LockTTL
                                   => l \in locks'
    PROVE  Locking'
<1>1. sent' = sent /\ inbox' \subseteq inbox /\ \A p \in Proposals : sent[p] \in Nat
  BY DEF Inside, Typed, TypeOK
<1>2. \A l \in locks' : LockSound(l)'
  BY <1>1 DEF Locking, LockSound
<1>3. \A p \in Proposals : propLocks'[p] \in 0..sent'[p]
  BY <1>1 DEF Locking, NoLock
<1>4. ASSUME NEW s \in RCs PROVE RCLocked(s)'
  <2>1. CASE rc'[s].pc \in EarlyPlaces
    <3>1. rc'[s].pc # "idle" /\ rc'[s].pc \notin LockedPlaces
      BY <2>1 DEF EarlyPlaces, LockedPlaces
    <3> QED
      BY <2>1, <3>1, Before DEF Locking, RCLocked
  <2>2. CASE rc'[s].pc \in LockedPlaces
    <3>1. rc'[s].pc # "idle" /\ rc'[s].pc \notin EarlyPlaces
      BY <2>2 DEF EarlyPlaces, LockedPlaces
    <3>2. /\ rc'[s].prop = rc[s].prop /\ rc'[s].dlv = rc[s].dlv /\ rc'[s].start = rc[s].start
      BY <3>1, Before
    <3> QED
      BY <2>2, <3>1, <3>2 DEF Locking, RCLocked
  <2> QED
    BY <2>1, <2>2 DEF RCLocked
<1> QED
  BY <1>2, <1>3, <1>4 DEF Locking

\* Handlers of two Regional Controllers handle two proposals.
LEMMA HandlersApart ==
    ASSUME Typed, NEW r \in RCs, NEW p \in Proposals, TargetOf[p] = r, NEW s \in RCs,
           rc[s].pc # "idle", rc[s].prop = p
    PROVE  s = r
BY DEF Typed, Places, RCSound

\* _release_proposal_lock takes no lock from the handler of another proposal.
LEMMA ReleaseLocking ==
    ASSUME Typed, Locking, Inside, NEW r \in RCs, NEW p \in Proposals, TargetOf[p] = r,
           ReleaseProposalLock(r, p), rc'[r].pc \notin LockedPlaces,
           \A s \in RCs : s # r => rc'[s] = rc[s]
    PROVE  Locking'
<1>1. locks' \subseteq locks /\ \A l \in locks : l.req # p => l \in locks'
  BY DEF ReleaseProposalLock, WithoutLock
<1>2. \A q \in Proposals : propLocks'[q] = IF q = p THEN NoLock ELSE propLocks[q]
  BY DEF ReleaseProposalLock, Typed, TypeOK
<1>3. ASSUME NEW s \in RCs, rc'[s].pc \in LockedPlaces
      PROVE  rc[s].prop \in Proposals /\ rc[s].prop # p /\ rc[s].pc \in LockedPlaces
  <2>1. s # r /\ rc'[s] = rc[s] /\ rc[s].pc # "idle"
    BY <1>3 DEF LockedPlaces
  <2>2. rc[s].prop \in Proposals
    BY <2>1 DEF Typed, Places, RCSound
  <2> QED
    BY <1>3, <2>1, <2>2, HandlersApart
<1> QED
  BY <1>1, <1>2, <1>3, FewerLocks DEF IsLockOf

\* A step that leaves the locks alone, made at a place from which no handler goes on
\* to its review.
LEMMA LocksAlone ==
    ASSUME Typed, Locking, Inside, UNCHANGED <<locks, propLocks>>,
           \A s \in RCs : rc'[s].pc = "review" => rc'[s] = rc[s]
    PROVE  Locking'
<1>1. ASSUME NEW s \in RCs, rc'[s].pc \in LockedPlaces PROVE rc[s].pc \in LockedPlaces
  <2>1. rc'[s].pc # "idle"
    BY <1>1 DEF LockedPlaces
  <2> QED
    BY <1>1, <2>1, Before
<1> QED
  BY <1>1, FewerLocks

\* A proposal that its own Regional Controller handles.
LEMMA Handled ==
    ASSUME Typed, NEW r \in RCs, rc[r].pc # "idle"
    PROVE  rc[r].prop \in Proposals /\ TargetOf[rc[r].prop] = r
BY DEF Typed, Places, RCSound

\* check_lock: the lock found is not of this delivery.
LEMMA CheckLockLocking ==
    ASSUME Typed, Locking, Inside, NEW r \in RCs, RCCheckLock(r), RCStep(r)
    PROVE  Locking'
<1> DEFINE p == rc[r].prop
<1>1. rc[r].pc = "purge" /\ locks' = locks /\ p \in Proposals /\ TargetOf[p] = r
  BY Handled DEF RCCheckLock, nibVars
<1>2. \A s \in RCs : s # r => rc'[s] = rc[s]
  BY Alone
<1>3. CASE Answer(r, p, "DENY") /\ UNCHANGED propLocks
  <2>1. rc'[r].pc = "idle"
    BY <1>3 DEF Answer, IdleRC, Typed, TypeOK
  <2> QED
    BY <1>1, <1>2, <1>3, <2>1, LocksAlone
<1>4. CASE rc' = [rc EXCEPT ![r].pc = "acquire"] /\ UNCHANGED propLocks
  <2>1. GoesTo(r, "acquire", rc[r].token, rc[r].reply, rc[r].work)
    BY <1>4, Fields
  <2>2. rc'[r].pc = "acquire"
    BY <2>1, Moved
  <2> QED
    BY <1>1, <1>2, <1>4, <2>2, LocksAlone
<1>5. ASSUME NEW l \in locks, l.req = p, propLocks' = [propLocks EXCEPT ![p] = l.dlv],
             rc' = [rc EXCEPT ![r].pc = "review"]
      PROVE  Locking'
  <2>1. GoesTo(r, "review", rc[r].token, rc[r].reply, rc[r].work)
    BY <1>5, Fields
  <2>2. rc'[r].pc = "review" /\ rc'[r].prop = p /\ rc'[r].dlv = rc[r].dlv
    BY <2>1, Moved
  <2>3. LockSound(l) /\ l.dlv # rc[r].dlv
    BY <1>1, <1>5 DEF Locking, RCLocked, EarlyPlaces, IsLockOf
  <2>4. l.dlv \in 1..sent[p] /\ sent' = sent /\ inbox' \subseteq inbox
    BY <1>5, <2>3 DEF LockSound, Inside
  <2>5. \A q \in Proposals : propLocks'[q] = IF q = p THEN l.dlv ELSE propLocks[q]
    BY <1>1, <1>5 DEF Typed, TypeOK
  <2> HIDE DEF p
  <2>6. \A q \in Proposals : propLocks'[q] \in 0..sent'[q]
    BY <2>4, <2>5 DEF Locking
  <2>7. \A m \in locks' : LockSound(m)'
    BY <1>1, <2>4 DEF Locking, LockSound
  <2>8. ASSUME NEW s \in RCs PROVE RCLocked(s)'
    <3>1. CASE s = r
      BY <1>1, <2>2, <2>3, <2>4, <2>5, <3>1 DEF RCLocked, EarlyPlaces, NoLock
    <3>2. CASE s # r /\ rc[s].pc = "idle"
      BY <1>2, <3>2 DEF RCLocked, EarlyPlaces, LockedPlaces
    <3>3. CASE s # r /\ rc[s].pc # "idle"
      <4>1. rc[s].prop \in Proposals /\ rc[s].prop # p /\ rc'[s] = rc[s]
        BY <1>1, <1>2, <3>3, Handled
      <4> QED
        BY <1>1, <2>5, <4>1 DEF Locking, RCLocked
    <3> QED
      BY <3>1, <3>2, <3>3
  <2> QED
    BY <1>1, <2>6, <2>7, <2>8 DEF Locking
<1> QED
  BY <1>3, <1>4, <1>5 DEF RCCheckLock, CheckLock

\* acquire_lock: the expired locks it deletes are nobody's, and the new one is the
\* only one of its device.
LEMMA AcquireLocking ==
    ASSUME Typed, Deliveries, Locking, Inside, NEW r \in RCs, RCAcquireLock(r), RCStep(r)
    PROVE  Locking'
<1> DEFINE p == rc[r].prop
           kept == Unexpired(locks)
           new == [device |-> DeviceOf[p], held_by |-> r, req |-> p, dlv |-> rc[r].dlv,
                   expires_at |-> now + LockTTL]
<1>1. rc[r].pc = "acquire" /\ p \in Proposals /\ TargetOf[p] = r
  BY Handled DEF RCAcquireLock
<1>2. /\ \A s \in RCs : s # r => rc'[s] = rc[s]
      /\ sent' = sent /\ now' = now /\ inbox' \subseteq inbox
  BY Alone DEF Inside
<1>3. kept \subseteq locks /\ \A l \in locks : l.expires_at >= now => l \in kept
  BY DEF Unexpired
<1>4. ASSUME NEW s \in RCs, rc[s].pc \in LockedPlaces, NEW l \in locks,
             l.expires_at >= rc[s].start + LockTTL
      PROVE  l \in kept
  <2>1. rc[s].pc # "idle" /\ rc[s].start \in Nat /\ now \in Nat /\ l.expires_at \in Nat
    BY <1>4, FieldTypes DEF LockedPlaces, Typed, TypeOK, LockRow
  <2>2. now <= rc[s].start + HandlerTime
    BY <2>1 DEF Deliveries
  <2>3. l.expires_at >= now
    BY <1>4, <2>1, <2>2, TimeAssumption
  <2> QED
    BY <1>3, <2>3
<1> HIDE DEF kept
<1>5. CASE locks' = kept /\ Answer(r, p, "DENY") /\ UNCHANGED propLocks
  <2>1. rc'[r].pc \notin LockedPlaces
    BY <1>5 DEF Answer, IdleRC, LockedPlaces, Typed, TypeOK
  <2> QED
    BY <1>2, <1>3, <1>4, <1>5, <2>1, FewerLocks
<1>6. CASE /\ \A l \in kept : l.device # DeviceOf[p]
           /\ locks' = kept \union {new}
           /\ propLocks' = [propLocks EXCEPT ![p] = rc[r].dlv]
           /\ rc' = [rc EXCEPT ![r].pc = "review"]
  <2>1. GoesTo(r, "review", rc[r].token, rc[r].reply, rc[r].work)
    BY <1>6, Fields
  <2>2. rc'[r].pc = "review" /\ rc'[r].prop = p /\ rc'[r].dlv = rc[r].dlv
        /\ rc'[r].start = rc[r].start
    BY <2>1, Moved
  <2>3. /\ rc[r].dlv \in 1..sent[p] /\ <<p, rc[r].dlv>> \notin inbox
        /\ rc[r].start <= now /\ rc[r].start \in Nat /\ now \in Nat
    BY <1>1, FieldTypes DEF Deliveries
  <2>4. \A q \in Proposals : propLocks'[q] = IF q = p THEN rc[r].dlv ELSE propLocks[q]
    BY <1>1, <1>6 DEF Typed, TypeOK
  <2>5. /\ new.device = DeviceOf[p] /\ new.held_by = r /\ new.req = p /\ new.dlv = rc[r].dlv
        /\ new.expires_at = now + LockTTL
    OBVIOUS
  <2> HIDE DEF p, new
  <2>6. \A q \in Proposals : propLocks'[q] \in 0..sent'[q]
    BY <1>2, <2>3, <2>4 DEF Locking
  <2>7. \A m \in locks' : LockSound(m)'
    BY <1>1, <1>2, <1>3, <1>6, <2>3, <2>5 DEF Locking, LockSound
  <2>8. \A l, m \in locks' : l.device = m.device => l = m
    BY <1>3, <1>6, <2>5 DEF Locking
  <2>9. ASSUME NEW s \in RCs PROVE RCLocked(s)'
    <3>1. CASE s = r
      <4>1. rc[r].dlv # NoLock /\ new.expires_at >= rc[r].start + LockTTL
        BY <2>3, <2>5, TimeAssumption DEF NoLock
      <4>2. IsLockOf(new, p, rc[r].dlv) /\ new \in locks'
        BY <1>6, <2>5 DEF IsLockOf
      <4> QED
        BY <1>1, <2>2, <2>4, <3>1, <4>1, <4>2 DEF RCLocked, EarlyPlaces
    <3>2. CASE s # r /\ rc[s].pc = "idle"
      BY <1>2, <3>2 DEF RCLocked, EarlyPlaces, LockedPlaces
    <3>3. CASE s # r /\ rc[s].pc # "idle"
      <4>1. rc[s].prop \in Proposals /\ rc[s].prop # p /\ rc'[s] = rc[s]
        BY <1>1, <1>2, <3>3, Handled
      <4>2. CASE rc[s].pc \in EarlyPlaces
        <5>1. rc[s].pc \notin LockedPlaces
          BY <4>2 DEF EarlyPlaces, LockedPlaces
        <5>2. \A l \in kept : ~IsLockOf(l, rc[s].prop, rc[s].dlv)
          BY <1>3, <4>2 DEF Locking, RCLocked
        <5>3. \A l \in locks' : ~IsLockOf(l, rc[s].prop, rc[s].dlv)
          BY <1>6, <2>5, <4>1, <5>2 DEF IsLockOf
        <5> QED
          BY <4>1, <5>1, <5>3 DEF RCLocked
      <4>3. CASE rc[s].pc \in LockedPlaces
        <5>1. rc[s].pc \notin EarlyPlaces
          BY <4>3 DEF EarlyPlaces, LockedPlaces
        <5> QED
          BY <1>4, <1>6, <2>4, <4>1, <4>3, <5>1 DEF Locking, RCLocked
      <4> QED
        BY <4>1, <4>2, <4>3 DEF RCLocked
    <3> QED
      BY <3>1, <3>2, <3>3
  <2> QED
    BY <2>6, <2>7, <2>8, <2>9 DEF Locking
<1> QED
  BY <1>5, <1>6 DEF RCAcquireLock, kept

\* What is sent has a number no lock has yet.
LEMMA SendLocking ==
    ASSUME Typed, Deliveries, Locking, NEW p \in Proposals,
           SubmitConfigProposal(p) \/ ResendProposal(p)
    PROVE  Locking'
<1>1. UNCHANGED <<rc, locks, propLocks>>
  BY DEF SubmitConfigProposal, ResendProposal
<1>2. /\ \A q \in Proposals : sent[q] \in Nat /\ sent'[q] \in Nat /\ sent[q] <= sent'[q]
      /\ \A q \in Proposals, n \in Nat : <<q, n>> \in inbox' =>
             <<q, n>> \in inbox \/ n > sent[q]
  <2>1. \A q \in Proposals : sent[q] \in Nat
    BY DEF Typed, TypeOK
  <2>2. CASE UNCHANGED <<sent, inbox>>
    BY <2>1, <2>2
  <2>3. CASE sent[p] = 0 /\ sent' = [sent EXCEPT ![p] = 1] /\ inbox' = inbox \union {<<p, 1>>}
    BY <2>1, <2>3 DEF Typed, TypeOK
  <2>4. CASE /\ sent' = [sent EXCEPT ![p] = sent[p] + 1]
             /\ inbox' = inbox \union {<<p, sent[p] + 1>>}
    BY <2>1, <2>4 DEF Typed, TypeOK
  <2>5. SubmitConfigProposal(p) => sent[p] = 0
    BY DEF SubmitConfigProposal, Deliveries
  <2> QED
    BY <2>2, <2>3, <2>4, <2>5 DEF SubmitConfigProposal, ResendProposal
<1>3. \A l \in locks : l.req \in Proposals /\ l.dlv \in Nat
  BY DEF Typed, TypeOK, LockRow
<1>4. ASSUME NEW l \in locks PROVE LockSound(l)'
  <2>1. /\ l.held_by = TargetOf[l.req] /\ l.device = DeviceOf[l.req]
        /\ l.dlv \in 1..sent[l.req] /\ <<l.req, l.dlv>> \notin inbox
    BY DEF Locking, LockSound
  <2>2. <<l.req, l.dlv>> \notin inbox'
    BY <1>2, <1>3, <2>1
  <2> QED
    BY <1>2, <1>3, <2>1, <2>2 DEF LockSound
<1>5. \A q \in Proposals : propLocks'[q] \in 0..sent'[q]
  BY <1>1, <1>2 DEF Locking
<1>6. \A r \in RCs : RCLocked(r)'
  BY <1>1 DEF Locking, RCLocked
<1> QED
  BY <1>1, <1>4, <1>5, <1>6 DEF Locking

\* What is received has a number no lock has.
LEMMA ReceiveLocking ==
    ASSUME Typed, Locking, NEW r \in RCs, NEW p \in Proposals, NEW n \in 1..MaxSends,
           RCReceive(r, p, n)
    PROVE  Locking'
<1>1. /\ UNCHANGED <<locks, propLocks, sent>>
      /\ <<p, n>> \in inbox /\ inbox' \subseteq inbox
  BY DEF RCReceive, RCUnchanged, nibVars
<1>2. /\ rc'[r].pc = "expire" /\ rc'[r].prop = p /\ rc'[r].dlv = n
      /\ \A s \in RCs : s # r => rc'[s] = rc[s]
  BY DEF RCReceive, Typed, TypeOK
<1>3. \A l \in locks' : LockSound(l)'
  BY <1>1 DEF Locking, LockSound
<1>4. ASSUME NEW s \in RCs PROVE RCLocked(s)'
  <2>1. CASE s = r
    <3>1. \A l \in locks : ~IsLockOf(l, p, n)
      BY <1>1 DEF Locking, LockSound, IsLockOf
    <3> QED
      BY <1>1, <1>2, <2>1, <3>1 DEF RCLocked, LockedPlaces
  <2>2. CASE s # r
    BY <1>1, <1>2, <2>2 DEF Locking, RCLocked
  <2> QED
    BY <2>1, <2>2
<1> QED
  BY <1>1, <1>3, <1>4 DEF Locking

\* The other steps of a Regional Controller.
LEMMA HandlerLocking ==
    ASSUME Typed, Deliveries, Locking, Inside, NEW r \in RCs, RCStep(r),
           ~\E p \in Proposals, n \in 1..MaxSends : RCReceive(r, p, n)
    PROVE  Locking'
<1>1. \A s \in RCs : s # r => rc'[s] = rc[s]
  BY Alone
<1>2. ASSUME NEW q \in Proposals, RCPurge(r, q) PROVE Locking'
  <2>1. ReleaseProposalLock(r, q) /\ rc[r].pc = "purge" /\ q \in rc[r].work
        /\ GoesTo(r, "purge", rc[r].token, rc[r].reply, rc[r].work \ {q})
    BY <1>2, Fields DEF RCPurge
  <2>2. rc'[r].pc \notin LockedPlaces
    BY <2>1, Moved DEF LockedPlaces
  <2>3. TargetOf[q] = r
    BY <2>1, FieldTypes
  <2> QED
    BY <1>1, <2>1, <2>2, <2>3, ReleaseLocking
<1>3. CASE RCClose(r) \/ RCReject(r)
  <2>1. /\ ReleaseProposalLock(r, rc[r].prop) /\ Answer(r, rc[r].prop, rc[r].reply)
        /\ rc[r].pc # "idle"
    BY <1>3 DEF RCClose, RCReject
  <2>2. rc'[r].pc \notin LockedPlaces
    BY <2>1 DEF Answer, IdleRC, LockedPlaces, Typed, TypeOK
  <2>3. rc[r].prop \in Proposals /\ TargetOf[rc[r].prop] = r
    BY <2>1, Handled
  <2> QED
    BY <1>1, <2>1, <2>2, <2>3, ReleaseLocking
<1>4. CASE \/ \E q \in Proposals : RCExpire(r, q)
           \/ RCExpireDone(r) \/ RCApprove(r) \/ RCIssueToken(r)
           \/ RCEscalate(r) \/ RCEscalationFails(r) \/ RCOnDecision(r)
           \/ RCDispatch(r) \/ RCDispatchFails(r) \/ RCOnResult(r)
  <2>1. UNCHANGED <<locks, propLocks>>
    BY <1>4 DEF RCExpire, RCExpireDone, RCApprove, RCIssueToken, RCEscalate, RCEscalationFails,
            RCOnDecision, RCDispatch, RCDispatchFails, RCOnResult, nibVars
  <2>2. rc[r].pc \notin {"purge", "acquire"}
    BY <1>4 DEF RCExpire, RCExpireDone, RCApprove, RCIssueToken, RCEscalate, RCEscalationFails,
            RCOnDecision, RCDispatch, RCDispatchFails, RCOnResult
  <2>3. rc'[r].pc = "review" => rc'[r] = rc[r]
    BY <2>2 DEF Inside, Proceeds, Advances, Arrows
  <2> QED
    BY <1>1, <2>1, <2>3, LocksAlone
<1> QED
  BY <1>2, <1>3, <1>4, CheckLockLocking, AcquireLocking DEF RCStep

\* A restarted Regional Controller forgets which locks it holds.
LEMMA RestartLocking ==
    ASSUME Typed, Locking, Inside, NEW c \in Controllers, Restart(c)
    PROVE  Locking'
<1>1. locks' = locks
  BY DEF Restart, nibVars
<1>2. CASE c \in RCs /\ RestartRC(c)
  <2>1. /\ rc'[c].pc \notin LockedPlaces /\ \A s \in RCs : s # c => rc'[s] = rc[s]
    BY <1>2 DEF RestartRC, IdleRC, LockedPlaces, Typed, TypeOK
  <2>2. \A p \in Proposals : propLocks'[p] = IF TargetOf[p] = c THEN NoLock ELSE propLocks[p]
    BY <1>2 DEF RestartRC
  <2>3. ASSUME NEW s \in RCs, rc'[s].pc \in LockedPlaces
        PROVE  rc[s].pc \in LockedPlaces /\ propLocks'[rc[s].prop] = propLocks[rc[s].prop]
    <3>1. s # c /\ rc[s].pc \in LockedPlaces /\ rc[s].pc # "idle"
      BY <2>1, <2>3 DEF LockedPlaces
    <3>2. rc[s].prop \in Proposals /\ TargetOf[rc[s].prop] = s
      BY <3>1, Handled
    <3> QED
      BY <2>2, <3>1, <3>2
  <2> QED
    BY <1>1, <2>2, <2>3, FewerLocks
<1>3. CASE RestartLC(c) \/ RestartGC
  BY <1>1, <1>3, LocksAlone DEF RestartLC, RestartGC
<1> QED
  BY <1>2, <1>3 DEF Restart

\* The steps of the other controllers, and of the NIB.
LEMMA OthersLocking ==
    ASSUME Typed, Locking, Inside,
           \/ UNCHANGED vars \/ GCStep \/ \E l \in LCs : LCStep(l)
           \/ \E c \in Controllers : ReadConfig(c) \/ WriteConfig(c)
    PROVE  Locking'
<1>1. CASE UNCHANGED vars \/ \E c \in Controllers : ReadConfig(c) \/ WriteConfig(c)
  BY <1>1, LocksAlone DEF vars, ReadConfig, WriteConfig
<1>2. CASE GCStep
  <2>1. UNCHANGED <<locks, propLocks>>
    BY <1>2 DEF GCStep, GCReceive, GCDecide, nibVars, lockVars
  <2>2. ASSUME NEW s \in RCs, rc'[s].pc = "review" PROVE rc'[s] = rc[s]
    <3>1. CASE GCDecide
      <4>1. gc.prop \in Proposals
        BY <3>1 DEF GCDecide, Typed, Places, GCSound
      <4> QED
        BY <2>2, <3>1, <4>1, DeliveredTo DEF GCDecide
    <3>2. ASSUME NEW p \in Proposals, NEW n, GCReceive(p, n) PROVE rc'[s] = rc[s]
      BY <2>2, <3>2, DeliveredTo DEF GCReceive
    <3> QED
      BY <1>2, <3>1, <3>2 DEF GCStep
  <2> QED
    BY <2>1, <2>2, LocksAlone
<1>3. ASSUME NEW l \in LCs, LCStep(l) PROVE Locking'
  <2>1. UNCHANGED <<locks, propLocks>>
    BY <1>3 DEF LCStep, LCReceive, LCExecute, LCExecuteFails, LCReturn, LCUnchanged
  <2>2. ASSUME NEW s \in RCs, rc'[s].pc = "review" PROVE rc'[s] = rc[s]
    <3>1. CASE LCReturn(l)
      <4>1. lc[l].prop \in Proposals /\ lc[l].status \in {"EXECUTED", "FAILED"}
        BY <3>1 DEF LCReturn, Typed, Places, LCSound
      <4> QED
        BY <2>2, <3>1, <4>1, DeliveredTo DEF LCReturn
    <3>2. CASE ~LCReturn(l)
      BY <1>3, <3>2 DEF LCStep, LCReceive, LCExecute, LCExecuteFails
    <3> QED
      BY <3>1, <3>2
  <2> QED
    BY <2>1, <2>2, LocksAlone
<1> QED
  BY <1>1, <1>2, <1>3

\* Every step keeps the locks table, its handles and the handlers in agreement.
LEMMA NextLocking ==
    ASSUME Typed, Deliveries, Locking, [Next]_vars
    PROVE  Locking'
<1>1. CASE Tick
  <2>1. UNCHANGED <<locks, propLocks, rc, sent, inbox>>
    BY <1>1 DEF Tick, nibVars, netVars
  <2> QED
    BY <2>1 DEF Locking, LockSound, RCLocked
<1>2. ASSUME NEW r \in RCs, RCStep(r), Inside PROVE Locking'
  BY <1>2, HandlerLocking, ReceiveLocking
<1>3. CASE Inside /\ ~Tick /\ ~\E p \in Proposals : SubmitConfigProposal(p) \/ ResendProposal(p)
  BY <1>2, <1>3, OthersLocking, RestartLocking DEF Next
<1> QED
  BY <1>1, <1>3, Kinds, SendLocking, ReceiveLocking

\* Two handlers with a lock of their own: the locks are different rows, and so are
\* their devices.
LEMMA LockingExcludes ==
    ASSUME Typed, Locking
    PROVE  DeviceExclusive
<1> SUFFICES ASSUME NEW r \in RCs, NEW s \in RCs, r # s,
                    rc[r].pc \in LockedPlaces, rc[s].pc \in LockedPlaces,
                    AcquiredItself(r), AcquiredItself(s),
                    DeviceOf[rc[r].prop] = DeviceOf[rc[s].prop]
             PROVE  FALSE
  BY DEF DeviceExclusive
<1>1. PICK l \in locks : IsLockOf(l, rc[r].prop, rc[r].dlv)
  BY DEF Locking, RCLocked, AcquiredItself
<1>2. PICK m \in locks : IsLockOf(m, rc[s].prop, rc[s].dlv)
  BY DEF Locking, RCLocked, AcquiredItself
<1>3. l = m
  BY <1>1, <1>2 DEF Locking, LockSound, IsLockOf
<1>4. rc[r].pc # "idle" /\ rc[s].pc # "idle"
  BY DEF LockedPlaces
<1> QED
  BY <1>1, <1>2, <1>3, <1>4, Handled DEF IsLockOf

-----------------------------------------------------------------------------
(* How often a change is made.                                             *)

BusyPlaces == RCPlaces \ {"idle"}

BeforeDispatch == {"expire", "purge", "acquire", "review", "await_gc", "gc_reply", "issue",
                   "dispatch", "reject"}

\* The Regional Controller of proposal p handles it, at one of the places.
At(p, places) == rc[TargetOf[p]].prop = p /\ rc[TargetOf[p]].pc \in places

Waiting(p) == \E n \in Nat : <<p, n>> \in inbox

Instructed(p) == \E m \in instr : m.prop = p

Started(p) == lc[OriginOf[p]].pc = "execute" /\ lc[OriginOf[p]].prop = p

\* Nothing of change p has reached its Local Controller.
Untouched(p) == ~Instructed(p) /\ ~Started(p) /\ applied[p] = <<>>

\* The Regional Controller remembers that request p is no longer pending.
Settled(p) == rcReq[p].state \notin {"ABSENT", "PENDING_APPROVAL"}

\* A proposal that was sent once is answered last of all, and is not executed unless
\* it gets as far as its dispatch.
SentOnce(p) ==
    sent[p] <= 1 =>
        /\ sent[p] = 0 \/ Waiting(p) \/ At(p, BusyPlaces) => answer[p] = "none"
        /\ \/ sent[p] = 0 \/ Waiting(p) \/ At(p, BeforeDispatch)
           \/ answer[p] \in {"DENY", "ESCALATE"}
           => Untouched(p)

\* As long as nobody has crashed, what is dispatched is remembered.
Remembered(p) ==
    crashes = 0 /\ (At(p, {"issue", "dispatch"}) \/ ~Untouched(p)) => Settled(p)

\* The change is in one place: about to be dispatched, instructed, started or made.
InOnePlace(p) ==
    crashes = 0 \/ sent[p] <= 1 =>
        /\ \A m, n \in instr : m.prop = p /\ n.prop = p => m = n
        /\ At(p, {"issue", "dispatch"}) => Untouched(p)
        /\ Instructed(p) => ~Started(p) /\ applied[p] = <<>>
        /\ Started(p) => applied[p] = <<>>
        /\ Len(applied[p]) <= 1

\* The Local Controller handles an instruction for change p.
Serving(p) == lc[OriginOf[p]].pc # "idle" /\ lc[OriginOf[p]].prop = p

\* The Regional Controller has had no answer to its instruction.
GaveUp(p) ==
    At(p, {"close"}) /\ rc[TargetOf[p]].reply = "EXECUTION_DISPATCH_FAILED"

\* The Regional Controller waits for the result of change p, or has given it up.
Awaited(p) ==
    At(p, {"await_lc"}) \/ GaveUp(p) \/ answer[p] = "EXECUTION_DISPATCH_FAILED"

\* An instruction is under way or at work, not both, only as long as its result is
\* awaited or after it was given up.
Called(p) ==
    crashes = 0 /\ sent[p] <= 1 /\ (Instructed(p) \/ Serving(p)) =>
        ~(Instructed(p) /\ Serving(p)) /\ Awaited(p)

Once == \A p \in Proposals : SentOnce(p) /\ Remembered(p) /\ InOnePlace(p) /\ Called(p)

\* What a step can mean for the execution of change p.
Quiet(p) ==
    /\ \A m \in instr' : m.prop = p => m \in instr
    /\ Started(p)' => Started(p)
    /\ applied'[p] = applied[p]

Dispatches(p) ==
    /\ At(p, {"dispatch"}) /\ At(p, {"await_lc"})'
    /\ \E t : instr' = instr \union {t}
    /\ UNCHANGED <<lc, applied>>

Takes(p) ==
    /\ \E m \in instr : m.prop = p /\ instr' = instr \ {m}
    /\ applied' = applied

Executes(p) ==
    /\ Started(p) /\ ~Started(p)'
    /\ \E t : applied'[p] = Append(applied[p], t)
    /\ instr' = instr

\* Every step leaves the execution of a change alone, or moves it one place on.
LEMMA DeviceSteps ==
    ASSUME Typed, [Next]_vars, NEW p \in Proposals
    PROVE  Quiet(p) \/ Dispatches(p) \/ Takes(p) \/ Executes(p)
<1>0. TargetOf[p] \in RCs /\ OriginOf[p] \in LCs
  BY PipelineAssumption
<1>1. ASSUME NEW r \in RCs, RCDispatch(r) PROVE Quiet(p) \/ Dispatches(p)
  <2>1. /\ rc[r].pc = "dispatch" /\ UNCHANGED <<lc, applied>>
        /\ GoesTo(r, "await_lc", rc[r].token, rc[r].reply, rc[r].work)
    BY <1>1, Fields DEF RCDispatch, RCUnchanged
  <2>2. rc'[r].pc = "await_lc" /\ rc'[r].prop = rc[r].prop /\ TargetOf[rc[r].prop] = r
    BY <2>1, Moved, Handled
  <2>3. CASE rc[r].prop = p
    <3>1. \E t : instr' = instr \union {t}
      BY <1>1 DEF RCDispatch
    <3> QED
      BY <2>1, <2>2, <2>3, <3>1 DEF Dispatches, At
  <2>4. CASE rc[r].prop # p
    BY <1>1, <2>1, <2>4 DEF RCDispatch, Quiet, Started
  <2> QED
    BY <2>3, <2>4
<1>2. ASSUME NEW r \in RCs, RCStep(r), ~RCDispatch(r) PROVE Quiet(p)
  <2>1. UNCHANGED <<lc, applied>>
    BY <1>2 DEF RCStep, RCReceive, RCExpire, RCPurge, RCExpireDone, RCCheckLock, RCAcquireLock,
            RCApprove, RCIssueToken, RCEscalate, RCEscalationFails, RCOnDecision,
            RCDispatchFails, RCOnResult, RCClose, RCReject, RCUnchanged
  <2>2. instr' \subseteq instr
    BY <1>2 DEF RCStep, RCReceive, RCExpire, RCPurge, RCExpireDone, RCCheckLock, RCAcquireLock,
            RCApprove, RCIssueToken, RCEscalate, RCEscalationFails, RCOnDecision,
            RCDispatchFails, RCOnResult, RCClose, RCReject
  <2> QED
    BY <2>1, <2>2 DEF Quiet, Started
<1>3. CASE GCStep
  BY <1>3 DEF GCStep, GCReceive, GCDecide, lcVars, netVars, Quiet, Started
<1>4. ASSUME NEW l \in LCs, NEW m \in instr, LCReceive(l, m) PROVE Quiet(p) \/ Takes(p)
  <2>1. instr' = instr \ {m} /\ applied' = applied
    BY <1>4 DEF LCReceive
  <2>2. CASE m.prop = p
    BY <2>1, <2>2 DEF Takes
  <2>3. CASE m.prop # p
    <3>1. lc'[l].prop = m.prop /\ \A k \in LCs : k # l => lc'[k] = lc[k]
      BY <1>4 DEF LCReceive, Typed, TypeOK
    <3>2. Started(p)' => Started(p)
      BY <1>0, <2>3, <3>1 DEF Started
    <3> QED
      BY <2>1, <3>2 DEF Quiet
  <2> QED
    BY <2>2, <2>3
<1>5. ASSUME NEW l \in LCs, LCExecute(l) PROVE Quiet(p) \/ Executes(p)
  <2>1. lc[l].pc = "execute" /\ instr' = instr
    BY <1>5 DEF LCExecute
  <2>2. lc[l].prop \in Proposals /\ OriginOf[lc[l].prop] = l
    BY <2>1 DEF Typed, Places, LCSound
  <2>3. lc'[l].pc = "report" /\ \A k \in LCs : k # l => lc'[k] = lc[k]
    BY <1>5 DEF LCExecute, Typed, TypeOK, LCHandler
  <2>4. CASE lc[l].prop = p
    <3>1. applied'[p] = Append(applied[p], lc[l].token)
      BY <1>5, <2>4 DEF LCExecute, Typed, TypeOK
    <3> QED
      BY <2>1, <2>2, <2>3, <2>4, <3>1 DEF Executes, Started
  <2>5. CASE lc[l].prop # p
    <3>1. applied'[p] = applied[p]
      BY <1>5, <2>5 DEF LCExecute, Typed, TypeOK
    <3> QED
      BY <1>0, <2>1, <2>3, <3>1 DEF Quiet, Started
  <2> QED
    BY <2>4, <2>5
<1>6. ASSUME NEW l \in LCs, LCExecuteFails(l) \/ LCReturn(l) PROVE Quiet(p)
  <2>1. instr' = instr /\ applied' = applied
    BY <1>6 DEF LCExecuteFails, LCReturn
  <2>2. lc'[l].pc # "execute" /\ \A k \in LCs : k # l => lc'[k] = lc[k]
    BY <1>6 DEF LCExecuteFails, LCReturn, IdleLC, Typed, TypeOK, LCHandler
  <2> QED
    BY <1>0, <2>1, <2>2 DEF Quiet, Started
<1>7. ASSUME NEW c \in Controllers, Restart(c) PROVE Quiet(p)
  <2>1. instr' \subseteq instr /\ applied' = applied
    BY <1>7 DEF Restart, RestartRC, RestartLC, RestartGC
  <2>2. \A k \in LCs : lc'[k] = lc[k] \/ lc'[k].pc # "execute"
    BY <1>7 DEF Restart, RestartRC, RestartLC, RestartGC, lcVars, IdleLC, Typed, TypeOK
  <2> QED
    BY <1>0, <2>1, <2>2 DEF Quiet, Started
<1>8. ASSUME \/ UNCHANGED vars \/ Tick
             \/ \E q \in Proposals : SubmitConfigProposal(q) \/ ResendProposal(q)
             \/ \E c \in Controllers : ReadConfig(c) \/ WriteConfig(c)
      PROVE  Quiet(p)
  <2>1. UNCHANGED <<lc, applied, instr>>
    BY <1>8 DEF vars, Tick, lcVars, netVars, SubmitConfigProposal, ResendProposal, ReadConfig,
            WriteConfig
  <2> QED
    BY <2>1 DEF Quiet, Started
<1>9. ASSUME NEW l \in LCs, LCStep(l) PROVE Quiet(p) \/ Takes(p) \/ Executes(p)
  BY <1>4, <1>5, <1>6, <1>9 DEF LCStep
<1>10. ASSUME NEW r \in RCs, RCStep(r) PROVE Quiet(p) \/ Dispatches(p)
  BY <1>1, <1>2, <1>10
<1> QED
  BY <1>3, <1>7, <1>8, <1>9, <1>10 DEF Next

\* What such a step leaves alone stays untouched.
LEMMA QuietUntouched ==
    ASSUME NEW p \in Proposals, Quiet(p), Untouched(p)
    PROVE  Untouched(p)'
BY DEF Quiet, Untouched, Instructed

\* The place of a proposal before a step that neither sends nor receives.
LEMMA PlaceBefore ==
    ASSUME Typed, Inside, NEW p \in Proposals
    PROVE  /\ Waiting(p)' => Waiting(p)
           /\ At(p, BusyPlaces)' => At(p, BusyPlaces)
           /\ At(p, BeforeDispatch)' => At(p, BeforeDispatch)
           /\ sent'[p] = sent[p]
<1>1. TargetOf[p] \in RCs
  BY PipelineAssumption
<1>2. Waiting(p)' => Waiting(p)
  BY DEF Waiting, Inside
<1>3. ASSUME At(p, BusyPlaces)' PROVE At(p, BusyPlaces)
  <2>1. rc'[TargetOf[p]].pc # "idle"
    BY <1>3 DEF At, BusyPlaces
  <2> QED
    BY <1>1, <1>3, <2>1, Before, FieldTypes DEF At, BusyPlaces
<1>4. ASSUME At(p, BeforeDispatch)' PROVE At(p, BeforeDispatch)
  BY <1>1, <1>4 DEF At, BeforeDispatch, Inside, Proceeds, Advances, Arrows
<1> QED
  BY <1>2, <1>3, <1>4 DEF Inside

\* A proposal that was sent once and is being handled does not wait.
LEMMA NotWaiting ==
    ASSUME Typed, Deliveries, NEW p \in Proposals, sent[p] <= 1, At(p, BusyPlaces)
    PROVE  ~Waiting(p) /\ sent[p] = 1 /\ rc[TargetOf[p]].dlv = 1
<1>1. TargetOf[p] \in RCs /\ sent[p] \in Nat
  BY PipelineAssumption DEF Typed, TypeOK
<1>2. rc[TargetOf[p]].pc # "idle" /\ rc[TargetOf[p]].prop = p
  BY DEF At, BusyPlaces
<1>3. rc[TargetOf[p]].dlv \in 1..sent[p] /\ <<p, rc[TargetOf[p]].dlv>> \notin inbox
  BY <1>1, <1>2 DEF Deliveries
<1>4. sent[p] = 1 /\ rc[TargetOf[p]].dlv = 1
  BY <1>1, <1>3
<1>5. ASSUME NEW n \in Nat, <<p, n>> \in inbox PROVE FALSE
  <2>1. n \in 1..sent[p]
    BY <1>5 DEF Deliveries
  <2> QED
    BY <1>3, <1>4, <1>5, <2>1
<1> QED
  BY <1>4, <1>5 DEF Waiting

\* How a proposal can be answered.
Denied(p) == At(p, {"purge", "acquire"}) /\ answer'[p] = "DENY"

Released(p) ==
    \/ At(p, {"reject"})
    \/ At(p, {"close"}) /\ answer'[p] \notin {"DENY", "ESCALATE"}

\* A proposal is answered by its handler, which ends with it.
LEMMA AnswerSteps ==
    ASSUME Typed, [Next]_vars, NEW p \in Proposals, answer'[p] # answer[p]
    PROVE  /\ At(p, BusyPlaces) /\ rc'[TargetOf[p]].pc = "idle"
           /\ answer'[p] = "ERROR" \/ Denied(p) \/ Released(p)
<1>1. PICK r \in RCs : \/ RCCheckLock(r) \/ RCAcquireLock(r) \/ RCEscalationFails(r)
                       \/ RCClose(r) \/ RCReject(r)
  <2>1. ASSUME NEW r \in RCs, RCStep(r)
        PROVE  \/ RCCheckLock(r) \/ RCAcquireLock(r) \/ RCEscalationFails(r)
               \/ RCClose(r) \/ RCReject(r)
    BY <2>1 DEF RCStep, RCReceive, RCExpire, RCPurge, RCExpireDone, RCApprove,
            RCIssueToken, RCEscalate, RCOnDecision, RCDispatch, RCDispatchFails, RCOnResult
  <2>2. ~GCStep
    BY DEF GCStep, GCReceive, GCDecide, netVars
  <2>3. \A k \in LCs : ~LCStep(k)
    BY DEF LCStep, LCReceive, LCExecute, LCExecuteFails, LCReturn, LCUnchanged
  <2>4. /\ ~UNCHANGED vars /\ ~Tick
        /\ \A q \in Proposals : ~SubmitConfigProposal(q) /\ ~ResendProposal(q)
        /\ \A c \in Controllers : ~ReadConfig(c) /\ ~WriteConfig(c) /\ ~Restart(c)
    BY DEF vars, Tick, netVars, SubmitConfigProposal, ResendProposal, ReadConfig,
           WriteConfig, Restart
  <2> QED
    BY <2>1, <2>2, <2>3, <2>4 DEF Next
<1>2. /\ rc[r].pc \in {"purge", "acquire", "await_gc", "close", "reject"}
      /\ \E a : Answer(r, rc[r].prop, a)
  <2>1. rc[r].pc \in {"purge", "acquire", "await_gc", "close", "reject"}
    BY <1>1 DEF RCCheckLock, RCAcquireLock, RCEscalationFails, RCClose, RCReject
  <2>2. \E a : Answer(r, rc[r].prop, a)
    BY <1>1 DEF RCCheckLock, RCAcquireLock, RCEscalationFails, RCClose, RCReject
  <2> QED
    BY <2>1, <2>2
<1>3. PICK a : Answer(r, rc[r].prop, a)
  BY <1>2
<1>4. rc[r].prop \in Proposals /\ TargetOf[rc[r].prop] = r
  BY <1>2, Handled
<1>5. rc[r].prop = p /\ answer'[p] = a /\ rc'[r].pc = "idle"
  BY <1>3, <1>4 DEF Answer, IdleRC, Typed, TypeOK
<1>6. At(p, {rc[r].pc}) /\ At(p, BusyPlaces)
  BY <1>2, <1>4, <1>5, FieldTypes DEF At, BusyPlaces
<1>7. CASE RCCheckLock(r)
  <2>1. rc[r].pc = "purge" /\ answer'[p] = "DENY" /\ locks' = locks
    BY <1>4, <1>5, <1>7 DEF RCCheckLock, Answer, nibVars, Typed, TypeOK
  <2> QED
    BY <1>4, <1>5, <1>6, <2>1 DEF Denied, At
<1>8. CASE RCAcquireLock(r)
  <2>1. rc[r].pc = "acquire" /\ answer'[p] = "DENY" /\ locks' \subseteq locks
    BY <1>4, <1>5, <1>8 DEF RCAcquireLock, Answer, Unexpired, Typed, TypeOK
  <2> QED
    BY <1>4, <1>5, <1>6, <2>1 DEF Denied, At
<1>9. CASE RCEscalationFails(r)
  BY <1>4, <1>5, <1>6, <1>9 DEF RCEscalationFails, Answer, Typed, TypeOK
<1>10. CASE RCReject(r)
  <2>1. rc[r].pc = "reject" /\ ReleaseProposalLock(r, p)
    BY <1>5, <1>10 DEF RCReject
  <2> QED
    BY <1>4, <1>5, <1>6, <2>1 DEF Released, At
<1>11. CASE RCClose(r)
  <2>1. rc[r].pc = "close" /\ ReleaseProposalLock(r, p) /\ answer'[p] = rc[r].reply
    BY <1>4, <1>5, <1>11 DEF RCClose, Answer, Typed, TypeOK
  <2>2. rc[r].reply \in {"APPROVE", "EXECUTION_DISPATCH_FAILED"}
    BY <2>1 DEF Typed, Places, RCSound
  <2> QED
    BY <1>4, <1>5, <1>6, <2>1, <2>2 DEF Released, At
<1> QED
  BY <1>1, <1>7, <1>8, <1>9, <1>10, <1>11

\* SentOnce after a step that neither sends nor receives.
LEMMA InsideSentOnce ==
    ASSUME Typed, Deliveries, Locking, [Next]_vars, Inside, NEW p \in Proposals, SentOnce(p)
    PROVE  SentOnce(p)'
<1> SUFFICES ASSUME sent[p] <= 1
             PROVE  /\ sent[p] = 0 \/ Waiting(p)' \/ At(p, BusyPlaces)' => answer'[p] = "none"
                    /\ \/ sent[p] = 0 \/ Waiting(p)' \/ At(p, BeforeDispatch)'
                       \/ answer'[p] \in {"DENY", "ESCALATE"}
                       => Untouched(p)'
  BY PlaceBefore DEF SentOnce
<1>1. /\ sent[p] = 0 \/ Waiting(p) \/ At(p, BusyPlaces) => answer[p] = "none"
      /\ \/ sent[p] = 0 \/ Waiting(p) \/ At(p, BeforeDispatch)
         \/ answer[p] \in {"DENY", "ESCALATE"}
         => Untouched(p)
  BY DEF SentOnce
<1>2. \A places \in SUBSET BusyPlaces : At(p, places) => At(p, BusyPlaces)
  BY DEF At
<1>3. {"acquire"} \subseteq BusyPlaces /\ {"dispatch"} \subseteq BusyPlaces
  BY DEF BusyPlaces, RCPlaces
<1>4. At(p, BusyPlaces) => ~Waiting(p) /\ sent[p] = 1
  BY NotWaiting
<1>5. CASE answer'[p] = answer[p]
  <2>1. sent[p] = 0 \/ Waiting(p)' \/ At(p, BusyPlaces)' => answer'[p] = "none"
    BY <1>1, <1>5, PlaceBefore
  <2>3. ASSUME \/ sent[p] = 0 \/ Waiting(p)' \/ At(p, BeforeDispatch)'
               \/ answer'[p] \in {"DENY", "ESCALATE"}
        PROVE  Untouched(p)'
    <3>1. Untouched(p)
      BY <1>1, <1>5, <2>3, PlaceBefore
    <3>2. ~Takes(p) /\ ~Executes(p)
      BY <3>1 DEF Untouched, Takes, Executes, Instructed
    <3>3. ~Dispatches(p)
      <4>1. SUFFICES ASSUME Dispatches(p) PROVE FALSE
        OBVIOUS
      <4>2. At(p, BusyPlaces) /\ ~At(p, BeforeDispatch)'
        BY <1>2, <1>3, <4>1 DEF Dispatches, At, BeforeDispatch
      <4> QED
        BY <1>1, <1>4, <1>5, <2>3, <4>2, PlaceBefore
    <3> QED
      BY <3>1, <3>2, <3>3, DeviceSteps, QuietUntouched
  <2> QED
    BY <2>1, <2>3
<1>6. CASE answer'[p] # answer[p]
  <2>1. At(p, BusyPlaces) /\ rc'[TargetOf[p]].pc = "idle"
    BY <1>6, AnswerSteps
  <2>2. sent[p] = 1 /\ ~Waiting(p)' /\ ~At(p, BusyPlaces)' /\ ~At(p, BeforeDispatch)'
    BY <1>4, <2>1, PlaceBefore DEF At, BusyPlaces, BeforeDispatch
  <2>4. ASSUME answer'[p] \in {"DENY", "ESCALATE"} PROVE Untouched(p)'
    <3>1. At(p, {"purge", "acquire", "reject"})
      BY <1>6, <2>4, AnswerSteps DEF Denied, Released, At
    <3>2. At(p, BeforeDispatch) /\ ~At(p, {"dispatch"})
      BY <3>1 DEF At, BeforeDispatch
    <3>3. Untouched(p) /\ ~Dispatches(p)
      BY <1>1, <3>2 DEF Dispatches
    <3>4. ~Takes(p) /\ ~Executes(p)
      BY <3>3 DEF Untouched, Takes, Executes, Instructed
    <3> QED
      BY <3>3, <3>4, DeviceSteps, QuietUntouched
  <2> QED
    BY <2>2, <2>4
<1> QED
  BY <1>5, <1>6

\* SentOnce when a proposal is sent or received.
LEMMA SendSentOnce ==
    ASSUME Typed, Deliveries, NEW q \in Proposals, SubmitConfigProposal(q) \/ ResendProposal(q),
           NEW p \in Proposals, SentOnce(p)
    PROVE  SentOnce(p)'
<1>1. UNCHANGED <<rc, lc, answer, locks, instr, applied>>
  BY DEF SubmitConfigProposal, ResendProposal
<1>2. /\ sent[p] \in Nat
      /\ sent'[p] <= 1 => \/ sent[p] = 0
                          \/ sent'[p] = sent[p] /\ (Waiting(p)' => Waiting(p))
  <2>1. sent[p] \in Nat
    BY DEF Typed, TypeOK
  <2>2. CASE UNCHANGED <<sent, inbox>>
    BY <2>1, <2>2 DEF Waiting
  <2>3. CASE sent[q] = 0 /\ sent' = [sent EXCEPT ![q] = 1] /\ inbox' = inbox \union {<<q, 1>>}
    BY <2>1, <2>3 DEF Waiting, Typed, TypeOK
  <2>4. CASE /\ sent[q] >= 1 /\ sent' = [sent EXCEPT ![q] = sent[q] + 1]
             /\ inbox' = inbox \union {<<q, sent[q] + 1>>}
    BY <2>1, <2>4 DEF Waiting, Typed, TypeOK
  <2>5. SubmitConfigProposal(q) => sent[q] = 0
    BY DEF SubmitConfigProposal, Deliveries
  <2> QED
    BY <2>1, <2>2, <2>3, <2>4, <2>5 DEF SubmitConfigProposal, ResendProposal
<1>3. /\ \A places : At(p, places)' <=> At(p, places)
      /\ Untouched(p)' <=> Untouched(p)
  BY <1>1 DEF At, Untouched, Instructed, Started
<1> QED
  BY <1>1, <1>2, <1>3 DEF SentOnce

\* The arrival of a proposal keeps SentOnce.
LEMMA ReceiveSentOnce ==
    ASSUME Typed, NEW r \in RCs, NEW q \in Proposals, NEW n \in 1..MaxSends,
           RCReceive(r, q, n), NEW p \in Proposals, SentOnce(p)
    PROVE  SentOnce(p)'
<1>1. UNCHANGED <<sent, lc, answer, locks, instr, applied>>
  BY DEF RCReceive, RCUnchanged, nibVars
<1>2. /\ TargetOf[q] = r /\ <<q, n>> \in inbox /\ inbox' \subseteq inbox /\ n \in Nat
      /\ rc'[r].prop = q /\ \A s \in RCs : s # r => rc'[s] = rc[s]
  BY TimeAssumption DEF RCReceive, Typed, TypeOK
<1>3. TargetOf[p] \in RCs
  BY PipelineAssumption
<1>4. Untouched(p)' <=> Untouched(p)
  BY <1>1 DEF Untouched, Instructed, Started
<1>5. Waiting(p)' => Waiting(p)
  BY <1>2 DEF Waiting
<1>6. \A places : At(p, places)' => At(p, places) \/ Waiting(p)
  BY <1>2, <1>3 DEF At, Waiting
<1> QED
  BY <1>1, <1>4, <1>5, <1>6 DEF SentOnce

\* Every step keeps SentOnce.
LEMMA NextSentOnce ==
    ASSUME Typed, Deliveries, Locking, [Next]_vars, NEW p \in Proposals, SentOnce(p)
    PROVE  SentOnce(p)'
<1>1. CASE Tick
  <2>1. UNCHANGED <<rc, lc, answer, locks, instr, applied, sent, inbox>>
    BY <1>1 DEF Tick, nibVars, netVars, lcVars
  <2> QED
    BY <2>1 DEF SentOnce, At, Waiting, Untouched, Instructed, Started
<1> QED
  BY <1>1, Kinds, SendSentOnce, ReceiveSentOnce, InsideSentOnce

\* Without a restart a request that is over stays over.
LEMMA SettledStays ==
    ASSUME Typed, [Next]_vars, \A c \in Controllers : ~Restart(c), NEW p \in Proposals, Settled(p)
    PROVE  Settled(p)'
<1>1. \A q \in Proposals : \A x : rcReq' = [rcReq EXCEPT ![q] = x] =>
          rcReq'[p] = IF p = q THEN x ELSE rcReq[p]
  BY DEF Typed, TypeOK
<1>2. GetRequest(p) = rcReq[p]
  BY DEF GetRequest, Settled
<1>3. \A q \in Proposals : \A st : [GetRequest(q) EXCEPT !.state = st].state = st
      /\ \A x : [GetRequest(q) EXCEPT !.state = st, !.approver = x].state = st
  BY RequestTypes DEF Request
<1>4. ASSUME NEW r \in RCs, RCStep(r) PROVE Settled(p)'
  <2>1. ASSUME NEW q \in Proposals, RCExpire(r, q) PROVE Settled(p)'
    <3>1. \/ rcReq' = rcReq
          \/ rcReq' = [rcReq EXCEPT ![q] = [rcReq[q] EXCEPT !.state = "EXPIRED"]]
      BY <2>1 DEF RCExpire
    <3>2. [rcReq[q] EXCEPT !.state = "EXPIRED"].state = "EXPIRED"
      BY DEF Typed, TypeOK, Request
    <3> QED
      BY <1>1, <3>1, <3>2 DEF Settled
  <2>2. ASSUME NEW q \in Proposals, NEW x, NEW u, NEW next, x.state = "APPROVED",
               ApproveRequest(r, q, x, u, next)
        PROVE  Settled(p)'
    <3>1. CASE rcReq' = [rcReq EXCEPT ![q] = x]
      BY <1>1, <2>2, <3>1 DEF Settled
    <3>2. CASE rcReq' = [rcReq EXCEPT ![q] = [GetRequest(q) EXCEPT !.state = "EXPIRED"]]
      BY <1>1, <1>3, <3>2 DEF Settled
    <3>3. CASE rcReq' = [rcReq EXCEPT ![q] = GetRequest(q)]
      BY <1>1, <1>2, <3>3 DEF Settled
    <3> QED
      BY <2>2, <3>1, <3>2, <3>3 DEF ApproveRequest
  <2>3. CASE RCApprove(r)
    <3>1. rc[r].prop \in Proposals
      BY <2>3, Handled DEF RCApprove
    <3> DEFINE x == [GetRequest(rc[r].prop) EXCEPT !.state = "APPROVED", !.approver = r]
    <3>2. x.state = "APPROVED"
      BY <1>3, <3>1
    <3>3. \E u : ApproveRequest(r, rc[r].prop, x, u, "issue")
      BY <2>3 DEF RCApprove
    <3> HIDE DEF x
    <3> QED
      BY <2>2, <3>1, <3>2, <3>3
  <2>4. CASE RCOnDecision(r)
    <3>1. rc[r].prop \in Proposals
      BY <2>4, Handled DEF RCOnDecision
    <3>2. CASE rcReq' = rcReq
      BY <3>2 DEF Settled
    <3>3. CASE rcReq' # rcReq
      <4> DEFINE x == [GetRequest(rc[r].prop) EXCEPT !.state = "APPROVED", !.approver = GC]
      <4>1. x.state = "APPROVED"
        BY <1>3, <3>1
      <4>2. \E u : ApproveRequest(r, rc[r].prop, x, u, "dispatch")
        BY <2>4, <3>3 DEF RCOnDecision
      <4> HIDE DEF x
      <4> QED
        BY <2>2, <3>1, <4>1, <4>2
    <3> QED
      BY <3>2, <3>3
  <2>5. CASE RCEscalate(r)
    <3>1. rc[r].prop \in Proposals /\ rcReq' = [rcReq EXCEPT ![rc[r].prop] = GetRequest(rc[r].prop)]
      BY <2>5, Handled DEF RCEscalate
    <3> QED
      BY <1>1, <1>2, <3>1 DEF Settled
  <2>6. CASE RCDispatchFails(r) \/ RCOnResult(r)
    <3>1. rc[r].prop \in Proposals
      BY <2>6, Handled DEF RCDispatchFails, RCOnResult
    <3>2. PICK st \in {"EXECUTED", "FAILED"} :
              rcReq' = [rcReq EXCEPT ![rc[r].prop] = [GetRequest(rc[r].prop) EXCEPT !.state = st]]
      BY <2>6 DEF RCDispatchFails, RCOnResult, SetExecutionResult, Typed, Places, RCSound
    <3> QED
      BY <1>1, <1>3, <3>1, <3>2 DEF Settled
  <2>7. CASE rcReq' = rcReq
    BY <2>7 DEF Settled
  <2> QED
    BY <1>4, <2>1, <2>3, <2>4, <2>5, <2>6, <2>7 DEF RCStep, RCReceive, RCPurge, RCExpireDone,
       RCCheckLock, RCAcquireLock, RCIssueToken, RCEscalationFails, RCDispatch, RCClose, RCReject
<1>5. CASE ~\E r \in RCs : RCStep(r)
  <2>1. CASE GCStep
    BY <2>1 DEF GCStep, GCReceive, GCDecide, Settled
  <2>2. ASSUME NEW k \in LCs, LCStep(k) PROVE Settled(p)'
    BY <2>2 DEF LCStep, LCReceive, LCExecute, LCExecuteFails, LCReturn, LCUnchanged, Settled
  <2>3. CASE \/ UNCHANGED vars \/ Tick
             \/ \E q \in Proposals : SubmitConfigProposal(q) \/ ResendProposal(q)
             \/ \E c \in Controllers : ReadConfig(c) \/ WriteConfig(c)
    BY <2>3 DEF vars, Tick, SubmitConfigProposal, ResendProposal, ReadConfig, WriteConfig, Settled
  <2> QED
    BY <1>5, <2>1, <2>2, <2>3 DEF Next
<1> QED
  BY <1>4, <1>5

\* A request is approved by one handler, from pending, and remembered as approved.
LEMMA ApprovedFromPending ==
    ASSUME Typed, [Next]_vars, NEW p \in Proposals, At(p, {"issue", "dispatch"})'
    PROVE  \/ At(p, {"issue", "dispatch"})
           \/ At(p, {"review", "gc_reply"}) /\ ~Settled(p) /\ Settled(p)'
<1> DEFINE r == TargetOf[p]
<1>1. r \in RCs
  BY PipelineAssumption
<1>2. rc'[r].prop = p /\ rc'[r].pc \in {"issue", "dispatch"}
  BY DEF At
<1>3. ASSUME NEW x, NEW u, NEW next, ApproveRequest(r, p, x, u, next), x.state = "APPROVED",
             rc[r].pc \in {"review", "gc_reply"}, rc[r].prop = p
      PROVE  At(p, {"review", "gc_reply"}) /\ ~Settled(p) /\ Settled(p)'
  <2>1. rc' # [rc EXCEPT ![r].pc = "reject", ![r].reply = "DENY"]
    <3>1. SUFFICES ASSUME rc' = [rc EXCEPT ![r].pc = "reject", ![r].reply = "DENY"] PROVE FALSE
      OBVIOUS
    <3>2. GoesTo(r, "reject", rc[r].token, "DENY", rc[r].work)
      BY <1>1, <3>1, Fields
    <3> QED
      BY <1>1, <1>2, <3>2, Moved
  <2>2. ApprovalOutcome(p, x.approver) = "approved" /\ rcReq' = [rcReq EXCEPT ![p] = x]
    BY <1>3, <2>1 DEF ApproveRequest
  <2>3. GetRequest(p).state = "PENDING_APPROVAL"
    BY <2>2 DEF ApprovalOutcome
  <2>4. ~Settled(p)
    BY <2>3 DEF Settled, GetRequest
  <2>5. rcReq'[p] = x
    BY <2>2 DEF Typed, TypeOK
  <2> QED
    BY <1>3, <2>4, <2>5 DEF At, Settled
<1>4. \A st, x : [GetRequest(p) EXCEPT !.state = st, !.approver = x].state = st
  BY RequestTypes DEF Request
<1>5. CASE rc'[r] = rc[r]
  BY <1>2, <1>5 DEF At
<1>6. CASE rc'[r] # rc[r] /\ RCStep(r)
  <2>1. CASE \E q \in Proposals, n \in 1..MaxSends : RCReceive(r, q, n)
    <3>1. rc'[r].pc = "expire"
      BY <1>1, <2>1 DEF RCReceive, Typed, TypeOK
    <3> QED
      BY <1>2, <3>1
  <2>2. CASE ~\E q \in Proposals, n \in 1..MaxSends : RCReceive(r, q, n)
    <3>1. Proceeds
      BY <1>1, <1>6, <2>2, HandlerProceeds DEF RCStep
    <3>2. rc[r].pc \in {"review", "gc_reply", "issue"} /\ rc[r].prop = p
      BY <1>1, <1>2, <1>6, <3>1 DEF Proceeds, Advances, Arrows
    <3>3. CASE rc[r].pc = "issue"
      BY <3>2, <3>3 DEF At
    <3>4. CASE rc[r].pc = "review"
      <4>1. RCApprove(r) \/ RCEscalate(r)
        BY <1>6, <3>4, <2>2 DEF RCStep, RCExpire, RCPurge, RCExpireDone, RCCheckLock, RCAcquireLock,
              RCIssueToken, RCEscalationFails, RCOnDecision, RCDispatch, RCDispatchFails,
              RCOnResult, RCClose, RCReject
      <4>2. ~RCEscalate(r)
        <5>1. SUFFICES ASSUME RCEscalate(r) PROVE FALSE
          OBVIOUS
        <5>2. \/ GoesTo(r, "await_gc", rc[r].token, rc[r].reply, rc[r].work)
              \/ GoesTo(r, "reject", rc[r].token, "ESCALATE", rc[r].work)
          BY <1>1, <5>1, Fields DEF RCEscalate
        <5>3. rc'[r].pc \in {"await_gc", "reject"}
          BY <1>1, <5>2, Moved
        <5> QED
          BY <1>2, <5>3
      <4> DEFINE x == [GetRequest(p) EXCEPT !.state = "APPROVED", !.approver = r]
      <4>3. x.state = "APPROVED"
        BY <1>4
      <4>4. \E u : ApproveRequest(r, p, x, u, "issue")
        BY <3>2, <4>1, <4>2 DEF RCApprove
      <4> HIDE DEF x
      <4> QED
        BY <1>3, <3>2, <3>4, <4>3, <4>4
    <3>5. CASE rc[r].pc = "gc_reply"
      <4>1. RCOnDecision(r)
        BY <1>6, <3>5, <2>2 DEF RCStep, RCExpire, RCPurge, RCExpireDone, RCCheckLock, RCAcquireLock,
              RCIssueToken, RCEscalationFails, RCApprove, RCEscalate, RCDispatch,
              RCDispatchFails, RCOnResult, RCClose, RCReject
      <4>2. rc' # [rc EXCEPT ![r].pc = "reject", ![r].reply = "DENY"]
        <5>1. SUFFICES ASSUME rc' = [rc EXCEPT ![r].pc = "reject", ![r].reply = "DENY"] PROVE FALSE
          OBVIOUS
        <5>2. GoesTo(r, "reject", rc[r].token, "DENY", rc[r].work)
          BY <1>1, <5>1, Fields
        <5> QED
          BY <1>1, <1>2, <5>2, Moved
      <4> DEFINE x == [GetRequest(p) EXCEPT !.state = "APPROVED", !.approver = GC]
      <4>3. x.state = "APPROVED"
        BY <1>4
      <4>4. \E u : ApproveRequest(r, p, x, u, "dispatch")
        BY <3>2, <4>1, <4>2 DEF RCOnDecision
      <4> HIDE DEF x
      <4> QED
        BY <1>3, <3>2, <3>5, <4>3, <4>4
    <3> QED
      BY <3>2, <3>3, <3>4, <3>5
  <2> QED
    BY <2>1, <2>2
<1>7. ASSUME rc'[r] # rc[r], ~RCStep(r) PROVE FALSE
  <2>1. ASSUME NEW s \in RCs, RCStep(s) PROVE FALSE
    BY <1>1, <1>7, <2>1, Alone
  <2>2. CASE GCStep
    <3>1. CASE GCDecide
      <4>1. gc.prop \in Proposals
        BY <3>1 DEF GCDecide, Typed, Places, GCSound
      <4> QED
        BY <1>1, <1>2, <1>7, <3>1, <4>1, DeliveredTo DEF GCDecide
    <3>2. ASSUME NEW q \in Proposals, NEW n, GCReceive(q, n) PROVE FALSE
      BY <1>1, <1>2, <1>7, <3>2, DeliveredTo DEF GCReceive
    <3> QED
      BY <2>2, <3>1, <3>2 DEF GCStep
  <2>3. ASSUME NEW l \in LCs, LCStep(l) PROVE FALSE
    <3>1. CASE LCReturn(l)
      <4>1. lc[l].prop \in Proposals
        BY <3>1 DEF LCReturn, Typed, Places, LCSound
      <4> QED
        BY <1>1, <1>2, <1>7, <3>1, <4>1, DeliveredTo DEF LCReturn
    <3>2. CASE ~LCReturn(l)
      BY <1>7, <2>3, <3>2 DEF LCStep, LCReceive, LCExecute, LCExecuteFails
    <3> QED
      BY <3>1, <3>2
  <2>4. ASSUME NEW c \in Controllers, Restart(c) PROVE FALSE
    <3>1. rc'[r] = rc[r] \/ rc'[r].pc = "idle"
      BY <1>1, <2>4 DEF Restart, RestartRC, RestartLC, RestartGC, IdleRC, Typed, TypeOK
    <3> QED
      BY <1>2, <1>7, <3>1
  <2>5. CASE \/ UNCHANGED vars \/ Tick
             \/ \E q \in Proposals : SubmitConfigProposal(q) \/ ResendProposal(q)
             \/ \E c \in Controllers : ReadConfig(c) \/ WriteConfig(c)
    BY <1>7, <2>5 DEF vars, Tick, SubmitConfigProposal, ResendProposal, ReadConfig, WriteConfig
  <2> QED
    BY <2>1, <2>2, <2>3, <2>4, <2>5 DEF Next
<1> QED
  BY <1>5, <1>6, <1>7

\* Restarts are counted, and so are deliveries.
LEMMA Counted ==
    ASSUME Typed, Deliveries, [Next]_vars, NEW p \in Proposals
    PROVE  /\ crashes' = 0 => crashes = 0 /\ \A c \in Controllers : ~Restart(c)
           /\ sent'[p] <= 1 => sent[p] <= 1
<1>1. ASSUME NEW c \in Controllers, Restart(c) PROVE crashes' # 0
  BY <1>1 DEF Restart, Typed, TypeOK
<1>2. CASE \E c \in Controllers : Restart(c)
  <2>1. sent' = sent
    BY <1>2 DEF Restart
  <2> QED
    BY <1>1, <1>2, <2>1
<1>3. ASSUME NEW r \in RCs, RCStep(r) PROVE UNCHANGED <<crashes, sent>>
  BY <1>3 DEF RCStep, RCReceive, RCExpire, RCPurge, RCExpireDone, RCCheckLock, RCAcquireLock,
          RCApprove, RCIssueToken, RCEscalate, RCEscalationFails, RCOnDecision, RCDispatch,
          RCDispatchFails, RCOnResult, RCClose, RCReject, RCUnchanged
<1>4. CASE GCStep
  BY <1>1, <1>4 DEF GCStep, GCReceive, GCDecide, netVars
<1>5. ASSUME NEW l \in LCs, LCStep(l) PROVE UNCHANGED <<crashes, sent>>
  BY <1>5 DEF LCStep, LCReceive, LCExecute, LCExecuteFails, LCReturn, LCUnchanged
<1>6. CASE \/ UNCHANGED vars \/ Tick
           \/ \E c \in Controllers : ReadConfig(c) \/ WriteConfig(c)
  BY <1>1, <1>6 DEF vars, Tick, netVars, ReadConfig, WriteConfig
<1>7. ASSUME NEW q \in Proposals, SubmitConfigProposal(q) \/ ResendProposal(q)
      PROVE  crashes' = crashes /\ (sent'[p] <= 1 => sent[p] <= 1)
  <2>1. crashes' = crashes
    BY <1>7 DEF SubmitConfigProposal, ResendProposal
  <2>2. \/ sent' = sent
        \/ sent[q] = 0 /\ sent' = [sent EXCEPT ![q] = 1]
        \/ sent' = [sent EXCEPT ![q] = sent[q] + 1]
    <3>1. CASE SubmitConfigProposal(q)
      <4>1. sent[q] = 0
        BY <3>1 DEF SubmitConfigProposal, Deliveries
      <4> QED
        BY <3>1, <4>1 DEF SubmitConfigProposal
    <3>2. CASE ResendProposal(q)
      BY <3>2 DEF ResendProposal
    <3> QED
      BY <1>7, <3>1, <3>2
  <2>3. sent[p] \in Nat /\ (sent'[p] = sent[p] \/ sent[p] = 0 \/ sent'[p] = sent[p] + 1)
    BY <2>2 DEF Typed, TypeOK
  <2> QED
    BY <2>1, <2>3
<1> QED
  BY <1>1, <1>2, <1>3, <1>4, <1>5, <1>6, <1>7 DEF Next

\* What a step leaves of the execution of a change.
LEMMA NextOnce ==
    ASSUME Typed, Deliveries, [Next]_vars, NEW p \in Proposals,
           SentOnce(p), Remembered(p), InOnePlace(p)
    PROVE  Remembered(p)' /\ InOnePlace(p)'
<1> DEFINE Near == At(p, {"issue", "dispatch"})
<1>1. Dispatches(p) => Near /\ ~Near'
  BY DEF Dispatches, At
<1>2. Untouched(p) => ~Takes(p) /\ ~Executes(p)
  BY DEF Untouched, Takes, Executes, Instructed
<1>3. Untouched(p) /\ ~Untouched(p)' => Dispatches(p)
  BY <1>2, DeviceSteps, QuietUntouched
<1>4. ASSUME crashes' = 0, Near' \/ ~Untouched(p)' PROVE Settled(p)'
  <2>1. crashes = 0 /\ \A c \in Controllers : ~Restart(c)
    BY <1>4, Counted
  <2>2. Near \/ ~Untouched(p) => Settled(p)
    BY <2>1 DEF Remembered
  <2>3. Near \/ ~Untouched(p) \/ Settled(p)'
    BY <1>1, <1>3, <1>4, ApprovedFromPending
  <2> QED
    BY <2>1, <2>2, <2>3, SettledStays
<1>5. ASSUME crashes' = 0 \/ sent'[p] <= 1
      PROVE  /\ \A m, n \in instr' : m.prop = p /\ n.prop = p => m = n
             /\ Near' => Untouched(p)'
             /\ Instructed(p)' => ~Started(p)' /\ applied'[p] = <<>>
             /\ Started(p)' => applied'[p] = <<>>
             /\ Len(applied'[p]) <= 1
  <2>1. crashes = 0 \/ sent[p] <= 1
    BY <1>5, Counted
  <2>2. /\ \A m, n \in instr : m.prop = p /\ n.prop = p => m = n
        /\ Near => Untouched(p)
        /\ Instructed(p) => ~Started(p) /\ applied[p] = <<>>
        /\ Started(p) => applied[p] = <<>>
        /\ Len(applied[p]) <= 1
    BY <2>1 DEF InOnePlace
  <2>3. Near' => Untouched(p)'
    <3>1. SUFFICES ASSUME Near' PROVE Untouched(p)'
      OBVIOUS
    <3>2. CASE Near
      BY <1>1, <1>3, <2>2, <3>1, <3>2
    <3>3. CASE At(p, {"review", "gc_reply"}) /\ ~Settled(p) /\ ~Near
      <4>1. CASE crashes = 0
        BY <1>1, <1>3, <3>3, <4>1 DEF Remembered
      <4>2. CASE sent[p] <= 1
        <5>1. At(p, BeforeDispatch)
          BY <3>3 DEF At, BeforeDispatch
        <5>2. Untouched(p)
          BY <4>2, <5>1 DEF SentOnce
        <5> QED
          BY <1>1, <1>3, <3>3, <5>2
      <4> QED
        BY <2>1, <4>1, <4>2
    <3> QED
      BY <3>1, <3>2, <3>3, ApprovedFromPending
  <2>4. CASE Quiet(p)
    BY <2>2, <2>3, <2>4 DEF Quiet, Instructed
  <2>5. CASE Dispatches(p)
    <3>1. /\ ~Instructed(p) /\ ~Started(p) /\ applied[p] = <<>>
      BY <1>1, <2>2, <2>5 DEF Untouched
    <3>2. ~Started(p)' /\ applied'[p] = <<>>
      BY <2>5, <3>1 DEF Dispatches, Started
    <3>3. \A m, n \in instr' : m.prop = p /\ n.prop = p => m = n
      BY <2>5, <3>1 DEF Dispatches, Instructed
    <3> QED
      BY <2>3, <3>2, <3>3
  <2>6. CASE Takes(p)
    <3>1. Instructed(p) /\ ~Instructed(p)'
      BY <2>2, <2>6 DEF Takes, Instructed
    <3>2. applied'[p] = <<>>
      BY <2>2, <2>6, <3>1 DEF Takes
    <3>3. \A m, n \in instr' : m.prop = p /\ n.prop = p => m = n
      BY <3>1 DEF Instructed
    <3> QED
      BY <2>3, <3>1, <3>2, <3>3
  <2>7. CASE Executes(p)
    <3>1. Started(p) /\ ~Started(p)' /\ instr' = instr
      BY <2>7 DEF Executes
    <3>2. applied[p] = <<>> /\ ~Instructed(p)
      BY <2>2, <3>1
    <3>3. Len(applied'[p]) = 1
      BY <2>7, <3>2 DEF Executes
    <3>4. ~Instructed(p)'
      BY <3>1, <3>2 DEF Instructed
    <3> QED
      BY <2>2, <2>3, <3>1, <3>3, <3>4
  <2> QED
    BY <2>4, <2>5, <2>6, <2>7, DeviceSteps
<1> QED
  BY <1>4, <1>5 DEF Remembered, InOnePlace

-----------------------------------------------------------------------------
(* The lock of an execution.                                               *)

\* A Local Controller comes to a change by its instruction.
LEMMA ServingSteps ==
    ASSUME Typed, [Next]_vars, NEW p \in Proposals, ~Serving(p), Serving(p)'
    PROVE  Takes(p)
<1>0. OriginOf[p] \in LCs
  BY PipelineAssumption
<1>1. ASSUME NEW l \in LCs, NEW m \in instr, LCReceive(l, m) PROVE Takes(p)
  <2>1. /\ instr' = instr \ {m} /\ applied' = applied
        /\ lc'[l].prop = m.prop /\ \A k \in LCs : k # l => lc'[k] = lc[k]
    BY <1>1 DEF LCReceive, Typed, TypeOK
  <2>2. m.prop = p
    BY <1>0, <2>1 DEF Serving
  <2> QED
    BY <2>1, <2>2 DEF Takes
<1>2. ASSUME NEW l \in LCs, LCExecute(l) \/ LCExecuteFails(l) PROVE FALSE
  <2>1. lc[l].pc = "execute"
    BY <1>2 DEF LCExecute, LCExecuteFails
  <2>2. lc'[l].prop = lc[l].prop /\ \A k \in LCs : k # l => lc'[k] = lc[k]
    BY <1>2 DEF LCExecute, LCExecuteFails, Typed, TypeOK, LCHandler
  <2> QED
    BY <1>0, <2>1, <2>2 DEF Serving
<1>3. ASSUME NEW l \in LCs, LCReturn(l) PROVE FALSE
  <2>1. lc'[l].pc = "idle" /\ \A k \in LCs : k # l => lc'[k] = lc[k]
    BY <1>3 DEF LCReturn, IdleLC, Typed, TypeOK
  <2> QED
    BY <1>0, <2>1 DEF Serving
<1>4. ASSUME NEW c \in Controllers, Restart(c) PROVE FALSE
  <2>1. \A k \in LCs : lc'[k] = lc[k] \/ lc'[k].pc = "idle"
    BY <1>4 DEF Restart, RestartRC, RestartLC, RestartGC, lcVars, IdleLC, Typed, TypeOK
  <2> QED
    BY <1>0, <2>1 DEF Serving
<1>5. ASSUME \/ UNCHANGED vars \/ Tick \/ GCStep \/ \E r \in RCs : RCStep(r)
             \/ \E q \in Proposals : SubmitConfigProposal(q) \/ ResendProposal(q)
             \/ \E c \in Controllers : ReadConfig(c) \/ WriteConfig(c)
      PROVE  FALSE
  <2>1. ASSUME NEW r \in RCs, RCStep(r) PROVE lc' = lc
    BY <2>1 DEF RCStep, RCReceive, RCExpire, RCPurge, RCExpireDone, RCCheckLock, RCAcquireLock,
            RCApprove, RCIssueToken, RCEscalate, RCEscalationFails, RCOnDecision, RCDispatch,
            RCDispatchFails, RCOnResult, RCClose, RCReject, RCUnchanged
  <2>2. CASE GCStep
    BY <2>2 DEF GCStep, GCReceive, GCDecide, lcVars, Serving
  <2>3. CASE \/ UNCHANGED vars \/ Tick
             \/ \E q \in Proposals : SubmitConfigProposal(q) \/ ResendProposal(q)
             \/ \E c \in Controllers : ReadConfig(c) \/ WriteConfig(c)
    BY <2>3 DEF vars, Tick, lcVars, SubmitConfigProposal, ResendProposal, ReadConfig,
            WriteConfig, Serving
  <2> QED
    BY <1>5, <2>1, <2>2, <2>3 DEF Serving
<1> QED
  BY <1>1, <1>2, <1>3, <1>4, <1>5 DEF Next, LCStep

\* A Regional Controller that waits for a result goes on waiting, gives up, or gets
\* it from the Local Controller, which is then done with the change.
LEMMA WaitSteps ==
    ASSUME Typed, [Next]_vars, \A c \in Controllers : ~Restart(c), NEW p \in Proposals,
           At(p, {"await_lc"}) \/ GaveUp(p)
    PROVE  Awaited(p)' \/ (Serving(p) /\ ~Serving(p)' /\ instr' = instr)
<1> DEFINE r == TargetOf[p]
<1>0. r \in RCs /\ rc[r].prop = p
  BY PipelineAssumption DEF At, GaveUp
<1>1. rc'[r] = rc[r] => Awaited(p)'
  BY DEF At, GaveUp, Awaited
<1>2. rc[r].pc \in {"await_lc", "close"}
  BY DEF At, GaveUp
<1>3. CASE RCStep(r)
  <2>1. CASE rc[r].pc = "await_lc"
    <3>1. RCDispatchFails(r)
      BY <1>3, <2>1 DEF RCStep, RCReceive, RCExpire, RCPurge, RCExpireDone, RCCheckLock,
            RCAcquireLock, RCApprove, RCIssueToken, RCEscalate, RCEscalationFails, RCOnDecision,
            RCDispatch, RCOnResult, RCClose, RCReject
    <3>2. GoesTo(r, "close", rc[r].token, "EXECUTION_DISPATCH_FAILED", rc[r].work)
      BY <1>0, <3>1, Fields DEF RCDispatchFails
    <3>3. rc'[r].pc = "close" /\ rc'[r].prop = p /\ rc'[r].reply = "EXECUTION_DISPATCH_FAILED"
      BY <1>0, <3>2, Moved
    <3> QED
      BY <3>3 DEF Awaited, GaveUp, At
  <2>2. CASE rc[r].pc = "close"
    <3>1. RCClose(r)
      BY <1>3, <2>2 DEF RCStep, RCReceive, RCExpire, RCPurge, RCExpireDone, RCCheckLock,
            RCAcquireLock, RCApprove, RCIssueToken, RCEscalate, RCEscalationFails, RCOnDecision,
            RCDispatch, RCDispatchFails, RCOnResult, RCReject
    <3>2. rc[r].reply = "EXECUTION_DISPATCH_FAILED"
      BY <2>2 DEF GaveUp, At
    <3>3. answer'[p] = "EXECUTION_DISPATCH_FAILED"
      BY <1>0, <3>1, <3>2 DEF RCClose, Answer, Typed, TypeOK
    <3> QED
      BY <3>3 DEF Awaited
  <2> QED
    BY <1>2, <2>1, <2>2
<1>4. ASSUME NEW s \in RCs, RCStep(s), s # r PROVE Awaited(p)'
  BY <1>0, <1>1, <1>4, Alone
<1>5. CASE GCStep
  <2>1. ASSUME NEW q \in Proposals, NEW n \in 1..MaxSends, GCReceive(q, n) PROVE rc'[r] = rc[r]
    <3>1. UNCHANGED rc \/ DeliverToRC(q, n, "await_gc", "gc_reply", "DENY", None)
      BY <2>1 DEF GCReceive
    <3> QED
      BY <1>0, <1>2, <3>1, DeliveredTo
  <2>2. CASE GCDecide
    <3>1. gc.prop \in Proposals
      BY <2>2 DEF GCDecide, Typed, Places, GCSound
    <3>2. DeliverToRC(gc.prop, gc.dlv, "await_gc", "gc_reply", "APPROVE", gc.token)
      BY <2>2 DEF GCDecide
    <3>3. rc'[r] = rc[r]
      BY <1>0, <1>2, <3>1, <3>2, DeliveredTo
    <3> QED
      BY <1>1, <3>3
  <2> QED
    BY <1>1, <1>5, <2>1, <2>2 DEF GCStep
<1>6. ASSUME NEW l \in LCs, LCReturn(l)
      PROVE  Awaited(p)' \/ (Serving(p) /\ ~Serving(p)' /\ instr' = instr)
  <2>1. lc[l].pc = "report" /\ instr' = instr /\ lc'[l].pc = "idle"
    BY <1>6 DEF LCReturn, IdleLC, Typed, TypeOK
  <2>2. lc[l].prop \in Proposals /\ OriginOf[lc[l].prop] = l
    BY <2>1 DEF Typed, Places, LCSound
  <2>3. DeliverToRC(lc[l].prop, lc[l].dlv, "await_lc", "result", lc[l].status, lc[l].token)
    BY <1>6 DEF LCReturn
  <2>4. rc'[r] = rc[r] \/ rc[r].prop = lc[l].prop
    BY <1>0, <2>2, <2>3, DeliveredTo
  <2>5. CASE lc[l].prop = p
    BY <2>1, <2>2, <2>5 DEF Serving
  <2> QED
    BY <1>0, <1>1, <2>4, <2>5
<1>7. ASSUME NEW l \in LCs, LCExecute(l) \/ LCExecuteFails(l) \/ \E m \in instr : LCReceive(l, m)
      PROVE  Awaited(p)'
  <2>1. rc' = rc
    BY <1>7 DEF LCExecute, LCExecuteFails, LCReceive
  <2> QED
    BY <1>1, <2>1
<1>8. CASE \/ UNCHANGED vars \/ Tick
           \/ \E q \in Proposals : SubmitConfigProposal(q) \/ ResendProposal(q)
           \/ \E c \in Controllers : ReadConfig(c) \/ WriteConfig(c)
  <2>1. rc' = rc
    BY <1>8 DEF vars, Tick, SubmitConfigProposal, ResendProposal, ReadConfig, WriteConfig
  <2> QED
    BY <1>1, <2>1
<1>9. ASSUME NEW l \in LCs, LCStep(l)
      PROVE  Awaited(p)' \/ (Serving(p) /\ ~Serving(p)' /\ instr' = instr)
  BY <1>6, <1>7, <1>9 DEF LCStep
<1> QED
  BY <1>3, <1>4, <1>5, <1>8, <1>9 DEF Next

\* Every step keeps Called.
LEMMA NextCalled ==
    ASSUME Typed, Deliveries, [Next]_vars, NEW p \in Proposals,
           SentOnce(p), InOnePlace(p), Called(p)
    PROVE  Called(p)'
<1> SUFFICES ASSUME crashes' = 0, sent'[p] <= 1, Instructed(p)' \/ Serving(p)'
             PROVE  ~(Instructed(p)' /\ Serving(p)') /\ Awaited(p)'
  BY DEF Called
<1>1. crashes = 0 /\ sent[p] <= 1 /\ \A c \in Controllers : ~Restart(c)
  BY Counted
<1>2. Instructed(p) \/ Serving(p) => ~(Instructed(p) /\ Serving(p)) /\ Awaited(p)
  BY <1>1 DEF Called
<1>3. At(p, BusyPlaces) => answer[p] = "none"
  BY <1>1 DEF SentOnce
<1>4. CASE Dispatches(p)
  <2>1. At(p, BusyPlaces) /\ ~At(p, {"await_lc"}) /\ ~GaveUp(p)
    BY <1>4 DEF Dispatches, At, GaveUp, BusyPlaces, RCPlaces
  <2>2. ~Instructed(p) /\ ~Serving(p)
    BY <1>2, <1>3, <2>1 DEF Awaited
  <2>3. ~Serving(p)' /\ Awaited(p)'
    BY <1>4, <2>2 DEF Dispatches, Serving, Awaited
  <2> QED
    BY <2>3
<1>5. CASE ~Dispatches(p)
  <2>1. Quiet(p) \/ Takes(p) \/ Executes(p)
    BY <1>5, DeviceSteps
  <2>2. Instructed(p)' => Instructed(p)
    BY <2>1 DEF Quiet, Takes, Executes, Instructed
  <2>3. Takes(p) => Instructed(p) /\ ~Instructed(p)'
    BY <1>1 DEF InOnePlace, Takes, Instructed
  <2>4. Serving(p)' => Serving(p) \/ Takes(p)
    BY ServingSteps
  <2>5. Instructed(p) \/ Serving(p)
    BY <2>2, <2>3, <2>4
  <2>6. ~(Instructed(p)' /\ Serving(p)')
    BY <1>2, <2>2, <2>3, <2>4
  <2>7. CASE answer[p] = "EXECUTION_DISPATCH_FAILED"
    <3>1. answer'[p] = answer[p]
      BY <1>3, <2>7, AnswerSteps
    <3> QED
      BY <2>6, <2>7, <3>1 DEF Awaited
  <2>8. CASE At(p, {"await_lc"}) \/ GaveUp(p)
    <3>1. CASE Serving(p) /\ ~Serving(p)' /\ instr' = instr
      BY <1>2, <3>1 DEF Instructed
    <3> QED
      BY <1>1, <2>6, <2>8, <3>1, WaitSteps
  <2> QED
    BY <1>2, <2>5, <2>7, <2>8 DEF Awaited
<1> QED
  BY <1>4, <1>5

\* The lock of a proposal that was sent once lasts as long as its handler.
LEMMA HandlerLocks ==
    ASSUME Typed, Deliveries, Locking, NEW p \in Proposals, sent[p] = 1,
           At(p, {"await_lc", "close"})
    PROVE  LockedFor(p)
<1> DEFINE r == TargetOf[p]
<1>1. r \in RCs /\ rc[r].prop = p /\ rc[r].pc \in LockedPlaces /\ rc[r].pc # "idle"
  BY PipelineAssumption DEF At, LockedPlaces
<1>2. At(p, BusyPlaces)
  BY DEF At, BusyPlaces, RCPlaces
<1>3. rc[r].dlv = 1
  BY <1>2, NotWaiting
<1>4. propLocks[p] # NoLock /\ propLocks[p] \in 0..1
  BY <1>1 DEF Locking, RCLocked
<1>5. propLocks[p] = 1
  BY <1>4 DEF NoLock
<1>6. PICK l \in locks : IsLockOf(l, p, 1) /\ l.expires_at >= rc[r].start + LockTTL
  BY <1>1, <1>3, <1>5 DEF Locking, RCLocked
<1>7. l.held_by = r /\ l.device = DeviceOf[p] /\ l.req = p
  BY <1>6 DEF Locking, LockSound, IsLockOf
<1>8. now <= rc[r].start + HandlerTime
  BY <1>1 DEF Deliveries
<1>9. rc[r].start \in Nat /\ now \in Nat /\ l.expires_at \in Nat
  BY <1>1, FieldTypes DEF Typed, TypeOK, LockRow
<1>10. l.expires_at > now
  BY <1>6, <1>8, <1>9, TimeAssumption
<1> QED
  BY <1>7, <1>10 DEF LockedFor, CheckLock

-----------------------------------------------------------------------------
(* The properties of the pipeline.                                         *)

IInv == Typed /\ Deliveries /\ Authority /\ Truth /\ Locking /\ Once

\* Nothing was proposed at the start.
LEMMA InitIInv == Init => IInv
<1> SUFFICES ASSUME Init PROVE IInv
  OBVIOUS
<1>1. Typed
  BY InitTyped
<1>2. /\ \A r \in RCs : rc[r].pc = "idle"
      /\ gc.pc = "idle"
      /\ \A l \in LCs : lc[l].pc = "idle"
  BY DEF Init, IdleRC, IdleGC, IdleLC
<1>3. /\ \A p \in Proposals : /\ sent[p] = 0 /\ propLocks[p] = NoLock /\ applied[p] = <<>>
                              /\ config[p] = NoRow /\ answer[p] = "none"
      /\ inbox = {} /\ instr = {} /\ locks = {} /\ now = 0
      /\ \A c \in Controllers : todo[c] = <<>>
  BY DEF Init
<1>4. Deliveries
  BY <1>2, <1>3 DEF Deliveries
<1>5. Authority
  BY <1>2, <1>3 DEF Authority, RCCleared, GCCleared, LCCleared
<1>6. Truth
  <2>1. \A p \in Proposals : config[p].status # "EXECUTED"
    BY <1>3 DEF NoRow
  <2> QED
    BY <1>2, <1>3, <2>1 DEF Truth, ExecutedIsTrue, RCTrue, LCTrue, Honest
<1>7. Locking
  BY <1>2, <1>3 DEF Locking, RCLocked, EarlyPlaces, LockedPlaces, NoLock
<1>8. ASSUME NEW p \in Proposals
      PROVE  SentOnce(p) /\ Remembered(p) /\ InOnePlace(p) /\ Called(p)
  <2>1. TargetOf[p] \in RCs /\ OriginOf[p] \in LCs
    BY PipelineAssumption
  <2>2. Untouched(p) /\ ~Instructed(p)
    BY <1>2, <1>3, <2>1 DEF Untouched, Instructed, Started
  <2>3. ~At(p, {"issue", "dispatch"}) /\ ~Started(p)
    BY <1>2, <2>1 DEF At, Started
  <2>4. SentOnce(p)
    BY <1>3, <2>2 DEF SentOnce
  <2>5. Called(p)
    BY <1>2, <2>1, <2>2 DEF Called, Serving
  <2> QED
    BY <1>3, <2>2, <2>3, <2>4, <2>5 DEF Remembered, InOnePlace
<1> QED
  BY <1>1, <1>4, <1>5, <1>6, <1>7, <1>8 DEF IInv, Once

\* Every step preserves the invariant.
LEMMA NextIInv ==
    ASSUME IInv, [Next]_vars
    PROVE  IInv'
<1>1. Typed /\ Deliveries /\ Authority /\ Truth /\ Locking /\ Once
  BY DEF IInv
<1>2. Once'
  BY <1>1, NextSentOnce, NextOnce, NextCalled DEF Once
<1> QED
  BY <1>1, <1>2, NextTyped, NextDeliveries, NextAuthority, NextTruth, NextLocking DEF IInv

\* The inductive invariant holds in every state.
LEMMA InvariantHolds == Spec => []IInv
BY InitIInv, NextIInv, PTL DEF Spec

\* A change is made only under a token issued for it by the controller entitled to
\* approve it, however the controllers are wired, whoever crashes and whatever the
\* NIB says: the sensitivity is decided again at every level.
THEOREM AuthorityHolds == Spec => []AppliedWithAuthority
<1>1. IInv => AppliedWithAuthority
  BY DEF IInv, Authority, Cleared, Allows, AppliedWithAuthority
<1> QED
  BY <1>1, InvariantHolds, PTL

\* The approval of a HIGH change is in the event log before the change is made.
THEOREM HighAudited == Spec => []HighIsAudited
<1>1. ASSUME IInv PROVE HighIsAudited
  <2>1. ASSUME NEW p \in Proposals, IsHigh(p), applied[p] # <<>>
        PROVE  <<"CONFIG_APPROVED", GC, p, "APPROVED">> \in events
    <3>1. applied[p] \in Seq(Token) /\ Len(applied[p]) # 0
      BY <1>1, <2>1, EmptySeq DEF IInv, Typed, TypeOK
    <3>2. 1 \in 1..Len(applied[p])
      BY <3>1
    <3>3. Cleared(applied[p][1], p)
      BY <1>1, <3>2 DEF IInv, Authority
    <3> QED
      BY <2>1, <3>3 DEF Cleared, Allows
  <2> QED
    BY <2>1 DEF HighIsAudited
<1> QED
  BY <1>1, InvariantHolds, PTL

\* The NIB says EXECUTED only of changes that were made, in spite of lost updates,
\* late answers and restarts.
THEOREM ExecutedTruthful == Spec => []ExecutedIsTrue
<1>1. IInv => ExecutedIsTrue
  BY DEF IInv, Truth
<1> QED
  BY <1>1, InvariantHolds, PTL

\* Two Regional Controllers that have acquired their lock work on two devices, for
\* any handler time shorter than the lifetime of a lock.
THEOREM DevicesExclusive == Spec => []DeviceExclusive
<1>1. IInv => DeviceExclusive
  BY LockingExcludes DEF IInv
<1> QED
  BY <1>1, InvariantHolds, PTL

\* A change is made at most once, for any number of deliveries if no controller
\* restarts and for any number of restarts if it is sent once.
THEOREM AtMostOnce == Spec => []AppliedOnce
<1>1. IInv => AppliedOnce
  <2>1. ASSUME IInv, NEW p \in Proposals, crashes = 0 \/ sent[p] = 1
        PROVE  Len(applied[p]) <= 1
    BY <2>1 DEF IInv, Once, InOnePlace
  <2> QED
    BY <2>1 DEF AppliedOnce
<1> QED
  BY <1>1, InvariantHolds, PTL

\* The reason of a denial tells whether the change may be on the device: only after
\* a failed dispatch may it be, and then it is made once, for any number of restarts.
THEOREM DenialsTell == Spec => []DenialReasonTells
<1>1. IInv => DenialReasonTells
  <2>1. ASSUME IInv, NEW p \in Proposals, sent[p] = 1, answer[p] \in {"DENY", "ESCALATE"}
        PROVE  applied[p] = <<>>
    BY <2>1 DEF IInv, Once, SentOnce, Untouched
  <2>2. ASSUME IInv, NEW p \in Proposals, sent[p] = 1
        PROVE  applied[p] = <<>> \/ Len(applied[p]) = 1
    <3>1. applied[p] \in Seq(Token) /\ Len(applied[p]) <= 1
      BY <2>2 DEF IInv, Once, InOnePlace, Typed, TypeOK
    <3>2. ASSUME applied[p] # <<>> PROVE Len(applied[p]) = 1
      <4>1. Len(applied[p]) \in Nat \ {0}
        BY <3>1, <3>2, EmptySeq
      <4>2. \A n \in Nat \ {0} : n <= 1 => n = 1
        OBVIOUS
      <4> QED
        BY <3>1, <4>1, <4>2, Zenon
    <3> QED
      BY <3>2
  <2> QED
    BY <2>1, <2>2 DEF DenialReasonTells, Denials
<1> QED
  BY <1>1, InvariantHolds, PTL

\* A change is made under the lock of its device, or after its Regional Controller has
\* answered that the dispatch failed, for any handler time shorter than the lifetime
\* of a lock.
THEOREM ExecutionsAreLocked == Spec => []ExecutionIsLocked
<1>1. ASSUME IInv PROVE ExecutionIsLocked
  <2>1. ASSUME NEW l \in LCs, lc[l].pc = "execute", crashes = 0, sent[lc[l].prop] = 1
        PROVE  LockedFor(lc[l].prop) \/ answer[lc[l].prop] = "EXECUTION_DISPATCH_FAILED"
    <3> DEFINE p == lc[l].prop
    <3>1. p \in Proposals /\ OriginOf[p] = l
      BY <1>1, <2>1 DEF IInv, Typed, Places, LCSound
    <3>2. Serving(p)
      BY <2>1, <3>1 DEF Serving
    <3>3. Called(p)
      BY <1>1, <3>1 DEF IInv, Once
    <3>4. Awaited(p)
      BY <2>1, <3>2, <3>3 DEF Called
    <3>5. CASE At(p, {"await_lc"}) \/ GaveUp(p)
      <4>1. At(p, {"await_lc", "close"})
        BY <3>5 DEF At, GaveUp
      <4>2. Typed /\ Deliveries /\ Locking
        BY <1>1 DEF IInv
      <4> QED
        BY <2>1, <3>1, <4>1, <4>2, HandlerLocks
    <3> QED
      BY <3>4, <3>5 DEF Awaited
  <2> QED
    BY <2>1 DEF ExecutionIsLocked
<1> QED
  BY <1>1, InvariantHolds, PTL

=============================================================================
