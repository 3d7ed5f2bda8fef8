-------------------------- MODULE ControllerValidation --------------------------
(***************************************************************************)
(* How a controller gets its permanent identity.  A candidate asks its     *)
(* parent: the Global Controller answers with a challenge, and upon the    *)
(* candidate's response assigns an id; a Regional Controller assigns the   *)
(* id of a Local Controller of its region at once (delegated authority).   *)
(* The id is made of type, region and a number that each authority counts  *)
(* in its own memory; the record goes to the controllers table of the NIB, *)
(* which all authorities share.                                            *)
(*                                                                         *)
(* An authority serves one request at a time, but get_controller, the      *)
(* write of the record and write_event are three transactions.  A call     *)
(* fails at any moment of the wait, without the authority noticing.        *)
(***************************************************************************)
EXTENDS Integers, FiniteSets

CONSTANTS
    Candidates,
    RCs, GC,          \* the authorities
    TypeOf,           \* [Candidates -> Types]
    RegionOf,         \* [Candidates -> Regions]
    ParentOf,         \* [Candidates -> Authorities]
    ScopeOf,          \* [RCs -> Regions]: the region of a Regional Controller
    ValidRegions,     \* the regions the Global Controller's policy knows
    Skew,             \* [Candidates -> Int]: how far a candidate's clock is ahead
    None,
    FreshnessWindow,  \* 300 s
    ChallengeTimeout, \* 30 s
    MaxTime,          \* bound on the clock
    MaxTries,         \* [Candidates -> Nat], a bound: request_validation calls of each
    MaxSeq,           \* bound: numbers an authority hands out
    MaxCrashes        \* bound: restarts of authorities and candidates

Types       == {"regional", "local"}
Regions     == {RegionOf[c] : c \in Candidates} \union {ScopeOf[r] : r \in RCs}
Authorities == RCs \union {GC}

ASSUME CandidatesAssumption ==
    /\ TypeOf \in [Candidates -> Types]
    /\ ParentOf \in [Candidates -> Authorities]
    /\ Skew \in [Candidates -> Int]
    /\ GC \notin RCs
    /\ None \notin Candidates \union Authorities

ASSUME BoundsAssumption ==
    /\ FreshnessWindow \in Nat /\ ChallengeTimeout \in Nat
    /\ MaxTime \in Nat /\ MaxTries \in [Candidates -> Nat] /\ MaxSeq \in Nat /\ MaxCrashes \in Nat

VARIABLES
    now,
    cand,         \* cand[c]: where c is in request_validation, and its id
    inbox,        \* requests and responses that wait at the authorities
    pending,      \* pending_challenges of the Global Controller
    sequence,     \* sequence[a][type]: controller_sequence of authority a
    auth,         \* auth[a]: the request a is handling
    controllers,  \* the controllers table: controllers[id]
    events,       \* CONTROLLER_VALIDATED events: ids
    crashes

vars == <<now, cand, inbox, pending, sequence, auth, controllers, events, crashes>>

Ids == Types \X Regions \X (1..MaxSeq)

IdleAuth     == [pc |-> "idle", c |-> None, try |-> 0, id |-> None, existing |-> FALSE]
NoRecord     == [holder |-> None, by |-> None, version |-> 0]

\* A candidate, the work of an authority, a row of the controllers table.
CandState == [pc : {"new", "asked", "challenged", "responded", "validated"},
              id : Ids \union {None}, try : Nat]
Work      == [pc : {"idle", "write", "event"}, c : Candidates \union {None},
              try : Nat, id : Ids \union {None}, existing : BOOLEAN]
Record    == [holder : Candidates \union {None}, by : Authorities \union {None}, version : Nat]

\* A CHALLENGE_RESPONSE names its challenge, here by candidate and try.
Message   == [kind : {"request", "response"}, c : Candidates, try : Nat, at : Int]
Challenge == [c : Candidates, try : Nat, expires_at : Nat]

Init ==
    /\ now = 0
    /\ cand = [c \in Candidates |-> [pc |-> "new", id |-> None, try |-> 0]]
    /\ inbox = {} /\ pending = {}
    /\ sequence = [a \in Authorities |-> [t \in Types |-> 0]]
    /\ auth = [a \in Authorities |-> IdleAuth]
    /\ controllers = [i \in Ids |-> NoRecord]
    /\ events = {}
    /\ crashes = 0

-----------------------------------------------------------------------------
(* The candidate.                                                          *)

\* request_validation: a new try, unless validated.  The envelope carries the
\* candidate's own clock.
RequestValidation(c) ==
    /\ cand[c].pc = "new" /\ cand[c].try < MaxTries[c]
    /\ cand' = [cand EXCEPT ![c].pc = "asked", ![c].try = @ + 1]
    /\ inbox' = inbox \union {[kind |-> "request", c |-> c, try |-> cand[c].try + 1,
                               at |-> now + Skew[c]]}
    /\ UNCHANGED <<now, pending, sequence, auth, controllers, events, crashes>>

\* _handle_challenge: sign the nonce and send the response.
HandleChallenge(c) ==
    /\ cand[c].pc = "challenged"
    /\ cand' = [cand EXCEPT ![c].pc = "responded"]
    /\ inbox' = inbox \union {[kind |-> "response", c |-> c, try |-> cand[c].try,
                               at |-> now + Skew[c]]}
    /\ UNCHANGED <<now, pending, sequence, auth, controllers, events, crashes>>

\* A bug to be caught: without a timeout a lost request is waited for forever.
CallHangs(c) ==
    /\ cand[c].pc \in {"asked", "responded"}
    /\ inbox' = {m \in inbox : m.c # c} /\ inbox' # inbox
    /\ UNCHANGED <<now, cand, pending, sequence, auth, controllers, events, crashes>>

\* The call to the parent raises: its request is lost, or still waits there.
CallFails(c) ==
    /\ cand[c].pc \in {"asked", "responded"}
    /\ cand' = [cand EXCEPT ![c].pc = "new"]
    /\ inbox' \in {inbox, {m \in inbox : m.c # c}}
    /\ UNCHANGED <<now, pending, sequence, auth, controllers, events, crashes>>

\* The answer to c's call in try n, if c still waits for it: _handle_challenge,
\* or _handle_validation_result (id # None: APPROVED, else REJECTED or ERROR).
Reply(c, n, waiting, next, id) ==
    cand' = IF cand[c].pc = waiting /\ cand[c].try = n
            THEN [cand EXCEPT ![c].pc = next, ![c].id = id]
            ELSE cand

-----------------------------------------------------------------------------
(* The Global Controller's and the Regional Controllers' handlers.         *)

\* check_timestamp
Fresh(m) == now - m.at \in 0..FreshnessWindow

\* handle_validation_request of the Global Controller: the timestamp, the
\* bootstrap token (always right here), and the challenge.
GCHandleRequest(m) ==
    /\ auth[GC].pc = "idle"
    /\ m \in inbox /\ m.kind = "request" /\ ParentOf[m.c] = GC
    /\ inbox' = inbox \ {m}
    /\ \/ /\ Fresh(m)
          /\ pending' = pending \union {[c |-> m.c, try |-> m.try,
                                         expires_at |-> now + ChallengeTimeout]}
          /\ Reply(m.c, m.try, "asked", "challenged", None)
       \/ /\ ~Fresh(m)
          /\ Reply(m.c, m.try, "asked", "new", None)
          /\ UNCHANGED pending
    /\ UNCHANGED <<now, sequence, auth, controllers, events, crashes>>

\* The id for c that authority a gives next.
AllocateId(a, c) == <<TypeOf[c], RegionOf[c], sequence[a][TypeOf[c]] + 1>>

\* A bug to be caught: the number is not counted up.
AssignIdentityNoCount(a, m) ==
    LET id == AllocateId(a, m.c)
    IN  /\ auth' = [auth EXCEPT ![a] = [pc |-> "write", c |-> m.c, try |-> m.try, id |-> id,
                                        existing |-> controllers[id] # NoRecord]]
        /\ UNCHANGED sequence

\* assign_identity, or the second half of the Regional Controller's handler: count
\* up, make the id, and look it up (get_controller).
AssignIdentity(a, m) ==
    LET id == AllocateId(a, m.c)
    IN  /\ sequence[a][TypeOf[m.c]] < MaxSeq
        /\ sequence' = [sequence EXCEPT ![a][TypeOf[m.c]] = @ + 1]
        /\ auth' = [auth EXCEPT ![a] = [pc |-> "write", c |-> m.c, try |-> m.try, id |-> id,
                                        existing |-> controllers[id] # NoRecord]]

\* policy_checks; both types are permitted.
Permitted(c) == RegionOf[c] \in ValidRegions

ChallengesOf(m) == {ch \in pending : ch.c = m.c /\ ch.try = m.try}

\* verify_challenge_response; the signature is always right here.
Live(m) == \E ch \in ChallengesOf(m) : now <= ch.expires_at

\* handle_challenge_response: an unknown or expired challenge, or a candidate the
\* policy does not permit, is rejected; the challenge is consumed all the same.
\* (A response to somebody else's challenge, which would leave it where it is, is
\* sent by no candidate.)
GCHandleResponse(m) ==
    /\ auth[GC].pc = "idle"
    /\ m \in inbox /\ m.kind = "response" /\ ParentOf[m.c] = GC
    /\ inbox' = inbox \ {m}
    /\ pending' = pending \ ChallengesOf(m)
    /\ \/ /\ Live(m) /\ Permitted(m.c)
          /\ AssignIdentity(GC, m)
          /\ UNCHANGED cand
       \/ /\ ~(Live(m) /\ Permitted(m.c))
          /\ Reply(m.c, m.try, "responded", "new", None)
          /\ UNCHANGED <<sequence, auth>>
    /\ UNCHANGED <<now, controllers, events, crashes>>

\* handle_validation_request of a Regional Controller: type and region are
\* checked, then the id is assigned.
RCHandleRequest(r, m) ==
    LET ok == TypeOf[m.c] = "local" /\ RegionOf[m.c] = ScopeOf[r]
    IN  /\ auth[r].pc = "idle"
        /\ m \in inbox /\ ParentOf[m.c] = r
        /\ inbox' = inbox \ {m}
        /\ \/ /\ ok
              /\ AssignIdentity(r, m)
              /\ UNCHANGED cand
           \/ /\ ~ok
              /\ Reply(m.c, m.try, "asked", "new", None)
              /\ UNCHANGED <<sequence, auth>>
        /\ UNCHANGED <<now, pending, controllers, events, crashes>>

\* Where the candidate waits while a works for it.
WaitingFor(a) == IF a = GC THEN "responded" ELSE "asked"

\* A bug to be caught: the record is overwritten whatever its version.
WritableUnversioned(a) == auth[a].existing \/ controllers[auth[a].id] = NoRecord

\* The two writes of upsert_controller succeed only if: UPDATE ... WHERE version =
\* 0 (the version of every new Controller), or INSERT when the id was not found
\* and still is not there (PRIMARY KEY).
Writable(a) ==
    LET row == controllers[auth[a].id]
    IN  IF auth[a].existing THEN row # NoRecord /\ row.version = 0
                            ELSE row = NoRecord

\* upsert_controller
UpsertController(a) ==
    LET i == auth[a].id
        c == auth[a].c
    IN  /\ auth[a].pc = "write" /\ Writable(a)
        /\ controllers' = [controllers EXCEPT ![i] =
               [holder |-> c, by |-> a, version |-> IF auth[a].existing THEN @.version + 1 ELSE 0]]
        /\ auth' = [auth EXCEPT ![a].pc = "event"]
        /\ UNCHANGED <<now, cand, inbox, pending, sequence, events, crashes>>

\* A bug to be caught: nobody looks at the result of the write.
UpsertFailsUnseen(a) ==
    /\ auth[a].pc = "write"
    /\ auth' = [auth EXCEPT ![a].pc = "event"]
    /\ UNCHANGED <<now, cand, inbox, pending, sequence, controllers, events, crashes>>

\* The write conflicts (NIB_WRITE_FAILED) or raises (REGISTRATION_FAILED).
UpsertFails(a) ==
    /\ auth[a].pc = "write"
    /\ Reply(auth[a].c, auth[a].try, WaitingFor(a), "new", None)
    /\ auth' = [auth EXCEPT ![a] = IdleAuth]
    /\ UNCHANGED <<now, inbox, pending, sequence, controllers, events, crashes>>

\* write_event, whose failure is logged (Global Controller) or not looked at
\* (Regional Controller), then the APPROVED result with id and certificate.
WriteEvent(a) ==
    LET i == auth[a].id
        c == auth[a].c
    IN  /\ auth[a].pc = "event"
        /\ events' \in {events, events \union {i}}
        /\ Reply(c, auth[a].try, WaitingFor(a), "validated", i)
        /\ auth' = [auth EXCEPT ![a] = IdleAuth]
        /\ UNCHANGED <<now, inbox, pending, sequence, controllers, crashes>>

\* write_event raises: REGISTRATION_FAILED, and the record stays.
EventFails(a) ==
    /\ auth[a].pc = "event"
    /\ Reply(auth[a].c, auth[a].try, WaitingFor(a), "new", None)
    /\ auth' = [auth EXCEPT ![a] = IdleAuth]
    /\ UNCHANGED <<now, inbox, pending, sequence, controllers, events, crashes>>

-----------------------------------------------------------------------------
(* Restarts and time.                                                      *)

\* An authority restarts: it counts from 0 again, its challenges are gone.
RestartAuthority(a) ==
    /\ crashes < MaxCrashes
    /\ crashes' = crashes + 1
    /\ sequence' = [sequence EXCEPT ![a] = [t \in Types |-> 0]]
    /\ auth' = [auth EXCEPT ![a] = IdleAuth]
    /\ inbox' = {m \in inbox : ParentOf[m.c] # a}
    /\ pending' = IF a = GC THEN {} ELSE pending
    /\ UNCHANGED <<now, cand, controllers, events>>

\* A candidate restarts, validated or not: it has its temporary id again.
RestartCandidate(c) ==
    /\ crashes < MaxCrashes
    /\ crashes' = crashes + 1
    /\ cand' = [cand EXCEPT ![c].pc = "new", ![c].id = None]
    /\ UNCHANGED <<now, inbox, pending, sequence, auth, controllers, events>>

Tick ==
    /\ now < MaxTime
    /\ now' = now + 1
    /\ UNCHANGED <<cand, inbox, pending, sequence, auth, controllers, events, crashes>>

-----------------------------------------------------------------------------

CandidateStep(c) == HandleChallenge(c) \/ CallFails(c)

AuthorityStep(a) ==
    \/ UpsertController(a) \/ UpsertFails(a)
    \/ WriteEvent(a) \/ EventFails(a)
    \/ a = GC /\ \E m \in inbox : GCHandleRequest(m) \/ GCHandleResponse(m)
    \/ a \in RCs /\ \E m \in inbox : RCHandleRequest(a, m)

Next ==
    \/ \E c \in Candidates : RequestValidation(c) \/ CandidateStep(c) \/ RestartCandidate(c)
    \/ \E a \in Authorities : AuthorityStep(a) \/ RestartAuthority(a)
    \/ Tick

\* A call ends, by an answer or by its timeout, and an authority goes on with a
\* request it has begun.  Nobody has to ask, and time need not pass.
Fairness ==
    /\ \A c \in Candidates : WF_vars(CandidateStep(c))
    /\ \A a \in Authorities : WF_vars(AuthorityStep(a))

Spec == Init /\ [][Next]_vars /\ Fairness
-----------------------------------------------------------------------------
(* Properties.                                                             *)

\* Type correctness of the candidates, the authorities and the table.
TypeOK ==
    /\ now \in Nat
    /\ cand \in [Candidates -> CandState]
    /\ inbox \subseteq Message
    /\ pending \subseteq Challenge
    /\ sequence \in [Authorities -> [Types -> 0..MaxSeq]]
    /\ auth \in [Authorities -> Work]
    /\ controllers \in [Ids -> Record]
    /\ events \subseteq Ids
    /\ crashes \in Nat

\* "The system must not be left in a state where a certificate exists but no NIB
\* record does": a candidate is told its id, and the event log a validation, only
\* once the record is in the NIB, whichever write failed, conflicted with another
\* authority's, or was cut off by a restart.  (The converse the code does not keep: a
\* record stays without certificate or event when the event's write fails.)
ValidatedIsRecorded ==
    /\ \A c \in Candidates : cand[c].pc = "validated" => controllers[cand[c].id] # NoRecord
    /\ \A i \in events : controllers[i] # NoRecord

\* a may give c an identity.
InCharge(a, c) ==
    /\ ParentOf[c] = a
    /\ IF a = GC THEN RegionOf[c] \in ValidRegions
                 ELSE TypeOf[c] = "local" /\ RegionOf[c] = ScopeOf[a]

\* Only candidates of a region and type that the policy permits get an identity,
\* and only from the authority in charge.
OnlyPermitted ==
    \A i \in Ids : controllers[i] # NoRecord => InCharge(controllers[i].by, controllers[i].holder)

\* An id is given by one authority only: no two Regional Controllers share a
\* region, and Local Controllers do not also ask the Global Controller.
SeparateNamespaces ==
    \A c, d \in Candidates :
        (TypeOf[c] = TypeOf[d] /\ RegionOf[c] = RegionOf[d]) => ParentOf[c] = ParentOf[d]

\* "Assign unique and verifiable controller identities" as far as it holds: as
\* long as nobody restarts, and ids are given by one authority only, no two
\* candidates are validated under one id, and the record is the candidate's own.
IdentitiesUnique ==
    (crashes = 0 /\ SeparateNamespaces) =>
        \A c \in Candidates : cand[c].pc = "validated" =>
            /\ controllers[cand[c].id].holder = c
            /\ \A d \in Candidates : (cand[d].pc = "validated" /\ cand[d].id = cand[c].id) => c = d

-----------------------------------------------------------------------------
(* The inductive invariant.                                                *)

\* The request an authority works on: who asks, and the id made for him.
WorkSound ==
    \A a \in Authorities : auth[a].pc # "idle" =>
        LET w == auth[a]
        IN  /\ w.c \in Candidates /\ InCharge(a, w.c)
            /\ w.id \in Ids /\ w.id[1] = TypeOf[w.c] /\ w.id[2] = RegionOf[w.c]
            /\ w.pc = "event" => controllers[w.id] # NoRecord

\* The records: who they are for.
RecordsSound ==
    \A i \in Ids : controllers[i] # NoRecord =>
        LET row == controllers[i]
        IN  /\ row.holder \in Candidates /\ InCharge(row.by, row.holder)
            /\ row.holder # None
            /\ i[1] = TypeOf[row.holder] /\ i[2] = RegionOf[row.holder]

ValidatedHaveIds ==
    \A c \in Candidates : cand[c].pc = "validated" => cand[c].id \in Ids

\* While nobody has restarted, the number in every record is one its authority
\* has counted past, so that a new id has no record, and a record keeps its holder.
NumbersFresh ==
    (crashes = 0 /\ SeparateNamespaces) =>
        /\ \A i \in Ids : controllers[i] # NoRecord =>
               i[3] <= sequence[controllers[i].by][i[1]]
        /\ \A a \in Authorities : auth[a].pc # "idle" =>
               auth[a].id[3] = sequence[a][TypeOf[auth[a].c]]
        /\ \A a \in Authorities : auth[a].pc = "write" =>
               controllers[auth[a].id] = NoRecord /\ ~auth[a].existing
        /\ \A a \in Authorities : auth[a].pc = "event" =>
               controllers[auth[a].id].holder = auth[a].c
        /\ \A c \in Candidates : cand[c].pc = "validated" =>
               controllers[cand[c].id].holder = c

IInv == /\ TypeOK /\ WorkSound /\ RecordsSound
        /\ ValidatedHaveIds /\ ValidatedIsRecorded /\ NumbersFresh
-----------------------------------------------------------------------------

\* request_validation always comes back, with an identity or without.
CallsReturn ==
    \A c \in Candidates :
        cand[c].pc \in {"asked", "challenged", "responded"} ~> cand[c].pc \in {"new", "validated"}

=============================================================================
