----------------------- MODULE ControllerValidationProofs -----------------------
(***************************************************************************)
(* Proofs about ControllerValidation for every set of candidates and       *)
(* authorities, every policy, every clock skew and every bound.            *)
(***************************************************************************)
EXTENDS ControllerValidation, TLAPS

\* The initial state satisfies the inductive invariant.
LEMMA InitIInv == Init => IInv
<1> SUFFICES ASSUME Init PROVE IInv
  OBVIOUS
<1>1. TypeOK
  BY BoundsAssumption DEF Init, TypeOK, IdleAuth, NoRecord, CandState, Work, Record
<1>2. WorkSound /\ ValidatedHaveIds /\ ValidatedIsRecorded
  BY DEF Init, WorkSound, ValidatedHaveIds, ValidatedIsRecorded, IdleAuth
<1>3. RecordsSound /\ NumbersFresh
  BY DEF Init, RecordsSound, NumbersFresh, IdleAuth
<1> QED
  BY <1>1, <1>2, <1>3 DEF IInv

\* A step that leaves the table alone, starts no work at an authority and
\* validates nobody preserves the invariant.
LEMMA Frame ==
    ASSUME IInv, TypeOK',
           UNCHANGED controllers,
           events' = events,
           crashes' = 0 => crashes = 0 /\ sequence' = sequence,
           \A a \in Authorities : auth'[a] = auth[a] \/ auth'[a].pc = "idle",
           \A c \in Candidates : cand'[c].pc = "validated" => cand'[c] = cand[c]
    PROVE  IInv'
<1>1. WorkSound'
  BY DEF IInv, WorkSound
<1>2. RecordsSound'
  BY DEF IInv, RecordsSound
<1>3. ValidatedHaveIds' /\ ValidatedIsRecorded'
  BY DEF IInv, ValidatedHaveIds, ValidatedIsRecorded
<1>4. NumbersFresh'
  BY DEF IInv, NumbersFresh
<1> QED
  BY <1>1, <1>2, <1>3, <1>4 DEF IInv

\* An answer reaches at most the candidate it is for.
LEMMA ReplyChanges ==
    ASSUME TypeOK, NEW c \in Candidates, NEW n, NEW w,
           NEW next \in {"new", "challenged", "validated"}, NEW id \in Ids \union {None},
           Reply(c, n, w, next, id)
    PROVE  /\ cand' \in [Candidates -> CandState]
           /\ \A d \in Candidates :
                 cand'[d] = cand[d] \/ (d = c /\ cand'[d].pc = next /\ cand'[d].id = id)
<1>1. CASE cand[c].pc = w /\ cand[c].try = n
  <2>1. cand' = [cand EXCEPT ![c].pc = next, ![c].id = id]
    BY <1>1 DEF Reply
  <2>2. cand[c] \in CandState
    BY DEF TypeOK
  <2> DEFINE new == [cand[c] EXCEPT !.pc = next, !.id = id]
  <2>3. new \in CandState /\ new.pc = next /\ new.id = id
    BY <2>2 DEF CandState
  <2>4. cand' = [cand EXCEPT ![c] = new]
    BY <2>1, <2>2 DEF CandState, TypeOK
  <2> HIDE DEF new
  <2> QED
    BY <2>3, <2>4 DEF TypeOK
<1>2. CASE ~(cand[c].pc = w /\ cand[c].try = n)
  BY <1>2 DEF TypeOK, Reply
<1> QED
  BY <1>1, <1>2

\* AssignIdentity starts the work of an authority that is idle and in charge: the
\* id is new as long as nobody has restarted.
LEMMA AssignIInv ==
    ASSUME IInv, NEW a \in Authorities, NEW m \in inbox,
           auth[a].pc = "idle", InCharge(a, m.c), AssignIdentity(a, m),
           inbox' \subseteq inbox, pending' \subseteq pending,
           UNCHANGED <<now, cand, controllers, events, crashes>>
    PROVE  IInv'
<1> DEFINE c  == m.c
           id == AllocateId(a, c)
           w  == [pc |-> "write", c |-> c, try |-> m.try, id |-> id,
                  existing |-> controllers[id] # NoRecord]
<1>1. c \in Candidates /\ TypeOf[c] \in Types /\ RegionOf[c] \in Regions /\ m.try \in Nat
  BY CandidatesAssumption DEF IInv, TypeOK, Message, Regions
<1>2. sequence[a][TypeOf[c]] \in 0..MaxSeq /\ sequence[a][TypeOf[c]] < MaxSeq
  BY <1>1 DEF AssignIdentity, IInv, TypeOK
<1>3. sequence[a][TypeOf[c]] + 1 \in 1..MaxSeq
  BY <1>2, BoundsAssumption
<1>4. id \in Ids /\ id[1] = TypeOf[c] /\ id[2] = RegionOf[c]
      /\ id[3] = sequence[a][TypeOf[c]] + 1
  BY <1>1, <1>3 DEF AllocateId, Ids
<1>5. /\ auth' = [auth EXCEPT ![a] = w]
      /\ sequence' = [sequence EXCEPT ![a][TypeOf[c]] = @ + 1]
  BY DEF AssignIdentity
<1>6. auth'[a] = w /\ \A b \in Authorities : b # a => auth'[b] = auth[b]
  BY <1>5 DEF IInv, TypeOK
<1>7. /\ sequence'[a][TypeOf[c]] = sequence[a][TypeOf[c]] + 1
      /\ \A b \in Authorities, t \in Types :
            (b # a \/ t # TypeOf[c]) => sequence'[b][t] = sequence[b][t]
  BY <1>1, <1>5 DEF IInv, TypeOK
<1>8. TypeOK'
  <2>1. auth' \in [Authorities -> Work]
    <3>1. w \in Work
      BY <1>1, <1>4 DEF Work
    <3> QED
      BY <1>5, <3>1 DEF IInv, TypeOK
  <2>2. sequence' \in [Authorities -> [Types -> 0..MaxSeq]]
    BY <1>1, <1>3, <1>5, BoundsAssumption DEF IInv, TypeOK
  <2> QED
    BY <2>1, <2>2 DEF IInv, TypeOK
<1>9. WorkSound'
  BY <1>1, <1>4, <1>6 DEF IInv, WorkSound, InCharge
<1>10. RecordsSound' /\ ValidatedHaveIds' /\ ValidatedIsRecorded'
  BY DEF IInv, RecordsSound, ValidatedHaveIds, ValidatedIsRecorded
<1>11. NumbersFresh'
  <2> SUFFICES ASSUME crashes = 0, SeparateNamespaces
               PROVE  NumbersFresh'
    BY DEF NumbersFresh
  <2>1. controllers[id] = NoRecord
    <3> SUFFICES ASSUME controllers[id] # NoRecord PROVE FALSE
      OBVIOUS
    <3> DEFINE d == controllers[id].holder
    <3>1. d \in Candidates /\ InCharge(controllers[id].by, d)
          /\ TypeOf[d] = TypeOf[c] /\ RegionOf[d] = RegionOf[c]
      BY <1>4 DEF IInv, RecordsSound
    <3>2. controllers[id].by = a
      BY <1>1, <3>1 DEF SeparateNamespaces, InCharge
    <3>3. id[3] <= sequence[a][TypeOf[c]]
      BY <1>4, <3>2 DEF IInv, NumbersFresh
    <3> QED
      BY <1>2, <1>4, <3>3
  <2>2. \A i \in Ids : controllers[i] # NoRecord =>
            i[3] <= sequence'[controllers[i].by][i[1]]
    <3> SUFFICES ASSUME NEW i \in Ids, controllers[i] # NoRecord
                 PROVE  i[3] <= sequence'[controllers[i].by][i[1]]
      OBVIOUS
    <3>1. controllers[i].by \in Authorities /\ i[1] \in Types /\ i[3] \in Nat
      <4>1. i[1] \in Types /\ i[3] \in Nat
        BY DEF Ids
      <4>2. ParentOf[controllers[i].holder] = controllers[i].by
            /\ controllers[i].holder \in Candidates
        BY DEF IInv, RecordsSound, InCharge
      <4> QED
        BY <4>1, <4>2, CandidatesAssumption
    <3>2. i[3] <= sequence[controllers[i].by][i[1]]
      BY DEF IInv, NumbersFresh
    <3>3. sequence[controllers[i].by][i[1]] \in Nat
      BY <3>1, BoundsAssumption DEF IInv, TypeOK
    <3>4. sequence'[controllers[i].by][i[1]] \in
              {sequence[controllers[i].by][i[1]], sequence[controllers[i].by][i[1]] + 1}
      BY <1>7, <3>1
    <3> QED
      BY <3>1, <3>2, <3>3, <3>4
  <2>3. \A b \in Authorities : auth'[b].pc # "idle" =>
            auth'[b].id[3] = sequence'[b][TypeOf[auth'[b].c]]
    <3> SUFFICES ASSUME NEW b \in Authorities, auth'[b].pc # "idle"
                 PROVE  auth'[b].id[3] = sequence'[b][TypeOf[auth'[b].c]]
      OBVIOUS
    <3>1. CASE b = a
      BY <1>4, <1>6, <1>7, <3>1
    <3>2. CASE b # a
      <4>1. auth[b].c \in Candidates
        BY <1>6, <3>2 DEF IInv, WorkSound
      <4> QED
        BY <1>6, <1>7, <3>2, <4>1, CandidatesAssumption DEF IInv, NumbersFresh
    <3> QED
      BY <3>1, <3>2
  <2>4. \A b \in Authorities : auth'[b].pc = "write" =>
            controllers[auth'[b].id] = NoRecord /\ ~auth'[b].existing
    <3>1. controllers[w.id] = NoRecord /\ ~w.existing
      BY <2>1
    <3>2. \A b \in Authorities : auth[b].pc = "write" =>
              controllers[auth[b].id] = NoRecord /\ ~auth[b].existing
      BY DEF IInv, NumbersFresh
    <3> QED
      BY <1>6, <3>1, <3>2
  <2>5. \A b \in Authorities : auth'[b].pc = "event" =>
            controllers[auth'[b].id].holder = auth'[b].c
    BY <1>6 DEF IInv, NumbersFresh
  <2>6. \A d \in Candidates : cand[d].pc = "validated" => controllers[cand[d].id].holder = d
    BY DEF IInv, NumbersFresh
  <2> QED
    BY <2>2, <2>3, <2>4, <2>5, <2>6 DEF NumbersFresh
<1> QED
  BY <1>8, <1>9, <1>10, <1>11 DEF IInv

\* upsert_controller writes a record for the candidate in hand, and without restarts
\* only one that is not there yet.
LEMMA UpsertIInv ==
    ASSUME IInv, NEW a \in Authorities, UpsertController(a)
    PROVE  IInv'
<1> DEFINE i == auth[a].id
           c == auth[a].c
           row == [holder |-> c, by |-> a,
                   version |-> IF auth[a].existing THEN controllers[i].version + 1 ELSE 0]
<1>1. /\ c \in Candidates /\ InCharge(a, c) /\ c # None
      /\ i \in Ids /\ i[1] = TypeOf[c] /\ i[2] = RegionOf[c]
      /\ auth[a].pc = "write"
  BY CandidatesAssumption DEF UpsertController, IInv, WorkSound
<1>2. /\ controllers' = [controllers EXCEPT ![i] = row]
      /\ auth' = [auth EXCEPT ![a].pc = "event"]
      /\ UNCHANGED <<now, cand, inbox, pending, sequence, events, crashes>>
  BY DEF UpsertController, IInv, TypeOK
<1>3. controllers'[i] = row /\ \A j \in Ids : j # i => controllers'[j] = controllers[j]
  BY <1>1, <1>2 DEF IInv, TypeOK
<1>4. /\ auth'[a].pc = "event" /\ auth'[a].id = i /\ auth'[a].c = c
      /\ \A b \in Authorities : b # a => auth'[b] = auth[b]
  BY <1>2 DEF IInv, TypeOK, Work
<1>5. row.version \in Nat
  BY <1>1 DEF IInv, TypeOK, Record
<1>6. row # NoRecord
  BY <1>1 DEF NoRecord
<1>7. TypeOK'
  <2>1. row \in Record
    BY <1>1, <1>5 DEF Record
  <2>2. controllers' \in [Ids -> Record]
    BY <1>1, <1>2, <2>1 DEF IInv, TypeOK
  <2>3. auth' \in [Authorities -> Work]
    BY <1>2 DEF IInv, TypeOK, Work
  <2> QED
    BY <1>2, <2>2, <2>3 DEF IInv, TypeOK
<1>8. WorkSound'
  BY <1>1, <1>3, <1>4, <1>6 DEF IInv, WorkSound, InCharge
<1>9. RecordsSound'
  <2> SUFFICES ASSUME NEW j \in Ids, controllers'[j] # NoRecord
               PROVE  /\ controllers'[j].holder \in Candidates
                      /\ InCharge(controllers'[j].by, controllers'[j].holder)
                      /\ controllers'[j].holder # None
                      /\ j[1] = TypeOf[controllers'[j].holder]
                      /\ j[2] = RegionOf[controllers'[j].holder]
    BY DEF RecordsSound, InCharge
  <2>1. CASE j = i
    BY <1>1, <1>3, <1>5, <1>6, <2>1
  <2>2. CASE j # i
    BY <1>3, <2>2 DEF IInv, RecordsSound
  <2> QED
    BY <2>1, <2>2
<1>10. ValidatedHaveIds' /\ ValidatedIsRecorded'
  BY <1>2, <1>3, <1>6 DEF IInv, TypeOK, ValidatedHaveIds, ValidatedIsRecorded
<1>11. NumbersFresh'
  <2> SUFFICES ASSUME crashes = 0, SeparateNamespaces
               PROVE  NumbersFresh'
    BY <1>2 DEF NumbersFresh
  <2>1. controllers[i] = NoRecord
    BY <1>1 DEF IInv, NumbersFresh
  <2>2. i[3] = sequence[a][i[1]] /\ i[3] \in Nat
    BY <1>1 DEF IInv, NumbersFresh, Ids
  <2>3. \A j \in Ids : controllers'[j] # NoRecord =>
            j[3] <= sequence'[controllers'[j].by][j[1]]
    BY <1>2, <1>3, <2>2 DEF IInv, NumbersFresh
  <2>4. \A b \in Authorities : auth'[b].pc # "idle" =>
            auth'[b].id[3] = sequence'[b][TypeOf[auth'[b].c]]
    BY <1>1, <1>2, <1>4, <2>2 DEF IInv, NumbersFresh
  <2>5. \A b \in Authorities : b # a => (auth[b].pc # "idle" => auth[b].id # i)
    <3> SUFFICES ASSUME NEW b \in Authorities, b # a, auth[b].pc # "idle", auth[b].id = i
                 PROVE  FALSE
      OBVIOUS
    <3>1. auth[b].c \in Candidates /\ ParentOf[auth[b].c] = b
          /\ TypeOf[auth[b].c] = TypeOf[c] /\ RegionOf[auth[b].c] = RegionOf[c]
      BY <1>1 DEF IInv, WorkSound, InCharge
    <3> QED
      BY <1>1, <3>1 DEF SeparateNamespaces, InCharge
  <2>6. \A b \in Authorities : auth'[b].pc = "write" =>
            controllers'[auth'[b].id] = NoRecord /\ ~auth'[b].existing
    <3> SUFFICES ASSUME NEW b \in Authorities, auth'[b].pc = "write"
                 PROVE  controllers'[auth'[b].id] = NoRecord /\ ~auth'[b].existing
      OBVIOUS
    <3>1. b # a /\ auth'[b] = auth[b]
      BY <1>4
    <3>2. auth[b].id \in Ids /\ auth[b].id # i
      BY <2>5, <3>1 DEF IInv, WorkSound
    <3> QED
      BY <1>3, <3>1, <3>2 DEF IInv, NumbersFresh
  <2>7. \A b \in Authorities : auth'[b].pc = "event" =>
            controllers'[auth'[b].id].holder = auth'[b].c
    <3> SUFFICES ASSUME NEW b \in Authorities, auth'[b].pc = "event"
                 PROVE  controllers'[auth'[b].id].holder = auth'[b].c
      OBVIOUS
    <3>1. CASE b = a
      BY <1>3, <1>4, <3>1
    <3>2. CASE b # a
      <4>1. auth'[b] = auth[b] /\ auth[b].id \in Ids /\ auth[b].id # i
        BY <1>4, <2>5, <3>2 DEF IInv, WorkSound
      <4> QED
        BY <1>3, <4>1 DEF IInv, NumbersFresh
    <3> QED
      BY <3>1, <3>2
  <2>8. \A d \in Candidates : cand'[d].pc = "validated" => controllers'[cand'[d].id].holder = d
    <3> SUFFICES ASSUME NEW d \in Candidates, cand[d].pc = "validated"
                 PROVE  controllers'[cand[d].id].holder = d
      BY <1>2
    <3>1. cand[d].id \in Ids /\ controllers[cand[d].id] # NoRecord
      BY DEF IInv, ValidatedHaveIds, ValidatedIsRecorded
    <3>2. cand[d].id # i
      BY <2>1, <3>1
    <3> QED
      BY <1>3, <3>1, <3>2 DEF IInv, NumbersFresh
  <2> QED
    BY <2>3, <2>4, <2>6, <2>7, <2>8 DEF NumbersFresh
<1> QED
  BY <1>7, <1>8, <1>9, <1>10, <1>11 DEF IInv

\* write_event and the APPROVED answer.
LEMMA EventIInv ==
    ASSUME IInv, NEW a \in Authorities, WriteEvent(a)
    PROVE  IInv'
<1> DEFINE i == auth[a].id
           c == auth[a].c
<1>1. c \in Candidates /\ i \in Ids /\ controllers[i] # NoRecord /\ auth[a].pc = "event"
  BY DEF WriteEvent, IInv, WorkSound
<1>2. /\ events' \in {events, events \union {i}}
      /\ Reply(c, auth[a].try, WaitingFor(a), "validated", i)
      /\ auth' = [auth EXCEPT ![a] = IdleAuth]
      /\ UNCHANGED <<now, inbox, pending, sequence, controllers, crashes>>
  BY DEF WriteEvent
<1>3. /\ cand' \in [Candidates -> CandState]
      /\ \A d \in Candidates :
            cand'[d] = cand[d] \/ (d = c /\ cand'[d].pc = "validated" /\ cand'[d].id = i)
  <2>1. PICK n : n = auth[a].try
    OBVIOUS
  <2>2. PICK w : w = WaitingFor(a)
    OBVIOUS
  <2>3. PICK k \in Ids : k = i
    BY <1>1
  <2>4. PICK e \in Candidates : e = c
    BY <1>1
  <2>5. Reply(e, n, w, "validated", k)
    BY <1>2, <2>1, <2>2, <2>3, <2>4
  <2>6. TypeOK /\ k \in Ids \union {None}
    BY DEF IInv
  <2>7. /\ cand' \in [Candidates -> CandState]
        /\ \A d \in Candidates :
              cand'[d] = cand[d] \/ (d = e /\ cand'[d].pc = "validated" /\ cand'[d].id = k)
    BY <2>5, <2>6, ReplyChanges
  <2> QED
    BY <2>3, <2>4, <2>7
<1>4. \A b \in Authorities : auth'[b] = auth[b] \/ auth'[b].pc = "idle"
  BY <1>2 DEF IInv, TypeOK, IdleAuth, Work
<1>5. TypeOK'
  BY <1>1, <1>2, <1>3 DEF IInv, TypeOK, IdleAuth, Work
<1>6. WorkSound' /\ RecordsSound'
  BY <1>2, <1>4 DEF IInv, WorkSound, RecordsSound
<1>7. ValidatedHaveIds' /\ ValidatedIsRecorded'
  BY <1>1, <1>2, <1>3 DEF IInv, ValidatedHaveIds, ValidatedIsRecorded
<1>8. NumbersFresh'
  BY <1>1, <1>2, <1>3, <1>4 DEF IInv, NumbersFresh
<1> QED
  BY <1>5, <1>6, <1>7, <1>8 DEF IInv

\* Every step preserves the inductive invariant.
LEMMA NextIInv == IInv /\ [Next]_vars => IInv'
<1> SUFFICES ASSUME IInv, [Next]_vars PROVE IInv'
  OBVIOUS
<1>1. ASSUME NEW c \in Candidates, RequestValidation(c)
      PROVE  IInv'
  <2>1. TypeOK'
    BY <1>1, CandidatesAssumption DEF RequestValidation, IInv, TypeOK, Message, CandState
  <2> QED
    BY <1>1, <2>1, Frame DEF RequestValidation, IInv, TypeOK, CandState
<1>2. ASSUME NEW c \in Candidates, HandleChallenge(c)
      PROVE  IInv'
  <2>1. TypeOK'
    <3>1. cand' = [cand EXCEPT ![c] = [cand[c] EXCEPT !.pc = "responded"]]
      BY <1>2 DEF HandleChallenge
    <3>2. [cand[c] EXCEPT !.pc = "responded"] \in CandState /\ cand[c].try \in Nat
      BY DEF IInv, TypeOK, CandState
    <3>3. cand' \in [Candidates -> CandState]
      BY <3>1, <3>2 DEF IInv, TypeOK
    <3>4. inbox' \subseteq Message
      <4>1. now + Skew[c] \in Int
        BY CandidatesAssumption DEF IInv, TypeOK
      <4>2. [kind |-> "response", c |-> c, try |-> cand[c].try, at |-> now + Skew[c]] \in Message
        BY <3>2, <4>1 DEF Message
      <4> QED
        BY <1>2, <4>2 DEF HandleChallenge, IInv, TypeOK
    <3> QED
      BY <1>2, <3>3, <3>4 DEF HandleChallenge, IInv, TypeOK
  <2> QED
    BY <1>2, <2>1, Frame DEF HandleChallenge, IInv, TypeOK, CandState
<1>3. ASSUME NEW c \in Candidates, CallFails(c)
      PROVE  IInv'
  <2>1. TypeOK'
    BY <1>3 DEF CallFails, IInv, TypeOK, CandState
  <2> QED
    BY <1>3, <2>1, Frame DEF CallFails, IInv, TypeOK, CandState
<1>4. ASSUME NEW c \in Candidates, RestartCandidate(c)
      PROVE  IInv'
  <2>1. TypeOK'
    <3> DEFINE new == [cand[c] EXCEPT !.pc = "new", !.id = None]
    <3>1. cand' = [cand EXCEPT ![c] = new]
      BY <1>4 DEF RestartCandidate, IInv, TypeOK, CandState
    <3>2. new \in CandState
      BY DEF IInv, TypeOK, CandState
    <3>3. cand' \in [Candidates -> CandState]
      BY <3>1, <3>2 DEF IInv, TypeOK
    <3> QED
      BY <1>4, <3>3 DEF RestartCandidate, IInv, TypeOK
  <2>2. crashes' # 0
    BY <1>4 DEF RestartCandidate, IInv, TypeOK
  <2> QED
    BY <1>4, <2>1, <2>2, Frame DEF RestartCandidate, IInv, TypeOK, CandState
<1>5. ASSUME NEW m \in inbox, GCHandleRequest(m)
      PROVE  IInv'
  <2>1. m.c \in Candidates /\ m.try \in Nat
    BY DEF IInv, TypeOK, Message
  <2>2. \/ Reply(m.c, m.try, "asked", "new", None)
        \/ Reply(m.c, m.try, "asked", "challenged", None)
    BY <1>5 DEF GCHandleRequest
  <2>3. /\ cand' \in [Candidates -> CandState]
        /\ \A d \in Candidates : cand'[d].pc = "validated" => cand'[d] = cand[d]
    <3>1. CASE Reply(m.c, m.try, "asked", "new", None)
      BY <2>1, <3>1, ReplyChanges DEF IInv
    <3>2. CASE Reply(m.c, m.try, "asked", "challenged", None)
      BY <2>1, <3>2, ReplyChanges DEF IInv
    <3> QED
      BY <2>2, <3>1, <3>2
  <2>4. pending' \subseteq Challenge
    BY <1>5, <2>1, BoundsAssumption DEF GCHandleRequest, IInv, TypeOK, Challenge
  <2>5. TypeOK'
    BY <1>5, <2>3, <2>4 DEF GCHandleRequest, IInv, TypeOK
  <2> QED
    BY <1>5, <2>3, <2>5, Frame DEF GCHandleRequest
<1>6. ASSUME NEW m \in inbox, GCHandleResponse(m)
      PROVE  IInv'
  <2>1. m.c \in Candidates
    BY DEF IInv, TypeOK, Message
  <2>2. CASE Live(m) /\ Permitted(m.c)
    <3>1. AssignIdentity(GC, m) /\ UNCHANGED cand
      BY <1>6, <2>2 DEF GCHandleResponse
    <3>2. InCharge(GC, m.c)
      BY <1>6, <2>2 DEF GCHandleResponse, InCharge, Permitted
    <3> QED
      BY <1>6, <3>1, <3>2, AssignIInv DEF GCHandleResponse, Authorities
  <2>3. CASE ~(Live(m) /\ Permitted(m.c))
    <3>1. Reply(m.c, m.try, "responded", "new", None) /\ UNCHANGED <<sequence, auth>>
      BY <1>6, <2>3 DEF GCHandleResponse
    <3>2. /\ cand' \in [Candidates -> CandState]
          /\ \A d \in Candidates : cand'[d].pc = "validated" => cand'[d] = cand[d]
      BY <2>1, <3>1, ReplyChanges DEF IInv
    <3>3. TypeOK'
      BY <1>6, <3>1, <3>2 DEF GCHandleResponse, IInv, TypeOK
    <3> QED
      BY <1>6, <3>1, <3>2, <3>3, Frame DEF GCHandleResponse
  <2> QED
    BY <2>2, <2>3
<1>7. ASSUME NEW r \in RCs, NEW m \in inbox, RCHandleRequest(r, m)
      PROVE  IInv'
  <2> DEFINE ok == TypeOf[m.c] = "local" /\ RegionOf[m.c] = ScopeOf[r]
  <2>1. m.c \in Candidates
    BY DEF IInv, TypeOK, Message
  <2>2. CASE ok
    <3>1. AssignIdentity(r, m) /\ UNCHANGED cand
      BY <1>7, <2>2 DEF RCHandleRequest
    <3>2. InCharge(r, m.c)
      BY <1>7, <2>2, CandidatesAssumption DEF RCHandleRequest, InCharge
    <3> QED
      BY <1>7, <3>1, <3>2, AssignIInv DEF RCHandleRequest, Authorities
  <2>3. CASE ~ok
    <3>1. Reply(m.c, m.try, "asked", "new", None) /\ UNCHANGED <<sequence, auth>>
      BY <1>7, <2>3 DEF RCHandleRequest
    <3>2. /\ cand' \in [Candidates -> CandState]
          /\ \A d \in Candidates : cand'[d].pc = "validated" => cand'[d] = cand[d]
      BY <2>1, <3>1, ReplyChanges DEF IInv
    <3>3. TypeOK'
      BY <1>7, <3>1, <3>2 DEF RCHandleRequest, IInv, TypeOK
    <3> QED
      BY <1>7, <3>1, <3>2, <3>3, Frame DEF RCHandleRequest
  <2> QED
    BY <2>2, <2>3
<1>8. ASSUME NEW a \in Authorities, UpsertController(a)
      PROVE  IInv'
  BY <1>8, UpsertIInv
<1>9. ASSUME NEW a \in Authorities, WriteEvent(a)
      PROVE  IInv'
  BY <1>9, EventIInv
<1>10. ASSUME NEW a \in Authorities, UpsertFails(a) \/ EventFails(a)
       PROVE  IInv'
  <2>1. auth[a].c \in Candidates
    BY <1>10 DEF UpsertFails, EventFails, IInv, WorkSound
  <2>2. /\ Reply(auth[a].c, auth[a].try, WaitingFor(a), "new", None)
        /\ auth' = [auth EXCEPT ![a] = IdleAuth]
        /\ UNCHANGED <<now, inbox, pending, sequence, controllers, events, crashes>>
    BY <1>10 DEF UpsertFails, EventFails
  <2>3. /\ cand' \in [Candidates -> CandState]
        /\ \A d \in Candidates : cand'[d].pc = "validated" => cand'[d] = cand[d]
    <3>1. PICK n : n = auth[a].try
      OBVIOUS
    <3>2. PICK w : w = WaitingFor(a)
      OBVIOUS
    <3>3. /\ cand' \in [Candidates -> CandState]
          /\ \A d \in Candidates : cand'[d].pc = "validated" => cand'[d] = cand[d]
      <4>1. TypeOK /\ None \in Ids \union {None}
        BY DEF IInv
      <4>2. PICK c \in Candidates : c = auth[a].c
        BY <2>1
      <4>3. Reply(c, n, w, "new", None)
        BY <2>2, <3>1, <3>2, <4>2
      <4> QED
        BY <4>1, <4>3, ReplyChanges
    <3> QED
      BY <3>3
  <2>4. TypeOK' /\ \A b \in Authorities : auth'[b] = auth[b] \/ auth'[b].pc = "idle"
    BY <2>2, <2>3 DEF IInv, TypeOK, IdleAuth, Work
  <2> QED
    BY <2>2, <2>3, <2>4, Frame
<1>11. ASSUME NEW a \in Authorities, RestartAuthority(a)
       PROVE  IInv'
  <2>1. TypeOK' /\ \A b \in Authorities : auth'[b] = auth[b] \/ auth'[b].pc = "idle"
    BY <1>11, BoundsAssumption DEF RestartAuthority, IInv, TypeOK, IdleAuth, Work
  <2>2. crashes' # 0
    BY <1>11 DEF RestartAuthority, IInv, TypeOK
  <2> QED
    BY <1>11, <2>1, <2>2, Frame DEF RestartAuthority
<1>12. CASE Tick
  <2>1. TypeOK'
    BY <1>12 DEF Tick, IInv, TypeOK
  <2> QED
    BY <1>12, <2>1, Frame DEF Tick
<1>13. CASE UNCHANGED vars
  <2>1. TypeOK'
    BY <1>13 DEF vars, IInv, TypeOK
  <2> QED
    BY <1>13, <2>1, Frame DEF vars
<1> QED
  BY <1>1, <1>2, <1>3, <1>4, <1>5, <1>6, <1>7, <1>8, <1>9, <1>10, <1>11, <1>12, <1>13
     DEF Next, CandidateStep, AuthorityStep

\* The inductive invariant holds in every reachable state.
THEOREM Invariance == Spec => []IInv
BY InitIInv, NextIInv, PTL DEF Spec

\* The candidates', the authorities' and the NIB's state is well typed.
THEOREM TypeCorrect == Spec => []TypeOK
<1>1. IInv => TypeOK
  BY DEF IInv
<1> QED
  BY <1>1, Invariance, PTL

\* assign_identity and handle_validation_request: no certificate is handed out and no
\* validation logged without its record in the NIB, whichever write fails and whoever
\* crashes.
THEOREM ValidatedAreRecorded == Spec => []ValidatedIsRecorded
<1>1. IInv => ValidatedIsRecorded
  BY DEF IInv
<1> QED
  BY <1>1, Invariance, PTL

\* Every record is for a candidate that policy_checks, or the Regional
\* Controller's checks, permit.
THEOREM RecordsPermitted == Spec => []OnlyPermitted
<1>1. IInv => OnlyPermitted
  BY DEF IInv, RecordsSound, OnlyPermitted
<1> QED
  BY <1>1, Invariance, PTL

\* Without restarts, and with one authority per type and region, identities are
\* unique and every validated controller's record is its own.
THEOREM IdentitiesAreUnique == Spec => []IdentitiesUnique
<1>1. IInv => IdentitiesUnique
  BY DEF IInv, NumbersFresh, IdentitiesUnique
<1> QED
  BY <1>1, Invariance, PTL
=============================================================================
